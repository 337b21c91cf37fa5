------------------------------ MODULE Routing ------------------------------
(***************************************************************************)
(* SubscriptionTable (src/pulsemq/routing.py): the copy-on-write index     *)
(* read without a lock by the data-plane thread, and the cache of match    *)
(* results validated by a version counter.                                 *)
(*                                                                         *)
(* Writers change the table under _write_lock in three visible steps: the  *)
(* reference _read_index is replaced, _version is incremented, the cache   *)
(* is cleared.  A match takes four: read _version, probe the cache, read   *)
(* _read_index, store the result in the cache.  The interpreter may switch *)
(* threads between any two of them.                                        *)
(*                                                                         *)
(* A dict without a key and a dict with the empty set under it answer      *)
(* .get(key, _EMPTY) alike, so exact, wild and by_identity are total       *)
(* functions here.                                                         *)
(***************************************************************************)
EXTENDS TopicPatterns, Integers

CONSTANTS
    Parts,      \* what stands between two dots of a name
    Ids,        \* ROUTER identities
    Names,      \* topic names and prefixes that occur
    Topics,     \* topics that are matched
    Patterns,   \* subscription patterns in use
    Threads,    \* threads that call the table
    Writers,    \* those among them that change it
    NoThread,   \* holder of a free lock
    MaxWrites   \* bound on the number of changes (TLC only)

ASSUME NamesAssumption ==
    /\ Names \subseteq Seq(Parts) \ {<<>>}
    /\ \A n \in Names : \A i \in 1 .. Len(n) : SubSeq(n, 1, i) \in Names
    /\ Topics \subseteq Names
    /\ Patterns \subseteq Pattern(Names)

ASSUME ThreadsAssumption == Writers \subseteq Threads /\ NoThread \notin Threads

ASSUME MaxWritesAssumption == MaxWrites \in Nat

VARIABLES
    index,     \* _read_index
    version,   \* _version
    cache,     \* _match_cache
    lock,      \* holder of _write_lock
    pc,        \* next step of each thread
    loc,       \* locals of a match: topic, ver, matched (and history, below)
    log,       \* history: every content of the table
    done,      \* history: changes whose call has returned
    answer,    \* history: what each thread's last match returned
    seen       \* history: the newest content returned for each topic

vars == <<index, version, cache, lock, pc, loc, log, done, answer, seen>>

-----------------------------------------------------------------------------
(* The index *)

Index == [exact : [Names -> SUBSET Ids],
          wild : [Names -> SUBSET Ids],
          byIdentity : [Ids -> SUBSET Patterns]]

EmptyIndex == [exact |-> [n \in Names |-> {}],
               wild |-> [n \in Names |-> {}],
               byIdentity |-> [id \in Ids |-> {}]]

\* The part of match() after a cache miss: the exact entry, the wildcard entry
\* of the topic itself, and those of its proper prefixes.
Lookup(idx, topic) ==
    idx.exact[topic] \cup idx.wild[topic]
      \cup UNION {idx.wild[SubSeq(topic, 1, i)] : i \in 1 .. Len(topic) - 1}

Subscribed(idx, id, p) ==
    [exact |-> [n \in Names |-> IF ~p.wild /\ n = p.name
                                THEN idx.exact[n] \cup {id} ELSE idx.exact[n]],
     wild |-> [n \in Names |-> IF p.wild /\ n = p.name
                               THEN idx.wild[n] \cup {id} ELSE idx.wild[n]],
     byIdentity |-> [idx.byIdentity EXCEPT ![id] = @ \cup {p}]]

\* Takes id off the entries of the patterns in gone; unsubscribe() takes off
\* one pattern, remove() all that by_identity lists for id.
Without(idx, id, gone) ==
    [exact |-> [n \in Names |-> IF [name |-> n, wild |-> FALSE] \in gone
                                THEN idx.exact[n] \ {id} ELSE idx.exact[n]],
     wild |-> [n \in Names |-> IF [name |-> n, wild |-> TRUE] \in gone
                               THEN idx.wild[n] \ {id} ELSE idx.wild[n]],
     byIdentity |-> [idx.byIdentity EXCEPT ![id] = @ \ gone]]

Unsubscribed(idx, id, p) == Without(idx, id, {p})

\* MUTANT: remove() that forgets the wildcard entries.
RemovedExactOnly(idx, id) ==
    [Without(idx, id, idx.byIdentity[id]) EXCEPT !.wild = idx.wild]

Removed(idx, id) == Without(idx, id, idx.byIdentity[id])

-----------------------------------------------------------------------------
(* History: gen numbers the content a result was computed from, since is   *)
(* done and floor is seen[topic] when the match began.                     *)

NoEntry == [ver |-> -1, result |-> {}, gen |-> -1]
NoAnswer == [result |-> {}, gen |-> 0]
NoLocals == [topic |-> <<>>, ver |-> 0, matched |-> {}, gen |-> 0,
             since |-> 0, floor |-> 0]

Init ==
    /\ index = EmptyIndex
    /\ version = 0
    /\ cache = [t \in Topics |-> NoEntry]
    /\ lock = NoThread
    /\ pc = [th \in Threads |-> "idle"]
    /\ loc = [th \in Threads |-> NoLocals]
    /\ log = <<EmptyIndex.byIdentity>>
    /\ done = 0
    /\ answer = [th \in Threads |-> NoAnswer]
    /\ seen = [t \in Topics |-> 0]

Goto(th, label) == pc' = [pc EXCEPT ![th] = label]

-----------------------------------------------------------------------------
(* Changes.  Nobody but the holder of the lock writes _read_index, so      *)
(* taking the lock, copying the maps and replacing the reference are one   *)
(* step for everybody else.                                                *)

Replace(th, idx) ==
    /\ th \in Writers
    /\ pc[th] = "idle"
    /\ lock = NoThread
    /\ Len(log) <= MaxWrites
    /\ lock' = th
    /\ index' = idx
    /\ log' = Append(log, idx.byIdentity)
    /\ Goto(th, "bump")
    /\ UNCHANGED <<version, cache, loc, done, answer, seen>>

Subscribe(th, id, p) == Replace(th, Subscribed(index, id, p))

Unsubscribe(th, id, p) == Replace(th, Unsubscribed(index, id, p))

Remove(th, id) == Replace(th, Removed(index, id))

\* _invalidate_cache, first line.
Bump(th) ==
    /\ pc[th] = "bump"
    /\ version' = version + 1
    /\ Goto(th, "clear")
    /\ UNCHANGED <<index, cache, lock, loc, log, done, answer, seen>>

\* _invalidate_cache, second line; the lock is released and the call returns.
Clear(th) ==
    /\ pc[th] = "clear"
    /\ cache' = [t \in Topics |-> NoEntry]
    /\ lock' = NoThread
    /\ done' = Len(log) - 1
    /\ Goto(th, "idle")
    /\ UNCHANGED <<index, version, loc, log, answer, seen>>

-----------------------------------------------------------------------------
(* Matches *)

ReadVersion(th, topic) ==
    /\ pc[th] = "idle"
    /\ loc' = [loc EXCEPT ![th] =
                 [topic |-> topic, ver |-> version, matched |-> {}, gen |-> 0,
                  since |-> done, floor |-> seen[topic]]]
    /\ answer' = [answer EXCEPT ![th] = NoAnswer]
    /\ Goto(th, "probe")
    /\ UNCHANGED <<index, version, cache, lock, log, done, seen>>

\* The match of th returns result, computed from the gen-th content.
Answer(th, result, gen) ==
    /\ answer' = [answer EXCEPT ![th] = [result |-> result, gen |-> gen]]
    /\ seen' = [seen EXCEPT ![loc[th].topic] = IF gen > @ THEN gen ELSE @]
    /\ loc' = [loc EXCEPT ![th] = NoLocals]
    /\ Goto(th, "idle")

Cached(th) == cache[loc[th].topic]

\* MUTANT: the version of the entry is not compared.
HitAnyVersion(th) == Cached(th) # NoEntry

Hit(th) == Cached(th) # NoEntry /\ Cached(th).ver = loc[th].ver

ProbeHit(th) ==
    /\ pc[th] = "probe"
    /\ Hit(th)
    /\ Answer(th, Cached(th).result, Cached(th).gen)
    /\ UNCHANGED <<index, version, cache, lock, log, done>>

ProbeMiss(th) ==
    /\ pc[th] = "probe"
    /\ ~Hit(th)
    /\ Goto(th, "load")
    /\ UNCHANGED <<index, version, cache, lock, loc, log, done, answer, seen>>

\* The reference is read once; the sets are collected from that snapshot.
LoadIndex(th) ==
    /\ pc[th] = "load"
    /\ loc' = [loc EXCEPT ![th].matched = Lookup(index, loc[th].topic),
                          ![th].gen = Len(log) - 1]
    /\ Goto(th, "store")
    /\ UNCHANGED <<index, version, cache, lock, log, done, answer, seen>>

\* MUTANT: the entry is stamped one version too low.
StampedLow(th) == [ver |-> loc[th].ver - 1, result |-> loc[th].matched, gen |-> loc[th].gen]

\* MUTANT: the entry is stamped with the version read at the end of match().
StampedLate(th) == [ver |-> version, result |-> loc[th].matched, gen |-> loc[th].gen]

Entry(th) == [ver |-> loc[th].ver, result |-> loc[th].matched, gen |-> loc[th].gen]

StoreResult(th) ==
    /\ pc[th] = "store"
    /\ cache' = [cache EXCEPT ![loc[th].topic] = Entry(th)]
    /\ Answer(th, loc[th].matched, loc[th].gen)
    /\ UNCHANGED <<index, version, lock, log, done>>

-----------------------------------------------------------------------------
Change(th) ==
    \/ \E id \in Ids, p \in Patterns : Subscribe(th, id, p) \/ Unsubscribe(th, id, p)
    \/ \E id \in Ids : Remove(th, id)
    \/ Bump(th)
    \/ Clear(th)

Match(th) ==
    \/ \E topic \in Topics : ReadVersion(th, topic)
    \/ ProbeHit(th)
    \/ ProbeMiss(th)
    \/ LoadIndex(th)
    \/ StoreResult(th)

Next == \E th \in Threads : Change(th) \/ Match(th)

Spec == Init /\ [][Next]_vars

-----------------------------------------------------------------------------
(* Properties *)

Locals == [topic : Topics \cup {<<>>}, ver : Nat, matched : SUBSET Ids, gen : Nat,
           since : Nat, floor : Nat]

Labels == {"idle", "bump", "clear", "probe", "load", "store"}

\* The values the variables range over.
TypeOK ==
    /\ index \in Index
    /\ version \in Nat
    /\ cache \in [Topics -> {NoEntry} \cup [ver : Nat, result : SUBSET Ids, gen : Nat]]
    /\ lock \in Threads \cup {NoThread}
    /\ pc \in [Threads -> Labels]
    /\ loc \in [Threads -> Locals]
    /\ \A th \in Threads :
         pc[th] \in {"probe", "load", "store"} => loc[th].topic \in Topics
    /\ log \in Seq([Ids -> SUBSET Patterns])
    /\ done \in Nat
    /\ answer \in [Threads -> [result : SUBSET Ids, gen : Nat]]
    /\ seen \in [Topics -> Nat]

\* What a topic is routed to when everybody's patterns are table.
Targets(table, topic) == {id \in Ids : \E p \in table[id] : Matches(p, topic)}

Consistent(idx) ==
    \A id \in Ids, n \in Names :
        /\ (id \in idx.exact[n]) <=> ([name |-> n, wild |-> FALSE] \in idx.byIdentity[id])
        /\ (id \in idx.wild[n]) <=> ([name |-> n, wild |-> TRUE] \in idx.byIdentity[id])

\* The three maps of the index agree after any sequence of subscribe,
\* unsubscribe and remove: an identity stands under a name in exact or wild if
\* and only if by_identity lists that pattern for it.  remove() takes its work
\* from by_identity, so an entry missing there would be routed to for ever.
IndexConsistent == Consistent(index)

Answers(th) == pc[th] \in {"probe", "store"} /\ pc'[th] = "idle"

\* "确保写后不会返回陈旧结果" (match): a match answers exactly with the
\* identities subscribed to the topic in a content that is at least as new as
\* the last change whose call had returned when the match began.
FreshMatch ==
    [][\A th \in Threads : Answers(th) =>
         /\ answer'[th].gen \in loc[th].since .. Len(log) - 1
         /\ answer'[th].result = Targets(log[answer'[th].gen + 1], loc[th].topic)]_vars

\* The matches of one topic never go back: no match answers from an older
\* content than a match of that topic that had ended before it began.
MonotonicMatch ==
    [][\A th \in Threads : Answers(th) => answer'[th].gen >= loc[th].floor]_vars

\* The table implements the promise of SubscriptionService: history variables
\* give the abstract contents, and a thread between ReadVersion and its answer
\* is in an abstract call.
Service == INSTANCE SubscriptionService WITH
    tables <- log,
    call <- [th \in Threads |->
               IF pc[th] \in {"probe", "load", "store"}
               THEN [topic |-> loc[th].topic, since |-> loc[th].since]
               ELSE [topic |-> <<>>, since |-> 0]],
    answer <- [th \in Threads |-> answer[th].result]

ServiceSpec == Service!Spec

=============================================================================
