--------------------------- MODULE RoutingProofs ---------------------------
(***************************************************************************)
(* Proofs about Routing, for any finite or infinite sets of identities,    *)
(* patterns, topics and threads, and any number of changes.                *)
(***************************************************************************)
EXTENDS Routing, SequenceTheorems, TLAPS

Writing(th) == pc[th] \in {"bump", "clear"}
Reading(th) == pc[th] \in {"probe", "load", "store"}

\* The g-th content of the table, counted from 0.
Content(g) == log[g + 1]

\* The published index is the newest content.
LogInv == Len(log) > 0 /\ log[Len(log)] = index.byIdentity

LockInv == \A th \in Threads : Writing(th) <=> lock = th

\* The version counts the changes that were published, except that it lags
\* one behind between the replacement of the index and the increment.
VersionInv ==
    /\ lock = NoThread => version = Len(log) - 1 /\ done = Len(log) - 1
    /\ \A th \in Threads :
         /\ pc[th] = "bump" => version = Len(log) - 2 /\ done = Len(log) - 2
         /\ pc[th] = "clear" => version = Len(log) - 1 /\ done = Len(log) - 2

\* A result stamped ver was computed from a content at least as new as the
\* ver-th: the version is read before the index.
Sound(topic, ver, result, gen) ==
    /\ ver <= gen
    /\ gen <= Len(log) - 1
    /\ result = Targets(log[gen + 1], topic)

CacheInv ==
    \A t \in Topics : cache[t] # NoEntry =>
        Sound(t, cache[t].ver, cache[t].result, cache[t].gen)

LocInv ==
    \A th \in Threads :
        /\ Reading(th) => loc[th].since <= loc[th].ver /\ loc[th].ver <= version
        /\ pc[th] = "store" => Sound(loc[th].topic, loc[th].ver, loc[th].matched, loc[th].gen)

Inv == /\ TypeOK
       /\ IndexConsistent
       /\ LogInv
       /\ LockInv
       /\ VersionInv
       /\ CacheInv
       /\ LocInv

-----------------------------------------------------------------------------
\* A name is covered by a wildcard exactly if the wildcard's name is one of the
\* prefixes that match() looks up.
LEMMA PrefixLookup ==
    ASSUME NEW topic \in Topics, NEW n \in Names
    PROVE  StartsWith(topic, n) <=>
             (n = topic \/ \E i \in 1 .. Len(topic) - 1 : n = SubSeq(topic, 1, i))
<1>1. topic \in Seq(Parts) /\ n \in Seq(Parts) /\ Len(n) > 0 /\ Len(topic) > 0
  BY NamesAssumption, EmptySeq
<1>2. ASSUME StartsWith(topic, n)
      PROVE  n = topic \/ \E i \in 1 .. Len(topic) - 1 : n = SubSeq(topic, 1, i)
  <2>1. CASE Len(n) = Len(topic)
    <3>1. n = topic
      BY <1>1, <1>2, <2>1 DEF StartsWith
    <3> QED BY <3>1
  <2>2. CASE Len(n) # Len(topic)
    <3>1. Len(n) \in 1 .. Len(topic) - 1
      BY <1>1, <1>2, <2>2 DEF StartsWith
    <3>2. n = SubSeq(topic, 1, Len(n))
      BY <1>1, <1>2, <3>1 DEF StartsWith
    <3> QED BY <3>1, <3>2
  <2> QED BY <2>1, <2>2
<1>3. ASSUME n = topic PROVE StartsWith(topic, n)
  BY <1>1, <1>3 DEF StartsWith
<1>4. ASSUME NEW i \in 1 .. Len(topic) - 1, n = SubSeq(topic, 1, i)
      PROVE  StartsWith(topic, n)
  BY <1>1, <1>4 DEF StartsWith
<1> QED BY <1>2, <1>3, <1>4

\* On a consistent index the dictionary lookups of match() return exactly the
\* identities with a pattern that covers the topic.
LEMMA LookupExact ==
    ASSUME NEW idx \in Index, Consistent(idx), NEW topic \in Topics
    PROVE  Lookup(idx, topic) = Targets(idx.byIdentity, topic)
<1>1. /\ topic \in Names /\ Len(topic) \in Nat /\ Len(topic) > 0
      /\ \A i \in 1 .. Len(topic) - 1 : SubSeq(topic, 1, i) \in Names
  BY NamesAssumption, EmptySeq
<1>2. ASSUME NEW id \in Lookup(idx, topic)
      PROVE  id \in Targets(idx.byIdentity, topic)
  <2>1. CASE id \in idx.exact[topic]
    <3>1. id \in Ids /\ [name |-> topic, wild |-> FALSE] \in idx.byIdentity[id]
      BY <1>1, <2>1 DEF Consistent, Index
    <3> QED BY <3>1 DEF Targets, Matches
  <2>2. ASSUME NEW n \in Names, id \in idx.wild[n],
               n = topic \/ \E i \in 1 .. Len(topic) - 1 : n = SubSeq(topic, 1, i)
        PROVE  id \in Targets(idx.byIdentity, topic)
    <3>1. id \in Ids /\ [name |-> n, wild |-> TRUE] \in idx.byIdentity[id]
      BY <2>2 DEF Consistent, Index
    <3>2. StartsWith(topic, n)
      BY <2>2, PrefixLookup
    <3> QED BY <3>1, <3>2 DEF Targets, Matches
  <2> QED BY <1>1, <1>2, <2>1, <2>2 DEF Lookup
<1>3. ASSUME NEW id \in Targets(idx.byIdentity, topic)
      PROVE  id \in Lookup(idx, topic)
  <2>1. PICK p \in idx.byIdentity[id] : Matches(p, topic)
    BY <1>3 DEF Targets
  <2>2. id \in Ids /\ p \in Pattern(Names)
    BY <1>3, NamesAssumption DEF Targets, Index
  <2>3. CASE p.wild
    <3>1. p = [name |-> p.name, wild |-> TRUE] /\ p.name \in Names
      BY <2>2, <2>3 DEF Pattern
    <3>2. id \in idx.wild[p.name]
      BY <2>1, <2>2, <3>1 DEF Consistent
    <3>3. StartsWith(topic, p.name)
      BY <2>1, <2>3 DEF Matches
    <3> QED BY <3>1, <3>2, <3>3, PrefixLookup DEF Lookup
  <2>4. CASE ~p.wild
    <3>1. p = [name |-> topic, wild |-> FALSE]
      BY <2>1, <2>2, <2>4 DEF Pattern, Matches
    <3> QED BY <1>1, <2>1, <2>2, <3>1 DEF Consistent, Lookup
  <2> QED BY <2>3, <2>4
<1> QED BY <1>2, <1>3

\* subscribe() keeps the three maps in agreement.
LEMMA SubscribedConsistent ==
    ASSUME NEW idx \in Index, Consistent(idx), NEW id \in Ids, NEW p \in Patterns
    PROVE  Subscribed(idx, id, p) \in Index /\ Consistent(Subscribed(idx, id, p))
<1>1. p \in Pattern(Names)
  BY NamesAssumption
<1>2. Subscribed(idx, id, p) \in Index
  BY DEF Subscribed, Index
<1>3. \A n \in Names : /\ (p = [name |-> n, wild |-> FALSE]) <=> (~p.wild /\ n = p.name)
                       /\ (p = [name |-> n, wild |-> TRUE]) <=> (p.wild /\ n = p.name)
  BY <1>1 DEF Pattern
<1>4. Consistent(Subscribed(idx, id, p))
  BY <1>3 DEF Subscribed, Consistent, Index
<1> QED BY <1>2, <1>4

\* unsubscribe() and remove() keep the three maps in agreement.
LEMMA WithoutConsistent ==
    ASSUME NEW idx \in Index, Consistent(idx), NEW id \in Ids, NEW gone
    PROVE  Without(idx, id, gone) \in Index /\ Consistent(Without(idx, id, gone))
BY DEF Without, Consistent, Index

-----------------------------------------------------------------------------
LEMMA InitInv == Init => Inv
<1> SUFFICES ASSUME Init PROVE Inv
  OBVIOUS
<1>1. TypeOK
  BY ThreadsAssumption
  DEF Init, TypeOK, Index, EmptyIndex, NoEntry, NoLocals, NoAnswer, Locals, Labels
<1>2. IndexConsistent
  BY DEF Init, IndexConsistent, Consistent, EmptyIndex
<1>3. LogInv /\ VersionInv
  BY DEF Init, LogInv, VersionInv
<1>4. LockInv /\ LocInv /\ CacheInv
  BY ThreadsAssumption DEF Init, LockInv, LocInv, CacheInv, Writing, Reading
<1> QED BY <1>1, <1>2, <1>3, <1>4 DEF Inv

\* A change is published: the index stays consistent, and every result that was
\* sound stays sound, since contents are only appended.
LEMMA ReplaceInv ==
    ASSUME Inv, NEW th \in Threads, NEW idx \in Index, Consistent(idx), Replace(th, idx)
    PROVE  Inv'
<1> USE DEF Replace, Goto
<1>1. TypeOK'
  BY DEF Inv, TypeOK, Index, Labels
<1>2. IndexConsistent'
  BY DEF IndexConsistent
<1>3. /\ Len(log') = Len(log) + 1
      /\ log'[Len(log')] = idx.byIdentity
      /\ \A i \in 1 .. Len(log) : log'[i] = log[i]
  BY DEF Inv, TypeOK, Index
<1>4. LogInv'
  BY <1>3 DEF Inv, TypeOK, LogInv
<1>5. LockInv'
  BY ThreadsAssumption DEF Inv, TypeOK, LockInv, Writing
<1>6. VersionInv'
  BY <1>3, ThreadsAssumption DEF Inv, TypeOK, LockInv, VersionInv, Writing
<1>7. ASSUME NEW topic, NEW ver \in Nat, NEW result, NEW gen \in Nat,
             Sound(topic, ver, result, gen)
      PROVE  Sound(topic, ver, result, gen)'
  <2>1. Len(log) \in Nat /\ gen + 1 \in 1 .. Len(log)
    BY <1>7 DEF Sound, Inv, TypeOK
  <2>2. log'[gen + 1] = log[gen + 1]
    BY <1>3, <2>1
  <2> QED BY <1>3, <1>7, <2>1, <2>2 DEF Sound, Targets
<1>8. CacheInv'
  <2> SUFFICES ASSUME NEW t \in Topics, cache[t] # NoEntry
               PROVE  Sound(t, cache[t].ver, cache[t].result, cache[t].gen)'
    BY DEF CacheInv
  <2>1. cache[t].ver \in Nat /\ cache[t].gen \in Nat
    BY DEF Inv, TypeOK
  <2>2. Sound(t, cache[t].ver, cache[t].result, cache[t].gen)
    BY DEF Inv, CacheInv
  <2> QED BY <1>7, <2>1, <2>2 DEF Sound
<1>9. LocInv'
  <2> SUFFICES ASSUME NEW u \in Threads
               PROVE  /\ Reading(u)' => loc'[u].since <= loc'[u].ver /\ loc'[u].ver <= version'
                      /\ pc'[u] = "store" =>
                           Sound(loc[u].topic, loc[u].ver, loc[u].matched, loc[u].gen)'
    BY DEF LocInv
  <2>1. Reading(u)' => Reading(u)
    BY DEF Reading, Inv, TypeOK
  <2>2. pc'[u] = "store" => pc[u] = "store"
    BY DEF Inv, TypeOK
  <2>3. loc[u].ver \in Nat /\ loc[u].gen \in Nat
    BY DEF Inv, TypeOK, Locals
  <2>4. pc[u] = "store" => Sound(loc[u].topic, loc[u].ver, loc[u].matched, loc[u].gen)'
    BY <1>7, <2>3 DEF Inv, LocInv
  <2> QED BY <2>1, <2>2, <2>4 DEF Inv, LocInv
<1> QED BY <1>1, <1>2, <1>4, <1>5, <1>6, <1>8, <1>9 DEF Inv

LEMMA BumpInv ==
    ASSUME Inv, NEW th \in Threads, Bump(th)
    PROVE  Inv'
<1> USE DEF Bump, Goto
<1>1. lock = th
  BY DEF Inv, LockInv, Writing
<1>2. TypeOK'
  BY DEF Inv, TypeOK, Labels
<1>3. IndexConsistent' /\ LogInv'
  BY DEF Inv, IndexConsistent, LogInv
<1>4. LockInv'
  BY DEF Inv, TypeOK, LockInv, Writing
<1>5. VersionInv'
  <2>1. \A u \in Threads : u # th => ~Writing(u)
    BY <1>1 DEF Inv, LockInv
  <2>2. version = Len(log) - 2 /\ done = Len(log) - 2
    BY DEF Inv, VersionInv
  <2> QED BY <1>1, <2>1, <2>2, ThreadsAssumption DEF Inv, TypeOK, VersionInv, Writing
<1>6. CacheInv'
  BY DEF Inv, CacheInv, Sound, Targets
<1>7. LocInv'
  BY DEF Inv, TypeOK, Locals, LocInv, Reading, Sound, Targets
<1> QED BY <1>2, <1>3, <1>4, <1>5, <1>6, <1>7 DEF Inv

LEMMA ClearInv ==
    ASSUME Inv, NEW th \in Threads, Clear(th)
    PROVE  Inv'
<1> USE DEF Clear, Goto
<1>1. lock = th
  BY DEF Inv, LockInv, Writing
<1>2. TypeOK'
  BY DEF Inv, TypeOK, Labels, LogInv
<1>3. IndexConsistent' /\ LogInv'
  BY DEF Inv, IndexConsistent, LogInv
<1>4. LockInv'
  BY <1>1, ThreadsAssumption DEF Inv, TypeOK, LockInv, Writing
<1>5. VersionInv'
  BY <1>1, ThreadsAssumption DEF Inv, TypeOK, LockInv, VersionInv, Writing
<1>6. CacheInv'
  BY DEF CacheInv
<1>7. LocInv'
  BY DEF Inv, TypeOK, LocInv, Reading, Sound, Targets
<1> QED BY <1>2, <1>3, <1>4, <1>5, <1>6, <1>7 DEF Inv

LEMMA ReadVersionInv ==
    ASSUME Inv, NEW th \in Threads, NEW topic \in Topics, ReadVersion(th, topic)
    PROVE  Inv'
<1> USE DEF ReadVersion, Goto
<1>1. TypeOK'
  BY DEF Inv, TypeOK, Labels, Locals, NoAnswer
<1>2. IndexConsistent' /\ LogInv'
  BY DEF Inv, IndexConsistent, LogInv
<1>3. LockInv'
  BY DEF Inv, TypeOK, LockInv, Writing
<1>4. VersionInv'
  BY DEF Inv, TypeOK, VersionInv
<1>5. CacheInv'
  BY DEF Inv, CacheInv, Sound, Targets
<1>6. done <= version
  <2>1. CASE lock = NoThread
    BY <2>1 DEF Inv, TypeOK, VersionInv
  <2>2. CASE lock # NoThread
    <3>1. lock \in Threads /\ Writing(lock)
      BY <2>2 DEF Inv, TypeOK, LockInv
    <3> QED BY <3>1 DEF Inv, TypeOK, VersionInv, Writing
  <2> QED BY <2>1, <2>2
<1>7. LocInv'
  BY <1>6 DEF Inv, TypeOK, LocInv, Reading, Sound, Targets
<1> QED BY <1>1, <1>2, <1>3, <1>4, <1>5, <1>7 DEF Inv

\* An answer changes nothing the other invariants speak of.
LEMMA AnswerTypes ==
    ASSUME Inv, NEW th \in Threads, pc[th] \in {"probe", "store"},
           NEW result \in SUBSET Ids, NEW gen \in Nat, Answer(th, result, gen)
    PROVE  /\ pc' \in [Threads -> Labels]
           /\ loc' \in [Threads -> Locals]
           /\ \A u \in Threads : Reading(u)' => loc'[u].topic \in Topics
           /\ answer' \in [Threads -> [result : SUBSET Ids, gen : Nat]]
           /\ seen' \in [Topics -> Nat]
BY DEF Inv, TypeOK, Labels, Locals, NoLocals, Answer, Goto, Reading

LEMMA ProbeHitInv ==
    ASSUME Inv, NEW th \in Threads, ProbeHit(th)
    PROVE  Inv'
<1> USE DEF ProbeHit, Hit, Cached
<1>1. /\ loc[th].topic \in Topics
      /\ Cached(th).result \in SUBSET Ids
      /\ Cached(th).gen \in Nat
  BY DEF Inv, TypeOK
<1>2. TypeOK'
  BY <1>1, AnswerTypes DEF Inv, TypeOK, Reading
<1>3. IndexConsistent' /\ LogInv'
  BY DEF Inv, IndexConsistent, LogInv
<1>4. LockInv'
  BY DEF Inv, TypeOK, LockInv, Writing, Answer, Goto
<1>5. VersionInv'
  BY DEF Inv, TypeOK, VersionInv, Answer, Goto
<1>6. CacheInv'
  BY DEF Inv, CacheInv, Sound, Targets
<1>7. LocInv'
  BY DEF Inv, TypeOK, LocInv, Reading, Sound, Targets, Answer, Goto
<1> QED BY <1>2, <1>3, <1>4, <1>5, <1>6, <1>7 DEF Inv

LEMMA ProbeMissInv ==
    ASSUME Inv, NEW th \in Threads, ProbeMiss(th)
    PROVE  Inv'
<1> USE DEF ProbeMiss, Goto
<1>1. TypeOK'
  BY DEF Inv, TypeOK, Labels
<1>2. IndexConsistent' /\ LogInv'
  BY DEF Inv, IndexConsistent, LogInv
<1>3. LockInv'
  BY DEF Inv, TypeOK, LockInv, Writing
<1>4. VersionInv'
  BY DEF Inv, TypeOK, VersionInv
<1>5. CacheInv'
  BY DEF Inv, CacheInv, Sound, Targets
<1>6. LocInv'
  BY DEF Inv, TypeOK, LocInv, Reading, Sound, Targets
<1> QED BY <1>1, <1>2, <1>3, <1>4, <1>5, <1>6 DEF Inv

\* The newest content is at least as new as the version: what is computed from
\* the index now is sound under any version read before.
LEMMA LoadIndexInv ==
    ASSUME Inv, NEW th \in Threads, LoadIndex(th)
    PROVE  Inv'
<1> USE DEF LoadIndex, Goto
<1>1. loc[th].topic \in Topics /\ loc[th] \in Locals /\ Len(log) \in Nat
  BY DEF Inv, TypeOK
<1>2. Lookup(index, loc[th].topic) = Targets(index.byIdentity, loc[th].topic)
  BY <1>1, LookupExact DEF Inv, TypeOK, IndexConsistent
<1>3. Len(log) - 1 \in Nat
  BY <1>1 DEF Inv, LogInv
<1>4. loc'[th] = [loc[th] EXCEPT !.matched = Lookup(index, loc[th].topic),
                                !.gen = Len(log) - 1]
  BY DEF Inv, TypeOK
<1>5. TypeOK'
  <2>1. Lookup(index, loc[th].topic) \in SUBSET Ids
    BY <1>2 DEF Targets
  <2>2. loc' \in [Threads -> Locals]
    BY <1>1, <1>3, <2>1 DEF Inv, TypeOK, Locals
  <2> QED BY <1>1, <1>4, <2>2 DEF Inv, TypeOK, Labels, Locals
<1>6. IndexConsistent' /\ LogInv'
  BY DEF Inv, IndexConsistent, LogInv
<1>7. LockInv'
  BY DEF Inv, TypeOK, LockInv, Writing
<1>8. VersionInv'
  BY DEF Inv, TypeOK, VersionInv
<1>9. CacheInv'
  BY DEF Inv, CacheInv, Sound, Targets
<1>10. version <= Len(log) - 1
  <2>1. CASE lock = NoThread
    BY <2>1 DEF Inv, TypeOK, VersionInv
  <2>2. CASE lock # NoThread
    <3>1. lock \in Threads /\ Writing(lock)
      BY <2>2 DEF Inv, TypeOK, LockInv
    <3> QED BY <1>1, <3>1 DEF Inv, TypeOK, VersionInv, Writing
  <2> QED BY <2>1, <2>2
<1>11. LocInv'
  <2> SUFFICES ASSUME NEW u \in Threads
               PROVE  /\ Reading(u)' => loc'[u].since <= loc'[u].ver /\ loc'[u].ver <= version
                      /\ pc'[u] = "store" =>
                           Sound(loc[u].topic, loc[u].ver, loc[u].matched, loc[u].gen)'
    BY DEF LocInv
  <2>1. CASE u = th
    <3>1. Reading(th)
      BY DEF Reading
    <3>2. loc[th].since <= loc[th].ver /\ loc[th].ver <= version
      BY <3>1 DEF Inv, LocInv
    <3>3. /\ loc'[th].topic = loc[th].topic /\ loc'[th].ver = loc[th].ver
          /\ loc'[th].since = loc[th].since /\ loc'[th].gen = Len(log) - 1
          /\ loc'[th].matched = Lookup(index, loc[th].topic)
      BY <1>1, <1>4 DEF Locals
    <3>4. Sound(loc[th].topic, loc[th].ver, loc[th].matched, loc[th].gen)'
      <4>1. loc[th].ver <= Len(log) - 1
        BY <1>1, <1>10, <3>2 DEF Locals, Inv, TypeOK
      <4>2. Lookup(index, loc[th].topic) = Targets(log[Len(log)], loc[th].topic)
        BY <1>2 DEF Inv, LogInv
      <4>3. log[loc'[th].gen + 1] = log[Len(log)]
        BY <1>1, <3>3
      <4>4. loc'[th].matched = Targets(log'[loc'[th].gen + 1], loc'[th].topic)
        BY <3>3, <4>2, <4>3
      <4>5. loc'[th].ver <= loc'[th].gen /\ loc'[th].gen <= Len(log') - 1
        BY <1>1, <3>3, <4>1
      <4> QED BY <4>4, <4>5 DEF Sound
    <3> QED BY <2>1, <3>2, <3>3, <3>4
  <2>2. CASE u # th
    BY <2>2 DEF Inv, TypeOK, LocInv, Reading, Sound, Targets
  <2> QED BY <2>1, <2>2
<1> QED BY <1>5, <1>6, <1>7, <1>8, <1>9, <1>11 DEF Inv

LEMMA StoreResultInv ==
    ASSUME Inv, NEW th \in Threads, StoreResult(th)
    PROVE  Inv'
<1> USE DEF StoreResult
<1>1. /\ loc[th].topic \in Topics
      /\ loc[th] \in Locals
  BY DEF Inv, TypeOK
<1>2. Entry(th) \in [ver : Nat, result : SUBSET Ids, gen : Nat]
  BY <1>1 DEF Entry, Locals
<1>3. TypeOK'
  <2>1. cache' \in [Topics -> {NoEntry} \cup [ver : Nat, result : SUBSET Ids, gen : Nat]]
    BY <1>2 DEF Inv, TypeOK
  <2>2. loc[th].matched \in SUBSET Ids /\ loc[th].gen \in Nat
    BY <1>1 DEF Locals
  <2> QED BY <2>1, <2>2, AnswerTypes DEF Inv, TypeOK, Reading
<1>4. IndexConsistent' /\ LogInv'
  BY DEF Inv, IndexConsistent, LogInv
<1>5. LockInv'
  BY DEF Inv, TypeOK, LockInv, Writing, Answer, Goto
<1>6. VersionInv'
  BY DEF Inv, TypeOK, VersionInv, Answer, Goto
<1>7. Sound(loc[th].topic, loc[th].ver, loc[th].matched, loc[th].gen)
  BY DEF Inv, LocInv
<1>8. CacheInv'
  <2> SUFFICES ASSUME NEW t \in Topics, cache'[t] # NoEntry
               PROVE  Sound(t, cache[t].ver, cache[t].result, cache[t].gen)'
    BY DEF CacheInv
  <2>1. CASE t = loc[th].topic
    <3>1. cache'[t] = Entry(th)
      BY <2>1 DEF Inv, TypeOK
    <3> QED BY <1>7, <2>1, <3>1 DEF Sound, Entry, Targets
  <2>2. CASE t # loc[th].topic
    <3>1. cache'[t] = cache[t]
      BY <2>2 DEF Inv, TypeOK
    <3> QED BY <3>1 DEF Inv, CacheInv, Sound, Targets
  <2> QED BY <2>1, <2>2
<1>9. LocInv'
  BY DEF Inv, TypeOK, LocInv, Reading, Sound, Targets, Answer, Goto
<1> QED BY <1>3, <1>4, <1>5, <1>6, <1>8, <1>9 DEF Inv

LEMMA StutterInv == Inv /\ UNCHANGED vars => Inv'
BY DEF vars, Inv, TypeOK, IndexConsistent, LogInv, LockInv, VersionInv, CacheInv, LocInv,
       Writing, Reading, Sound, Targets

\* Every change is a Replace with a consistent index.
LEMMA ChangeInv ==
    ASSUME Inv, NEW th \in Threads, Change(th)
    PROVE  Inv'
<1>1. index \in Index /\ Consistent(index)
  BY DEF Inv, TypeOK, IndexConsistent
<1>2. ASSUME NEW id \in Ids, NEW p \in Patterns, Subscribe(th, id, p) PROVE Inv'
  BY <1>1, <1>2, SubscribedConsistent, ReplaceInv DEF Subscribe
<1>3. ASSUME NEW id \in Ids, NEW p \in Patterns, Unsubscribe(th, id, p) PROVE Inv'
  BY <1>1, <1>3, WithoutConsistent, ReplaceInv DEF Unsubscribe, Unsubscribed
<1>4. ASSUME NEW id \in Ids, Remove(th, id) PROVE Inv'
  BY <1>1, <1>4, WithoutConsistent, ReplaceInv DEF Remove, Removed
<1> QED BY <1>2, <1>3, <1>4, BumpInv, ClearInv DEF Change

LEMMA NextInv == Inv /\ [Next]_vars => Inv'
<1> SUFFICES ASSUME Inv, [Next]_vars PROVE Inv'
  OBVIOUS
<1>1. ASSUME NEW th \in Threads, Match(th) PROVE Inv'
  BY <1>1, ReadVersionInv, ProbeHitInv, ProbeMissInv, LoadIndexInv, StoreResultInv DEF Match
<1> QED BY <1>1, ChangeInv, StutterInv DEF Next

\* The invariant holds in every reachable state.
THEOREM Invariance == Spec => []Inv
<1> QED BY InitInv, NextInv, PTL DEF Spec

\* Every variable keeps its type.
THEOREM TypeCorrect == Spec => []TypeOK
<1>1. Inv => TypeOK
  BY DEF Inv
<1> QED BY <1>1, Invariance, PTL

\* exact, wild and by_identity agree, whatever the sequence of changes.
THEOREM IndexAlwaysConsistent == Spec => []IndexConsistent
<1>1. Inv => IndexConsistent
  BY DEF Inv
<1> QED BY <1>1, Invariance, PTL

\* A match that answers, from the cache or from the index, does so from a
\* content no older than the last change that had returned when it began.
LEMMA AnswerFresh ==
    ASSUME Inv, NEW th \in Threads, Answers(th), ProbeHit(th) \/ StoreResult(th)
    PROVE  /\ answer'[th].gen \in loc[th].since .. Len(log) - 1
           /\ answer'[th].result = Targets(log[answer'[th].gen + 1], loc[th].topic)
<1>1. /\ loc[th] \in Locals
      /\ loc[th].topic \in Topics
      /\ Reading(th)
  BY DEF Inv, TypeOK, Answers, Reading
<1>2. loc[th].since <= loc[th].ver
  BY <1>1 DEF Inv, LocInv
<1>3. Len(log) \in Nat
  BY DEF Inv, TypeOK
<1>4. CASE ProbeHit(th)
  <2>1. /\ cache[loc[th].topic] # NoEntry
        /\ cache[loc[th].topic].ver = loc[th].ver
        /\ answer'[th] = [result |-> cache[loc[th].topic].result,
                          gen |-> cache[loc[th].topic].gen]
    BY <1>4 DEF ProbeHit, Hit, Cached, Answer, Inv, TypeOK
  <2>2. Sound(loc[th].topic, loc[th].ver, cache[loc[th].topic].result,
              cache[loc[th].topic].gen)
    BY <1>1, <2>1 DEF Inv, CacheInv
  <2>3. cache[loc[th].topic].gen \in Nat
    BY <1>1, <2>1 DEF Inv, TypeOK
  <2> QED BY <1>1, <1>2, <1>3, <2>1, <2>2, <2>3 DEF Sound, Locals
<1>5. CASE StoreResult(th)
  <2>1. answer'[th] = [result |-> loc[th].matched, gen |-> loc[th].gen]
    BY <1>5 DEF StoreResult, Answer, Inv, TypeOK
  <2>2. Sound(loc[th].topic, loc[th].ver, loc[th].matched, loc[th].gen)
    BY <1>5 DEF Inv, LocInv, StoreResult
  <2> QED BY <1>1, <1>2, <1>3, <2>1, <2>2 DEF Sound, Locals
<1> QED BY <1>4, <1>5

\* A step that answers for a thread is that thread's ProbeHit or StoreResult.
LEMMA WhoAnswers ==
    ASSUME Inv, [Next]_vars, NEW th \in Threads, Answers(th)
    PROVE  ProbeHit(th) \/ StoreResult(th)
<1>1. CASE UNCHANGED vars
  BY <1>1 DEF vars, Answers
<1>2. ASSUME NEW u \in Threads, Change(u)
      PROVE  ProbeHit(th) \/ StoreResult(th)
  <2>1. pc[u] \in {"idle", "bump", "clear"} /\ \E label \in Labels : Goto(u, label)
    BY <1>2 DEF Change, Subscribe, Unsubscribe, Remove, Replace, Bump, Clear, Goto, Labels
  <2> QED BY <2>1 DEF Goto, Answers, Inv, TypeOK
<1>3. ASSUME NEW u \in Threads, Match(u), ~ProbeHit(u), ~StoreResult(u)
      PROVE  ProbeHit(th) \/ StoreResult(th)
  <2>1. \E label \in Labels \ {"idle"} : Goto(u, label)
    BY <1>3 DEF Match, ReadVersion, ProbeMiss, LoadIndex, Goto, Labels
  <2> QED BY <2>1 DEF Goto, Answers, Inv, TypeOK
<1>4. ASSUME NEW u \in Threads, ProbeHit(u) \/ StoreResult(u), u # th
      PROVE  ProbeHit(th) \/ StoreResult(th)
  BY <1>4 DEF ProbeHit, StoreResult, Answer, Goto, Answers, Inv, TypeOK
<1> QED BY <1>1, <1>2, <1>3, <1>4 DEF Next

\* No match returns a stale result.
THEOREM MatchesAreFresh == Spec => FreshMatch
<1>1. Inv /\ [Next]_vars =>
        [\A th \in Threads : Answers(th) =>
           /\ answer'[th].gen \in loc[th].since .. Len(log) - 1
           /\ answer'[th].result = Targets(log[answer'[th].gen + 1], loc[th].topic)]_vars
  BY AnswerFresh, WhoAnswers
<1> QED BY <1>1, Invariance, PTL DEF Spec, FreshMatch

-----------------------------------------------------------------------------
(* The table implements SubscriptionService. *)

LEMMA RefinedInit == Init => Service!Init
BY DEF Init, Service!Init, EmptyIndex, NoAnswer, Service!Idle

\* Publishing an index is the abstract change.
LEMMA RefinedReplace ==
    ASSUME Inv, NEW th \in Threads, NEW idx \in Index, Replace(th, idx)
    PROVE  Service!Change
<1>1. idx.byIdentity \in [Ids -> SUBSET Patterns]
  BY DEF Index
<1>2. \A u \in Threads : Reading(u)' <=> Reading(u)
  BY DEF Replace, Goto, Inv, TypeOK, Reading
<1> QED BY <1>1, <1>2 DEF Replace, Service!Change, Reading

\* The release of the lock is the abstract return.
LEMMA RefinedClear ==
    ASSUME Inv, NEW th \in Threads, Clear(th)
    PROVE  Service!Return
<1>1. done = Len(log) - 2 /\ Len(log) \in Nat
  BY DEF Clear, Inv, TypeOK, VersionInv
<1>2. \A u \in Threads : Reading(u)' <=> Reading(u)
  BY DEF Clear, Goto, Inv, TypeOK, Reading
<1> QED BY <1>1, <1>2 DEF Clear, Service!Return, Reading

\* The increment of the version, a cache miss and the load of the index are
\* invisible.
LEMMA RefinedStutter ==
    ASSUME Inv, NEW th \in Threads, Bump(th) \/ ProbeMiss(th) \/ LoadIndex(th)
    PROVE  UNCHANGED Service!vars
<1>1. \A u \in Threads : Reading(u)' <=> Reading(u)
  BY DEF Bump, ProbeMiss, LoadIndex, Goto, Inv, TypeOK, Reading
<1>2. \A u \in Threads : loc'[u].topic = loc[u].topic /\ loc'[u].since = loc[u].since
  <2>1. CASE Bump(th) \/ ProbeMiss(th)
    BY <2>1 DEF Bump, ProbeMiss
  <2>2. CASE LoadIndex(th)
    <3>1. loc \in [Threads -> Locals]
      BY DEF Inv, TypeOK
    <3>2. loc'[th] = [loc[th] EXCEPT !.matched = Lookup(index, loc[th].topic),
                                    !.gen = Len(log) - 1]
      BY <2>2, <3>1 DEF LoadIndex
    <3>3. \A u \in Threads : u # th => loc'[u] = loc[u]
      BY <2>2, <3>1 DEF LoadIndex
    <3> QED BY <3>1, <3>2, <3>3 DEF Locals
  <2> QED BY <2>1, <2>2
<1> QED BY <1>1, <1>2 DEF Bump, ProbeMiss, LoadIndex, Service!vars, Reading

\* Reading the version is the abstract call.
LEMMA RefinedCall ==
    ASSUME Inv, NEW th \in Threads, NEW topic \in Topics, ReadVersion(th, topic)
    PROVE  Service!Call(th)
<1>1. ~Reading(th) /\ Reading(th)'
  BY DEF ReadVersion, Goto, Inv, TypeOK, Reading
<1>2. \A u \in Threads : u # th => (Reading(u)' <=> Reading(u)) /\ loc'[u] = loc[u]
  BY DEF ReadVersion, Goto, Inv, TypeOK, Reading
<1>3. loc'[th].topic = topic /\ loc'[th].since = done
  BY DEF ReadVersion, Inv, TypeOK
<1> QED BY <1>1, <1>2, <1>3
  DEF ReadVersion, Service!Call, Service!Idle, Reading, NoAnswer, Inv, TypeOK

LEMMA SameTargets ==
    ASSUME NEW table, NEW topic
    PROVE  Service!Targets(table, topic) = Targets(table, topic)
BY DEF Service!Targets, Targets, Service!Matches, Matches, Service!StartsWith, StartsWith

\* An answer is the abstract answer from the content it was computed from.
LEMMA RefinedAnswer ==
    ASSUME Inv, NEW th \in Threads, ProbeHit(th) \/ StoreResult(th)
    PROVE  Service!Answer(th)
<1>1. Answers(th)
  BY DEF ProbeHit, StoreResult, Answer, Goto, Answers, Inv, TypeOK
<1>2. /\ answer'[th].gen \in loc[th].since .. Len(log) - 1
      /\ answer'[th].result = Targets(log[answer'[th].gen + 1], loc[th].topic)
  BY <1>1, AnswerFresh
<1>3. Reading(th) /\ ~Reading(th)' /\ loc[th].topic \in Topics
  BY <1>1 DEF Answers, Reading, Inv, TypeOK
<1>4. \A u \in Threads : u # th => /\ Reading(u)' <=> Reading(u)
                                   /\ loc'[u] = loc[u] /\ answer'[u] = answer[u]
  BY DEF ProbeHit, StoreResult, Answer, Goto, Inv, TypeOK, Reading
<1>5. loc[th].topic # <<>>
  BY <1>3, NamesAssumption
<1>6. UNCHANGED <<log, done>>
  BY DEF ProbeHit, StoreResult
<1> QED BY <1>2, <1>3, <1>4, <1>5, <1>6, SameTargets
  DEF Service!Answer, Service!Idle, Reading

LEMMA RefinedNext == Inv /\ [Next]_vars => [Service!Next]_(Service!vars)
<1> SUFFICES ASSUME Inv, [Next]_vars PROVE [Service!Next]_(Service!vars)
  OBVIOUS
<1>1. CASE UNCHANGED vars
  BY <1>1 DEF vars, Service!vars
<1>2. ASSUME NEW th \in Threads, Change(th) PROVE [Service!Next]_(Service!vars)
  <2>1. index \in Index /\ Consistent(index)
    BY DEF Inv, TypeOK, IndexConsistent
  <2>2. ASSUME NEW id \in Ids, NEW p \in Patterns, Subscribe(th, id, p)
        PROVE  Service!Change
    BY <2>1, <2>2, SubscribedConsistent, RefinedReplace DEF Subscribe
  <2>3. ASSUME NEW id \in Ids, NEW p \in Patterns, Unsubscribe(th, id, p)
        PROVE  Service!Change
    BY <2>1, <2>3, WithoutConsistent, RefinedReplace DEF Unsubscribe, Unsubscribed
  <2>4. ASSUME NEW id \in Ids, Remove(th, id) PROVE Service!Change
    BY <2>1, <2>4, WithoutConsistent, RefinedReplace DEF Remove, Removed
  <2> QED BY <1>2, <2>2, <2>3, <2>4, RefinedClear, RefinedStutter DEF Change, Service!Next
<1>3. ASSUME NEW th \in Threads, Match(th) PROVE [Service!Next]_(Service!vars)
  BY <1>3, RefinedCall, RefinedAnswer, RefinedStutter DEF Match, Service!Next
<1> QED BY <1>1, <1>2, <1>3 DEF Next

\* The index, the cache and the version together are indistinguishable from
\* the sequence of table contents SubscriptionService speaks of.
THEOREM TableImplementsService == Spec => ServiceSpec
<1> QED BY RefinedInit, RefinedNext, Invariance, PTL DEF Spec, ServiceSpec, Service!Spec

-----------------------------------------------------------------------------
(* Matches never go back, with one reader beside the writer                *)

\* One thread changes the table and at most one other thread matches, as in the
\* server: the event loop, and the data-plane thread.
OneReader ==
    \E w : Writers = {w} /\ \A u, v \in Threads \ {w} : u = v

\* The number of the newest content.
Newest == Len(log) - 1

\* The writer's own matches see no change.
WriterInv ==
    \A th \in Threads :
        /\ Writing(th) => th \in Writers
        /\ th \in Writers /\ Reading(th) => loc[th].ver = version

\* A cache entry that can still be hit is at least as new as any answer seen.
SeenInv ==
    \A t \in Topics :
        /\ seen[t] <= Newest
        /\ cache[t] # NoEntry /\ cache[t].ver = version => seen[t] <= cache[t].gen

\* So is, for each match under way, what it will answer with: the entry it may
\* hit, the content it has loaded; and what it will store, if that can be hit.
FloorInv ==
    \A th \in Threads :
        /\ Reading(th) => loc[th].floor <= Newest
        /\ pc[th] = "probe" /\ Hit(th) => loc[th].floor <= Cached(th).gen
        /\ pc[th] = "store" =>
             /\ loc[th].floor <= loc[th].gen
             /\ loc[th].ver = version => seen[loc[th].topic] <= loc[th].gen

NeverBack == WriterInv /\ SeenInv /\ FloorInv

\* While the writer matches, and whenever nobody is between publishing and
\* incrementing, the version is the number of the newest content.
LEMMA VersionNewest ==
    ASSUME Inv, WriterInv, OneReader
    PROVE  /\ Newest \in Nat
           /\ version = Newest \/ \E th \in Threads : pc[th] = "bump" /\ version = Newest - 1
           /\ \A th \in Writers : Reading(th) => version = Newest
           /\ \A u, v \in Threads :
                u # v /\ Reading(u) /\ Reading(v) => version = Newest /\
                   (loc[u].ver = version \/ loc[v].ver = version)
<1>1. Len(log) \in Nat /\ Len(log) > 0 /\ version \in Nat
  BY DEF Inv, TypeOK, LogInv
<1>3. lock # NoThread => lock \in Threads /\ Writing(lock) /\ lock \in Writers
  BY DEF Inv, TypeOK, LockInv, WriterInv
<1>4. version = Newest \/ \E th \in Threads : pc[th] = "bump" /\ version = Newest - 1
  <2>1. CASE lock # NoThread
    BY <1>1, <1>3, <2>1 DEF Inv, VersionInv, Newest, Writing
  <2> QED BY <1>1, <2>1 DEF Inv, VersionInv, Newest
<1>5. ASSUME NEW th \in Writers, Reading(th) PROVE version = Newest
  <2>1. lock = NoThread
    BY <1>3, <1>5 DEF OneReader, Reading, Writing
  <2> QED BY <1>1, <2>1 DEF Inv, VersionInv, Newest
<1>6. ASSUME NEW u \in Threads, NEW v \in Threads, u # v, Reading(u), Reading(v)
      PROVE  version = Newest /\ (loc[u].ver = version \/ loc[v].ver = version)
  <2>1. u \in Writers \/ v \in Writers
    BY <1>6 DEF OneReader
  <2> QED BY <1>5, <1>6, <2>1 DEF WriterInv
<1> QED BY <1>1, <1>4, <1>5, <1>6 DEF Newest

\* What is stamped with the number of the newest content is of that content.
LEMMA NewestEntry ==
    ASSUME Inv, NEW t \in Topics, cache[t] # NoEntry, cache[t].ver = Newest
    PROVE  cache[t].gen = Newest
<1>1. Sound(t, cache[t].ver, cache[t].result, cache[t].gen) /\ cache[t].gen \in Nat
  BY DEF Inv, TypeOK, CacheInv
<1>2. Len(log) \in Nat /\ Len(log) > 0
  BY DEF Inv, TypeOK, LogInv
<1> QED BY <1>1, <1>2 DEF Sound, Newest

\* The invariant looks at the log's length, the version, cache, seen, pc and loc.
LEMMA NeverBackKept ==
    ASSUME NeverBack, Len(log') = Len(log), UNCHANGED <<version, cache, seen, pc, loc>>
    PROVE  NeverBack'
BY DEF NeverBack, WriterInv, SeenInv, FloorInv, Writing, Reading, Newest, Hit, Cached

LEMMA ReplaceNeverBack ==
    ASSUME Inv, NeverBack, OneReader, NEW th \in Threads, NEW idx \in Index, Replace(th, idx)
    PROVE  NeverBack'
<1>1. /\ Len(log) \in Nat /\ Len(log') = Len(log) + 1
      /\ th \in Writers /\ pc[th] = "idle"
      /\ pc' = [pc EXCEPT ![th] = "bump"]
      /\ UNCHANGED <<version, cache, loc, done, answer, seen>>
  BY DEF Inv, TypeOK, Index, Replace, Goto
<1>2. Newest \in Nat /\ Newest' = Newest + 1
  BY <1>1, VersionNewest DEF Newest, NeverBack
<1>3. \A u \in Threads \ {th} : pc'[u] = pc[u]
  BY <1>1
<1>4. pc'[th] = "bump"
  BY <1>1 DEF Inv, TypeOK
<1>5. WriterInv'
  BY <1>1, <1>3, <1>4 DEF NeverBack, WriterInv, Writing, Reading
<1>6. SeenInv'
  <2>1. \A t \in Topics : seen[t] \in Nat
    BY DEF Inv, TypeOK
  <2> QED BY <1>1, <1>2, <2>1 DEF NeverBack, SeenInv
<1>7. FloorInv'
  <2> SUFFICES ASSUME NEW u \in Threads, Reading(u)'
               PROVE  /\ loc'[u].floor <= Newest'
                      /\ pc'[u] = "probe" /\ Hit(u)' => loc'[u].floor <= Cached(u)'.gen
                      /\ pc'[u] = "store" =>
                           /\ loc'[u].floor <= loc'[u].gen
                           /\ loc'[u].ver = version' => seen'[loc'[u].topic] <= loc'[u].gen
    BY DEF FloorInv, Reading
  <2>1. pc'[u] = pc[u] /\ Reading(u)
    BY <1>3, <1>4 DEF Reading
  <2>2. loc[u].floor \in Nat
    BY DEF Inv, TypeOK, Locals
  <2> QED BY <1>1, <1>2, <2>1, <2>2 DEF NeverBack, FloorInv, Hit, Cached
<1> QED BY <1>5, <1>6, <1>7 DEF NeverBack

\* The version catches up with the newest content, and what is stamped with it
\* is of that content.
LEMMA BumpNeverBack ==
    ASSUME Inv, Inv', NeverBack, OneReader, NEW th \in Threads, Bump(th)
    PROVE  NeverBack'
<1>1. /\ version' = version + 1 /\ pc[th] = "bump"
      /\ pc' = [pc EXCEPT ![th] = "clear"]
      /\ UNCHANGED <<cache, loc, log, seen>>
  BY DEF Bump, Goto
<1>2. Newest \in Nat /\ Newest' = Newest /\ version' = Newest'
  <2>1. Len(log) \in Nat /\ Len(log) > 0 /\ version = Len(log) - 2
    BY <1>1 DEF Inv, TypeOK, LogInv, VersionInv
  <2> QED BY <1>1, <2>1 DEF Newest
<1>3. /\ \A u \in Threads \ {th} : pc'[u] = pc[u]
      /\ pc'[th] = "clear"
  BY <1>1 DEF Inv, TypeOK
<1>4. th \in Writers /\ \A u \in Writers : u = th
  BY <1>1 DEF NeverBack, WriterInv, Writing, OneReader
<1>5. WriterInv'
  BY <1>1, <1>3, <1>4 DEF NeverBack, WriterInv, Writing, Reading
<1>6. SeenInv'
  <2> SUFFICES ASSUME NEW t \in Topics
               PROVE  /\ seen'[t] <= Newest'
                      /\ cache'[t] # NoEntry /\ cache'[t].ver = version'
                           => seen'[t] <= cache'[t].gen
    BY DEF SeenInv
  <2>1. seen[t] <= Newest
    BY DEF NeverBack, SeenInv
  <2>2. cache[t] # NoEntry /\ cache[t].ver = Newest => cache[t].gen = Newest
    BY NewestEntry
  <2> QED BY <1>1, <1>2, <2>1, <2>2
<1>7. FloorInv'
  <2> SUFFICES ASSUME NEW u \in Threads, Reading(u)'
               PROVE  /\ loc'[u].floor <= Newest'
                      /\ pc'[u] = "probe" /\ Hit(u)' => loc'[u].floor <= Cached(u)'.gen
                      /\ pc'[u] = "store" =>
                           /\ loc'[u].floor <= loc'[u].gen
                           /\ loc'[u].ver = version' => seen'[loc'[u].topic] <= loc'[u].gen
    BY DEF FloorInv, Reading
  <2>1. pc'[u] = pc[u] /\ Reading(u)
    BY <1>3 DEF Reading
  <2>2. loc[u].ver <= version /\ version \in Nat /\ loc[u].ver \in Nat
    BY <2>1 DEF Inv, TypeOK, LocInv, Locals
  <2>3. loc'[u].ver # version'
    BY <1>1, <2>2
  <2> QED BY <1>1, <1>2, <2>1, <2>3 DEF NeverBack, FloorInv, Hit, Cached
<1> QED BY <1>5, <1>6, <1>7 DEF NeverBack

LEMMA ClearNeverBack ==
    ASSUME Inv, NeverBack, OneReader, NEW th \in Threads, Clear(th)
    PROVE  NeverBack'
<1>1. /\ pc[th] = "clear" /\ pc' = [pc EXCEPT ![th] = "idle"]
      /\ cache' = [t \in Topics |-> NoEntry]
      /\ UNCHANGED <<version, loc, log, seen>>
  BY DEF Clear, Goto
<1>2. Newest' = Newest
  BY <1>1 DEF Newest
<1>3. /\ \A u \in Threads \ {th} : pc'[u] = pc[u]
      /\ pc'[th] = "idle"
  BY <1>1 DEF Inv, TypeOK
<1>4. WriterInv'
  BY <1>1, <1>3 DEF NeverBack, WriterInv, Writing, Reading
<1>5. SeenInv'
  BY <1>1, <1>2 DEF NeverBack, SeenInv
<1>6. FloorInv'
  <2> SUFFICES ASSUME NEW u \in Threads, Reading(u)'
               PROVE  /\ loc'[u].floor <= Newest'
                      /\ pc'[u] = "probe" /\ Hit(u)' => loc'[u].floor <= Cached(u)'.gen
                      /\ pc'[u] = "store" =>
                           /\ loc'[u].floor <= loc'[u].gen
                           /\ loc'[u].ver = version' => seen'[loc'[u].topic] <= loc'[u].gen
    BY DEF FloorInv, Reading
  <2>1. pc'[u] = pc[u] /\ Reading(u)
    BY <1>3 DEF Reading
  <2>2. loc[u].topic \in Topics
    BY <2>1 DEF Inv, TypeOK, Reading
  <2>3. ~Hit(u)'
    BY <1>1, <2>2 DEF Hit, Cached
  <2> QED BY <1>1, <1>2, <2>1, <2>3 DEF NeverBack, FloorInv
<1> QED BY <1>4, <1>5, <1>6 DEF NeverBack

\* The match begins with the version as it is: an entry it may hit is at least
\* as new as any answer seen.
LEMMA ReadVersionNeverBack ==
    ASSUME Inv, NeverBack, NEW th \in Threads, NEW topic \in Topics, ReadVersion(th, topic)
    PROVE  NeverBack'
<1>1. /\ pc[th] = "idle" /\ pc' = [pc EXCEPT ![th] = "probe"]
      /\ UNCHANGED <<version, cache, log, seen>>
  BY DEF ReadVersion, Goto
<1>2. Newest' = Newest
  BY <1>1 DEF Newest
<1>3. /\ \A u \in Threads \ {th} : pc'[u] = pc[u] /\ loc'[u] = loc[u]
      /\ pc'[th] = "probe"
      /\ loc'[th].topic = topic /\ loc'[th].ver = version /\ loc'[th].floor = seen[topic]
  BY <1>1 DEF Inv, TypeOK, ReadVersion
<1>4. WriterInv'
  BY <1>1, <1>3 DEF NeverBack, WriterInv, Writing, Reading
<1>5. SeenInv'
  BY <1>1, <1>2 DEF NeverBack, SeenInv
<1>6. FloorInv'
  <2> SUFFICES ASSUME NEW u \in Threads, Reading(u)'
               PROVE  /\ loc'[u].floor <= Newest'
                      /\ pc'[u] = "probe" /\ Hit(u)' => loc'[u].floor <= Cached(u)'.gen
                      /\ pc'[u] = "store" =>
                           /\ loc'[u].floor <= loc'[u].gen
                           /\ loc'[u].ver = version' => seen'[loc'[u].topic] <= loc'[u].gen
    BY DEF FloorInv, Reading
  <2>1. CASE u = th
    BY <1>1, <1>2, <1>3, <2>1 DEF NeverBack, SeenInv, Hit, Cached
  <2>2. CASE u # th
    <3>1. pc'[u] = pc[u] /\ loc'[u] = loc[u] /\ Reading(u)
      BY <1>3, <2>2 DEF Reading
    <3> QED BY <1>1, <1>2, <3>1 DEF NeverBack, FloorInv, Hit, Cached
  <2> QED BY <2>1, <2>2
<1> QED BY <1>4, <1>5, <1>6 DEF NeverBack

LEMMA ProbeMissNeverBack ==
    ASSUME Inv, NeverBack, NEW th \in Threads, ProbeMiss(th)
    PROVE  NeverBack'
<1>1. /\ pc[th] = "probe" /\ pc' = [pc EXCEPT ![th] = "load"]
      /\ UNCHANGED <<version, cache, loc, log, seen>>
  BY DEF ProbeMiss, Goto
<1>2. Newest' = Newest
  BY <1>1 DEF Newest
<1>3. /\ \A u \in Threads \ {th} : pc'[u] = pc[u]
      /\ pc'[th] = "load"
  BY <1>1 DEF Inv, TypeOK
<1>4. WriterInv'
  BY <1>1, <1>3 DEF NeverBack, WriterInv, Writing, Reading
<1>5. SeenInv'
  BY <1>1, <1>2 DEF NeverBack, SeenInv
<1>6. FloorInv'
  BY <1>1, <1>2, <1>3 DEF NeverBack, FloorInv, Hit, Cached, Reading
<1> QED BY <1>4, <1>5, <1>6 DEF NeverBack

\* What is loaded is the newest content.
LEMMA LoadIndexNeverBack ==
    ASSUME Inv, NeverBack, NEW th \in Threads, LoadIndex(th)
    PROVE  NeverBack'
<1>1. /\ pc[th] = "load" /\ pc' = [pc EXCEPT ![th] = "store"]
      /\ UNCHANGED <<version, cache, log, seen>>
  BY DEF LoadIndex, Goto
<1>2. Newest' = Newest
  BY <1>1 DEF Newest
<1>3. /\ \A u \in Threads \ {th} : pc'[u] = pc[u] /\ loc'[u] = loc[u]
      /\ pc'[th] = "store"
      /\ loc'[th].topic = loc[th].topic /\ loc'[th].ver = loc[th].ver
      /\ loc'[th].floor = loc[th].floor /\ loc'[th].gen = Newest
      /\ loc[th].topic \in Topics
  BY <1>1 DEF Inv, TypeOK, LoadIndex, Locals, Newest
<1>4. WriterInv'
  BY <1>1, <1>3 DEF NeverBack, WriterInv, Writing, Reading
<1>5. SeenInv'
  BY <1>1, <1>2 DEF NeverBack, SeenInv
<1>6. FloorInv'
  <2> SUFFICES ASSUME NEW u \in Threads, Reading(u)'
               PROVE  /\ loc'[u].floor <= Newest'
                      /\ pc'[u] = "probe" /\ Hit(u)' => loc'[u].floor <= Cached(u)'.gen
                      /\ pc'[u] = "store" =>
                           /\ loc'[u].floor <= loc'[u].gen
                           /\ loc'[u].ver = version' => seen'[loc'[u].topic] <= loc'[u].gen
    BY DEF FloorInv, Reading
  <2>1. CASE u = th
    <3>1. loc[th].floor <= Newest /\ seen[loc[th].topic] <= Newest
      BY <1>1, <1>3 DEF NeverBack, FloorInv, SeenInv, Reading
    <3> QED BY <1>1, <1>2, <1>3, <2>1, <3>1
  <2>2. CASE u # th
    <3>1. pc'[u] = pc[u] /\ loc'[u] = loc[u] /\ Reading(u)
      BY <1>3, <2>2 DEF Reading
    <3> QED BY <1>1, <1>2, <3>1 DEF NeverBack, FloorInv, Hit, Cached
  <2> QED BY <2>1, <2>2
<1> QED BY <1>4, <1>5, <1>6 DEF NeverBack

\* Two matches under way at a time: the writer is in one of them, so nothing
\* changes meanwhile, and what the other stores or answers is either of the
\* newest content or stamped with an older version.
LEMMA AnswerNeverBack ==
    ASSUME Inv, NeverBack, OneReader, NEW th \in Threads, NEW t \in Topics,
           NEW ver \in Nat, NEW result, NEW gen \in Nat,
           t = loc[th].topic, ver = loc[th].ver, Reading(th),
           Answer(th, result, gen), Sound(t, ver, result, gen),
           ver = version => seen[t] <= gen,
           UNCHANGED <<version, log>>,
           \A s \in Topics \ {t} : cache'[s] = cache[s],
           cache'[t] # NoEntry, cache'[t].ver = ver, cache'[t].gen = gen
    PROVE  NeverBack'
<1>1. Newest' = Newest /\ Newest \in Nat /\ gen <= Newest /\ ver <= gen
  BY VersionNewest DEF Newest, NeverBack, Sound
<1>2. /\ \A u \in Threads \ {th} : pc'[u] = pc[u] /\ loc'[u] = loc[u]
      /\ pc'[th] = "idle"
      /\ \A s \in Topics \ {t} : seen'[s] = seen[s]
      /\ seen'[t] = IF gen > seen[t] THEN gen ELSE seen[t]
      /\ \A s \in Topics : seen[s] \in Nat
  BY DEF Inv, TypeOK, Answer, Goto
<1>3. WriterInv'
  BY <1>2 DEF NeverBack, WriterInv, Writing, Reading
<1>4. SeenInv'
  <2> SUFFICES ASSUME NEW s \in Topics
               PROVE  /\ seen'[s] <= Newest'
                      /\ cache'[s] # NoEntry /\ cache'[s].ver = version'
                           => seen'[s] <= cache'[s].gen
    BY DEF SeenInv
  <2>1. seen[s] <= Newest
    BY DEF NeverBack, SeenInv
  <2>2. CASE s = t
    BY <1>1, <1>2, <2>1, <2>2
  <2>3. CASE s # t
    BY <1>1, <1>2, <2>3 DEF NeverBack, SeenInv
  <2> QED BY <2>2, <2>3
<1>5. FloorInv'
  <2> SUFFICES ASSUME NEW u \in Threads, Reading(u)'
               PROVE  /\ loc'[u].floor <= Newest'
                      /\ pc'[u] = "probe" /\ Hit(u)' => loc'[u].floor <= Cached(u)'.gen
                      /\ pc'[u] = "store" =>
                           /\ loc'[u].floor <= loc'[u].gen
                           /\ loc'[u].ver = version' => seen'[loc'[u].topic] <= loc'[u].gen
    BY DEF FloorInv, Reading
  <2>1. u # th /\ pc'[u] = pc[u] /\ loc'[u] = loc[u] /\ Reading(u)
    BY <1>2 DEF Reading
  <2>2. version = Newest /\ (loc[u].ver = version \/ ver = version)
    BY <2>1, VersionNewest DEF NeverBack
  <2>3. /\ loc[u].floor \in Nat /\ loc[u].ver \in Nat /\ loc[u].gen \in Nat
        /\ loc[u].topic \in Topics /\ loc[u].floor <= Newest
    BY <2>1 DEF Inv, TypeOK, Locals, Reading, NeverBack, FloorInv
  <2>4. ASSUME pc'[u] = "probe", Hit(u)' PROVE loc'[u].floor <= Cached(u)'.gen
    <3>1. CASE loc[u].topic = t
      <4>1. ver = loc[u].ver
        BY <2>1, <2>4, <3>1 DEF Hit, Cached
      <4>2. gen = Newest
        BY <1>1, <2>2, <4>1
      <4> QED BY <2>1, <2>3, <3>1, <4>2 DEF Cached
    <3>2. CASE loc[u].topic # t
      <4>1. Cached(u)' = Cached(u) /\ Hit(u)
        BY <2>1, <2>3, <2>4, <3>2 DEF Hit, Cached
      <4> QED BY <2>1, <2>4, <4>1 DEF NeverBack, FloorInv
    <3> QED BY <3>1, <3>2
  <2>5. ASSUME pc'[u] = "store"
        PROVE  /\ loc'[u].floor <= loc'[u].gen
               /\ loc'[u].ver = version' => seen'[loc'[u].topic] <= loc'[u].gen
    <3>1. loc[u].floor <= loc[u].gen /\ loc[u].ver <= loc[u].gen
      BY <2>1, <2>5 DEF NeverBack, FloorInv, Inv, LocInv, Sound
    <3>2. seen'[loc[u].topic] <= Newest /\ seen'[loc[u].topic] \in Nat
      BY <1>1, <1>2, <1>4, <2>3 DEF SeenInv
    <3> QED BY <1>1, <2>1, <2>2, <2>3, <3>1, <3>2
  <2> QED BY <1>1, <2>1, <2>3, <2>4, <2>5
<1> QED BY <1>3, <1>4, <1>5 DEF NeverBack

LEMMA ProbeHitNeverBack ==
    ASSUME Inv, NeverBack, OneReader, NEW th \in Threads, ProbeHit(th)
    PROVE  NeverBack' /\ loc[th].floor <= answer'[th].gen
<1> DEFINE t == loc[th].topic
<1>1. /\ t \in Topics /\ Reading(th) /\ loc[th].ver \in Nat
      /\ cache[t] # NoEntry /\ cache[t].ver = loc[th].ver
      /\ cache[t].gen \in Nat
      /\ Answer(th, cache[t].result, cache[t].gen)
      /\ UNCHANGED <<version, cache, log>>
  BY DEF ProbeHit, Hit, Cached, Inv, TypeOK, Locals, Reading
<1>2. Sound(t, loc[th].ver, cache[t].result, cache[t].gen)
  BY <1>1 DEF Inv, CacheInv
<1>3. loc[th].ver = version => seen[t] <= cache[t].gen
  BY <1>1 DEF NeverBack, SeenInv
<1>4. NeverBack'
  BY <1>1, <1>2, <1>3, AnswerNeverBack
<1>5. loc[th].floor <= cache[t].gen
  BY DEF NeverBack, FloorInv, ProbeHit, Cached
<1>6. answer'[th].gen = cache[t].gen
  BY <1>1 DEF Answer, Inv, TypeOK
<1> QED BY <1>4, <1>5, <1>6

LEMMA StoreResultNeverBack ==
    ASSUME Inv, NeverBack, OneReader, NEW th \in Threads, StoreResult(th)
    PROVE  NeverBack' /\ loc[th].floor <= answer'[th].gen
<1> DEFINE t == loc[th].topic
<1>1. /\ t \in Topics /\ Reading(th) /\ loc[th].ver \in Nat /\ loc[th].gen \in Nat
      /\ pc[th] = "store"
      /\ Answer(th, loc[th].matched, loc[th].gen)
      /\ UNCHANGED <<version, log>>
  BY DEF StoreResult, Inv, TypeOK, Locals, Reading
<1>2. Sound(t, loc[th].ver, loc[th].matched, loc[th].gen)
  BY <1>1 DEF Inv, LocInv
<1>3. loc[th].floor <= loc[th].gen /\ (loc[th].ver = version => seen[t] <= loc[th].gen)
  BY <1>1 DEF NeverBack, FloorInv
<1>4. /\ \A s \in Topics \ {t} : cache'[s] = cache[s]
      /\ cache'[t].ver = loc[th].ver /\ cache'[t].gen = loc[th].gen
      /\ cache'[t] # NoEntry
  <2>1. cache' = [cache EXCEPT ![t] = Entry(th)]
    BY DEF StoreResult
  <2>2. /\ Entry(th).ver = loc[th].ver /\ Entry(th).gen = loc[th].gen
        /\ NoEntry.gen = -1
    BY DEF Entry, NoEntry
  <2>3. Entry(th) # NoEntry
    BY <1>1, <2>2
  <2> QED BY <1>1, <2>1, <2>2, <2>3 DEF Inv, TypeOK
<1>5. NeverBack'
  BY <1>1, <1>2, <1>3, <1>4, AnswerNeverBack
<1>6. answer'[th].gen = loc[th].gen
  BY <1>1 DEF Answer, Inv, TypeOK
<1> QED BY <1>3, <1>5, <1>6

LEMMA NextNeverBack ==
    ASSUME Inv, Inv', NeverBack, OneReader, [Next]_vars
    PROVE  NeverBack'
<1>1. CASE UNCHANGED vars
  BY <1>1, NeverBackKept DEF vars
<1>2. ASSUME NEW th \in Threads, Change(th) PROVE NeverBack'
  <2>1. index \in Index /\ Consistent(index)
    BY DEF Inv, TypeOK, IndexConsistent
  <2>2. ASSUME NEW id \in Ids, NEW p \in Patterns, Subscribe(th, id, p) PROVE NeverBack'
    BY <2>1, <2>2, SubscribedConsistent, ReplaceNeverBack DEF Subscribe
  <2>3. ASSUME NEW id \in Ids, NEW p \in Patterns, Unsubscribe(th, id, p) PROVE NeverBack'
    BY <2>1, <2>3, WithoutConsistent, ReplaceNeverBack DEF Unsubscribe, Unsubscribed
  <2>4. ASSUME NEW id \in Ids, Remove(th, id) PROVE NeverBack'
    BY <2>1, <2>4, WithoutConsistent, ReplaceNeverBack DEF Remove, Removed
  <2> QED BY <1>2, <2>2, <2>3, <2>4, BumpNeverBack, ClearNeverBack DEF Change
<1>3. ASSUME NEW th \in Threads, Match(th) PROVE NeverBack'
  BY <1>3, ReadVersionNeverBack, ProbeHitNeverBack, ProbeMissNeverBack, LoadIndexNeverBack,
     StoreResultNeverBack DEF Match
<1> QED BY <1>1, <1>2, <1>3 DEF Next

\* With one reader beside the writer, no match of a topic answers from an older
\* content than a match of that topic that had ended before it began.
THEOREM MatchesNeverGoBack == ASSUME OneReader PROVE Spec => MonotonicMatch
<1>1. Init => NeverBack
  <2> SUFFICES ASSUME Init PROVE NeverBack
    OBVIOUS
  <2>1. /\ Newest = 0 /\ \A th \in Threads : pc[th] = "idle"
        /\ \A t \in Topics : cache[t] = NoEntry /\ seen[t] = 0
    BY DEF Init, Newest
  <2> QED BY <2>1 DEF NeverBack, WriterInv, SeenInv, FloorInv, Writing, Reading
<1>2. Inv /\ Inv' /\ NeverBack /\ [Next]_vars => NeverBack'
  BY NextNeverBack
<1>3. Inv /\ NeverBack /\ [Next]_vars =>
        [\A th \in Threads : Answers(th) => answer'[th].gen >= loc[th].floor]_vars
  <2> SUFFICES ASSUME Inv, NeverBack, [Next]_vars, NEW th \in Threads, Answers(th)
               PROVE  answer'[th].gen >= loc[th].floor
    OBVIOUS
  <2>1. ProbeHit(th) \/ StoreResult(th)
    BY WhoAnswers
  <2>2. loc[th].floor <= answer'[th].gen
    BY <2>1, ProbeHitNeverBack, StoreResultNeverBack
  <2> QED BY <2>2
<1> QED BY <1>1, <1>2, <1>3, Invariance, PTL DEF Spec, MonotonicMatch
=============================================================================
