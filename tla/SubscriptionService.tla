------------------------ MODULE SubscriptionService ------------------------
(***************************************************************************)
(* What the routing table promises to the broker, without index, cache or  *)
(* version: the table goes through a sequence of contents, and a match     *)
(* answers with the identities whose patterns cover the topic in ONE of    *)
(* the contents that were current between its call and its return.  In     *)
(* particular a change whose call has returned is never missed.            *)
(***************************************************************************)
EXTENDS TopicPatterns

CONSTANTS Ids, Patterns, Topics, Threads

VARIABLES
    tables,   \* every content the table has had, oldest first
    done,     \* changes whose call has returned
    call,     \* call[th]: the match th is in, or Idle
    answer    \* answer[th]: what th's last completed match returned

vars == <<tables, done, call, answer>>

Idle == [topic |-> <<>>, since |-> 0]

\* The identities a topic is routed to, given everybody's patterns.
Targets(table, topic) ==
    {id \in Ids : \E p \in table[id] : Matches(p, topic)}

Init ==
    /\ tables = << [id \in Ids |-> {}] >>
    /\ done = 0
    /\ call = [th \in Threads |-> Idle]
    /\ answer = [th \in Threads |-> {}]

\* A change becomes visible.
Change ==
    /\ \E table \in [Ids -> SUBSET Patterns] : tables' = Append(tables, table)
    /\ UNCHANGED <<done, call, answer>>

\* The call that made the last change returns.
Return ==
    /\ done < Len(tables) - 1
    /\ done' = Len(tables) - 1
    /\ UNCHANGED <<tables, call, answer>>

Call(th) ==
    /\ call[th] = Idle
    /\ \E topic \in Topics :
         call' = [call EXCEPT ![th] = [topic |-> topic, since |-> done]]
    /\ answer' = [answer EXCEPT ![th] = {}]
    /\ UNCHANGED <<tables, done>>

Answer(th) ==
    /\ call[th] # Idle
    /\ \E g \in call[th].since .. Len(tables) - 1 :
         answer' = [answer EXCEPT ![th] = Targets(tables[g + 1], call[th].topic)]
    /\ call' = [call EXCEPT ![th] = Idle]
    /\ UNCHANGED <<tables, done>>

Next == Change \/ Return \/ \E th \in Threads : Call(th) \/ Answer(th)

Spec == Init /\ [][Next]_vars
=============================================================================
