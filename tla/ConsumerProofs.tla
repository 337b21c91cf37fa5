--------------------------- MODULE ConsumerProofs ---------------------------
(***************************************************************************)
(* Proofs about Consumer, for any number of workers, any rings, batches,   *)
(* keys and patterns and any finite set of topics.                         *)
(***************************************************************************)
EXTENDS Consumer, Counting

-----------------------------------------------------------------------------
(* Numbers *)

LEMMA WorkersFinite == IsFiniteSet(Workers) /\ Workers \subseteq Nat /\ Workers # {}
<1>1. IsFiniteSet(0 .. N - 1)
  BY ConstantsAssumption, FS_Interval
<1> QED
  BY <1>1, ConstantsAssumption DEF Workers

\* A remainder is the number of a worker.
LEMMA Remainder ==
    ASSUME NEW i \in Int
    PROVE  i % N \in Workers
  BY ConstantsAssumption DEF Workers

-----------------------------------------------------------------------------
(* The changes of a subscription table *)

\* g gives the table after the changes of q at the positions of any subset of S.
Tables(q, table, S, g) ==
    g = [s \in SUBSET S |->
           IF s = {} THEN table
           ELSE LET x == Max(s) IN Changed(g[s \ {x}], q[x])]

LEMMA TablesAgree ==
    ASSUME NEW q, NEW table, NEW A \in SUBSET Int, NEW B, NEW g, NEW h,
           Tables(q, table, A, g), Tables(q, table, B, h),
           NEW S, S \subseteq A, S \subseteq B, IsFiniteSet(S)
    PROVE  g[S] = h[S]
<1> DEFINE Bad == {s \in SUBSET S : g[s] # h[s]}
<1>1. SUFFICES ASSUME Bad # {} PROVE FALSE
  OBVIOUS
<1>2. PICK s \in Bad : \A u \in SUBSET s : u # s => u \notin Bad
  <2> HIDE DEF Bad
  <2>1. Bad \subseteq SUBSET S
    BY DEF Bad
  <2> QED
    BY <1>1, <2>1, MinimalSubset
<1>3. s \in SUBSET A /\ s \in SUBSET B /\ IsFiniteSet(s)
  BY <1>2, FS_Subset
<1>4. CASE s = {}
  BY <1>2, <1>3, <1>4 DEF Tables
<1>5. CASE s # {}
  <2> DEFINE x == Max(s)
  <2>1. x \in s
    BY <1>3, <1>5, Greatest
  <2>2. g[s] = Changed(g[s \ {x}], q[x]) /\ h[s] = Changed(h[s \ {x}], q[x])
    BY <1>3, <1>5 DEF Tables
  <2>3. g[s \ {x}] = h[s \ {x}]
    BY <1>2, <2>1
  <2> QED
    BY <1>2, <2>2, <2>3
<1> QED
  BY <1>4, <1>5

LEMMA TablesExist ==
    ASSUME NEW q, NEW table, NEW S \in SUBSET Int, IsFiniteSet(S)
    PROVE  \E g : Tables(q, table, S, g)
<1> DEFINE Bad == {T \in SUBSET S : ~ \E g : Tables(q, table, T, g)}
<1>1. SUFFICES ASSUME Bad # {} PROVE FALSE
  OBVIOUS
<1>2. PICK T \in Bad : \A U \in SUBSET T : U # T => U \notin Bad
  <2> HIDE DEF Bad
  <2>1. Bad \subseteq SUBSET S
    BY DEF Bad
  <2> QED
    BY <1>1, <2>1, MinimalSubset
<1>3. \A s \in SUBSET T : IsFiniteSet(s) /\ s \subseteq Int
  BY <1>2, FS_Subset
<1> DEFINE G(s) == CHOOSE g : Tables(q, table, s, g)
           Grown(s) == IF s = {} THEN table
                      ELSE LET x == Max(s) IN Changed(G(s \ {x})[s \ {x}], q[x])
           all == [s \in SUBSET T |-> Grown(s)]
<1>4. ASSUME NEW s \in SUBSET T, s # T PROVE Tables(q, table, s, G(s))
  <2>1. \E g : Tables(q, table, s, g)
    BY <1>2, <1>4
  <2> QED
    BY <2>1
<1>5. ASSUME NEW s \in SUBSET T, s # T PROVE G(s)[s] = Grown(s)
  <2>1. CASE s = {}
    <3>1. Tables(q, table, s, G(s))
      BY <1>4, <1>5
    <3> HIDE DEF G
    <3> QED
      BY <2>1, <3>1 DEF Tables
  <2>2. CASE s # {}
    <3> DEFINE x == Max(s)
    <3>1. x \in s
      BY <1>3, <2>2, Greatest
    <3>2. Tables(q, table, s, G(s)) /\ Tables(q, table, s \ {x}, G(s \ {x}))
      BY <1>4, <1>5, <3>1
    <3>3. IsFiniteSet(s \ {x}) /\ s \subseteq Int
      BY <1>3
    <3> HIDE DEF G
    <3>4. G(s)[s \ {x}] = G(s \ {x})[s \ {x}]
      BY <3>2, <3>3, TablesAgree
    <3>5. G(s)[s] = Changed(G(s)[s \ {x}], q[x])
      BY <2>2, <3>2 DEF Tables
    <3> QED
      BY <2>2, <3>4, <3>5
  <2> QED
    BY <2>1, <2>2
<1>6. Tables(q, table, T, all)
  <2> HIDE DEF G
  <2>1. ASSUME NEW s \in SUBSET T, s # {}
        PROVE  LET x == Max(s) IN Grown(s) = Changed(all[s \ {x}], q[x])
    <3> DEFINE x == Max(s)
    <3>1. x \in s
      BY <1>3, <2>1, Greatest
    <3>2. G(s \ {x})[s \ {x}] = Grown(s \ {x})
      BY <1>5, <3>1
    <3>3. all[s \ {x}] = Grown(s \ {x})
      OBVIOUS
    <3>4. Grown(s) = Changed(G(s \ {x})[s \ {x}], q[x])
      BY <2>1
    <3> HIDE DEF Grown, all
    <3> QED
      BY <3>2, <3>3, <3>4
  <2>2. Grown({}) = table
    OBVIOUS
  <2> HIDE DEF Grown
  <2> QED
    BY <2>1, <2>2 DEF Tables
<1> QED
  BY <1>2, <1>6

-----------------------------------------------------------------------------
(* Types *)

Frame == [topic : Topics, key : Keys \cup {NoKey}, id : Nat, settled : BOOLEAN, removals : Nat]
Change == [op : {"add", "remove"}, topic : Topics]
Local ==
    [state : {"running", "terminated", "exited", "crashed"}, table : SUBSET Topics,
     batch : Seq(Frame), empty : Nat, stats : Nat]
Gap == {g \in [last : Int, missing : Nat, reported : Nat] : g.reported <= g.missing}

ClientOK ==
    /\ mode \in Modes
    /\ phase \in {"connected", "broken", "stopping", "stopped"}
    /\ subs \subseteq Topics /\ pool \in BOOLEAN
    /\ gap \in [Topics -> Gap]
    /\ unsent \in Nat /\ rr \in Workers

ProcessesOK ==
    /\ ring \in [Workers -> Seq(Frame)]
    /\ subq \in [Workers -> Seq(Change)]
    /\ worker \in [Workers -> Local]
    /\ statsq \in Nat

ServerOK == server \in [seq : [Topics -> Nat], routes : SUBSET Topics, sent : [Topics -> Nat]]

HistoryOK ==
    /\ routed \in [Topics -> Nat] /\ refused \in [Topics -> Nat]
    /\ first \in [Topics -> Int] /\ removals \in [Topics -> Nat]
    /\ handled \subseteq Nat
    /\ told \in [Kinds -> Nat]

Typed == ClientOK /\ ProcessesOK /\ ServerOK /\ HistoryOK

\* Only topics get into a table, and a topic stays unless it is removed.
LEMMA TableAfter ==
    ASSUME NEW q \in Seq(Change), NEW table \in SUBSET Topics
    PROVE  /\ FoldLeft(Changed, table, q) \in SUBSET Topics
           /\ \A t \in table : (\A i \in 1 .. Len(q) : q[i].op = "remove" => q[i].topic # t)
                                 => t \in FoldLeft(Changed, table, q)
<1> DEFINE D == 1 .. Len(q)
           g == CHOOSE g : Tables(q, table, D, g)
<1>1. Len(q) \in Nat /\ DOMAIN q = D
  BY LenProperties
<1>2. IsFiniteSet(D) /\ D \in SUBSET Int
  <2>1. Len(q) \in Int /\ 1 \in Int
    BY <1>1
  <2> QED
    BY <2>1, FS_Interval
<1>3. FoldLeft(Changed, table, q) = g[D]
  BY <1>1 DEF FoldLeft, MapThenFoldSet, Tables
<1>4. Tables(q, table, D, g)
  <2> HIDE DEF D
  <2>1. \E h : Tables(q, table, D, h)
    BY <1>2, TablesExist
  <2> QED
    BY <2>1
<1> HIDE DEF g
<1> DEFINE Kept(t) == t \in table /\ \A i \in D : q[i].op = "remove" => q[i].topic # t
           Good(s) == g[s] \in SUBSET Topics /\ \A t \in table : Kept(t) => t \in g[s]
           Bad == {s \in SUBSET D : ~Good(s)}
<1>5. Bad = {}
  <2>1. SUFFICES ASSUME Bad # {} PROVE FALSE
    OBVIOUS
  <2>2. PICK s \in Bad : \A u \in SUBSET s : u # s => u \notin Bad
    <3> HIDE DEF Bad
    <3>1. Bad \subseteq SUBSET D
      BY DEF Bad
    <3> QED
      BY <1>2, <2>1, <3>1, MinimalSubset
  <2>3. s \in SUBSET D /\ IsFiniteSet(s)
    BY <1>2, <2>2, FS_Subset
  <2>4. s # {}
    <3>1. g[{}] = table
      BY <1>4 DEF Tables
    <3> QED
      BY <2>2, <3>1
  <2> DEFINE x == Max(s)
  <2>5. x \in s /\ x \in D
    BY <1>2, <2>3, <2>4, Greatest
  <2>6. g[s] = Changed(g[s \ {x}], q[x])
    BY <1>4, <2>3, <2>4 DEF Tables
  <2>7. q[x] \in Change
    BY <2>5, ElementOfSeq
  <2>8. Good(s \ {x})
    BY <2>2, <2>3, <2>5
  <2> HIDE DEF x
  <2>9. Good(s)
    <3>1. g[s] \in SUBSET Topics
      BY <2>6, <2>7, <2>8 DEF Changed, Change
    <3>2. ASSUME NEW t \in table, Kept(t) PROVE t \in g[s]
      <4>1. t \in g[s \ {x}] /\ (q[x].op = "remove" => q[x].topic # t)
        BY <2>5, <2>8, <3>2
      <4> QED
        BY <2>6, <2>7, <4>1 DEF Changed, Change
    <3> QED
      BY <3>1, <3>2
  <2> QED
    BY <2>2, <2>9
<1>6. Good(D)
  BY <1>5
<1> QED
  BY <1>3, <1>6

LEMMA TargetType ==
    ASSUME Typed, NEW f, RouteKey(f) \in Topics \cup Keys
    PROVE  Target(f) \in Workers
<1>1. rr \in Nat /\ ring \in [Workers -> Seq(Frame)]
  BY WorkersFinite DEF Typed, ClientOK, ProcessesOK
<1>2. CASE mode = "none"
  <2> DEFINE from(k) == (rr + k) % N
             Lens == {Len(ring[w]) : w \in Workers}
             Shorts == {j \in 0 .. N - 1 : Len(ring[from(j)]) = Shortest}
  <2>1. \A w \in Workers : Len(ring[w]) \in Nat
    <3>1. ASSUME NEW w \in Workers PROVE Len(ring[w]) \in Nat
      <4>1. ring[w] \in Seq(Frame)
        BY <1>1
      <4> QED
        BY <4>1, LenProperties
    <3> QED
      BY <3>1
  <2>2. Shortest \in Lens
    <3>1. Lens \in SUBSET Nat /\ Lens # {}
      BY <2>1, WorkersFinite
    <3> HIDE DEF Lens
    <3>2. Min(Lens) \in Lens
      BY <3>1, Least
    <3> QED
      BY <3>2 DEF Shortest, Lens
  <2>3. Shorts # {}
    <3>1. PICK w \in Workers : Len(ring[w]) = Shortest
      BY <2>2
    <3>2. \E j \in 0 .. N - 1 : (rr + j) % N = w
      <4>1. rr \in 0 .. N - 1 /\ w \in 0 .. N - 1 /\ N \in Nat \ {0}
        BY ConstantsAssumption DEF Typed, ClientOK, Workers
      <4>2. CASE w >= rr
        <5>1. w - rr \in 0 .. N - 1 /\ rr + (w - rr) = w /\ w % N = w
          BY <4>1, <4>2
        <5> QED
          BY <5>1
      <4>3. CASE w < rr
        <5>1. w - rr + N \in 0 .. N - 1 /\ rr + (w - rr + N) = w + N /\ (w + N) % N = w
          BY <4>1, <4>3
        <5> QED
          BY <5>1
      <4> QED
        BY <4>1, <4>2, <4>3
    <3> QED
      BY <3>1, <3>2
  <2>4. Min(Shorts) \in Shorts
    <3>1. Shorts \in SUBSET Nat
      BY ConstantsAssumption
    <3> HIDE DEF Shorts
    <3> QED
      BY <2>3, <3>1, Least
  <2>5. LeastLoaded = from(Min(Shorts))
    BY DEF LeastLoaded
  <2>6. Min(Shorts) \in Int
    BY <2>4
  <2> HIDE DEF Shorts
  <2>7. from(Min(Shorts)) \in Workers
    <3>1. rr + Min(Shorts) \in Int
      BY <1>1, <2>6
    <3> QED
      BY <3>1, Remainder
  <2> QED
    BY <1>2, <2>5, <2>7 DEF Target
<1>3. CASE mode # "none"
  BY <1>3, ConstantsAssumption DEF Target
<1> QED
  BY <1>2, <1>3

\* A sequence cut in two.
LEMMA Parts ==
    ASSUME NEW T, NEW q \in Seq(T), NEW n \in 0 .. Len(q)
    PROVE  /\ SubSeq(q, 1, n) \in Seq(T) /\ SubSeq(q, n + 1, Len(q)) \in Seq(T)
           /\ Len(SubSeq(q, 1, n)) = n /\ Len(SubSeq(q, n + 1, Len(q))) = Len(q) - n
           /\ \A i \in 1 .. n : SubSeq(q, 1, n)[i] = q[i]
           /\ \A i \in 1 .. Len(q) - n : SubSeq(q, n + 1, Len(q))[i] = q[i + n]
           /\ SubSeq(q, 1, n) \o SubSeq(q, n + 1, Len(q)) = q
<1> DEFINE l == Len(q)
<1>1. l \in Nat /\ n \in Nat /\ n <= l
  BY LenProperties
<1>2. \A i \in 1 .. l : q[i] \in T
  BY ElementOfSeq
<1> HIDE DEF l
<1>3. \A i \in 1 .. n : q[i] \in T
  BY <1>1, <1>2
<1>4. \A i \in n + 1 .. l : q[i] \in T
  BY <1>1, <1>2
<1>5. /\ SubSeq(q, 1, n) \in Seq(T)
      /\ Len(SubSeq(q, 1, n)) = IF 1 <= n THEN n - 1 + 1 ELSE 0
      /\ \A i \in 1 .. n - 1 + 1 : SubSeq(q, 1, n)[i] = q[1 + i - 1]
  BY <1>1, <1>3, SubSeqProperties
<1>6. /\ SubSeq(q, n + 1, l) \in Seq(T)
      /\ Len(SubSeq(q, n + 1, l)) = IF n + 1 <= l THEN l - (n + 1) + 1 ELSE 0
      /\ \A i \in 1 .. l - (n + 1) + 1 : SubSeq(q, n + 1, l)[i] = q[n + 1 + i - 1]
  BY <1>1, <1>4, SubSeqProperties
<1>7. Len(SubSeq(q, 1, n)) = n /\ Len(SubSeq(q, n + 1, l)) = l - n
  BY <1>1, <1>5, <1>6
<1>8. ASSUME NEW i \in 1 .. n PROVE SubSeq(q, 1, n)[i] = q[i]
  <2>1. i \in 1 .. n - 1 + 1 /\ 1 + i - 1 = i
    BY <1>1
  <2> QED
    BY <1>5, <2>1
<1>9. ASSUME NEW i \in 1 .. l - n PROVE SubSeq(q, n + 1, l)[i] = q[i + n]
  <2>1. i \in 1 .. l - (n + 1) + 1 /\ n + 1 + i - 1 = i + n
    BY <1>1
  <2> QED
    BY <1>6, <2>1
<1>10. SubSeq(q, 1, n) \o SubSeq(q, n + 1, l) = q
  <2>1. 1 \in 1 .. l + 1 /\ n \in 1 - 1 .. l /\ l \in n .. l
    BY <1>1
  <2>2. SubSeq(q, 1, n) \o SubSeq(q, n + 1, l) = SubSeq(q, 1, l)
    BY <2>1, ConcatAdjacentSubSeq DEF l
  <2> QED
    BY <2>2, SubSeqFull DEF l
<1> QED
  BY <1>5, <1>6, <1>7, <1>8, <1>9, <1>10 DEF l

LEMMA SumsNat ==
    ASSUME Typed
    PROVE  /\ Total(routed) \in Nat /\ Total(refused) \in Nat /\ Total(server.sent) \in Nat
           /\ NewGaps \in Nat
           /\ Total([t \in Topics |-> gap[t].missing]) \in Nat
           /\ Total([w \in Workers |-> worker[w].stats]) \in Nat
<1>1. /\ routed \in [Topics -> Nat] /\ refused \in [Topics -> Nat]
      /\ server.sent \in [Topics -> Nat]
      /\ gap \in [Topics -> Gap] /\ worker \in [Workers -> Local]
  BY DEF Typed, ClientOK, ProcessesOK, ServerOK, HistoryOK
<1>2. /\ [t \in Topics |-> gap[t].missing - gap[t].reported] \in [Topics -> Nat]
      /\ [t \in Topics |-> gap[t].missing] \in [Topics -> Nat]
  BY <1>1 DEF Gap
<1>3. [w \in Workers |-> worker[w].stats] \in [Workers -> Nat]
  BY <1>1 DEF Local
<1>4. IsFiniteSet(Topics)
  BY ConstantsAssumption
<1>5. IsFiniteSet(Workers)
  BY WorkersFinite
<1>6. \A f \in [Topics -> Nat] : Total(f) \in Nat
  BY <1>4, TotalType DEF Total
<1>7. \A f \in [Workers -> Nat] : Total(f) \in Nat
  BY <1>5, TotalType DEF Total
<1> QED
  BY <1>1, <1>2, <1>3, <1>6, <1>7 DEF NewGaps

\* What _process_batch() does to the gap record of a topic.
LEMMA TrackedIs ==
    ASSUME NEW g \in Gap, NEW n \in Nat \ {0}, NEW ok \in BOOLEAN
    PROVE  LET new == Tracked(g, n, ok)
           IN /\ new \in Gap /\ new.reported = g.reported
              /\ new.missing = g.missing + (IF g.last # NoSeq /\ n > g.last + 1 THEN n - g.last - 1 ELSE 0)
              /\ new.last = IF g.last = NoSeq \/ n >= g.last THEN (IF ok THEN n ELSE n - 1) ELSE g.last
<1> DEFINE last == IF g.last = NoSeq \/ n > g.last THEN n ELSE g.last
           jump == IF g.last # NoSeq /\ n > g.last + 1 THEN n - g.last - 1 ELSE 0
           new == IF ~ok /\ last = n THEN n - 1 ELSE last
<1>1. Tracked(g, n, ok) = [g EXCEPT !.missing = @ + jump, !.last = new]
  BY DEF Tracked
<1>2. g \in [last : Int, missing : Nat, reported : Nat] /\ g.reported <= g.missing
  BY DEF Gap
<1>3. jump \in Nat /\ last \in Int
  BY <1>2
<1>4. new = IF g.last = NoSeq \/ n >= g.last THEN (IF ok THEN n ELSE n - 1) ELSE g.last
  BY <1>2
<1>5. new \in Int
  BY <1>3
<1> HIDE DEF last, new
<1> DEFINE j == jump
<1>6. /\ Tracked(g, n, ok) = [last |-> new, missing |-> g.missing + j, reported |-> g.reported]
      /\ g.missing + j \in Nat /\ g.reported <= g.missing + j
  <2>1. j \in Nat
    BY <1>3
  <2>2. Tracked(g, n, ok) = [g EXCEPT !.missing = @ + j, !.last = new]
    BY <1>1
  <2> HIDE DEF j
  <2>3. [g EXCEPT !.missing = @ + j, !.last = new]
          = [last |-> new, missing |-> g.missing + j, reported |-> g.reported]
    <3> DEFINE m == g.missing + j
               e == [g EXCEPT !.missing = m, !.last = new]
               r == [last |-> new, missing |-> m, reported |-> g.reported]
    <3>1. DOMAIN e = DOMAIN r
      BY <1>2
    <3>2. e.last = r.last /\ e.missing = r.missing /\ e.reported = r.reported
      BY <1>2
    <3> QED
      BY <1>2, <3>1, <3>2
  <2>4. g.missing \in Nat /\ g.reported \in Nat
    BY <1>2
  <2> QED
    BY <1>2, <2>1, <2>2, <2>3, <2>4
<1> HIDE DEF j
<1>7. Tracked(g, n, ok) \in Gap
  BY <1>2, <1>5, <1>6 DEF Gap
<1> QED
  BY <1>4, <1>6, <1>7 DEF j

NoRemoval(q, t) == \A i \in 1 .. Len(q) : q[i].op = "remove" => q[i].topic # t

\* What _drain_subs() does.
LEMMA Drained ==
    ASSUME Typed, NEW w \in Workers, NEW local \in Local, local.table = worker[w].table,
           DrainSubs(w, local)
    PROVE  /\ \E table \in SUBSET Topics :
                /\ worker' = [worker EXCEPT ![w] = [local EXCEPT !.table = table]]
                /\ \A t \in worker[w].table : NoRemoval(subq[w], t) => t \in table
           /\ \E rest \in Seq(Change) :
                /\ subq' = [subq EXCEPT ![w] = rest]
                /\ \A t \in Topics : NoRemoval(subq[w], t) => NoRemoval(rest, t)
<1> DEFINE q == subq[w]
           l == Len(q)
<1>1. subq \in [Workers -> Seq(Change)] /\ worker \in [Workers -> Local]
  BY DEF Typed, ProcessesOK
<1>2. q \in Seq(Change) /\ worker[w].table \in SUBSET Topics
  BY <1>1 DEF Local
<1>3. l \in Nat
  BY <1>2, LenProperties
<1>4. PICK n \in 0 .. l :
        /\ worker' = [worker EXCEPT ![w] =
                        [local EXCEPT !.table = FoldLeft(Changed, @, SubSeq(q, 1, n))]]
        /\ subq' = [subq EXCEPT ![w] = SubSeq(@, n + 1, Len(@))]
  BY DEF DrainSubs, Moves
<1> DEFINE done == SubSeq(q, 1, n)
           rest == SubSeq(q, n + 1, l)
           table == FoldLeft(Changed, worker[w].table, done)
<1>5. /\ done \in Seq(Change) /\ rest \in Seq(Change)
      /\ Len(done) = n /\ Len(rest) = l - n
      /\ \A i \in 1 .. n : done[i] = q[i]
      /\ \A i \in 1 .. l - n : rest[i] = q[i + n]
  BY <1>2, Parts
<1>6. worker' = [worker EXCEPT ![w] = [local EXCEPT !.table = table]]
  BY <1>4
<1>7. subq' = [subq EXCEPT ![w] = rest]
  BY <1>1, <1>4
<1> HIDE DEF l, q
<1>8. ASSUME NEW t \in Topics, NoRemoval(q, t) PROVE NoRemoval(rest, t) /\ NoRemoval(done, t)
  <2> HIDE DEF rest, done
  <2>1. \A i \in 1 .. l - n : i + n \in 1 .. l
    BY <1>3
  <2>2. \A i \in 1 .. n : i \in 1 .. l
    BY <1>3
  <2>3. \A i \in 1 .. l : q[i].op = "remove" => q[i].topic # t
    BY <1>8 DEF NoRemoval, l
  <2> QED
    BY <1>5, <2>1, <2>2, <2>3 DEF NoRemoval
<1>9. table \in SUBSET Topics
  BY <1>2, <1>5, TableAfter
<1>10. ASSUME NEW t \in worker[w].table, NoRemoval(q, t) PROVE t \in table
  <2>1. NoRemoval(done, t)
    BY <1>2, <1>8, <1>10
  <2> HIDE DEF done
  <2> QED
    BY <1>2, <1>5, <2>1, TableAfter DEF NoRemoval
<1> HIDE DEF table, rest
<1> QED
  BY <1>5, <1>6, <1>7, <1>8, <1>9, <1>10 DEF q

-----------------------------------------------------------------------------
(* The types are kept *)

LEMMA FreshType == \A table \in SUBSET Topics : Fresh(table) \in Local
<1>1. <<>> \in Seq(Frame)
  BY EmptySeq
<1> QED
  BY <1>1 DEF Fresh, Local

LEMMA TypedInit == Init => Typed
<1> SUFFICES ASSUME Init PROVE Typed
  OBVIOUS
<1>1. Initial \in SUBSET Topics /\ IsFiniteSet(Topics)
  BY ConstantsAssumption
<1>2. <<>> \in Seq(Frame) /\ <<>> \in Seq(Change)
  BY EmptySeq
<1>3. ClientOK
  <2>1. [last |-> NoSeq, missing |-> 0, reported |-> 0] \in Gap
    BY DEF Gap, NoSeq
  <2>2. 0 \in Workers
    BY ConstantsAssumption DEF Workers
  <2> QED
    BY <1>1, <2>1, <2>2 DEF Init, ClientOK
<1>4. ProcessesOK
  <2>1. Fresh(Initial) \in Local
    BY <1>1, FreshType
  <2> QED
    BY <1>2, <2>1 DEF Init, ProcessesOK
<1>5. ServerOK
  BY <1>1 DEF Init, ServerOK
<1>6. HistoryOK
  BY DEF Init, HistoryOK, Nothing, NoSeq
<1> QED
  BY <1>3, <1>4, <1>5, <1>6 DEF Typed

LEMMA SentType ==
    ASSUME Typed, NEW t \in Topics, Sent(t)
    PROVE  /\ ServerOK' /\ server'.seq = [server.seq EXCEPT ![t] = @ + 1]
           /\ server'.sent = [server.sent EXCEPT ![t] = @ + 1]
           /\ server'.routes = server.routes
<1>1. server \in [seq : [Topics -> Nat], routes : SUBSET Topics, sent : [Topics -> Nat]]
  BY DEF Typed, ServerOK
<1> DEFINE n == [server.seq EXCEPT ![t] = @ + 1]
           m == [server.sent EXCEPT ![t] = @ + 1]
<1>2. n \in [Topics -> Nat] /\ m \in [Topics -> Nat]
  BY <1>1
<1>3. server' = [server EXCEPT !.seq = n, !.sent = m]
  BY <1>1 DEF Sent
<1> HIDE DEF n, m
<1>4. server'.seq = n /\ server'.sent = m /\ server'.routes = server.routes
  BY <1>1, <1>3
<1>5. ServerOK'
  BY <1>1, <1>2, <1>3 DEF ServerOK
<1> QED
  BY <1>4, <1>5 DEF n, m

LEMMA AcceptedType ==
    ASSUME Typed, NEW t \in Topics, NEW k \in Keys \cup {NoKey}, NEW n, NEW w \in Workers
    PROVE  Accepted([topic |-> t, key |-> k, seq |-> n], w) \in Frame
<1>1. Total(routed) \in Nat /\ removals[t] \in Nat
  BY SumsNat DEF Typed, HistoryOK
<1>2. Settled(w, t) \in BOOLEAN
  BY DEF Settled
<1> QED
  BY <1>1, <1>2 DEF Accepted, Frame

\* What is received, and where it goes.
Came(t, k) == [topic |-> t, key |-> k, seq |-> server.seq[t] + 1]

LEMMA ReceiveIs ==
    ASSUME Typed, NEW t \in Topics, NEW k \in Keys \cup {NoKey}, Receive(t, k)
    PROVE  /\ Target(Came(t, k)) \in Workers /\ Accepted(Came(t, k), Target(Came(t, k))) \in Frame
           /\ \E ok \in BOOLEAN :
                /\ ok = (pool => RoomIn(Target(Came(t, k))))
                /\ gap' = [gap EXCEPT ![t] = Tracked(@, server.seq[t] + 1, ok)]
                /\ ring' = IF pool /\ ok
                           THEN [ring EXCEPT ![Target(Came(t, k))] =
                                   Append(@, Accepted(Came(t, k), Target(Came(t, k))))]
                           ELSE ring
                /\ unsent' = IF ok THEN unsent ELSE unsent + 1
                /\ routed' = IF ok THEN [routed EXCEPT ![t] = @ + 1] ELSE routed
                /\ refused' = IF ok THEN refused ELSE [refused EXCEPT ![t] = @ + 1]
                /\ first' = [first EXCEPT ![t] = IF @ = NoSeq THEN server.seq[t] + 1 ELSE @]
<1>1. RouteKey(Came(t, k)) \in Topics \cup Keys
  BY DEF RouteKey, Came
<1>2. Target(Came(t, k)) \in Workers
  BY <1>1, TargetType
<1>3. Accepted(Came(t, k), Target(Came(t, k))) \in Frame
  BY <1>2, AcceptedType DEF Came
<1>4. (pool => RoomIn(Target(Came(t, k)))) \in BOOLEAN
  OBVIOUS
<1> QED
  BY <1>2, <1>3, <1>4 DEF Receive, Came

LEMMA ReceiveTyped ==
    ASSUME Typed, NEW t \in Topics, NEW k \in Keys \cup {NoKey}, Receive(t, k)
    PROVE  Typed'
<1> DEFINE w == Target(Came(t, k))
           new == Accepted(Came(t, k), w)
<1>1. w \in Workers /\ new \in Frame
  BY ReceiveIs
<1>2. PICK ok \in BOOLEAN :
        /\ gap' = [gap EXCEPT ![t] = Tracked(@, server.seq[t] + 1, ok)]
        /\ ring' = IF pool /\ ok THEN [ring EXCEPT ![w] = Append(@, new)] ELSE ring
        /\ unsent' = IF ok THEN unsent ELSE unsent + 1
        /\ routed' = IF ok THEN [routed EXCEPT ![t] = @ + 1] ELSE routed
        /\ refused' = IF ok THEN refused ELSE [refused EXCEPT ![t] = @ + 1]
        /\ first' = [first EXCEPT ![t] = IF @ = NoSeq THEN server.seq[t] + 1 ELSE @]
  BY ReceiveIs
<1>3. ServerOK'
  BY SentType DEF Receive
<1>4. server.seq[t] \in Nat /\ server.seq[t] + 1 \in Nat \ {0}
  BY DEF Typed, ServerOK
<1> HIDE DEF w, new
<1>5. gap' \in [Topics -> Gap]
  <2>1. gap \in [Topics -> Gap]
    BY DEF Typed, ClientOK
  <2>2. gap[t] \in Gap
    BY <2>1
  <2>3. Tracked(gap[t], server.seq[t] + 1, ok) \in Gap
    BY <1>4, <2>2, TrackedIs
  <2> QED
    BY <1>2, <2>1, <2>3
<1>6. rr' \in Workers
  <2>1. rr \in Workers /\ rr \in Int
    BY WorkersFinite DEF Typed, ClientOK
  <2>2. rr' = rr \/ rr' = (rr + 1) % N
    BY DEF Receive
  <2>3. rr + 1 \in Int
    BY <2>1
  <2> QED
    BY <2>1, <2>2, <2>3, Remainder
<1>7. ring' \in [Workers -> Seq(Frame)]
  <2>1. ring \in [Workers -> Seq(Frame)]
    BY DEF Typed, ProcessesOK
  <2>2. Append(ring[w], new) \in Seq(Frame)
    BY <1>1, <2>1, AppendProperties
  <2> QED
    BY <1>2, <2>1, <2>2
<1>8. ClientOK'
  BY <1>2, <1>5, <1>6 DEF Typed, ClientOK, Receive
<1>9. ProcessesOK'
  BY <1>7 DEF Typed, ProcessesOK, Receive
<1>10. HistoryOK'
  <2>1. HistoryOK
    BY DEF Typed
  <2>2. UNCHANGED <<removals, handled, told>>
    BY DEF Receive
  <2>3. routed' \in [Topics -> Nat] /\ refused' \in [Topics -> Nat]
    BY <1>2, <2>1 DEF HistoryOK
  <2>4. first' \in [Topics -> Int]
    BY <1>2, <1>4, <2>1 DEF HistoryOK
  <2> QED
    BY <2>1, <2>2, <2>3, <2>4 DEF HistoryOK
<1> QED
  BY <1>3, <1>8, <1>9, <1>10 DEF Typed

LEMMA HeartbeatTyped ==
    ASSUME Typed, Heartbeat
    PROVE  Typed'
<1>1. NewGaps \in Nat /\ unsent \in Nat /\ statsq \in Nat /\ told \in [Kinds -> Nat]
  BY SumsNat DEF Typed, ClientOK, ProcessesOK, HistoryOK
<1>2. PICK stats \in {0, statsq} :
        /\ statsq' = statsq - stats
        /\ told' = Plus(told, [gaps |-> NewGaps, drops |-> unsent, proc |-> stats])
  BY DEF Heartbeat
<1>3. statsq' \in Nat
  BY <1>1, <1>2
<1>4. told' \in [Kinds -> Nat]
  <2>1. stats \in Nat
    BY <1>1, <1>2
  <2>2. \A k \in Kinds : told[k] \in Nat /\ [gaps |-> NewGaps, drops |-> unsent, proc |-> stats][k] \in Nat
    BY <1>1, <2>1 DEF Kinds
  <2> QED
    BY <1>2, <2>2 DEF Plus
<1>5. gap' \in [Topics -> Gap]
  <2>1. gap \in [Topics -> Gap] /\ gap' = Marked(gap)
    BY DEF Typed, ClientOK, Heartbeat
  <2>2. ASSUME NEW t \in Topics PROVE [gap[t] EXCEPT !.reported = gap[t].missing] \in Gap
    BY <2>1 DEF Gap
  <2> QED
    BY <2>1, <2>2 DEF Marked
<1>6. ClientOK'
  BY <1>5 DEF Typed, ClientOK, Heartbeat
<1>7. ProcessesOK'
  BY <1>3 DEF Typed, ProcessesOK, Heartbeat
<1>8. HistoryOK'
  BY <1>4 DEF Typed, HistoryOK, Heartbeat
<1> QED
  BY <1>6, <1>7, <1>8 DEF Typed, ServerOK, Heartbeat

LEMMA TellType ==
    ASSUME Typed, NEW op \in {"add", "remove"}, NEW t \in Topics
    PROVE  Tell(op, t) \in [Workers -> Seq(Change)]
<1>1. [op |-> op, topic |-> t] \in Change
  BY DEF Change
<1>2. ASSUME NEW w \in Workers PROVE Append(subq[w], [op |-> op, topic |-> t]) \in Seq(Change)
  <2>1. subq[w] \in Seq(Change)
    BY DEF Typed, ProcessesOK
  <2> QED
    BY <1>1, <2>1, AppendProperties
<1> QED
  BY <1>2 DEF Tell

LEMMA AskType ==
    ASSUME Typed, NEW routes \in SUBSET Topics, Ask(routes)
    PROVE  ServerOK' /\ server'.seq = server.seq /\ server'.sent = server.sent
<1>1. server' = server \/ server' = [server EXCEPT !.routes = routes]
  BY DEF Ask
<1> QED
  BY <1>1 DEF Typed, ServerOK

LEMMA CallsTyped ==
    ASSUME Typed, NEW t \in Topics, Subscribe(t) \/ Unsubscribe(t)
    PROVE  Typed'
<1>1. CASE Subscribe(t)
  <2>1. ServerOK'
    <3>1. server.routes \cup {t} \in SUBSET Topics
      BY DEF Typed, ServerOK
    <3> QED
      BY <1>1, <3>1, AskType DEF Subscribe
  <2>2. subs' \in SUBSET Topics /\ pool' \in BOOLEAN
    BY <1>1 DEF Typed, ClientOK, Subscribe
  <2>3. subq' \in [Workers -> Seq(Change)]
    <3>1. subq' = subq \/ subq' = Tell("add", t)
      BY <1>1 DEF Subscribe
    <3> QED
      BY <3>1, TellType DEF Typed, ProcessesOK
  <2>4. worker' \in [Workers -> Local]
    <3>1. worker' = worker \/ worker' = [w \in Workers |-> Fresh(subs')]
      BY <1>1 DEF Subscribe
    <3>2. Fresh(subs') \in Local
      BY <2>2, FreshType
    <3> QED
      BY <3>1, <3>2 DEF Typed, ProcessesOK
  <2>5. ClientOK'
    BY <1>1, <2>2 DEF Typed, ClientOK, Subscribe
  <2>6. ProcessesOK'
    BY <1>1, <2>3, <2>4 DEF Typed, ProcessesOK, Subscribe
  <2>7. HistoryOK'
    BY <1>1 DEF Typed, HistoryOK, Subscribe, history
  <2> QED
    BY <2>1, <2>5, <2>6, <2>7 DEF Typed
<1>2. CASE Unsubscribe(t)
  <2>1. ServerOK'
    <3>1. server.routes \ {t} \in SUBSET Topics
      BY DEF Typed, ServerOK
    <3> QED
      BY <1>2, <3>1, AskType DEF Unsubscribe
  <2>2. subq' \in [Workers -> Seq(Change)]
    <3>1. subq' = subq \/ subq' = Tell("remove", t)
      BY <1>2 DEF Unsubscribe
    <3> QED
      BY <3>1, TellType DEF Typed, ProcessesOK
  <2>3. ClientOK'
    BY <1>2 DEF Typed, ClientOK, Unsubscribe
  <2>4. ProcessesOK'
    BY <1>2, <2>2 DEF Typed, ProcessesOK, Unsubscribe
  <2>5. HistoryOK'
    BY <1>2 DEF Typed, HistoryOK, Unsubscribe
  <2> QED
    BY <2>1, <2>3, <2>4, <2>5 DEF Typed
<1> QED
  BY <1>1, <1>2

LEMMA ConnectionTyped ==
    ASSUME Typed, \/ Break \/ Restore \/ Stop \/ ServerRestarts
                  \/ \E t \in Topics : FrameLost(t)
    PROVE  Typed'
<1>1. CASE Break \/ Stop
  BY <1>1 DEF Typed, ClientOK, ProcessesOK, ServerOK, HistoryOK, Break, Stop, history, processes,
              outside, client
<1>2. CASE Restore \/ ServerRestarts
  <2>1. ServerOK'
    <3>1. CASE Restore
      BY <3>1 DEF Typed, ClientOK, ServerOK, Restore
    <3>2. CASE ServerRestarts
      <4>1. [t \in Topics |-> 0] \in [Topics -> Nat] /\ {} \in SUBSET Topics
        OBVIOUS
      <4> QED
        BY <3>2, <4>1 DEF Typed, ServerOK, ServerRestarts
    <3> QED
      BY <1>2, <3>1, <3>2
  <2> QED
    BY <1>2, <2>1 DEF Typed, ClientOK, ProcessesOK, HistoryOK, Restore, ServerRestarts, history,
                      processes, outside, client
<1>3. ASSUME NEW t \in Topics, FrameLost(t) PROVE Typed'
  <2>1. ServerOK'
    BY <1>3, SentType DEF FrameLost
  <2> QED
    BY <1>3, <2>1 DEF Typed, ClientOK, ProcessesOK, HistoryOK, FrameLost, history,
                      processes, outside, client
<1> QED
  BY <1>1, <1>2, <1>3

LEMMA KilledType ==
    ASSUME Typed, NEW w \in Workers, NEW how \in {"terminated", "crashed"}
    PROVE  Killed(w, how) \in Local
<1>1. <<>> \in Seq(Frame)
  BY EmptySeq
<1>2. worker[w] \in Local
  BY DEF Typed, ProcessesOK
<1> QED
  BY <1>1, <1>2 DEF Killed, Local

LEMMA CloseTyped ==
    ASSUME Typed, Close
    PROVE  Typed'
<1>1. worker' \in [Workers -> Local]
  BY KilledType DEF Typed, ProcessesOK, Close
<1>2. ring' \in [Workers -> Seq(Frame)]
  BY EmptySeq DEF Close
<1>3. told' \in [Kinds -> Nat]
  <2> DEFINE n == Total([w \in Workers |-> worker[w].stats])
  <2>1. n \in Nat /\ told' = [told EXCEPT !["proc"] = @ + n] /\ told \in [Kinds -> Nat]
    BY SumsNat DEF Close, Typed, HistoryOK
  <2> HIDE DEF n
  <2> QED
    BY <2>1 DEF Kinds
<1> QED
  BY <1>1, <1>2, <1>3 DEF Typed, ClientOK, ProcessesOK, ServerOK, HistoryOK, Close, outside

LEMMA WorkerTyped ==
    ASSUME Typed, NEW w \in Workers, WorkerStep(w) \/ Crash(w)
    PROVE  Typed'
<1>1. /\ worker \in [Workers -> Local] /\ worker[w] \in Local
      /\ ring \in [Workers -> Seq(Frame)] /\ ring[w] \in Seq(Frame)
      /\ subq \in [Workers -> Seq(Change)] /\ statsq \in Nat
  BY DEF Typed, ProcessesOK
<1>2. ASSUME NEW local \in Local, local.table = worker[w].table, DrainSubs(w, local)
      PROVE  worker' \in [Workers -> Local] /\ subq' \in [Workers -> Seq(Change)]
  <2>1. PICK table \in SUBSET Topics :
          /\ worker' = [worker EXCEPT ![w] = [local EXCEPT !.table = table]]
          /\ \A t \in worker[w].table : NoRemoval(subq[w], t) => t \in table
    BY <1>2, Drained, Zenon
  <2>2. PICK rest \in Seq(Change) :
          /\ subq' = [subq EXCEPT ![w] = rest]
          /\ \A t \in Topics : NoRemoval(subq[w], t) => NoRemoval(rest, t)
    BY <1>2, Drained, Zenon
  <2>3. [local EXCEPT !.table = table] \in Local
    BY <1>2 DEF Local
  <2> QED
    BY <1>1, <2>1, <2>2, <2>3
<1>3. CASE ReadRing(w)
  <2> DEFINE n == Min({BatchMax, Len(ring[w])})
             batch == SubSeq(ring[w], 1, n)
             local == [worker[w] EXCEPT !.empty = 0, !.batch = batch]
  <2>1. n \in 0 .. Len(ring[w])
    <3>1. BatchMax \in Nat /\ Len(ring[w]) \in Nat
      BY <1>1, LenProperties, ConstantsAssumption
    <3> QED
      BY <3>1, Smaller
  <2>2. batch \in Seq(Frame) /\ SubSeq(ring[w], n + 1, Len(ring[w])) \in Seq(Frame)
    BY <1>1, <2>1, Parts
  <2>3. /\ DrainSubs(w, local)
        /\ ring' = [ring EXCEPT ![w] = SubSeq(ring[w], n + 1, Len(ring[w]))]
    BY <1>1, <1>3 DEF ReadRing
  <2>4. local \in Local /\ local.table = worker[w].table
    <3> HIDE DEF batch
    <3> QED
      BY <1>1, <2>2 DEF Local
  <2> HIDE DEF local
  <2>5. ProcessesOK'
    BY <1>1, <1>2, <1>3, <2>2, <2>3, <2>4 DEF ProcessesOK, ReadRing
  <2> QED
    BY <1>3, <2>5 DEF Typed, ReadRing, ClientOK, ServerOK, HistoryOK, client, outside, history
<1>4. CASE Poll(w)
  <2> DEFINE local == [worker[w] EXCEPT !.empty = IF Leave(w) THEN @ + 1 ELSE @]
  <2>1. DrainSubs(w, local)
    BY <1>4 DEF Poll
  <2>2. local \in Local /\ local.table = worker[w].table
    <3> DEFINE n == IF Leave(w) THEN worker[w].empty + 1 ELSE worker[w].empty
    <3>1. n \in Nat /\ local = [worker[w] EXCEPT !.empty = n]
      BY <1>1 DEF Local
    <3> HIDE DEF n, local
    <3> QED
      BY <1>1, <3>1 DEF Local
  <2> HIDE DEF local
  <2>3. ProcessesOK'
    BY <1>1, <1>2, <1>4, <2>1, <2>2 DEF ProcessesOK, Poll
  <2> QED
    BY <1>4, <2>3 DEF Typed, Poll, ClientOK, ServerOK, HistoryOK, client, outside, history
<1>5. CASE Exit(w)
  <2> DEFINE local == [worker[w] EXCEPT !.state = "exited", !.stats = 0]
  <2>1. DrainSubs(w, local)
    BY <1>5 DEF Exit
  <2>2. local \in Local /\ local.table = worker[w].table
    BY <1>1 DEF Local
  <2>3. statsq' \in Nat
    BY <1>1, <1>5 DEF Exit, Local
  <2> HIDE DEF local
  <2>4. ProcessesOK'
    BY <1>1, <1>2, <1>5, <2>1, <2>2, <2>3 DEF ProcessesOK, Exit
  <2> QED
    BY <1>5, <2>4 DEF Typed, Exit, ClientOK, ServerOK, HistoryOK, client, outside, history
<1>6. CASE HandleFrame(w)
  <2>1. /\ worker[w].batch \in Seq(Frame) /\ worker[w].batch # <<>>
        /\ Head(worker[w].batch) \in Frame /\ Tail(worker[w].batch) \in Seq(Frame)
    <3>1. worker[w].batch \in Seq(Frame) /\ worker[w].batch # <<>>
      BY <1>1, <1>6 DEF Local, HandleFrame
    <3> QED
      BY <3>1, HeadTailProperties
  <2> DEFINE f == Head(worker[w].batch)
             n == IF f.topic \in worker[w].table THEN worker[w].stats + 1 ELSE worker[w].stats
             local == [worker[w] EXCEPT !.batch = Tail(worker[w].batch), !.stats = n]
  <2>2. f.id \in Nat
    BY <2>1 DEF Frame
  <2>3. n \in Nat
    BY <1>1 DEF Local
  <2>4. worker' = [worker EXCEPT ![w] = local]
    BY <1>6 DEF HandleFrame, Moves
  <2>5. handled' \subseteq Nat
    BY <1>6, <2>2 DEF HandleFrame, Typed, HistoryOK
  <2> HIDE DEF f, n
  <2>6. local \in Local
    BY <1>1, <2>1, <2>3 DEF Local
  <2> HIDE DEF local
  <2>7. ProcessesOK'
    BY <1>1, <1>6, <2>4, <2>6 DEF ProcessesOK, HandleFrame
  <2> QED
    BY <1>6, <2>5, <2>7 DEF Typed, HandleFrame, ClientOK, ServerOK, HistoryOK, client, outside
<1>7. CASE FlushStats(w)
  <2>1. worker' = [worker EXCEPT ![w] = [worker[w] EXCEPT !.stats = 0]]
    BY <1>7 DEF FlushStats, Moves
  <2>2. [worker[w] EXCEPT !.stats = 0] \in Local /\ statsq' \in Nat
    <3>1. worker[w].stats \in Nat /\ statsq' = statsq + worker[w].stats
      BY <1>1, <1>7 DEF Local, FlushStats
    <3>2. [worker[w] EXCEPT !.stats = 0] \in Local
      BY <1>1 DEF Local
    <3> QED
      BY <1>1, <3>1, <3>2
  <2>3. ProcessesOK'
    BY <1>1, <1>7, <2>1, <2>2 DEF ProcessesOK, FlushStats
  <2> QED
    BY <1>7, <2>3 DEF Typed, FlushStats, ClientOK, ServerOK, HistoryOK, client, outside, history
<1>8. CASE Crash(w)
  <2>1. worker' = [worker EXCEPT ![w] = Killed(w, "crashed")] /\ Killed(w, "crashed") \in Local
    BY <1>8, KilledType DEF Crash, Moves
  <2>2. told' \in [Kinds -> Nat]
    <3>1. told \in [Kinds -> Nat] /\ worker[w].stats \in Nat
      BY <1>1 DEF Typed, HistoryOK, Local
    <3> QED
      BY <1>8, <3>1 DEF Crash, Kinds
  <2>3. ProcessesOK'
    BY <1>1, <1>8, <2>1 DEF ProcessesOK, Crash
  <2> QED
    BY <1>8, <2>2, <2>3 DEF Typed, Crash, ClientOK, ServerOK, HistoryOK, client
<1> QED
  BY <1>3, <1>4, <1>5, <1>6, <1>7, <1>8 DEF WorkerStep

LEMMA TypedNext ==
    ASSUME Typed, [Next]_vars
    PROVE  Typed'
<1>1. CASE UNCHANGED vars
  BY <1>1 DEF Typed, ClientOK, ProcessesOK, ServerOK, HistoryOK, vars, client, processes,
              outside, history
<1>2. CASE Next
  BY <1>2, ReceiveTyped, CallsTyped, ConnectionTyped, HeartbeatTyped, CloseTyped, WorkerTyped
     DEF Next
<1> QED
  BY <1>1, <1>2

-----------------------------------------------------------------------------
(* What a turn of a worker leaves behind *)

\* Its table after changes of its subscriptions.
KeepsTopics(w) ==
    \A t \in worker[w].table : NoRemoval(subq[w], t) =>
        t \in worker'[w].table /\ NoRemoval(subq'[w], t)

LEMMA DrainIs ==
    ASSUME Typed, NEW w \in Workers, NEW local \in Local, local.table = worker[w].table,
           DrainSubs(w, local)
    PROVE  /\ \A v \in Workers \ {w} : worker'[v] = worker[v] /\ subq'[v] = subq[v]
           /\ worker'[w].batch = local.batch /\ worker'[w].state = local.state
           /\ worker'[w].stats = local.stats /\ worker'[w].empty = local.empty
           /\ KeepsTopics(w)
<1>1. worker \in [Workers -> Local] /\ subq \in [Workers -> Seq(Change)]
  BY DEF Typed, ProcessesOK
<1>2. PICK table \in SUBSET Topics :
        /\ worker' = [worker EXCEPT ![w] = [local EXCEPT !.table = table]]
        /\ \A t \in worker[w].table : NoRemoval(subq[w], t) => t \in table
  BY Drained
<1>3. PICK rest \in Seq(Change) :
        /\ subq' = [subq EXCEPT ![w] = rest]
        /\ \A t \in Topics : NoRemoval(subq[w], t) => NoRemoval(rest, t)
  BY Drained
<1>4. worker'[w] = [local EXCEPT !.table = table] /\ subq'[w] = rest
  BY <1>1, <1>2, <1>3
<1>5. /\ worker'[w].batch = local.batch /\ worker'[w].state = local.state
      /\ worker'[w].stats = local.stats /\ worker'[w].empty = local.empty
      /\ worker'[w].table = table
  BY <1>4 DEF Local
<1>6. worker[w].table \subseteq Topics
  BY <1>1 DEF Local
<1> QED
  BY <1>1, <1>2, <1>3, <1>4, <1>5, <1>6 DEF KeepsTopics

LEMMA Turn ==
    ASSUME Typed, NEW w \in Workers
    PROVE  /\ ReadRing(w) \/ Poll(w) \/ Exit(w) \/ HandleFrame(w) \/ FlushStats(w) \/ Crash(w) =>
                /\ \A v \in Workers \ {w} :
                     worker'[v] = worker[v] /\ subq'[v] = subq[v] /\ ring'[v] = ring[v]
                /\ KeepsTopics(w)
                /\ pool /\ worker[w].state = "running"
           /\ ReadRing(w) =>
                /\ \E n \in 0 .. Len(ring[w]) :
                     /\ n <= BatchMax
                     /\ worker'[w].batch = SubSeq(ring[w], 1, n)
                     /\ ring'[w] = SubSeq(ring[w], n + 1, Len(ring[w]))
                /\ worker[w].batch = <<>> /\ worker'[w].state = worker[w].state
                /\ worker'[w].stats = worker[w].stats /\ worker'[w].empty = 0
           /\ Poll(w) =>
                /\ ring' = ring /\ worker'[w].batch = worker[w].batch
                /\ worker'[w].state = worker[w].state /\ worker'[w].stats = worker[w].stats
                /\ \/ worker'[w].empty = worker[w].empty
                   \/ worker'[w].empty = worker[w].empty + 1 /\ worker[w].empty + 1 < ExitPolls
           /\ Exit(w) =>
                /\ ring' = ring /\ ring[w] = <<>> /\ phase = "stopping"
                /\ worker'[w].batch = worker[w].batch /\ worker[w].batch = <<>>
                /\ worker'[w].state = "exited" /\ worker'[w].stats = 0
                /\ worker'[w].empty = worker[w].empty
           /\ HandleFrame(w) =>
                /\ ring' = ring /\ subq' = subq /\ worker[w].batch # <<>>
                /\ worker'[w].batch = Tail(worker[w].batch)
                /\ worker'[w].state = worker[w].state /\ worker'[w].empty = worker[w].empty
                /\ IF Head(worker[w].batch).topic \in worker[w].table
                   THEN /\ worker'[w].stats = worker[w].stats + 1
                        /\ handled' = handled \cup {Head(worker[w].batch).id}
                   ELSE worker'[w].stats = worker[w].stats /\ handled' = handled
           /\ FlushStats(w) =>
                /\ ring' = ring /\ worker'[w].batch = worker[w].batch
                /\ worker'[w].state = worker[w].state /\ worker'[w].stats = 0
                /\ worker'[w].empty = worker[w].empty
           /\ Crash(w) =>
                /\ ring' = ring /\ worker'[w].batch = <<>>
                /\ worker'[w].state = "crashed" /\ worker'[w].stats = 0
                /\ worker'[w].empty = worker[w].empty
<1>1. /\ worker \in [Workers -> Local] /\ worker[w] \in Local
      /\ ring \in [Workers -> Seq(Frame)] /\ ring[w] \in Seq(Frame)
  BY DEF Typed, ProcessesOK
<1> DEFINE Others == \A v \in Workers \ {w} :
                       worker'[v] = worker[v] /\ subq'[v] = subq[v] /\ ring'[v] = ring[v]
           Up == pool /\ worker[w].state = "running"
<1>2. ASSUME ReadRing(w)
      PROVE  /\ Others /\ KeepsTopics(w) /\ Up
             /\ \E n \in 0 .. Len(ring[w]) :
                  /\ n <= BatchMax
                  /\ worker'[w].batch = SubSeq(ring[w], 1, n)
                  /\ ring'[w] = SubSeq(ring[w], n + 1, Len(ring[w]))
             /\ worker[w].batch = <<>> /\ worker'[w].state = worker[w].state
             /\ worker'[w].stats = worker[w].stats /\ worker'[w].empty = 0
  <2> DEFINE n == Min({BatchMax, Len(ring[w])})
             batch == SubSeq(ring[w], 1, n)
             local == [worker[w] EXCEPT !.empty = 0, !.batch = batch]
  <2>1. n \in 0 .. Len(ring[w]) /\ n <= BatchMax
    <3>1. BatchMax \in Nat /\ Len(ring[w]) \in Nat
      BY <1>1, LenProperties, ConstantsAssumption
    <3> QED
      BY <3>1, Smaller
  <2>2. batch \in Seq(Frame)
    BY <1>1, <2>1, Parts
  <2>3. /\ DrainSubs(w, local)
        /\ ring' = [ring EXCEPT ![w] = SubSeq(ring[w], n + 1, Len(ring[w]))]
        /\ worker[w].batch = <<>> /\ Up
    BY <1>1, <1>2 DEF ReadRing, Running
  <2> HIDE DEF n
  <2>4. /\ local \in Local /\ local.table = worker[w].table /\ local.batch = batch
        /\ local.state = worker[w].state /\ local.stats = worker[w].stats /\ local.empty = 0
    <3> HIDE DEF batch
    <3> QED
      BY <1>1, <2>2 DEF Local
  <2> HIDE DEF local
  <2> QED
    BY <1>1, <2>1, <2>3, <2>4, DrainIs
<1>3. ASSUME Poll(w)
      PROVE  /\ Others /\ KeepsTopics(w) /\ Up
             /\ ring' = ring /\ worker'[w].batch = worker[w].batch
             /\ worker'[w].state = worker[w].state /\ worker'[w].stats = worker[w].stats
             /\ \/ worker'[w].empty = worker[w].empty
                \/ worker'[w].empty = worker[w].empty + 1 /\ worker[w].empty + 1 < ExitPolls
  <2> DEFINE n == IF Leave(w) THEN worker[w].empty + 1 ELSE worker[w].empty
             local == [worker[w] EXCEPT !.empty = n]
  <2>1. DrainSubs(w, local) /\ ring' = ring /\ Up /\ (Leave(w) => worker[w].empty + 1 < ExitPolls)
    BY <1>3 DEF Poll, Running
  <2>2. n \in Nat
    BY <1>1 DEF Local
  <2>3. n = worker[w].empty \/ (n = worker[w].empty + 1 /\ worker[w].empty + 1 < ExitPolls)
    BY <2>1
  <2> HIDE DEF n
  <2>4. /\ local \in Local /\ local.table = worker[w].table /\ local.batch = worker[w].batch
        /\ local.state = worker[w].state /\ local.stats = worker[w].stats /\ local.empty = n
    BY <1>1, <2>2 DEF Local
  <2> HIDE DEF local
  <2> QED
    BY <2>1, <2>3, <2>4, DrainIs
<1>4. ASSUME Exit(w)
      PROVE  /\ Others /\ KeepsTopics(w) /\ Up
             /\ ring' = ring /\ ring[w] = <<>> /\ phase = "stopping"
             /\ worker'[w].batch = worker[w].batch /\ worker[w].batch = <<>>
             /\ worker'[w].state = "exited" /\ worker'[w].stats = 0
             /\ worker'[w].empty = worker[w].empty
  <2> DEFINE local == [worker[w] EXCEPT !.state = "exited", !.stats = 0]
  <2>1. /\ DrainSubs(w, local) /\ ring' = ring /\ ring[w] = <<>> /\ phase = "stopping"
        /\ worker[w].batch = <<>> /\ Up
    BY <1>4 DEF Exit, Leave, Running
  <2>2. /\ local \in Local /\ local.table = worker[w].table /\ local.batch = worker[w].batch
        /\ local.state = "exited" /\ local.stats = 0 /\ local.empty = worker[w].empty
    BY <1>1 DEF Local
  <2> HIDE DEF local
  <2> QED
    BY <2>1, <2>2, DrainIs
<1>5. ASSUME HandleFrame(w) \/ FlushStats(w) \/ Crash(w), NEW local,
             worker' = [worker EXCEPT ![w] = local], local.table = worker[w].table
      PROVE  Others /\ KeepsTopics(w) /\ Up /\ worker'[w] = local
  <2>1. ring' = ring /\ subq' = subq
    BY <1>5 DEF HandleFrame, FlushStats, Crash
  <2>2. Up
    BY <1>5 DEF HandleFrame, FlushStats, Crash, Running
  <2> QED
    BY <1>1, <1>5, <2>1, <2>2 DEF KeepsTopics
<1>6. ASSUME HandleFrame(w)
      PROVE  /\ Others /\ KeepsTopics(w) /\ Up
             /\ ring' = ring /\ subq' = subq /\ worker[w].batch # <<>>
             /\ worker'[w].batch = Tail(worker[w].batch)
             /\ worker'[w].state = worker[w].state /\ worker'[w].empty = worker[w].empty
             /\ IF Head(worker[w].batch).topic \in worker[w].table
                THEN /\ worker'[w].stats = worker[w].stats + 1
                     /\ handled' = handled \cup {Head(worker[w].batch).id}
                ELSE worker'[w].stats = worker[w].stats /\ handled' = handled
  <2> DEFINE f == Head(worker[w].batch)
             n == IF f.topic \in worker[w].table THEN worker[w].stats + 1 ELSE worker[w].stats
             rest == Tail(worker[w].batch)
             local == [worker[w] EXCEPT !.batch = rest, !.stats = n]
  <2>1. /\ worker' = [worker EXCEPT ![w] = local] /\ ring' = ring /\ subq' = subq
        /\ worker[w].batch # <<>>
        /\ handled' = IF f.topic \in worker[w].table THEN handled \cup {f.id} ELSE handled
    BY <1>6 DEF HandleFrame, Moves
  <2> HIDE DEF n, rest
  <2>2. /\ local.table = worker[w].table /\ local.batch = rest /\ local.state = worker[w].state
        /\ local.stats = n /\ local.empty = worker[w].empty
    BY <1>1 DEF Local
  <2> HIDE DEF local
  <2>3. Others /\ KeepsTopics(w) /\ Up /\ worker'[w] = local
    BY <1>5, <1>6, <2>1, <2>2
  <2> HIDE DEF Others, Up
  <2> QED
    BY <2>1, <2>2, <2>3 DEF n, rest
<1>7. ASSUME FlushStats(w)
      PROVE  /\ Others /\ KeepsTopics(w) /\ Up
             /\ ring' = ring /\ worker'[w].batch = worker[w].batch
             /\ worker'[w].state = worker[w].state /\ worker'[w].stats = 0
             /\ worker'[w].empty = worker[w].empty
  <2> DEFINE local == [worker[w] EXCEPT !.stats = 0]
  <2>1. worker' = [worker EXCEPT ![w] = local] /\ ring' = ring
    BY <1>7 DEF FlushStats, Moves
  <2>2. /\ local.table = worker[w].table /\ local.batch = worker[w].batch
        /\ local.state = worker[w].state /\ local.stats = 0 /\ local.empty = worker[w].empty
    BY <1>1 DEF Local
  <2> HIDE DEF local
  <2>3. Others /\ KeepsTopics(w) /\ Up /\ worker'[w] = local
    BY <1>5, <1>7, <2>1, <2>2
  <2> HIDE DEF Others, Up
  <2> QED
    BY <2>1, <2>2, <2>3
<1>8. ASSUME Crash(w)
      PROVE  /\ Others /\ KeepsTopics(w) /\ Up
             /\ ring' = ring /\ worker'[w].batch = <<>>
             /\ worker'[w].state = "crashed" /\ worker'[w].stats = 0
             /\ worker'[w].empty = worker[w].empty
  <2> DEFINE local == [worker[w] EXCEPT !.state = "crashed", !.batch = <<>>, !.stats = 0]
  <2>1. worker' = [worker EXCEPT ![w] = local] /\ ring' = ring
    BY <1>8 DEF Crash, Moves, Killed
  <2>2. /\ local.table = worker[w].table /\ local.batch = <<>>
        /\ local.state = "crashed" /\ local.stats = 0 /\ local.empty = worker[w].empty
    BY <1>1 DEF Local
  <2> HIDE DEF local
  <2>3. Others /\ KeepsTopics(w) /\ Up /\ worker'[w] = local
    BY <1>5, <1>8, <2>1, <2>2
  <2> HIDE DEF Others, Up
  <2> QED
    BY <2>1, <2>2, <2>3
<1> HIDE DEF Others, Up
<1>9. ReadRing(w) \/ Poll(w) \/ Exit(w) \/ HandleFrame(w) \/ FlushStats(w) \/ Crash(w) =>
        Others /\ KeepsTopics(w) /\ Up
  BY <1>2, <1>3, <1>4, <1>6, <1>7, <1>8
<1> QED
  BY <1>2, <1>3, <1>4, <1>6, <1>7, <1>8, <1>9 DEF Others, Up

-----------------------------------------------------------------------------
(* Workers that do not work, and the limits of those that do *)

IdleOK(w) ==
    /\ ~pool \/ worker[w].state # "running" => worker[w].batch = <<>> /\ worker[w].stats = 0
    /\ ~pool => ring[w] = <<>>
    /\ worker[w].state = "exited" => phase \in {"stopping", "stopped"} /\ ring[w] = <<>>

LimitsOK(w) ==
    /\ Len(ring[w]) <= RingCap /\ Len(worker[w].batch) <= BatchMax
    /\ worker[w].empty <= ExitPolls

WorkersOK == \A w \in Workers : IdleOK(w) /\ LimitsOK(w)

LEMMA FreshIsIdle ==
    ASSUME NEW table
    PROVE  /\ Fresh(table).batch = <<>> /\ Fresh(table).stats = 0 /\ Fresh(table).empty = 0
           /\ Fresh(table).state = "running" /\ Fresh(table).table = table
  BY DEF Fresh

LEMMA WorkersInit == Init => WorkersOK
<1> SUFFICES ASSUME Init, NEW w \in Workers PROVE IdleOK(w) /\ LimitsOK(w)
  BY DEF WorkersOK
<1>1. worker[w] = Fresh(Initial) /\ ring[w] = <<>>
  BY DEF Init
<1>2. Len(<<>>) = 0
  BY EmptySeq
<1>3. 0 <= RingCap /\ 0 <= BatchMax /\ 0 <= ExitPolls
  BY ConstantsAssumption
<1> QED
  BY <1>1, <1>2, <1>3, FreshIsIdle DEF IdleOK, LimitsOK

\* The steps that leave pool, rings and workers alone.
LEMMA Elsewhere ==
    ASSUME \/ UNCHANGED vars \/ Break \/ Restore \/ Stop \/ ServerRestarts \/ Heartbeat
           \/ \E t \in Topics : FrameLost(t) \/ Unsubscribe(t)
    PROVE  /\ pool' = pool /\ ring' = ring /\ worker' = worker /\ handled' = handled
           /\ routed' = routed /\ mode' = mode
           /\ phase \in {"stopping", "stopped"} => phase' = phase
  BY DEF vars, client, processes, outside, history, Break, Restore, Stop, ServerRestarts,
         Heartbeat, FrameLost, Unsubscribe

LEMMA WorkersNext ==
    ASSUME Typed, WorkersOK, [Next]_vars
    PROVE  WorkersOK'
<1> SUFFICES ASSUME NEW v \in Workers PROVE IdleOK(v)' /\ LimitsOK(v)'
  BY DEF WorkersOK
<1>1. /\ IdleOK(v) /\ LimitsOK(v)
      /\ worker \in [Workers -> Local] /\ worker[v] \in Local
      /\ ring \in [Workers -> Seq(Frame)] /\ ring[v] \in Seq(Frame)
  BY DEF WorkersOK, Typed, ProcessesOK
<1>2. Len(<<>>) = 0 /\ RingCap \in Nat \ {0} /\ BatchMax \in Nat \ {0} /\ ExitPolls \in Nat \ {0}
  BY EmptySeq, ConstantsAssumption
<1>3. CASE \/ UNCHANGED vars \/ Break \/ Restore \/ Stop \/ ServerRestarts \/ Heartbeat
           \/ \E t \in Topics : FrameLost(t) \/ Unsubscribe(t)
  BY <1>1, <1>3, Elsewhere DEF IdleOK, LimitsOK
<1>4. ASSUME NEW t \in Topics, NEW k \in Keys \cup {NoKey}, Receive(t, k)
      PROVE  IdleOK(v)' /\ LimitsOK(v)'
  <2> DEFINE w == Target(Came(t, k))
             new == Accepted(Came(t, k), w)
  <2>1. /\ w \in Workers /\ new \in Frame
        /\ ring' = ring \/ (pool /\ RoomIn(w) /\ ring' = [ring EXCEPT ![w] = Append(@, new)])
    BY <1>4, ReceiveIs
  <2>2. pool' = pool /\ worker' = worker /\ phase = "connected" /\ phase' = phase
    BY <1>4 DEF Receive, Listening
  <2> HIDE DEF w, new
  <2>3. CASE ring' = ring
    BY <1>1, <2>2, <2>3 DEF IdleOK, LimitsOK
  <2>4. CASE pool /\ RoomIn(w) /\ ring' = [ring EXCEPT ![w] = Append(@, new)]
    <3>1. IdleOK(v)'
      BY <1>1, <2>2, <2>4 DEF IdleOK
    <3>2. v # w => ring'[v] = ring[v]
      BY <1>1, <2>1, <2>4
    <3>3. v = w => Len(ring'[v]) <= RingCap
      <4>1. SUFFICES ASSUME v = w PROVE Len(ring'[w]) <= RingCap
        OBVIOUS
      <4>2. ring[w] \in Seq(Frame) /\ ring'[w] = Append(ring[w], new)
        BY <1>1, <2>1, <2>4
      <4>3. Len(ring'[w]) = Len(ring[w]) + 1 /\ Len(ring[w]) \in Nat
        BY <2>1, <4>2, AppendProperties, LenProperties
      <4>4. Len(ring[w]) < RingCap
        BY <2>4 DEF RoomIn
      <4> QED
        BY <1>2, <4>3, <4>4
    <3> QED
      BY <1>1, <2>2, <3>1, <3>2, <3>3 DEF LimitsOK
  <2> QED
    BY <2>1, <2>3, <2>4
<1>5. ASSUME NEW t \in Topics, Subscribe(t) PROVE IdleOK(v)' /\ LimitsOK(v)'
  <2>1. ring' = ring /\ phase' = phase
    BY <1>5 DEF Subscribe
  <2>2. CASE worker' = worker /\ pool' = pool
    BY <1>1, <2>1, <2>2 DEF IdleOK, LimitsOK
  <2>4. CASE ~pool /\ phase = "connected" /\ worker' = [w \in Workers |-> Fresh(subs')]
    <3>1. worker'[v] = Fresh(subs') /\ ring[v] = <<>>
      BY <1>1, <2>4 DEF IdleOK
    <3> QED
      BY <1>1, <1>2, <2>1, <3>1, FreshIsIdle DEF IdleOK, LimitsOK
  <2> QED
    BY <1>5, <2>2, <2>4 DEF Subscribe, Typed, ClientOK
<1>6. CASE Close
  <2>1. ring'[v] = <<>> /\ pool' = FALSE /\ phase' = "stopped"
    BY <1>6 DEF Close
  <2>2. CASE Running(v)
    <3>1. worker'[v] = [worker[v] EXCEPT !.state = "terminated", !.batch = <<>>, !.stats = 0]
      BY <1>6, <2>2 DEF Close, Killed
    <3>2. /\ worker'[v].state = "terminated" /\ worker'[v].batch = <<>> /\ worker'[v].stats = 0
          /\ worker'[v].empty = worker[v].empty
      BY <1>1, <3>1 DEF Local
    <3> QED
      BY <1>1, <1>2, <2>1, <3>2 DEF IdleOK, LimitsOK
  <2>3. CASE ~Running(v)
    <3>1. worker'[v] = worker[v]
      BY <1>6, <2>3 DEF Close
    <3> QED
      BY <1>1, <1>2, <2>1, <2>3, <3>1 DEF IdleOK, LimitsOK, Running
  <2> QED
    BY <2>2, <2>3
<1>7. ASSUME NEW w \in Workers, WorkerStep(w) \/ Crash(w) PROVE IdleOK(v)' /\ LimitsOK(v)'
  <2>1. pool' = pool /\ phase' = phase
    BY <1>7 DEF WorkerStep, ReadRing, Poll, Exit, HandleFrame, FlushStats, Crash, client
  <2>2. CASE v # w
    <3>1. worker'[v] = worker[v] /\ ring'[v] = ring[v]
      BY <1>7, <2>2, Turn DEF WorkerStep
    <3> QED
      BY <1>1, <2>1, <3>1 DEF IdleOK, LimitsOK
  <2>3. ASSUME v = w PROVE IdleOK(v)' /\ LimitsOK(v)'
    <3>1. pool /\ worker[v].state = "running"
      BY <1>7, <2>3, Turn DEF WorkerStep
    <3>2. worker[v].empty \in Nat
      BY <1>1 DEF Local
    <3>3. CASE ReadRing(v)
      <4>1. PICK n \in 0 .. Len(ring[v]) :
              /\ n <= BatchMax
              /\ worker'[v].batch = SubSeq(ring[v], 1, n)
              /\ ring'[v] = SubSeq(ring[v], n + 1, Len(ring[v]))
        BY <3>3, Turn
      <4>2. worker'[v].state = "running" /\ worker'[v].empty = 0
        BY <3>1, <3>3, Turn
      <4>3. Len(worker'[v].batch) = n /\ Len(ring'[v]) = Len(ring[v]) - n /\ Len(ring[v]) \in Nat
        BY <1>1, <4>1, Parts, LenProperties
      <4>4. Len(ring'[v]) <= RingCap
        BY <1>1, <1>2, <4>1, <4>3 DEF LimitsOK
      <4> QED
        BY <1>2, <2>1, <3>1, <4>1, <4>2, <4>3, <4>4 DEF IdleOK, LimitsOK
    <3>4. CASE Poll(v)
      <4>1. /\ ring' = ring /\ worker'[v].batch = worker[v].batch /\ worker'[v].state = "running"
            /\ \/ worker'[v].empty = worker[v].empty
               \/ worker'[v].empty = worker[v].empty + 1 /\ worker[v].empty + 1 < ExitPolls
        BY <3>1, <3>4, Turn
      <4>2. worker'[v].empty <= ExitPolls
        BY <1>1, <1>2, <3>2, <4>1 DEF LimitsOK
      <4> QED
        BY <1>1, <2>1, <3>1, <4>1, <4>2 DEF IdleOK, LimitsOK
    <3>5. CASE Exit(v)
      <4>1. /\ ring' = ring /\ ring[v] = <<>> /\ phase = "stopping"
            /\ worker'[v].batch = <<>> /\ worker'[v].state = "exited" /\ worker'[v].stats = 0
            /\ worker'[v].empty = worker[v].empty
        BY <3>5, Turn
      <4> QED
        BY <1>1, <1>2, <2>1, <3>1, <4>1 DEF IdleOK, LimitsOK
    <3>6. CASE HandleFrame(v)
      <4>1. /\ ring' = ring /\ worker[v].batch # <<>> /\ worker'[v].batch = Tail(worker[v].batch)
            /\ worker'[v].state = "running" /\ worker'[v].empty = worker[v].empty
        BY <3>1, <3>6, Turn
      <4>2. worker[v].batch \in Seq(Frame)
        BY <1>1 DEF Local
      <4>3. Len(worker'[v].batch) = Len(worker[v].batch) - 1 /\ Len(worker[v].batch) \in Nat
        BY <4>1, <4>2, HeadTailProperties, LenProperties
      <4>4. Len(worker'[v].batch) <= BatchMax
        BY <1>1, <1>2, <4>3 DEF LimitsOK
      <4> QED
        BY <1>1, <2>1, <3>1, <4>1, <4>4 DEF IdleOK, LimitsOK
    <3>7. CASE FlushStats(v)
      <4>1. /\ ring' = ring /\ worker'[v].batch = worker[v].batch /\ worker'[v].state = "running"
            /\ worker'[v].empty = worker[v].empty
        BY <3>1, <3>7, Turn
      <4> QED
        BY <1>1, <2>1, <3>1, <4>1 DEF IdleOK, LimitsOK
    <3>8. CASE Crash(v)
      <4>1. /\ ring' = ring /\ worker'[v].batch = <<>> /\ worker'[v].state = "crashed"
            /\ worker'[v].stats = 0 /\ worker'[v].empty = worker[v].empty
        BY <3>8, Turn
      <4> QED
        BY <1>1, <1>2, <2>1, <3>1, <4>1 DEF IdleOK, LimitsOK
    <3> QED
      BY <1>7, <2>3, <3>3, <3>4, <3>5, <3>6, <3>7, <3>8 DEF WorkerStep
  <2> QED
    BY <2>2, <2>3
<1> QED
  BY <1>3, <1>4, <1>5, <1>6, <1>7 DEF Next

\* The variables keep their ranges; a worker that does not run holds no batch
\* and no count, a pool that is not there no frames, and no ring, batch or row of
\* empty polls grows beyond its limit (worker_pool.py: put(), _worker_main()).
THEOREM TypedAlways == Spec => [](Typed /\ WorkersOK)
<1>1. Typed /\ WorkersOK /\ [Next]_vars => (Typed /\ WorkersOK)'
  BY TypedNext, WorkersNext
<1> QED
  BY <1>1, TypedInit, WorkersInit, PTL DEF Spec

\* A worker that exits by itself was told to stop, and everything routed to it
\* has been through its callbacks or its table: the loop of _worker_main() is
\* left with ring and batch empty, and nothing is routed after that.
THEOREM DrainedAtExitAlways == Spec => []DrainedAtExit
<1>1. Typed /\ WorkersOK => DrainedAtExit
  <2> SUFFICES ASSUME WorkersOK, NEW w \in Workers, worker[w].state = "exited"
               PROVE  phase \in {"stopping", "stopped"} /\ Queued(w) = <<>>
    BY DEF DrainedAtExit
  <2>1. phase \in {"stopping", "stopped"} /\ worker[w].batch = <<>> /\ ring[w] = <<>>
    BY DEF WorkersOK, IdleOK
  <2>2. <<>> \o <<>> = <<>>
    BY EmptySeq, ConcatEmptySeq
  <2> QED
    BY <2>1, <2>2 DEF Queued
<1> QED
  BY <1>1, TypedAlways, PTL

-----------------------------------------------------------------------------
(* Gaps *)

\* What the gap record of a topic (baseline, missing) has to do with the numbers
\* of the server (seq since its last restart, sent in all) and the frames taken.
\* While the numbers are ahead of the baseline, the frames between them are
\* still to be counted, and there is room for them among the frames sent.
Balanced(seq, sent, last, missing, start, taken) ==
    /\ seq <= sent
    /\ NoSeq <= last /\ last <= sent
    /\ last = NoSeq <=> start = NoSeq
    /\ start = NoSeq => missing = 0 /\ taken = 0
    /\ missing + taken <= sent
    /\ last # NoSeq /\ seq >= last => missing + taken + (seq - last) <= sent
    /\ seq = sent /\ start # NoSeq => missing + taken = last - start + 1

GapOK(t) ==
    Balanced(server.seq[t], server.sent[t], gap[t].last, gap[t].missing, first[t], routed[t])

GapsOK == (\A t \in Topics : GapOK(t)) /\ Total(server.sent) <= MaxFrames

\* A frame that is lost on its way, and one that is received.
LEMMA BalanceKept ==
    ASSUME NEW seq \in Nat, NEW sent \in Nat, NEW last \in Int, NEW missing \in Nat,
           NEW start \in Int, NEW taken \in Nat,
           Balanced(seq, sent, last, missing, start, taken)
    PROVE  /\ Balanced(seq + 1, sent + 1, last, missing, start, taken)
           /\ Balanced(0, sent, last, missing, start, taken)
           /\ \A ok \in BOOLEAN :
                Balanced(seq + 1, sent + 1,
                         IF last = NoSeq \/ seq + 1 >= last THEN (IF ok THEN seq + 1 ELSE seq) ELSE last,
                         missing + (IF last # NoSeq /\ seq + 1 > last + 1 THEN seq - last ELSE 0),
                         IF start = NoSeq THEN seq + 1 ELSE start,
                         IF ok THEN taken + 1 ELSE taken)
<1>1. Balanced(seq + 1, sent + 1, last, missing, start, taken)
  BY DEF Balanced, NoSeq
<1>2. Balanced(0, sent, last, missing, start, taken)
  BY DEF Balanced, NoSeq
<1>3. ASSUME NEW ok \in BOOLEAN
      PROVE  Balanced(seq + 1, sent + 1,
                      IF last = NoSeq \/ seq + 1 >= last THEN (IF ok THEN seq + 1 ELSE seq) ELSE last,
                      missing + (IF last # NoSeq /\ seq + 1 > last + 1 THEN seq - last ELSE 0),
                      IF start = NoSeq THEN seq + 1 ELSE start,
                      IF ok THEN taken + 1 ELSE taken)
  <2>1. CASE ok
    <3>1. CASE last = NoSeq
      BY <2>1, <3>1 DEF Balanced, NoSeq
    <3>2. CASE last # NoSeq /\ seq + 1 < last
      BY <2>1, <3>2 DEF Balanced, NoSeq
    <3>3. CASE last # NoSeq /\ seq + 1 >= last
      BY <2>1, <3>3 DEF Balanced, NoSeq
    <3> QED
      BY <3>1, <3>2, <3>3
  <2>2. CASE ~ok
    <3>1. CASE last = NoSeq
      BY <2>2, <3>1 DEF Balanced, NoSeq
    <3>2. CASE last # NoSeq /\ seq + 1 < last
      BY <2>2, <3>2 DEF Balanced, NoSeq
    <3>3. CASE last # NoSeq /\ seq + 1 >= last
      BY <2>2, <3>3 DEF Balanced, NoSeq
    <3> QED
      BY <3>1, <3>2, <3>3
  <2> QED
    BY <2>1, <2>2
<1> QED
  BY <1>1, <1>2, <1>3

LEMMA GapsInit == Init => GapsOK
<1> SUFFICES ASSUME Init PROVE GapsOK
  OBVIOUS
<1>1. server.seq = [t \in Topics |-> 0] /\ server.sent = [t \in Topics |-> 0]
  BY DEF Init
<1>2. ASSUME NEW t \in Topics PROVE GapOK(t)
  <2>1. /\ server.seq[t] = 0 /\ server.sent[t] = 0 /\ first[t] = NoSeq /\ routed[t] = 0
        /\ gap[t].last = NoSeq /\ gap[t].missing = 0
    BY <1>1 DEF Init
  <2> QED
    BY <2>1 DEF GapOK, Balanced, NoSeq
<1>3. Total(server.sent) = 0
  <2>1. server.sent \in [Topics -> Int] /\ \A t \in Topics : server.sent[t] = 0
    BY <1>1
  <2> QED
    BY <2>1, ConstantsAssumption, TotalZero DEF Total
<1> QED
  BY <1>2, <1>3, ConstantsAssumption DEF GapsOK

LEMMA SentTotal ==
    ASSUME Typed, NEW t \in Topics, Sent(t)
    PROVE  Total(server.sent)' = Total(server.sent) + 1 /\ Total(server.sent)' <= MaxFrames
<1> DEFINE f == server.sent
           g == [f EXCEPT ![t] = @ + 1]
<1>1. f \in [Topics -> Nat] /\ server'.sent = g
  BY SentType DEF Typed, ServerOK
<1> HIDE DEF f
<1>2. f \in [Topics -> Int] /\ g \in [Topics -> Int] /\ f[t] \in Nat /\ g[t] = f[t] + 1
  BY <1>1
<1>3. \A x \in Topics \ {t} : g[x] = f[x]
  BY <1>1
<1> HIDE DEF g
<1>4. IsFiniteSet(Topics)
  BY ConstantsAssumption
<1>5. SumFunction(g) = SumFunction(f) - f[t] + g[t]
  BY <1>2, <1>3, <1>4, TotalChange
<1>6. SumFunction(f) \in Nat
  BY <1>1, <1>4, TotalType
<1>7. SumFunction(g) = SumFunction(f) + 1
  BY <1>2, <1>5, <1>6
<1>8. Total(f) < MaxFrames
  BY DEF Sent, f
<1> QED
  BY <1>1, <1>6, <1>7, <1>8, ConstantsAssumption DEF Total, f

\* The steps that send nothing and receive nothing.
LEMMA GapsElsewhere ==
    ASSUME Typed,
           \/ UNCHANGED vars \/ Break \/ Restore \/ Stop \/ Close \/ Heartbeat
           \/ \E t \in Topics : Subscribe(t) \/ Unsubscribe(t)
           \/ \E w \in Workers : WorkerStep(w) \/ Crash(w)
    PROVE  /\ server'.seq = server.seq /\ server'.sent = server.sent
           /\ first' = first /\ routed' = routed
           /\ \A t \in Topics : gap'[t].last = gap[t].last /\ gap'[t].missing = gap[t].missing
<1>1. CASE Heartbeat
  <2>1. gap \in [Topics -> Gap] /\ gap' = Marked(gap)
    BY <1>1 DEF Typed, ClientOK, Heartbeat
  <2>2. ASSUME NEW t \in Topics
        PROVE  gap'[t].last = gap[t].last /\ gap'[t].missing = gap[t].missing
    BY <2>1 DEF Gap, Marked
  <2> QED
    BY <1>1, <2>2 DEF Heartbeat
<1>2. ASSUME NEW t \in Topics, Subscribe(t) \/ Unsubscribe(t)
      PROVE  server'.seq = server.seq /\ server'.sent = server.sent
  <2>1. server.routes \cup {t} \in SUBSET Topics /\ server.routes \ {t} \in SUBSET Topics
    BY DEF Typed, ServerOK
  <2> QED
    BY <1>2, <2>1, AskType DEF Subscribe, Unsubscribe
<1>3. CASE Restore
  <2>1. server'.seq = server.seq /\ server'.sent = server.sent
    BY <1>3 DEF Restore, Typed, ServerOK
  <2> QED
    BY <1>3, <2>1 DEF Restore, client, history
<1>4. CASE \E t \in Topics : Subscribe(t) \/ Unsubscribe(t)
  BY <1>2, <1>4 DEF Subscribe, Unsubscribe, history
<1>5. CASE UNCHANGED vars \/ Break \/ Stop \/ Close
  BY <1>5 DEF vars, Break, Stop, Close, client, outside, history
<1>6. CASE \E w \in Workers : WorkerStep(w) \/ Crash(w)
  BY <1>6 DEF WorkerStep, ReadRing, Poll, Exit, HandleFrame, FlushStats, Crash, client, outside,
              history
<1> QED
  BY <1>1, <1>3, <1>4, <1>5, <1>6

LEMMA GapsNext ==
    ASSUME Typed, GapsOK, [Next]_vars
    PROVE  GapsOK'
<1>1. /\ server.seq \in [Topics -> Nat] /\ server.sent \in [Topics -> Nat]
      /\ gap \in [Topics -> Gap] /\ first \in [Topics -> Int] /\ routed \in [Topics -> Nat]
  BY DEF Typed, ClientOK, ServerOK, HistoryOK
<1>2. ASSUME NEW t \in Topics
      PROVE  /\ server.seq[t] \in Nat /\ server.sent[t] \in Nat /\ gap[t] \in Gap
             /\ gap[t].last \in Int /\ gap[t].missing \in Nat
             /\ first[t] \in Int /\ routed[t] \in Nat
             /\ Balanced(server.seq[t], server.sent[t], gap[t].last, gap[t].missing,
                         first[t], routed[t])
  BY <1>1 DEF GapsOK, GapOK, Gap
<1>3. CASE \/ UNCHANGED vars \/ Break \/ Restore \/ Stop \/ Close \/ Heartbeat
           \/ \E t \in Topics : Subscribe(t) \/ Unsubscribe(t)
           \/ \E w \in Workers : WorkerStep(w) \/ Crash(w)
  <2>1. /\ server'.seq = server.seq /\ server'.sent = server.sent
        /\ first' = first /\ routed' = routed
        /\ \A t \in Topics : gap'[t].last = gap[t].last /\ gap'[t].missing = gap[t].missing
    BY <1>3, GapsElsewhere
  <2> QED
    BY <1>2, <2>1 DEF GapsOK, GapOK
<1>4. CASE ServerRestarts
  <2>1. /\ server' = [server EXCEPT !.seq = [t \in Topics |-> 0], !.routes = {}]
        /\ gap' = gap /\ first' = first /\ routed' = routed
    BY <1>4 DEF ServerRestarts, client, history
  <2>2. server'.seq = [t \in Topics |-> 0] /\ server'.sent = server.sent
    BY <2>1 DEF Typed, ServerOK
  <2>3. ASSUME NEW t \in Topics PROVE GapOK(t)'
    <3>1. Balanced(0, server.sent[t], gap[t].last, gap[t].missing, first[t], routed[t])
      BY <1>2, BalanceKept
    <3>2. server'.seq[t] = 0
      BY <2>2
    <3> QED
      BY <2>1, <2>2, <3>1, <3>2 DEF GapOK
  <2> QED
    BY <2>2, <2>3 DEF GapsOK
<1>5. ASSUME NEW t \in Topics, FrameLost(t) PROVE GapsOK'
  <2>1. gap' = gap /\ first' = first /\ routed' = routed /\ Sent(t)
    BY <1>5 DEF FrameLost, client, history
  <2>2. /\ server'.seq = [server.seq EXCEPT ![t] = @ + 1]
        /\ server'.sent = [server.sent EXCEPT ![t] = @ + 1]
    BY <2>1, SentType
  <2>3. ASSUME NEW x \in Topics PROVE GapOK(x)'
    <3>1. CASE x = t
      <4>1. Balanced(server.seq[t] + 1, server.sent[t] + 1, gap[t].last, gap[t].missing,
                     first[t], routed[t])
        BY <1>2, BalanceKept
      <4> QED
        BY <1>1, <2>1, <2>2, <3>1, <4>1 DEF GapOK
    <3>2. CASE x # t
      BY <1>1, <1>2, <2>1, <2>2, <3>2 DEF GapOK
    <3> QED
      BY <3>1, <3>2
  <2> QED
    BY <2>1, <2>3, SentTotal DEF GapsOK
<1>6. ASSUME NEW t \in Topics, NEW k \in Keys \cup {NoKey}, Receive(t, k) PROVE GapsOK'
  <2>1. PICK ok \in BOOLEAN :
          /\ gap' = [gap EXCEPT ![t] = Tracked(@, server.seq[t] + 1, ok)]
          /\ routed' = IF ok THEN [routed EXCEPT ![t] = @ + 1] ELSE routed
          /\ first' = [first EXCEPT ![t] = IF @ = NoSeq THEN server.seq[t] + 1 ELSE @]
    BY <1>6, ReceiveIs
  <2>2. Sent(t)
    BY <1>6 DEF Receive
  <2>3. /\ server'.seq = [server.seq EXCEPT ![t] = @ + 1]
        /\ server'.sent = [server.sent EXCEPT ![t] = @ + 1]
    BY <2>2, SentType
  <2>4. ASSUME NEW x \in Topics PROVE GapOK(x)'
    <3>1. CASE x = t
      <4> DEFINE new == Tracked(gap[t], server.seq[t] + 1, ok)
                 n == server.seq[t]
                 last == gap[t].last
      <4>1. n \in Nat /\ n + 1 \in Nat \ {0} /\ last \in Int /\ gap[t].missing \in Nat
        BY <1>2
      <4> DEFINE g == gap[t]
                 m == n + 1
      <4>2. /\ new.missing = g.missing + (IF last # NoSeq /\ m > last + 1 THEN m - last - 1 ELSE 0)
            /\ new.last = IF last = NoSeq \/ m >= last THEN (IF ok THEN m ELSE m - 1) ELSE last
        <5>1. new = Tracked(g, m, ok) /\ last = g.last
          OBVIOUS
        <5>2. g \in Gap /\ m \in Nat \ {0}
          BY <1>2, <4>1
        <5> HIDE DEF new, last, g, m
        <5> QED
          BY <5>1, <5>2, TrackedIs
      <4>3. n + 1 - last - 1 = n - last /\ n + 1 - 1 = n
        BY <4>1
      <4>4. gap'[t] = new
        BY <1>1, <2>1
      <4>5. /\ server'.seq[t] = n + 1 /\ server'.sent[t] = server.sent[t] + 1
            /\ routed'[t] = (IF ok THEN routed[t] + 1 ELSE routed[t])
            /\ first'[t] = (IF first[t] = NoSeq THEN n + 1 ELSE first[t])
        BY <1>1, <2>1, <2>3
      <4>6. Balanced(n + 1, server.sent[t] + 1,
                     IF last = NoSeq \/ n + 1 >= last THEN (IF ok THEN n + 1 ELSE n) ELSE last,
                     gap[t].missing + (IF last # NoSeq /\ n + 1 > last + 1 THEN n - last ELSE 0),
                     IF first[t] = NoSeq THEN n + 1 ELSE first[t],
                     IF ok THEN routed[t] + 1 ELSE routed[t])
        <5> DEFINE sent == server.sent[t]
                   missing == gap[t].missing
                   start == first[t]
                   taken == routed[t]
        <5>1. /\ n \in Nat /\ sent \in Nat /\ last \in Int /\ missing \in Nat
              /\ start \in Int /\ taken \in Nat
          BY <1>2
        <5>2. Balanced(n, sent, last, missing, start, taken)
          BY <1>2 DEF GapOK
        <5>3. Balanced(n + 1, sent + 1,
                       IF last = NoSeq \/ n + 1 >= last THEN (IF ok THEN n + 1 ELSE n) ELSE last,
                       missing + (IF last # NoSeq /\ n + 1 > last + 1 THEN n - last ELSE 0),
                       IF start = NoSeq THEN n + 1 ELSE start,
                       IF ok THEN taken + 1 ELSE taken)
          <6> HIDE DEF n, sent, last, missing, start, taken
          <6> QED
            BY <5>1, <5>2, BalanceKept
        <5> QED
          BY <5>3
      <4> HIDE DEF new, n, last
      <4>7. new.missing = gap[t].missing + (IF last # NoSeq /\ n + 1 > last + 1 THEN n - last ELSE 0)
        BY <4>1, <4>2, <4>3 DEF m, g
      <4>8. new.last = IF last = NoSeq \/ n + 1 >= last THEN (IF ok THEN n + 1 ELSE n) ELSE last
        BY <4>1, <4>2, <4>3 DEF m, g
      <4>9. Balanced(server'.seq[t], server'.sent[t], new.last, new.missing, first'[t], routed'[t])
        BY <4>5, <4>6, <4>7, <4>8, Zenon
      <4> QED
        BY <3>1, <4>4, <4>9 DEF GapOK
    <3>2. CASE x # t
      <4>1. /\ gap'[x] = gap[x] /\ first'[x] = first[x] /\ routed'[x] = routed[x]
            /\ server'.seq[x] = server.seq[x] /\ server'.sent[x] = server.sent[x]
        BY <1>1, <2>1, <2>3, <3>2
      <4> QED
        BY <1>2, <4>1 DEF GapOK
    <3> QED
      BY <3>1, <3>2
  <2> QED
    BY <2>2, <2>4, SentTotal DEF GapsOK
<1> QED
  BY <1>3, <1>4, <1>5, <1>6 DEF Next

\* What a consumer reports as missing never exceeds what did not reach it, and
\* while the numbering of the server goes on it is exactly that, for every frame
\* between the first one received and the baseline: holes are counted once,
\* refused frames are counted again when the next one arrives, and never twice.
THEOREM GapsCountedAlways == Spec => []GapsCounted
<1>1. Typed /\ GapsOK /\ [Next]_vars => (Typed /\ GapsOK)'
  BY TypedNext, GapsNext
<1>2. Typed /\ GapsOK => GapsCounted
  <2> SUFFICES ASSUME Typed, GapsOK, NEW t \in Topics
               PROVE  /\ gap[t].missing <= server.sent[t] - routed[t]
                      /\ server.seq[t] = server.sent[t] /\ first[t] # NoSeq =>
                           gap[t].missing + routed[t] = gap[t].last - first[t] + 1
    BY DEF GapsCounted
  <2>1. gap[t].missing \in Nat /\ server.sent[t] \in Nat /\ routed[t] \in Nat
    BY DEF Typed, ClientOK, ServerOK, HistoryOK, Gap
  <2> QED
    BY <2>1 DEF GapsOK, GapOK, Balanced
<1> QED
  BY <1>1, <1>2, TypedInit, GapsInit, PTL DEF Spec

-----------------------------------------------------------------------------
(* Queues: the frames on their way through a worker *)

\* p is what remains of q after its first d elements.
Remains(p, q, d) ==
    d \in 0 .. Len(q) /\ Len(p) = Len(q) - d /\ \A i \in 1 .. Len(p) : p[i] = q[i + d]

LEMMA QueueType ==
    ASSUME Typed, NEW w \in Workers
    PROVE  /\ worker[w].batch \in Seq(Frame) /\ ring[w] \in Seq(Frame)
           /\ Queued(w) \in Seq(Frame) /\ Len(Queued(w)) \in Nat
<1>1. worker[w].batch \in Seq(Frame) /\ ring[w] \in Seq(Frame)
  BY DEF Typed, ProcessesOK, Local
<1>2. worker[w].batch \o ring[w] \in Seq(Frame)
  BY <1>1, ConcatProperties
<1> QED
  BY <1>1, <1>2, LenProperties DEF Queued

LEMMA AllRemain ==
    ASSUME NEW T, NEW q \in Seq(T)
    PROVE  Remains(q, q, 0) /\ Remains(<<>>, q, Len(q))
<1>1. Len(q) \in Nat
  BY LenProperties
<1>2. Len(<<>>) = 0
  BY EmptySeq
<1> QED
  BY <1>1, <1>2 DEF Remains

LEMMA SecondRemains ==
    ASSUME NEW T, NEW p \in Seq(T), NEW q \in Seq(T)
    PROVE  Remains(q, p \o q, Len(p)) /\ <<>> \o q = q
<1>1. Len(p) \in Nat /\ Len(q) \in Nat
  BY LenProperties
<1>2. /\ Len(p \o q) = Len(p) + Len(q)
      /\ \A i \in 1 .. Len(p) + Len(q) : (p \o q)[i] = IF i <= Len(p) THEN p[i] ELSE q[i - Len(p)]
  BY ConcatProperties
<1>3. ASSUME NEW i \in 1 .. Len(q) PROVE (p \o q)[i + Len(p)] = q[i]
  <2>1. i + Len(p) \in 1 .. Len(p) + Len(q) /\ ~(i + Len(p) <= Len(p)) /\ i + Len(p) - Len(p) = i
    BY <1>1
  <2> QED
    BY <1>2, <2>1
<1> QED
  BY <1>1, <1>2, <1>3, ConcatEmptySeq DEF Remains

LEMMA TailRemains ==
    ASSUME NEW T, NEW p \in Seq(T), NEW q \in Seq(T), p # <<>>
    PROVE  /\ Remains(Tail(p) \o q, p \o q, 1)
           /\ (p \o q)[1] = Head(p) /\ 1 \in 1 .. Len(p \o q) /\ Head(p) \in T
<1>1. Len(p) \in Nat \ {0} /\ Len(q) \in Nat
  BY LenProperties, EmptySeq
<1>2. /\ Head(p) \in T /\ Tail(p) \in Seq(T) /\ Len(Tail(p)) = Len(p) - 1
      /\ \A i \in 1 .. Len(Tail(p)) : Tail(p)[i] = p[i + 1]
  BY HeadTailProperties
<1>3. /\ Len(p \o q) = Len(p) + Len(q)
      /\ \A i \in 1 .. Len(p) + Len(q) : (p \o q)[i] = IF i <= Len(p) THEN p[i] ELSE q[i - Len(p)]
  BY ConcatProperties
<1>4. /\ Len(Tail(p) \o q) = Len(Tail(p)) + Len(q)
      /\ \A i \in 1 .. Len(Tail(p)) + Len(q) :
           (Tail(p) \o q)[i] = IF i <= Len(Tail(p)) THEN Tail(p)[i] ELSE q[i - Len(Tail(p))]
  BY <1>2, ConcatProperties
<1>5. ASSUME NEW i \in 1 .. Len(p) - 1 + Len(q) PROVE (Tail(p) \o q)[i] = (p \o q)[i + 1]
  <2>1. i + 1 \in 1 .. Len(p) + Len(q) /\ i \in 1 .. Len(Tail(p)) + Len(q)
    BY <1>1, <1>2
  <2>2. CASE i <= Len(p) - 1
    <3>1. i \in 1 .. Len(Tail(p)) /\ i + 1 <= Len(p)
      BY <1>1, <1>2, <2>2
    <3>2. (Tail(p) \o q)[i] = Tail(p)[i] /\ (p \o q)[i + 1] = p[i + 1]
      BY <1>2, <1>3, <1>4, <2>1, <2>2, <3>1
    <3> QED
      BY <1>2, <3>1, <3>2
  <2>3. CASE ~(i <= Len(p) - 1)
    <3>1. ~(i <= Len(Tail(p))) /\ ~(i + 1 <= Len(p)) /\ i - Len(Tail(p)) = i + 1 - Len(p)
      BY <1>1, <1>2, <2>3
    <3> QED
      BY <1>3, <1>4, <2>1, <3>1
  <2> QED
    BY <2>2, <2>3
<1>6. (p \o q)[1] = p[1] /\ p[1] = Head(p) /\ 1 \in 1 .. Len(p \o q)
  <2>1. 1 \in 1 .. Len(p) + Len(q) /\ 1 <= Len(p)
    BY <1>1
  <2> QED
    BY <1>3, <2>1
<1>7. Len(Tail(p) \o q) = Len(p) - 1 + Len(q) /\ Len(p) - 1 + Len(q) = Len(p \o q) - 1
      /\ 1 \in 0 .. Len(p \o q)
  BY <1>1, <1>2, <1>3, <1>4
<1> QED
  BY <1>2, <1>5, <1>6, <1>7 DEF Remains

LEMMA AppendLast ==
    ASSUME NEW T, NEW p \in Seq(T), NEW q \in Seq(T), NEW e \in T
    PROVE  /\ Len(p \o Append(q, e)) = Len(p \o q) + 1
           /\ \A i \in 1 .. Len(p \o q) : (p \o Append(q, e))[i] = (p \o q)[i]
           /\ (p \o Append(q, e))[Len(p \o q) + 1] = e
<1>1. Len(p) \in Nat /\ Len(q) \in Nat
  BY LenProperties
<1>2. /\ Append(q, e) \in Seq(T) /\ Len(Append(q, e)) = Len(q) + 1
      /\ \A i \in 1 .. Len(q) : Append(q, e)[i] = q[i]
      /\ Append(q, e)[Len(q) + 1] = e
  BY AppendProperties
<1>3. /\ Len(p \o q) = Len(p) + Len(q)
      /\ \A i \in 1 .. Len(p) + Len(q) : (p \o q)[i] = IF i <= Len(p) THEN p[i] ELSE q[i - Len(p)]
  BY ConcatProperties
<1> DEFINE r == Append(q, e)
<1>4. /\ Len(p \o r) = Len(p) + Len(r)
      /\ \A i \in 1 .. Len(p) + Len(r) : (p \o r)[i] = IF i <= Len(p) THEN p[i] ELSE r[i - Len(p)]
  <2> HIDE DEF r
  <2>1. r \in Seq(T)
    BY <1>2 DEF r
  <2> QED
    BY <2>1, ConcatProperties
<1>5. ASSUME NEW i \in 1 .. Len(p) + Len(q) PROVE (p \o r)[i] = (p \o q)[i]
  <2>1. i \in 1 .. Len(p) + Len(r)
    BY <1>1, <1>2
  <2>2. CASE i <= Len(p)
    BY <1>3, <1>4, <2>1, <2>2
  <2>3. CASE ~(i <= Len(p))
    <3>1. i - Len(p) \in 1 .. Len(q)
      BY <1>1, <2>3
    <3>2. r[i - Len(p)] = q[i - Len(p)]
      BY <1>2, <3>1
    <3> HIDE DEF r
    <3> QED
      BY <1>3, <1>4, <2>1, <2>3, <3>2
  <2> QED
    BY <2>2, <2>3
<1>6. (p \o r)[Len(p) + Len(q) + 1] = e
  <2> DEFINE i == Len(p) + Len(q) + 1
  <2>1. i \in 1 .. Len(p) + Len(r) /\ ~(i <= Len(p)) /\ i - Len(p) = Len(q) + 1
    BY <1>1, <1>2
  <2>2. (p \o r)[i] = r[i - Len(p)]
    <3> HIDE DEF r, i
    <3> QED
      BY <1>4, <2>1
  <2> QED
    BY <1>2, <2>1, <2>2
<1> QED
  BY <1>1, <1>2, <1>3, <1>4, <1>5, <1>6

\* A step that neither accepts nor handles a frame.
Quiet ==
    \/ UNCHANGED vars \/ Break \/ Restore \/ Stop \/ Close \/ ServerRestarts \/ Heartbeat
    \/ \E t \in Topics : FrameLost(t) \/ Subscribe(t) \/ Unsubscribe(t)
    \/ \E w \in Workers :
         ReadRing(w) \/ Poll(w) \/ Exit(w) \/ FlushStats(w) \/ Crash(w)

LEMMA QuietQueues ==
    ASSUME Typed, WorkersOK, Quiet, NEW v \in Workers
    PROVE  /\ \E d \in Nat : Remains(Queued(v)', Queued(v), d)
           /\ handled' = handled /\ routed' = routed /\ mode' = mode
<1>1. handled' = handled /\ routed' = routed /\ mode' = mode
  BY DEF Quiet, vars, Break, Restore, Stop, Close, ServerRestarts, Heartbeat, FrameLost, Subscribe,
         Unsubscribe, ReadRing, Poll, Exit, FlushStats, Crash, client, history
<1>2. /\ worker[v].batch \in Seq(Frame) /\ ring[v] \in Seq(Frame)
      /\ Queued(v) \in Seq(Frame) /\ Len(Queued(v)) \in Nat
  BY QueueType
<1>3. Remains(Queued(v), Queued(v), 0) /\ Remains(<<>>, Queued(v), Len(Queued(v)))
  BY <1>2, AllRemain
<1>4. ASSUME worker'[v].batch = worker[v].batch, ring'[v] = ring[v]
      PROVE  \E d \in Nat : Remains(Queued(v)', Queued(v), d)
  BY <1>3, <1>4 DEF Queued
<1>5. ASSUME worker'[v].batch = <<>>, ring'[v] = <<>>
      PROVE  \E d \in Nat : Remains(Queued(v)', Queued(v), d)
  <2>1. <<>> \o <<>> = <<>>
    BY EmptySeq, ConcatEmptySeq
  <2> QED
    BY <1>2, <1>3, <1>5, <2>1 DEF Queued
<1>6. CASE \/ UNCHANGED vars \/ Break \/ Restore \/ Stop \/ ServerRestarts \/ Heartbeat
           \/ \E t \in Topics : FrameLost(t) \/ Unsubscribe(t)
  <2>1. worker' = worker /\ ring' = ring
    BY <1>6, Elsewhere
  <2> QED
    BY <1>1, <1>4, <2>1
<1>7. ASSUME NEW t \in Topics, Subscribe(t)
      PROVE  \E d \in Nat : Remains(Queued(v)', Queued(v), d)
  <2>1. ring' = ring
    BY <1>7 DEF Subscribe
  <2>2. CASE worker' = worker
    BY <1>4, <2>1, <2>2
  <2>3. CASE ~pool /\ worker' = [w \in Workers |-> Fresh(subs')]
    <3>1. worker'[v].batch = <<>> /\ ring[v] = <<>>
      BY <2>3, FreshIsIdle DEF WorkersOK, IdleOK
    <3> QED
      BY <1>5, <2>1, <3>1
  <2> QED
    BY <1>7, <2>2, <2>3 DEF Subscribe
<1>8. CASE Close
  <2>1. ring'[v] = <<>>
    BY <1>8 DEF Close
  <2>2. worker'[v].batch = <<>>
    <3>1. CASE Running(v)
      <4>1. worker'[v] = [worker[v] EXCEPT !.state = "terminated", !.batch = <<>>, !.stats = 0]
        BY <1>8, <3>1 DEF Close, Killed
      <4>2. worker[v] \in Local
        BY DEF Typed, ProcessesOK
      <4> QED
        BY <4>1, <4>2 DEF Local
    <3>2. CASE ~Running(v)
      BY <1>8, <3>2 DEF Close, Running, WorkersOK, IdleOK
    <3> QED
      BY <3>1, <3>2
  <2> QED
    BY <1>1, <1>5, <2>1, <2>2
<1>9. ASSUME NEW w \in Workers, ReadRing(w) \/ Poll(w) \/ Exit(w) \/ FlushStats(w) \/ Crash(w)
      PROVE  \E d \in Nat : Remains(Queued(v)', Queued(v), d)
  <2>1. CASE v # w
    <3>1. worker'[v] = worker[v] /\ ring'[v] = ring[v]
      BY <1>9, <2>1, Turn
    <3> QED
      BY <1>4, <3>1
  <2>2. CASE v = w /\ ReadRing(v)
    <3>1. PICK n \in 0 .. Len(ring[v]) :
            /\ worker'[v].batch = SubSeq(ring[v], 1, n)
            /\ ring'[v] = SubSeq(ring[v], n + 1, Len(ring[v]))
      BY <2>2, Turn
    <3>2. worker[v].batch = <<>>
      BY <2>2, Turn
    <3>3. SubSeq(ring[v], 1, n) \o SubSeq(ring[v], n + 1, Len(ring[v])) = ring[v]
      BY <1>2, Parts
    <3>4. <<>> \o ring[v] = ring[v]
      BY <1>2, ConcatEmptySeq
    <3>5. Queued(v)' = Queued(v)
      BY <3>1, <3>2, <3>3, <3>4 DEF Queued
    <3> QED
      BY <1>3, <3>5
  <2>3. CASE v = w /\ (Poll(v) \/ Exit(v) \/ FlushStats(v))
    <3>1. worker'[v].batch = worker[v].batch /\ ring'[v] = ring[v]
      BY <2>3, Turn
    <3> QED
      BY <1>4, <3>1
  <2>4. CASE v = w /\ Crash(v)
    <3>1. worker'[v].batch = <<>> /\ ring' = ring
      BY <2>4, Turn
    <3>2. Remains(ring[v], Queued(v), Len(worker[v].batch)) /\ <<>> \o ring[v] = ring[v]
      BY <1>2, SecondRemains DEF Queued
    <3>3. Len(worker[v].batch) \in Nat
      BY <1>2, LenProperties
    <3>4. Queued(v)' = ring[v]
      BY <3>1, <3>2 DEF Queued
    <3> QED
      BY <3>2, <3>3, <3>4
  <2> QED
    BY <1>9, <2>1, <2>2, <2>3, <2>4
<1> QED
  BY <1>1, <1>6, <1>7, <1>8, <1>9 DEF Quiet

LEMMA HandleQueues ==
    ASSUME Typed, WorkersOK, NEW w \in Workers, HandleFrame(w)
    PROVE  /\ 1 \in 1 .. Len(Queued(w)) /\ Queued(w)[1] = Head(worker[w].batch)
           /\ Remains(Queued(w)', Queued(w), 1)
           /\ \A v \in Workers \ {w} : Queued(v)' = Queued(v)
           /\ routed' = routed /\ mode' = mode
           /\ handled' = IF Queued(w)[1].topic \in worker[w].table
                         THEN handled \cup {Queued(w)[1].id} ELSE handled
<1>1. worker[w].batch \in Seq(Frame) /\ ring[w] \in Seq(Frame)
  BY QueueType
<1>2. /\ ring' = ring /\ worker[w].batch # <<>>
      /\ worker'[w].batch = Tail(worker[w].batch)
      /\ handled' = IF Head(worker[w].batch).topic \in worker[w].table
                    THEN handled \cup {Head(worker[w].batch).id} ELSE handled
  BY Turn
<1>3. \A v \in Workers \ {w} : worker'[v] = worker[v] /\ ring'[v] = ring[v]
  BY Turn
<1>4. 1 \in 1 .. Len(Queued(w)) /\ Queued(w)[1] = Head(worker[w].batch)
  BY <1>1, <1>2, TailRemains DEF Queued
<1>5. Remains(Queued(w)', Queued(w), 1)
  <2>1. Queued(w)' = Tail(worker[w].batch) \o ring[w]
    BY <1>2 DEF Queued
  <2> QED
    BY <1>1, <1>2, <2>1, TailRemains DEF Queued
<1>6. ASSUME NEW v \in Workers \ {w} PROVE Queued(v)' = Queued(v)
  BY <1>3 DEF Queued
<1>7. routed' = routed /\ mode' = mode
  BY DEF HandleFrame, client
<1> QED
  BY <1>2, <1>4, <1>5, <1>6, <1>7

LEMMA ReceiveQueues ==
    ASSUME Typed, NEW t \in Topics, NEW k \in Keys \cup {NoKey}, Receive(t, k)
    PROVE  \E w \in Workers, new \in Frame :
              /\ w = Target(Came(t, k)) /\ new = Accepted(Came(t, k), w)
              /\ \A v \in Workers \ {w} : Queued(v)' = Queued(v)
              /\ handled' = handled /\ mode' = mode /\ removals' = removals /\ subq' = subq
              /\ worker' = worker
              /\ \/ Queued(w)' = Queued(w) /\ Total(routed)' \in {Total(routed), Total(routed) + 1}
                 \/ /\ Len(Queued(w)') = Len(Queued(w)) + 1
                    /\ \A i \in 1 .. Len(Queued(w)) : Queued(w)'[i] = Queued(w)[i]
                    /\ Queued(w)'[Len(Queued(w)) + 1] = new
                    /\ Total(routed)' = Total(routed) + 1
<1>1. PICK w \in Workers, new \in Frame :
        w = Target(Came(t, k)) /\ new = Accepted(Came(t, k), w)
  BY ReceiveIs
<1>2. PICK ok \in BOOLEAN :
        /\ ring' = IF pool /\ ok THEN [ring EXCEPT ![w] = Append(@, new)] ELSE ring
        /\ routed' = IF ok THEN [routed EXCEPT ![t] = @ + 1] ELSE routed
  BY <1>1, ReceiveIs
<1>3. /\ worker[w].batch \in Seq(Frame) /\ ring[w] \in Seq(Frame)
      /\ Len(Queued(w)) \in Nat
  BY <1>1, QueueType
<1>4. /\ handled' = handled /\ mode' = mode /\ removals' = removals /\ subq' = subq
      /\ worker' = worker
  BY DEF Receive
<1>5. ASSUME NEW v \in Workers \ {w} PROVE Queued(v)' = Queued(v)
  <2>1. ring'[v] = ring[v]
    BY <1>1, <1>2 DEF Typed, ProcessesOK
  <2> QED
    BY <1>4, <2>1 DEF Queued
<1>6. ok => Total(routed)' = Total(routed) + 1
  <2> DEFINE g == [routed EXCEPT ![t] = @ + 1]
  <2>1. /\ routed \in [Topics -> Nat] /\ routed \in [Topics -> Int]
        /\ g \in [Topics -> Int] /\ routed[t] \in Nat /\ g[t] = routed[t] + 1
        /\ \A x \in Topics \ {t} : g[x] = routed[x]
    BY DEF Typed, HistoryOK
  <2> HIDE DEF g
  <2>2. IsFiniteSet(Topics)
    BY ConstantsAssumption
  <2>3. SumFunction(g) = SumFunction(routed) - routed[t] + g[t]
    BY <2>1, <2>2, TotalChange
  <2>4. SumFunction(routed) \in Nat
    BY <2>1, <2>2, TotalType
  <2>5. SumFunction(g) = SumFunction(routed) + 1
    BY <2>1, <2>3, <2>4
  <2> QED
    BY <1>2, <2>5 DEF Total, g
<1>7. ~ok => Total(routed)' = Total(routed)
  BY <1>2 DEF Total
<1>8. CASE ~(pool /\ ok)
  <2>1. Queued(w)' = Queued(w)
    BY <1>2, <1>4, <1>8 DEF Queued
  <2> QED
    BY <1>1, <1>4, <1>5, <1>6, <1>7, <2>1
<1>9. CASE pool /\ ok
  <2>1. ring'[w] = Append(ring[w], new)
    BY <1>1, <1>2, <1>9 DEF Typed, ProcessesOK
  <2>2. Queued(w)' = worker[w].batch \o Append(ring[w], new)
    BY <1>4, <2>1 DEF Queued
  <2>3. /\ Len(Queued(w)') = Len(Queued(w)) + 1
        /\ \A i \in 1 .. Len(Queued(w)) : Queued(w)'[i] = Queued(w)[i]
        /\ Queued(w)'[Len(Queued(w)) + 1] = new
    <3> DEFINE p == worker[w].batch
               q == ring[w]
    <3>1. p \in Seq(Frame) /\ q \in Seq(Frame) /\ new \in Frame
      BY <1>1, <1>3
    <3>2. Queued(w) = p \o q /\ Queued(w)' = p \o Append(q, new)
      BY <2>2 DEF Queued
    <3> HIDE DEF p, q
    <3>3. /\ Len(p \o Append(q, new)) = Len(p \o q) + 1
          /\ \A i \in 1 .. Len(p \o q) : (p \o Append(q, new))[i] = (p \o q)[i]
          /\ (p \o Append(q, new))[Len(p \o q) + 1] = new
      BY <3>1, AppendLast
    <3> QED
      BY <3>2, <3>3
  <2> QED
    BY <1>1, <1>4, <1>5, <1>6, <1>9, <2>3
<1> QED
  BY <1>8, <1>9

LEMMA NoneRemoved ==
    ASSUME NEW q \in Seq(Change), NEW m \in Change, NEW t, NoRemoval(q, t),
           m.op = "remove" => m.topic # t
    PROVE  NoRemoval(Append(q, m), t)
<1>1. /\ Len(q) \in Nat /\ Len(Append(q, m)) = Len(q) + 1
      /\ \A i \in 1 .. Len(q) : Append(q, m)[i] = q[i]
      /\ Append(q, m)[Len(q) + 1] = m
  BY LenProperties, AppendProperties
<1>2. ASSUME NEW i \in 1 .. Len(Append(q, m)), Append(q, m)[i].op = "remove"
      PROVE  Append(q, m)[i].topic # t
  <2>1. CASE i \in 1 .. Len(q)
    BY <1>1, <1>2, <2>1 DEF NoRemoval
  <2>2. CASE i = Len(q) + 1
    BY <1>1, <1>2, <2>2
  <2> QED
    BY <1>1, <2>1, <2>2
<1> QED
  BY <1>2 DEF NoRemoval

\* A worker keeps a pattern, and will keep it, unless unsubscribe() is called.
LEMMA SubscriptionKept ==
    ASSUME Typed, WorkersOK, [Next]_vars, NEW v \in Workers, NEW t \in Topics,
           t \in worker[v].table, NoRemoval(subq[v], t),
           Queued(v)' # <<>>, removals'[t] = removals[t]
    PROVE  t \in worker'[v].table /\ NoRemoval(subq'[v], t)
<1>1. /\ worker \in [Workers -> Local] /\ worker[v] \in Local
      /\ subq \in [Workers -> Seq(Change)] /\ subq[v] \in Seq(Change)
      /\ removals \in [Topics -> Nat]
  BY DEF Typed, ProcessesOK, HistoryOK
<1>2. CASE worker' = worker /\ subq' = subq
  BY <1>2
<1>3. CASE \/ UNCHANGED vars \/ Break \/ Restore \/ Stop \/ ServerRestarts \/ Heartbeat
           \/ \E x \in Topics : FrameLost(x)
           \/ \E x \in Topics, k \in Keys \cup {NoKey} : Receive(x, k)
  BY <1>2, <1>3 DEF vars, processes, Break, Restore, Stop, ServerRestarts, Heartbeat, FrameLost,
                    Receive
<1>4. ASSUME NEW x \in Topics, Subscribe(x) PROVE t \in worker'[v].table /\ NoRemoval(subq'[v], t)
  <2>1. CASE worker' = worker
    <3>1. subq' = subq \/ subq'[v] = Append(subq[v], [op |-> "add", topic |-> x])
      BY <1>4 DEF Subscribe, Tell
    <3>2. [op |-> "add", topic |-> x] \in Change
      BY DEF Change
    <3> QED
      BY <1>1, <2>1, <3>1, <3>2, NoneRemoved
  <2>2. CASE ~pool /\ worker' = [w \in Workers |-> Fresh(subs')]
    <3>1. worker'[v].batch = <<>> /\ ring[v] = <<>> /\ ring' = ring
      BY <1>4, <2>2, FreshIsIdle DEF WorkersOK, IdleOK, Subscribe
    <3>2. <<>> \o <<>> = <<>>
      BY EmptySeq, ConcatEmptySeq
    <3>3. Queued(v)' = <<>>
      BY <3>1, <3>2 DEF Queued
    <3> QED
      BY <3>3
  <2> QED
    BY <1>4, <2>1, <2>2 DEF Subscribe
<1>5. ASSUME NEW x \in Topics, Unsubscribe(x) PROVE t \in worker'[v].table /\ NoRemoval(subq'[v], t)
  <2>1. x # t
    <3>1. removals' = [removals EXCEPT ![x] = @ + 1]
      BY <1>5 DEF Unsubscribe
    <3> QED
      BY <1>1, <3>1
  <2>2. worker' = worker
    BY <1>5 DEF Unsubscribe
  <2>3. subq' = subq \/ subq'[v] = Append(subq[v], [op |-> "remove", topic |-> x])
    BY <1>5 DEF Unsubscribe, Tell
  <2>4. [op |-> "remove", topic |-> x] \in Change
    BY DEF Change
  <2> QED
    BY <1>1, <2>1, <2>2, <2>3, <2>4, NoneRemoved
<1>6. CASE Close
  <2>1. subq' = subq /\ worker'[v] \in {worker[v], Killed(v, "terminated")}
    BY <1>6 DEF Close
  <2>2. Killed(v, "terminated").table = worker[v].table
    BY <1>1 DEF Killed, Local
  <2> QED
    BY <2>1, <2>2
<1>7. ASSUME NEW w \in Workers, WorkerStep(w) \/ Crash(w)
      PROVE  t \in worker'[v].table /\ NoRemoval(subq'[v], t)
  <2>1. CASE v # w
    BY <1>7, <2>1, Turn DEF WorkerStep
  <2>2. CASE v = w
    BY <1>7, <2>2, Turn DEF WorkerStep, KeepsTopics
  <2> QED
    BY <2>1, <2>2
<1> QED
  BY <1>3, <1>4, <1>5, <1>6, <1>7 DEF Next

\* What is known of a frame on its way: its number is its place in the order of
\* acceptance, it has not been handled, it is with the worker of its key, and if
\* the worker had its pattern for good when it was routed, it has it still,
\* unless unsubscribe() was called since.
FrameOK(f, w) ==
    /\ f.id \in 1 .. Total(routed) /\ f.id \notin handled
    /\ mode # "none" => WorkerOf[RouteKey(f)] = w
    /\ f.removals <= removals[f.topic]
    /\ f.settled /\ f.removals = removals[f.topic] =>
         f.topic \in worker[w].table /\ NoRemoval(subq[w], f.topic)

Carried(w) == {Queued(w)[i] : i \in 1 .. Len(Queued(w))}

InOrder(q) == \A i, j \in 1 .. Len(q) : i < j => q[i].id < q[j].id

QueuesOK ==
    /\ \A w \in Workers : InOrder(Queued(w)) /\ \A f \in Carried(w) : FrameOK(f, w)
    /\ \A v, w \in Workers : v # w => \A f \in Carried(v), g \in Carried(w) : f.id # g.id
    /\ handled \subseteq 1 .. Total(routed) /\ IsFiniteSet(handled)
    /\ Total(routed) <= Total(server.sent)

LEMMA CarriedType ==
    ASSUME Typed, NEW w \in Workers
    PROVE  /\ Carried(w) \subseteq Frame /\ Range(Queued(w)) = Carried(w)
           /\ Queued(w) = <<>> => Carried(w) = {}
<1>1. Queued(w) \in Seq(Frame) /\ Len(Queued(w)) \in Nat
  BY QueueType
<1>2. DOMAIN Queued(w) = 1 .. Len(Queued(w)) /\ Queued(w) \in [1 .. Len(Queued(w)) -> Frame]
  BY <1>1, LenProperties
<1>3. Len(<<>>) = 0
  BY EmptySeq
<1>4. Carried(w) \subseteq Frame
  BY <1>2 DEF Carried
<1>5. Range(Queued(w)) = Carried(w)
  BY <1>2 DEF Range, Carried
<1>6. Queued(w) = <<>> => Carried(w) = {}
  BY <1>3 DEF Carried
<1> QED
  BY <1>4, <1>5, <1>6

\* The frames that remain are in order.
LEMMA RemainsInOrder ==
    ASSUME NEW p, NEW q, Len(q) \in Nat, NEW d \in Nat, Remains(p, q, d)
    PROVE  /\ InOrder(q) => InOrder(p)
           /\ \A i \in 1 .. Len(p) : \E j \in 1 .. Len(q) : p[i] = q[j]
<1>1. /\ Len(p) = Len(q) - d /\ d <= Len(q) /\ Len(p) \in Nat
      /\ \A i \in 1 .. Len(p) : p[i] = q[i + d]
  BY DEF Remains
<1>2. \A i \in 1 .. Len(p) : i + d \in 1 .. Len(q)
  BY <1>1
<1>3. ASSUME InOrder(q) PROVE InOrder(p)
  <2> SUFFICES ASSUME NEW i \in 1 .. Len(p), NEW j \in 1 .. Len(p), i < j PROVE p[i].id < p[j].id
    BY DEF InOrder
  <2>1. i + d < j + d
    BY <1>1
  <2> QED
    BY <1>1, <1>2, <1>3, <2>1 DEF InOrder
<1> QED
  BY <1>1, <1>2, <1>3

\* The totals that number the frames, and the calls of unsubscribe(), only grow.
LEMMA Counters ==
    ASSUME Typed, [Next]_vars
    PROVE  /\ \A t \in Topics : removals[t] <= removals'[t]
           /\ Total(routed) \in Nat /\ Total(server.sent) \in Nat
           /\ \/ /\ Total(routed)' = Total(routed)
                 /\ Total(server.sent)' \in {Total(server.sent), Total(server.sent) + 1}
              \/ /\ Total(routed)' = Total(routed) + 1
                 /\ Total(server.sent)' = Total(server.sent) + 1
<1>1. removals \in [Topics -> Nat]
  BY DEF Typed, HistoryOK
<1>2. Total(routed) \in Nat /\ Total(server.sent) \in Nat
  BY SumsNat
<1>3. ASSUME NEW t \in Topics PROVE removals[t] <= removals'[t]
  <2>1. \/ removals' = removals
        \/ \E x \in Topics : removals' = [removals EXCEPT ![x] = @ + 1]
    BY DEF Next, vars, Break, Restore, Stop, Close, ServerRestarts, Heartbeat, FrameLost, Subscribe,
           Unsubscribe, Receive, WorkerStep, ReadRing, Poll, Exit, HandleFrame, FlushStats, Crash,
           history
  <2> QED
    BY <1>1, <2>1
<1>4. ASSUME NEW t \in Topics, NEW k \in Keys \cup {NoKey}, Receive(t, k)
      PROVE  /\ Total(routed)' \in {Total(routed), Total(routed) + 1}
             /\ Total(server.sent)' = Total(server.sent) + 1
  <2>1. Sent(t)
    BY <1>4 DEF Receive
  <2>2. Total(routed)' \in {Total(routed), Total(routed) + 1}
    BY <1>4, ReceiveQueues
  <2> QED
    BY <2>1, <2>2, SentTotal
<1>5. ASSUME NEW t \in Topics, FrameLost(t)
      PROVE  Total(routed)' = Total(routed) /\ Total(server.sent)' = Total(server.sent) + 1
  <2>1. Sent(t) /\ routed' = routed
    BY <1>5 DEF FrameLost, history
  <2> QED
    BY <2>1, SentTotal
<1>6. CASE ServerRestarts
  <2>1. server'.sent = server.sent /\ routed' = routed
    BY <1>6 DEF ServerRestarts, Typed, ServerOK, history
  <2> QED
    BY <1>2, <1>3, <2>1 DEF Total
<1>7. CASE \/ UNCHANGED vars \/ Break \/ Restore \/ Stop \/ Close \/ Heartbeat
           \/ \E t \in Topics : Subscribe(t) \/ Unsubscribe(t)
           \/ \E w \in Workers : WorkerStep(w) \/ Crash(w)
  <2>1. server'.sent = server.sent /\ routed' = routed
    BY <1>7, GapsElsewhere
  <2> QED
    BY <1>2, <1>3, <2>1 DEF Total
<1> QED
  BY <1>2, <1>3, <1>4, <1>5, <1>6, <1>7 DEF Next

LEMMA FrameKept ==
    ASSUME Typed, WorkersOK, [Next]_vars, NEW w \in Workers, NEW f \in Frame, FrameOK(f, w),
           Queued(w)' # <<>>, f.id \notin handled', mode' = mode
    PROVE  FrameOK(f, w)'
<1>1. /\ f.topic \in Topics /\ f.removals \in Nat /\ f.id \in Nat
      /\ removals[f.topic] \in Nat /\ removals'[f.topic] \in Nat
      /\ removals[f.topic] <= removals'[f.topic]
  <2>1. Typed'
    BY TypedNext
  <2> QED
    BY <2>1, Counters DEF Frame, Typed, HistoryOK
<1>2. f.id \in 1 .. Total(routed)'
  BY Counters DEF FrameOK
<1>3. mode' # "none" => WorkerOf[RouteKey(f)'] = w
  BY DEF FrameOK, RouteKey
<1>4. f.removals <= removals'[f.topic]
  BY <1>1 DEF FrameOK
<1>5. ASSUME f.settled, f.removals = removals'[f.topic]
      PROVE  f.topic \in worker'[w].table /\ NoRemoval(subq'[w], f.topic)
  <2>1. f.removals <= removals[f.topic]
    BY DEF FrameOK
  <2>2. f.removals = removals[f.topic] /\ removals'[f.topic] = removals[f.topic]
    BY <1>1, <1>5, <2>1
  <2>3. f.topic \in worker[w].table /\ NoRemoval(subq[w], f.topic)
    BY <1>5, <2>2 DEF FrameOK
  <2> QED
    BY <1>1, <2>2, <2>3, SubscriptionKept
<1> QED
  BY <1>2, <1>3, <1>4, <1>5 DEF FrameOK, NoRemoval

LEMMA QueuesInit == Init => QueuesOK
<1> SUFFICES ASSUME Init PROVE QueuesOK
  OBVIOUS
<1>1. ASSUME NEW w \in Workers PROVE Len(Queued(w)) = 0 /\ Carried(w) = {}
  <2>1. worker[w].batch = <<>> /\ ring[w] = <<>>
    BY FreshIsIdle DEF Init
  <2>2. <<>> \o <<>> = <<>> /\ Len(<<>>) = 0
    BY EmptySeq, ConcatEmptySeq
  <2> QED
    BY <2>1, <2>2 DEF Queued, Carried
<1>2. \A w \in Workers : InOrder(Queued(w))
  BY <1>1 DEF InOrder
<1>3. handled = {} /\ IsFiniteSet(handled)
  BY FS_EmptySet DEF Init
<1>4. Total(routed) <= Total(server.sent)
  <2>1. IsFiniteSet(Topics)
    BY ConstantsAssumption
  <2>2. routed \in [Topics -> Int] /\ \A t \in Topics : routed[t] = 0
    BY DEF Init
  <2>3. server.sent \in [Topics -> Int] /\ \A t \in Topics : server.sent[t] = 0
    BY DEF Init
  <2>4. Total(routed) = 0 /\ Total(server.sent) = 0
    BY <2>1, <2>2, <2>3, TotalZero DEF Total
  <2> QED
    BY <2>4
<1> QED
  BY <1>1, <1>2, <1>3, <1>4 DEF QueuesOK

LEMMA CarriedShrink ==
    ASSUME Typed, NEW w \in Workers, NEW d \in Nat, Remains(Queued(w)', Queued(w), d)
    PROVE  /\ InOrder(Queued(w)) => InOrder(Queued(w)')
           /\ Carried(w)' \subseteq Carried(w)
           /\ \A i \in 1 .. Len(Queued(w)') : Queued(w)'[i] \in Carried(w)
<1> DEFINE p == Queued(w)'
           q == Queued(w)
<1>1. Len(q) \in Nat /\ Remains(p, q, d)
  BY QueueType
<1>2. /\ Carried(w) = {q[i] : i \in 1 .. Len(q)}
      /\ Carried(w)' = {p[i] : i \in 1 .. Len(p)}
  BY DEF Carried
<1> HIDE DEF p, q
<1>3. /\ InOrder(q) => InOrder(p)
      /\ \A i \in 1 .. Len(p) : \E j \in 1 .. Len(q) : p[i] = q[j]
  BY <1>1, RemainsInOrder
<1>4. Carried(w)' \subseteq Carried(w) /\ \A i \in 1 .. Len(p) : p[i] \in Carried(w)
  BY <1>2, <1>3
<1> QED
  BY <1>3, <1>4 DEF p, q

\* A step that accepts no frame: what remains of the queues is in order, and
\* the frames that remain are as they should be.
LEMMA QueuesShrink ==
    ASSUME Typed, WorkersOK, QueuesOK, [Next]_vars, mode' = mode,
           Total(routed)' = Total(routed),
           \A w \in Workers : \E d \in Nat : Remains(Queued(w)', Queued(w), d),
           handled' \subseteq 1 .. Total(routed), IsFiniteSet(handled'),
           \A w \in Workers : \A i \in 1 .. Len(Queued(w)') : Queued(w)'[i].id \notin handled'
    PROVE  QueuesOK'
<1>1. Typed'
  BY TypedNext
<1>2. ASSUME NEW w \in Workers
      PROVE  InOrder(Queued(w)') /\ Carried(w)' \subseteq Carried(w)
  <2>1. Len(Queued(w)) \in Nat
    BY QueueType
  <2>2. PICK d \in Nat : Remains(Queued(w)', Queued(w), d)
    OBVIOUS
  <2>3. InOrder(Queued(w))
    BY DEF QueuesOK
  <2> QED
    BY <2>2, <2>3, CarriedShrink
<1>3. ASSUME NEW w \in Workers, NEW f \in Carried(w)' PROVE FrameOK(f, w)'
  <2>1. f \in Carried(w) /\ f \in Frame /\ FrameOK(f, w)
    BY <1>2, <1>3, CarriedType DEF QueuesOK
  <2>2. f.id \notin handled'
    BY <1>3 DEF Carried
  <2>3. Queued(w)' # <<>>
    BY <1>1, <1>3, CarriedType DEF Carried
  <2> QED
    BY <2>1, <2>2, <2>3, FrameKept
<1>4. Total(routed)' <= Total(server.sent)'
  BY Counters DEF QueuesOK
<1>5. \A v, w \in Workers : v # w => \A f \in Carried(v)', g \in Carried(w)' : f.id # g.id
  BY <1>2 DEF QueuesOK
<1>6. \A w \in Workers : InOrder(Queued(w))' /\ \A f \in Carried(w)' : FrameOK(f, w)'
  BY <1>2, <1>3 DEF InOrder
<1> QED
  BY <1>4, <1>5, <1>6 DEF QueuesOK

LEMMA QuietNext ==
    ASSUME Typed, WorkersOK, QueuesOK, Quiet, [Next]_vars
    PROVE  QueuesOK'
<1>1. \A w \in Workers : \E d \in Nat : Remains(Queued(w)', Queued(w), d)
  BY QuietQueues
<1>2. handled' = handled /\ routed' = routed /\ mode' = mode
  BY WorkersFinite, QuietQueues
<1>3. Total(routed)' = Total(routed)
  BY <1>2 DEF Total
<1>4. ASSUME NEW w \in Workers, NEW i \in 1 .. Len(Queued(w)')
      PROVE  Queued(w)'[i].id \notin handled'
  <2>1. Len(Queued(w)) \in Nat
    BY QueueType
  <2>2. Queued(w)'[i] \in Carried(w)
    BY <1>1, CarriedShrink
  <2> QED
    BY <1>2, <2>2 DEF QueuesOK, FrameOK
<1> QED
  BY <1>1, <1>2, <1>3, <1>4, QueuesShrink DEF QueuesOK

LEMMA HandleNext ==
    ASSUME Typed, WorkersOK, QueuesOK, NEW w \in Workers, HandleFrame(w), [Next]_vars
    PROVE  QueuesOK'
<1> DEFINE f == Queued(w)[1]
<1>1. /\ 1 \in 1 .. Len(Queued(w)) /\ Remains(Queued(w)', Queued(w), 1)
      /\ \A v \in Workers \ {w} : Queued(v)' = Queued(v)
      /\ routed' = routed /\ mode' = mode
      /\ handled' = handled \/ handled' = handled \cup {f.id}
  BY HandleQueues
<1>2. f \in Carried(w) /\ f.id \in 1 .. Total(routed)
  BY <1>1 DEF Carried, QueuesOK, FrameOK
<1>3. \A v \in Workers : Len(Queued(v)) \in Nat /\ Queued(v) \in Seq(Frame)
  BY QueueType
<1>4. \A v \in Workers : \E d \in Nat : Remains(Queued(v)', Queued(v), d)
  BY <1>1, <1>3, AllRemain
<1>5. Total(routed)' = Total(routed)
  BY <1>1 DEF Total
<1>6. handled' \subseteq 1 .. Total(routed) /\ IsFiniteSet(handled')
  BY <1>1, <1>2, FS_AddElement DEF QueuesOK
<1>7. ASSUME NEW v \in Workers, NEW i \in 1 .. Len(Queued(v)')
      PROVE  Queued(v)'[i].id \notin handled'
  <2>1. Queued(v)'[i] \in Carried(v)
    BY <1>4, CarriedShrink
  <2>2. Queued(v)'[i].id \notin handled
    BY <2>1 DEF QueuesOK, FrameOK
  <2>3. Queued(v)'[i].id # f.id
    <3>1. CASE v # w
      BY <1>2, <2>1, <3>1 DEF QueuesOK
    <3>2. CASE v = w
      <4>1. /\ Queued(w)'[i] = Queued(w)[i + 1] /\ i + 1 \in 1 .. Len(Queued(w)) /\ 1 < i + 1
        BY <1>1, <1>3, <3>2 DEF Remains
      <4>2. Queued(w)[1].id < Queued(w)[i + 1].id
        BY <1>1, <4>1 DEF QueuesOK, InOrder
      <4>3. Queued(w)[1].id \in Nat /\ Queued(w)[i + 1].id \in Nat
        <5>1. Queued(w)[1] \in Carried(w) /\ Queued(w)[i + 1] \in Carried(w)
          BY <1>1, <4>1 DEF Carried
        <5>2. Carried(w) \subseteq Frame
          BY CarriedType
        <5> QED
          BY <5>1, <5>2 DEF Frame
      <4> QED
        BY <3>2, <4>1, <4>2, <4>3
    <3> QED
      BY <3>1, <3>2
  <2> QED
    BY <1>1, <2>2, <2>3
<1> HIDE DEF f
<1> QED
  BY <1>1, <1>4, <1>5, <1>6, <1>7, QueuesShrink

LEMMA ReceiveNext ==
    ASSUME Typed, WorkersOK, QueuesOK, NEW t \in Topics, NEW k \in Keys \cup {NoKey},
           Receive(t, k), [Next]_vars
    PROVE  QueuesOK'
<1>1. PICK w \in Workers, new \in Frame :
        /\ w = Target(Came(t, k)) /\ new = Accepted(Came(t, k), w)
        /\ \A v \in Workers \ {w} : Queued(v)' = Queued(v)
        /\ handled' = handled /\ mode' = mode /\ removals' = removals /\ subq' = subq
        /\ worker' = worker
        /\ \/ Queued(w)' = Queued(w) /\ Total(routed)' \in {Total(routed), Total(routed) + 1}
           \/ /\ Len(Queued(w)') = Len(Queued(w)) + 1
              /\ \A i \in 1 .. Len(Queued(w)) : Queued(w)'[i] = Queued(w)[i]
              /\ Queued(w)'[Len(Queued(w)) + 1] = new
              /\ Total(routed)' = Total(routed) + 1
  BY ReceiveQueues
<1>2. Typed'
  BY TypedNext
<1>3. /\ \A v \in Workers : Len(Queued(v)) \in Nat /\ Queued(v) \in Seq(Frame)
      /\ Total(routed) \in Nat
  BY QueueType, Counters
<1>4. Total(routed)' <= Total(server.sent)'
  BY Counters DEF QueuesOK
<1>5. handled' \subseteq 1 .. Total(routed)' /\ IsFiniteSet(handled')
  BY <1>1, <1>3 DEF QueuesOK
<1>6. ASSUME NEW v \in Workers, NEW f \in Carried(v), f \in Carried(v)' PROVE FrameOK(f, v)'
  <2>1. f \in Frame /\ FrameOK(f, v)
    BY CarriedType DEF QueuesOK
  <2>2. Queued(v)' # <<>>
    BY <1>2, <1>6, CarriedType DEF Carried
  <2>3. f.id \notin handled'
    BY <1>1, <2>1 DEF FrameOK
  <2> QED
    BY <1>1, <2>1, <2>2, <2>3, FrameKept
<1>7. CASE Queued(w)' = Queued(w)
  <2>1. \A v \in Workers : Queued(v)' = Queued(v)
    BY <1>1, <1>7
  <2>2. \A v \in Workers : Carried(v)' = Carried(v)
    BY <2>1 DEF Carried
  <2>3. \A v \in Workers : InOrder(Queued(v))'
    BY <2>1 DEF QueuesOK, InOrder
  <2>4. \A v \in Workers : \A f \in Carried(v)' : FrameOK(f, v)'
    BY <1>6, <2>2
  <2>5. \A u, v \in Workers : u # v => \A f \in Carried(u)', g \in Carried(v)' : f.id # g.id
    BY <2>2 DEF QueuesOK
  <2> QED
    BY <1>4, <1>5, <2>3, <2>4, <2>5 DEF QueuesOK
<1>8. CASE /\ Len(Queued(w)') = Len(Queued(w)) + 1
           /\ \A i \in 1 .. Len(Queued(w)) : Queued(w)'[i] = Queued(w)[i]
           /\ Queued(w)'[Len(Queued(w)) + 1] = new
           /\ Total(routed)' = Total(routed) + 1
  <2> DEFINE n == Len(Queued(w))
  <2>1. new.id = Total(routed) + 1 /\ new.topic = t /\ new.key = k
        /\ new.settled = Settled(w, t) /\ new.removals = removals[t]
    BY <1>1 DEF Accepted, Came
  <2>2. Carried(w)' = Carried(w) \cup {new} /\ \A v \in Workers \ {w} : Carried(v)' = Carried(v)
    <3>1. 1 .. n + 1 = 1 .. n \cup {n + 1}
      BY <1>3
    <3>2. {Queued(w)'[i] : i \in 1 .. n + 1} = {Queued(w)[i] : i \in 1 .. n} \cup {new}
      BY <1>8, <3>1
    <3>3. \A v \in Workers \ {w} : Carried(v)' = Carried(v)
      BY <1>1 DEF Carried
    <3> QED
      BY <1>8, <3>2, <3>3 DEF Carried
  <2>3. \A v \in Workers : \A f \in Carried(v) : f.id \in 1 .. Total(routed)
    BY DEF QueuesOK, FrameOK
  <2>4. FrameOK(new, w)'
    <3>1. new.id \in 1 .. Total(routed)' /\ new.id \notin handled'
      BY <1>1, <1>3, <1>8, <2>1 DEF QueuesOK
    <3>2. mode # "none" => WorkerOf[RouteKey(new)] = w
      BY <1>1, <2>1 DEF Target, RouteKey, Came
    <3>3. (mode # "none" => WorkerOf[RouteKey(new)] = w)'
      BY <1>1, <3>2 DEF RouteKey
    <3>4. removals[t] \in Nat
      BY DEF Typed, HistoryOK
    <3>5. Settled(w, t) => t \in worker[w].table /\ NoRemoval(subq[w], t)
      BY DEF Settled, NoRemoval
    <3> QED
      BY <1>1, <2>1, <3>1, <3>3, <3>4, <3>5 DEF FrameOK, NoRemoval
  <2>5. InOrder(Queued(w))'
    <3> SUFFICES ASSUME NEW i \in 1 .. n + 1, NEW j \in 1 .. n + 1, i < j
                 PROVE  Queued(w)'[i].id < Queued(w)'[j].id
      BY <1>8 DEF InOrder
    <3>1. i \in 1 .. n /\ Queued(w)'[i] = Queued(w)[i] /\ Queued(w)[i] \in Carried(w)
      BY <1>3, <1>8 DEF Carried
    <3>2. CASE j \in 1 .. n
      BY <1>8, <3>1, <3>2 DEF QueuesOK, InOrder
    <3>3. CASE j = n + 1
      <4>1. Queued(w)[i].id \in 1 .. Total(routed)
        BY <2>3, <3>1
      <4> QED
        BY <1>3, <1>8, <2>1, <3>1, <3>3, <4>1
    <3> QED
      BY <1>3, <3>2, <3>3
  <2>6. \A v \in Workers \ {w} : InOrder(Queued(v))'
    BY <1>1 DEF QueuesOK, InOrder
  <2>7. \A v \in Workers : \A f \in Carried(v)' : FrameOK(f, v)'
    <3> SUFFICES ASSUME NEW v \in Workers, NEW f \in Carried(v)' PROVE FrameOK(f, v)'
      OBVIOUS
    <3>1. CASE f \in Carried(v)
      BY <1>6, <3>1
    <3>2. CASE v = w /\ f = new
      BY <2>4, <3>2
    <3> QED
      BY <2>2, <3>1, <3>2
  <2>8. \A u, v \in Workers : u # v => \A f \in Carried(u)', g \in Carried(v)' : f.id # g.id
    <3>1. \A v \in Workers : \A f \in Carried(v) : f.id # new.id
      BY <1>3, <2>1, <2>3
    <3> QED
      BY <2>2, <3>1 DEF QueuesOK
  <2> QED
    BY <1>4, <1>5, <2>5, <2>6, <2>7, <2>8 DEF QueuesOK
<1> QED
  BY <1>1, <1>7, <1>8

LEMMA QueuesNext ==
    ASSUME Typed, WorkersOK, QueuesOK, [Next]_vars
    PROVE  QueuesOK'
<1>1. CASE Quiet
  BY <1>1, QuietNext
<1>2. CASE ~Quiet
  <2>1. \/ \E t \in Topics, k \in Keys \cup {NoKey} : Receive(t, k)
        \/ \E w \in Workers : HandleFrame(w)
    BY <1>2 DEF Next, Quiet, WorkerStep
  <2> QED
    BY <2>1, ReceiveNext, HandleNext
<1> QED
  BY <1>1, <1>2

LEMMA QueuesAlways == Spec => [](Typed /\ WorkersOK /\ QueuesOK)
<1>1. Typed /\ WorkersOK /\ QueuesOK /\ [Next]_vars => (Typed /\ WorkersOK /\ QueuesOK)'
  BY TypedNext, WorkersNext, QueuesNext
<1> QED
  BY <1>1, TypedInit, WorkersInit, QueuesInit, PTL DEF Spec

LEMMA TailIsOther ==
    ASSUME NEW T, NEW q \in Seq(T), q # <<>>
    PROVE  Tail(q) # q
<1> DEFINE n == Len(q)
           m == Len(Tail(q))
<1>1. n \in Nat /\ m = n - 1 /\ (Tail(q) = q => m = n)
  BY LenProperties, HeadTailProperties
<1> HIDE DEF n, m
<1>2. m # n
  BY <1>1
<1> QED
  BY <1>1, <1>2

\* Only HandleFrame shortens the batch of a worker that goes on running.
LEMMA Discarding ==
    ASSUME Typed, WorkersOK, [Next]_vars, NEW w \in Workers,
           worker[w].batch # <<>>, worker'[w].state = "running",
           worker'[w].batch = Tail(worker[w].batch)
    PROVE  HandleFrame(w)
<1>1. worker[w] \in Local /\ worker[w].batch \in Seq(Frame)
  BY DEF Typed, ProcessesOK, Local
<1>2. worker'[w].batch # worker[w].batch
  BY <1>1, TailIsOther
<1>3. pool /\ worker[w].state = "running"
  BY DEF WorkersOK, IdleOK
<1>4. CASE \/ UNCHANGED vars \/ Break \/ Restore \/ Stop \/ ServerRestarts \/ Heartbeat
           \/ \E t \in Topics : FrameLost(t) \/ Unsubscribe(t)
  BY <1>2, <1>4, Elsewhere
<1>5. ASSUME NEW t \in Topics, Subscribe(t) PROVE FALSE
  BY <1>2, <1>3, <1>5 DEF Subscribe
<1>6. ASSUME NEW t \in Topics, NEW k \in Keys \cup {NoKey}, Receive(t, k) PROVE FALSE
  BY <1>2, <1>6 DEF Receive
<1>7. CASE Close
  <2>1. worker'[w] = [worker[w] EXCEPT !.state = "terminated", !.batch = <<>>, !.stats = 0]
    BY <1>3, <1>7 DEF Close, Running, Killed
  <2> QED
    BY <1>1, <2>1 DEF Local
<1>8. ASSUME NEW v \in Workers, WorkerStep(v) \/ Crash(v) PROVE HandleFrame(w)
  <2>1. v = w
    BY <1>2, <1>8, Turn DEF WorkerStep
  <2>2. ~ReadRing(w) /\ ~Poll(w) /\ ~Exit(w) /\ ~FlushStats(w) /\ ~Crash(w)
    BY <1>2, Turn
  <2> QED
    BY <1>8, <2>1, <2>2 DEF WorkerStep
<1> QED
  BY <1>4, <1>5, <1>6, <1>7, <1>8 DEF Next

\* A worker passes over a frame only when subscriptions were changing around it:
\* as long as a pattern was in the worker's table when the frame was routed, with
\* no change of it on its way, and unsubscribe() is not called, the frame goes to
\* the callbacks, whatever batches, other patterns and other workers do.
THEOREM OnlyUnsettledDiscardedAlways == Spec => OnlyUnsettledDiscarded
<1> DEFINE Fair(w) ==
      (worker[w].batch # <<>> /\ worker'[w].state = "running"
       /\ worker'[w].batch = Tail(worker[w].batch) /\ handled' = handled) =>
         LET f == Head(worker[w].batch)
         IN ~f.settled \/ removals[f.topic] > f.removals
<1>1. ASSUME Typed, WorkersOK, QueuesOK, [Next]_vars PROVE [\A w \in Workers : Fair(w)]_vars
  <2> SUFFICES ASSUME NEW w \in Workers,
                      worker[w].batch # <<>>, worker'[w].state = "running",
                      worker'[w].batch = Tail(worker[w].batch), handled' = handled
               PROVE  LET f == Head(worker[w].batch)
                      IN ~f.settled \/ removals[f.topic] > f.removals
    OBVIOUS
  <2> DEFINE f == Head(worker[w].batch)
  <2>1. HandleFrame(w)
    BY <1>1, Discarding
  <2>2. /\ 1 \in 1 .. Len(Queued(w)) /\ Queued(w)[1] = f
        /\ handled' = IF f.topic \in worker[w].table THEN handled \cup {f.id} ELSE handled
    BY <1>1, <2>1, HandleQueues
  <2>3. f \in Carried(w)
    BY <2>2 DEF Carried
  <2>4. f \in Frame /\ FrameOK(f, w)
    BY <1>1, <2>3, CarriedType DEF QueuesOK
  <2>5. f.topic \notin worker[w].table
    BY <2>2, <2>4 DEF FrameOK
  <2>6. f.removals \in Nat /\ removals[f.topic] \in Nat
    BY <1>1, <2>4 DEF Frame, Typed, HistoryOK
  <2> QED
    BY <2>4, <2>5, <2>6 DEF FrameOK
<1> QED
  BY <1>1, QueuesAlways, PTL DEF Spec, OnlyUnsettledDiscarded

-----------------------------------------------------------------------------
(* The order of a key *)

KeyOf(m, f) == IF m = "field" /\ f.key # NoKey THEN f.key ELSE f.topic

\* The numbers of the frames of key k in a queue.
Ids(m, k, q) == {f.id : f \in {g \in Range(q) : KeyOf(m, g) = k}}

LEMMA IdsAre ==
    ASSUME NEW q \in Seq(Frame), NEW m, NEW k, NEW x
    PROVE  x \in Ids(m, k, q) <=>
             \E i \in 1 .. Len(q) : q[i].id = x /\ KeyOf(m, q[i]) = k
<1>1. DOMAIN q = 1 .. Len(q)
  BY LenProperties
<1>2. x \in Ids(m, k, q) <=> \E f \in Range(q) : f.id = x /\ KeyOf(m, f) = k
  BY DEF Ids
<1>3. \A f : f \in Range(q) <=> \E i \in 1 .. Len(q) : f = q[i]
  BY <1>1 DEF Range
<1> QED
  BY <1>2, <1>3

LEMMA IdsType ==
    ASSUME NEW q \in Seq(Frame)
    PROVE  Len(q) \in Nat /\ \A i \in 1 .. Len(q) : q[i] \in Frame /\ q[i].id \in Nat
<1>1. \A i \in 1 .. Len(q) : q[i] \in Frame
  BY ElementOfSeq
<1> QED
  BY <1>1, LenProperties DEF Frame

\* What is gone from the front of a queue is older than what remains.
LEMMA IdsRemain ==
    ASSUME NEW q \in Seq(Frame), NEW p \in Seq(Frame), NEW d \in Nat, Remains(p, q, d),
           InOrder(q), NEW m, NEW k
    PROVE  /\ Ids(m, k, p) \subseteq Ids(m, k, q)
           /\ \A x \in Ids(m, k, q) \ Ids(m, k, p), y \in Ids(m, k, p) : x < y
<1>1. /\ Len(q) \in Nat /\ Len(p) \in Nat /\ Len(p) = Len(q) - d
      /\ \A i \in 1 .. Len(p) : p[i] = q[i + d]
  BY IdsType DEF Remains
<1>2. ASSUME NEW x \in Ids(m, k, p) PROVE x \in Ids(m, k, q)
  <2>1. PICK i \in 1 .. Len(p) : p[i].id = x /\ KeyOf(m, p[i]) = k
    BY IdsAre
  <2>2. i + d \in 1 .. Len(q) /\ q[i + d].id = x /\ KeyOf(m, q[i + d]) = k
    BY <1>1, <2>1
  <2> QED
    BY <2>2, IdsAre
<1>3. ASSUME NEW x \in Ids(m, k, q), x \notin Ids(m, k, p), NEW y \in Ids(m, k, p) PROVE x < y
  <2>1. PICK i \in 1 .. Len(q) : q[i].id = x /\ KeyOf(m, q[i]) = k
    BY IdsAre
  <2>2. PICK j \in 1 .. Len(p) : p[j].id = y /\ KeyOf(m, p[j]) = k
    BY IdsAre
  <2>3. i <= d
    <3>1. SUFFICES ASSUME ~(i <= d) PROVE FALSE
      OBVIOUS
    <3>2. i - d \in 1 .. Len(p) /\ i - d + d = i
      BY <1>1, <3>1
    <3>3. p[i - d] = q[i]
      BY <1>1, <3>2
    <3> QED
      BY <1>3, <2>1, <3>2, <3>3, IdsAre
  <2>4. j + d \in 1 .. Len(q) /\ i < j + d /\ q[j + d].id = y
    BY <1>1, <2>2, <2>3
  <2> QED
    BY <2>1, <2>4 DEF InOrder
<1> QED
  BY <1>2, <1>3

\* The first frame of a queue is the oldest of its key.
LEMMA IdsTail ==
    ASSUME NEW q \in Seq(Frame), NEW p \in Seq(Frame), Remains(p, q, 1), 1 \in 1 .. Len(q),
           InOrder(q), NEW m, NEW k
    PROVE  /\ KeyOf(m, q[1]) = k =>
                /\ q[1].id \in Ids(m, k, q) /\ \A y \in Ids(m, k, q) : q[1].id <= y
                /\ Ids(m, k, p) = Ids(m, k, q) \ {q[1].id}
           /\ KeyOf(m, q[1]) # k => Ids(m, k, p) = Ids(m, k, q)
<1>1. /\ Len(q) \in Nat /\ Len(p) \in Nat /\ Len(p) = Len(q) - 1
      /\ \A i \in 1 .. Len(p) : p[i] = q[i + 1]
      /\ \A i \in 1 .. Len(q) : q[i].id \in Nat
  BY IdsType DEF Remains
<1>2. \A i \in 1 .. Len(q) : i # 1 => q[1].id < q[i].id
  BY <1>1 DEF InOrder
<1>3. ASSUME NEW x
      PROVE  x \in Ids(m, k, q) <=>
               x \in Ids(m, k, p) \/ (x = q[1].id /\ KeyOf(m, q[1]) = k)
  <2>1. x \in Ids(m, k, p) => x \in Ids(m, k, q)
    BY IdsRemain
  <2>2. x = q[1].id /\ KeyOf(m, q[1]) = k => x \in Ids(m, k, q)
    BY IdsAre
  <2>3. ASSUME x \in Ids(m, k, q), ~(x = q[1].id /\ KeyOf(m, q[1]) = k)
        PROVE  x \in Ids(m, k, p)
    <3>1. PICK i \in 1 .. Len(q) : q[i].id = x /\ KeyOf(m, q[i]) = k
      BY <2>3, IdsAre
    <3>2. i # 1
      BY <2>3, <3>1
    <3>3. i - 1 \in 1 .. Len(p) /\ i - 1 + 1 = i
      BY <1>1, <3>2
    <3>4. p[i - 1] = q[i]
      BY <1>1, <3>3
    <3> QED
      BY <3>1, <3>3, <3>4, IdsAre
  <2> QED
    BY <2>1, <2>2, <2>3
<1>4. q[1].id \notin Ids(m, k, p)
  <2>1. SUFFICES ASSUME q[1].id \in Ids(m, k, p) PROVE FALSE
    OBVIOUS
  <2>2. PICK j \in 1 .. Len(p) : p[j].id = q[1].id
    BY <2>1, IdsAre
  <2>3. j + 1 \in 1 .. Len(q) /\ j + 1 # 1 /\ q[j + 1].id = q[1].id
    BY <1>1, <2>2
  <2> QED
    BY <1>1, <1>2, <2>3
<1>5. ASSUME NEW y \in Ids(m, k, q) PROVE q[1].id <= y
  <2>1. PICK i \in 1 .. Len(q) : q[i].id = y
    BY IdsAre
  <2> QED
    BY <1>1, <1>2, <2>1
<1> QED
  BY <1>3, <1>4, <1>5

LEMMA IdsAppend ==
    ASSUME NEW q \in Seq(Frame), NEW p \in Seq(Frame), NEW new \in Frame,
           Len(p) = Len(q) + 1, \A i \in 1 .. Len(q) : p[i] = q[i], p[Len(q) + 1] = new,
           NEW m, NEW k
    PROVE  Ids(m, k, p) = IF KeyOf(m, new) = k THEN Ids(m, k, q) \cup {new.id} ELSE Ids(m, k, q)
<1>1. Len(q) \in Nat
  BY IdsType
<1>2. ASSUME NEW x
      PROVE  x \in Ids(m, k, p) <=>
               x \in Ids(m, k, q) \/ (x = new.id /\ KeyOf(m, new) = k)
  <2>1. x \in Ids(m, k, q) => x \in Ids(m, k, p)
    <3>1. \A i \in 1 .. Len(q) : i \in 1 .. Len(p)
      BY <1>1
    <3> QED
      BY <3>1, IdsAre
  <2>2. x = new.id /\ KeyOf(m, new) = k => x \in Ids(m, k, p)
    <3>1. Len(q) + 1 \in 1 .. Len(p)
      BY <1>1
    <3> QED
      BY <3>1, IdsAre
  <2>3. ASSUME x \in Ids(m, k, p), ~(x = new.id /\ KeyOf(m, new) = k)
        PROVE  x \in Ids(m, k, q)
    <3>1. PICK i \in 1 .. Len(p) : p[i].id = x /\ KeyOf(m, p[i]) = k
      BY <2>3, IdsAre
    <3>2. i # Len(q) + 1
      BY <2>3, <3>1
    <3>3. i \in 1 .. Len(q) /\ p[i] = q[i]
      BY <1>1, <3>2
    <3> QED
      BY <3>1, <3>3, IdsAre
  <2> QED
    BY <2>1, <2>2, <2>3
<1> QED
  BY <1>2

LEMMA WaitingIs ==
    ASSUME NEW k \in Topics \cup Keys
    PROVE  /\ Waiting[k] = IF mode = "none" THEN {} ELSE Ids(mode, k, Queued(WorkerOf[k]))
           /\ Waiting'[k] = IF mode' = "none" THEN {} ELSE Ids(mode', k, Queued(WorkerOf[k])')
  BY DEF Waiting, Ids, RouteKey, KeyOf

LEMMA WaitingDomain ==
    /\ DOMAIN Waiting = Topics \cup Keys /\ Waiting = [k \in Topics \cup Keys |-> Waiting[k]]
    /\ DOMAIN Waiting' = Topics \cup Keys /\ Waiting' = [k \in Topics \cup Keys |-> Waiting'[k]]
  BY DEF Waiting

LEMMA WorkerOfKey ==
    ASSUME NEW k \in Topics \cup Keys
    PROVE  WorkerOf[k] \in Workers
  BY ConstantsAssumption

LEMMA QueueTypeNext ==
    ASSUME Typed, [Next]_vars, NEW w \in Workers
    PROVE  Queued(w)' \in Seq(Frame)
<1>1. worker'[w].batch \in Seq(Frame) /\ ring'[w] \in Seq(Frame)
  BY TypedNext DEF Typed, ProcessesOK, Local
<1> QED
  BY <1>1, ConcatProperties DEF Queued

\* A step that accepts no frame, and brings none to a callback.
LEMMA DropStep ==
    ASSUME Typed, QueuesOK, [Next]_vars, mode' = mode, handled' = handled,
           \A w \in Workers : \E d \in Nat : Remains(Queued(w)', Queued(w), d)
    PROVE  Delivery!Drop
<1>1. ASSUME NEW k \in Topics \cup Keys
      PROVE  /\ Waiting'[k] \subseteq Waiting[k]
             /\ \A x \in Waiting[k] \ Waiting'[k], y \in Waiting'[k] : x < y
  <2> DEFINE w == WorkerOf[k]
  <2>1. w \in Workers
    BY WorkerOfKey
  <2>2. Queued(w) \in Seq(Frame) /\ Queued(w)' \in Seq(Frame) /\ InOrder(Queued(w))
    BY <2>1, QueueType, QueueTypeNext DEF QueuesOK
  <2>3. PICK d \in Nat : Remains(Queued(w)', Queued(w), d)
    BY <2>1
  <2>4. /\ Waiting[k] = IF mode = "none" THEN {} ELSE Ids(mode, k, Queued(w))
        /\ Waiting'[k] = IF mode = "none" THEN {} ELSE Ids(mode, k, Queued(w)')
    BY WaitingIs
  <2> DEFINE p == Queued(w)'
             q == Queued(w)
  <2>5. /\ Ids(mode, k, p) \subseteq Ids(mode, k, q)
        /\ \A x \in Ids(mode, k, q) \ Ids(mode, k, p), y \in Ids(mode, k, p) : x < y
    <3> HIDE DEF p, q
    <3> QED
      BY <2>2, <2>3, IdsRemain DEF p, q
  <2> QED
    BY <2>4, <2>5
<1>2. ASSUME NEW k \in Topics \cup Keys PROVE Waiting'[k] \in Delivery!Rest(Waiting[k])
  BY <1>1 DEF Delivery!Rest
<1>3. Reached' = Reached
  BY DEF Reached
<1> QED
  BY <1>2, <1>3, WaitingDomain DEF Delivery!Drop

LEMMA HandleStep ==
    ASSUME Typed, WorkersOK, QueuesOK, [Next]_vars, NEW w \in Workers, HandleFrame(w),
           mode # "none"
    PROVE  Delivery!Next
<1> DEFINE q == Queued(w)
           p == Queued(w)'
           f == q[1]
           k == RouteKey(f)
<1>1. /\ 1 \in 1 .. Len(q) /\ Remains(p, q, 1)
      /\ \A v \in Workers \ {w} : Queued(v)' = Queued(v)
      /\ mode' = mode
      /\ handled' = IF f.topic \in worker[w].table THEN handled \cup {f.id} ELSE handled
  BY HandleQueues
<1>2. q \in Seq(Frame) /\ p \in Seq(Frame) /\ InOrder(q)
  BY QueueType, QueueTypeNext DEF QueuesOK
<1>3. CASE handled' = handled
  <2>1. ASSUME NEW v \in Workers PROVE \E d \in Nat : Remains(Queued(v)', Queued(v), d)
    <3>1. Queued(v) \in Seq(Frame)
      BY QueueType
    <3>2. CASE v = w
      BY <1>1, <3>2
    <3>3. CASE v # w
      BY <1>1, <3>1, <3>3, AllRemain
    <3> QED
      BY <3>2, <3>3
  <2> QED
    BY <1>1, <1>3, <2>1, DropStep DEF Delivery!Next
<1>4. CASE handled' = handled \cup {f.id}
  <2>1. f \in Frame /\ k = KeyOf(mode, f) /\ k \in Topics \cup Keys
    <3>1. f \in Frame
      BY <1>1, <1>2, IdsType
    <3> HIDE DEF f
    <3> QED
      BY <3>1 DEF RouteKey, KeyOf, Frame
  <2>2. WorkerOf[k] = w
    <3>1. f \in Carried(w)
      BY <1>1 DEF Carried
    <3> QED
      BY <3>1 DEF QueuesOK, FrameOK
  <2> HIDE DEF p, q, f, k
  <2>3. ASSUME NEW x \in Topics \cup Keys
        PROVE  /\ KeyOf(mode, q[1]) = x =>
                    /\ q[1].id \in Ids(mode, x, q) /\ \A y \in Ids(mode, x, q) : q[1].id <= y
                    /\ Ids(mode, x, p) = Ids(mode, x, q) \ {q[1].id}
               /\ KeyOf(mode, q[1]) # x => Ids(mode, x, p) = Ids(mode, x, q)
    BY <1>1, <1>2, IdsTail
  <2>4. Waiting[k] = Ids(mode, k, q) /\ Waiting'[k] = Ids(mode, k, p)
    BY <1>1, <2>1, <2>2, WaitingIs DEF p, q
  <2>5. /\ f.id \in Waiting[k] /\ \A y \in Waiting[k] : f.id <= y
        /\ Waiting'[k] = Waiting[k] \ {f.id}
    BY <2>1, <2>3, <2>4 DEF f
  <2>6. ASSUME NEW x \in Topics \cup Keys, x # k PROVE Waiting'[x] = Waiting[x]
    <3>1. /\ Waiting[x] = Ids(mode, x, Queued(WorkerOf[x]))
          /\ Waiting'[x] = Ids(mode, x, Queued(WorkerOf[x])')
      BY <1>1, WaitingIs
    <3>2. CASE WorkerOf[x] = w
      <4>1. Ids(mode, x, p) = Ids(mode, x, q)
        BY <2>1, <2>3, <2>6 DEF f
      <4>2. Queued(WorkerOf[x]) = q /\ Queued(WorkerOf[x])' = p
        BY <3>2 DEF p, q
      <4> QED
        BY <3>1, <4>1, <4>2
    <3>3. CASE WorkerOf[x] # w
      <4>1. WorkerOf[x] \in Workers
        BY WorkerOfKey
      <4>2. Queued(WorkerOf[x])' = Queued(WorkerOf[x])
        BY <1>1, <3>3, <4>1
      <4> QED
        BY <3>1, <4>2
    <3> QED
      BY <3>2, <3>3
  <2>7. Waiting' = [Waiting EXCEPT ![k] = @ \ {f.id}]
    BY <2>1, <2>5, <2>6, WaitingDomain
  <2>8. Reached' = Reached \cup {f.id}
    BY <1>1, <1>4 DEF Reached
  <2>9. Delivery!Handle(k)
    BY <2>5, <2>7, <2>8 DEF Delivery!Handle
  <2> QED
    BY <2>1, <2>9 DEF Delivery!Next
<1> QED
  BY <1>1, <1>3, <1>4

LEMMA AcceptStep ==
    ASSUME Typed, WorkersOK, QueuesOK, [Next]_vars, mode # "none",
           NEW t \in Topics, NEW x \in Keys \cup {NoKey}, Receive(t, x)
    PROVE  Delivery!Next
<1>1. PICK w \in Workers, new \in Frame :
        /\ w = Target(Came(t, x)) /\ new = Accepted(Came(t, x), w)
        /\ \A v \in Workers \ {w} : Queued(v)' = Queued(v)
        /\ handled' = handled /\ mode' = mode
        /\ \/ Queued(w)' = Queued(w)
           \/ /\ Len(Queued(w)') = Len(Queued(w)) + 1
              /\ \A i \in 1 .. Len(Queued(w)) : Queued(w)'[i] = Queued(w)[i]
              /\ Queued(w)'[Len(Queued(w)) + 1] = new
  BY ReceiveQueues
<1>2. CASE Queued(w)' = Queued(w)
  <2>1. ASSUME NEW v \in Workers PROVE \E d \in Nat : Remains(Queued(v)', Queued(v), d)
    <3>1. Queued(v) \in Seq(Frame) /\ Queued(v)' = Queued(v)
      BY <1>1, <1>2, QueueType
    <3> QED
      BY <3>1, AllRemain
  <2> QED
    BY <1>1, <2>1, DropStep DEF Delivery!Next
<1>3. CASE /\ Len(Queued(w)') = Len(Queued(w)) + 1
           /\ \A i \in 1 .. Len(Queued(w)) : Queued(w)'[i] = Queued(w)[i]
           /\ Queued(w)'[Len(Queued(w)) + 1] = new
  <2> DEFINE k == RouteKey(new)
             q == Queued(w)
             p == Queued(w)'
  <2>1. k = KeyOf(mode, new) /\ k \in Topics \cup Keys
    BY DEF RouteKey, KeyOf, Frame
  <2>2. new.id = Total(routed) + 1 /\ WorkerOf[k] = w
    BY <1>1 DEF Accepted, Came, Target, RouteKey
  <2>3. q \in Seq(Frame) /\ p \in Seq(Frame)
    BY QueueType, QueueTypeNext
  <2>4. Total(routed) \in Nat /\ Total(server.sent) \in Nat /\ MaxFrames \in Nat
    BY Counters, ConstantsAssumption
  <2>5. new.id \in 1 .. MaxFrames
    <3>1. Total(routed) <= Total(server.sent) /\ Total(server.sent) < MaxFrames
      BY DEF QueuesOK, Receive, Sent
    <3> QED
      BY <2>2, <2>4, <3>1
  <2> HIDE DEF k, q, p
  <2>6. ASSUME NEW y \in Topics \cup Keys
        PROVE  Ids(mode, y, p) = IF KeyOf(mode, new) = y THEN Ids(mode, y, q) \cup {new.id}
                                 ELSE Ids(mode, y, q)
    BY <1>3, <2>3, IdsAppend DEF p, q
  <2>7. ASSUME NEW y \in Topics \cup Keys, y # k PROVE Waiting'[y] = Waiting[y]
    <3>1. /\ Waiting[y] = Ids(mode, y, Queued(WorkerOf[y]))
          /\ Waiting'[y] = Ids(mode, y, Queued(WorkerOf[y])')
      BY <1>1, WaitingIs
    <3>2. CASE WorkerOf[y] = w
      <4>1. Ids(mode, y, p) = Ids(mode, y, q)
        BY <2>1, <2>6, <2>7
      <4>2. Queued(WorkerOf[y]) = q /\ Queued(WorkerOf[y])' = p
        BY <3>2 DEF p, q
      <4> QED
        BY <3>1, <4>1, <4>2
    <3>3. CASE WorkerOf[y] # w
      <4>1. WorkerOf[y] \in Workers
        BY WorkerOfKey
      <4>2. Queued(WorkerOf[y])' = Queued(WorkerOf[y])
        BY <1>1, <3>3, <4>1
      <4> QED
        BY <3>1, <4>2
    <3> QED
      BY <3>2, <3>3
  <2>8. Waiting'[k] = Waiting[k] \cup {new.id}
    <3>1. Waiting[k] = Ids(mode, k, q) /\ Waiting'[k] = Ids(mode, k, p)
      BY <1>1, <2>1, <2>2, WaitingIs DEF p, q
    <3> QED
      BY <2>1, <2>6, <3>1
  <2>9. Waiting' = [Waiting EXCEPT ![k] = @ \cup {new.id}]
    BY <2>1, <2>7, <2>8, WaitingDomain
  <2>10. ASSUME NEW n \in Delivery!Known PROVE n < new.id
    <3>1. CASE n \in Reached
      <4>1. n \in 1 .. Total(routed)
        BY <3>1 DEF QueuesOK, Reached
      <4> QED
        BY <2>2, <2>4, <4>1
    <3>2. ASSUME NEW y \in Topics \cup Keys, n \in Waiting[y] PROVE n < new.id
      <4> DEFINE v == WorkerOf[y]
      <4>1. v \in Workers
        BY WorkerOfKey
      <4>2. n \in Ids(mode, y, Queued(v)) /\ Queued(v) \in Seq(Frame)
        BY <3>2, <4>1, WaitingIs, QueueType
      <4>3. PICK i \in 1 .. Len(Queued(v)) : Queued(v)[i].id = n
        BY <4>2, IdsAre
      <4>4. Queued(v)[i] \in Carried(v)
        BY DEF Carried
      <4>5. n \in 1 .. Total(routed)
        BY <4>1, <4>3, <4>4 DEF QueuesOK, FrameOK
      <4> QED
        BY <2>2, <2>4, <4>5
    <3> QED
      BY <3>1, <3>2 DEF Delivery!Known
  <2>11. Reached' = Reached
    BY <1>1 DEF Reached
  <2>12. Delivery!Accept(k)
    BY <2>5, <2>9, <2>10, <2>11 DEF Delivery!Accept
  <2> QED
    BY <2>1, <2>12 DEF Delivery!Next
<1> QED
  BY <1>1, <1>2, <1>3

LEMMA DeliveryStep ==
    ASSUME Typed, WorkersOK, QueuesOK, [Next]_vars
    PROVE  [Delivery!Next]_(Delivery!vars)
<1>1. mode' = mode
  BY DEF Next, vars, client, Break, Restore, Stop, Close, ServerRestarts, Heartbeat, FrameLost,
         Subscribe, Unsubscribe, Receive, WorkerStep, ReadRing, Poll, Exit, HandleFrame, FlushStats,
         Crash
<1>2. CASE mode = "none"
  <2>1. \A k \in Topics \cup Keys : Waiting'[k] = Waiting[k]
    BY <1>1, <1>2, WaitingIs
  <2>2. Waiting' = Waiting
    BY <2>1, WaitingDomain
  <2>3. Reached' = Reached
    BY <1>1, <1>2 DEF Reached
  <2> QED
    BY <2>2, <2>3 DEF Delivery!vars
<1>3. CASE mode # "none"
  <2>1. CASE Quiet
    BY <2>1, WorkersFinite, QuietQueues, DropStep DEF Delivery!Next
  <2>2. CASE ~Quiet
    <3>1. \/ \E t \in Topics, k \in Keys \cup {NoKey} : Receive(t, k)
          \/ \E w \in Workers : HandleFrame(w)
      BY <2>2 DEF Next, Quiet, WorkerStep
    <3> QED
      BY <1>3, <3>1, AcceptStep, HandleStep
  <2> QED
    BY <2>1, <2>2
<1> QED
  BY <1>2, <1>3

\* A pool that routes by topic or by key delivers the frames of each of them in
\* the order it accepted them: route() gives them all to the worker of the key,
\* the ring and the batch of that worker keep them in order, and whatever is
\* dropped is dropped from the front.
THEOREM InKeyOrderAlways == Spec => InKeyOrder
<1>1. Init => Delivery!Init
  <2> SUFFICES ASSUME Init PROVE Delivery!Init
    OBVIOUS
  <2>1. ASSUME NEW k \in Topics \cup Keys PROVE Waiting[k] = {}
    <3> DEFINE w == WorkerOf[k]
    <3>1. worker[w].batch = <<>> /\ ring[w] = <<>>
      BY WorkerOfKey, FreshIsIdle DEF Init
    <3>2. Queued(w) = <<>> /\ <<>> \in Seq(Frame) /\ Len(<<>>) = 0
      BY <3>1, EmptySeq, ConcatEmptySeq DEF Queued
    <3>3. ASSUME NEW x PROVE x \notin Ids(mode, k, Queued(w))
      <4> DEFINE q == Queued(w)
      <4>1. q \in Seq(Frame) /\ 1 .. Len(q) = {}
        BY <3>2
      <4>2. x \in Ids(mode, k, q) => \E i \in 1 .. Len(q) : q[i].id = x
        <5> HIDE DEF q
        <5> QED
          BY <4>1, IdsAre
      <4> QED
        BY <4>1, <4>2
    <3> QED
      BY <3>3, WaitingIs
  <2>2. Reached = {}
    BY DEF Reached, Init
  <2> QED
    BY <2>1, <2>2, WaitingDomain DEF Delivery!Init
<1>2. Typed /\ WorkersOK /\ QueuesOK /\ [Next]_vars => [Delivery!Next]_(Delivery!vars)
  BY DeliveryStep
<1> QED
  BY <1>1, <1>2, QueuesAlways, PTL DEF Spec, InKeyOrder, Delivery!Spec

-----------------------------------------------------------------------------
(* What is reported *)

LEMMA PartOfTotal ==
    ASSUME NEW S, IsFiniteSet(S), NEW f \in [S -> Nat], NEW a \in S
    PROVE  f[a] <= SumFunction(f)
<1>1. IsFiniteSet(S \ {a}) /\ DOMAIN f = S
  BY FS_RemoveElement
<1>2. SumFunctionOnSet(f, S) = f[a] + SumFunctionOnSet(f, S \ {a})
  BY SumRemove
<1>3. SumFunctionOnSet(f, S \ {a}) \in Nat
  BY <1>1, SumNat
<1>4. f[a] \in Nat
  OBVIOUS
<1>5. f[a] <= SumFunctionOnSet(f, S)
  BY <1>2, <1>3, <1>4
<1> QED
  BY <1>1, <1>5 DEF SumFunction

\* The variables of the client and of its workers keep their ranges, and a
\* baseline never runs ahead of what the server has sent.
THEOREM TypeAlways == Spec => []TypeOK
<1>1. Typed /\ WorkersOK /\ GapsOK => TypeOK
  <2> SUFFICES ASSUME Typed, WorkersOK, GapsOK PROVE TypeOK
    OBVIOUS
  <2>1. ASSUME NEW t \in Topics
        PROVE  gap[t].last \in NoSeq .. MaxFrames /\ gap[t].reported \in 0 .. gap[t].missing
    <3>1. /\ gap[t].last \in Int /\ gap[t].reported \in Nat /\ gap[t].missing \in Nat
          /\ gap[t].reported <= gap[t].missing
      BY DEF Typed, ClientOK, Gap
    <3>2. server.sent \in [Topics -> Nat]
      BY DEF Typed, ServerOK
    <3> DEFINE f == server.sent
    <3>3. f[t] <= SumFunction(f) /\ f[t] \in Nat /\ SumFunction(f) \in Nat
      <4> HIDE DEF f
      <4>1. IsFiniteSet(Topics) /\ f \in [Topics -> Nat]
        BY <3>2, ConstantsAssumption DEF f
      <4> QED
        BY <4>1, PartOfTotal, TotalType
    <3>4. NoSeq <= gap[t].last /\ gap[t].last <= f[t] /\ SumFunction(f) <= MaxFrames
      BY DEF GapsOK, GapOK, Balanced, Total
    <3>5. MaxFrames \in Nat /\ NoSeq \in Int
      BY ConstantsAssumption DEF NoSeq
    <3> HIDE DEF f
    <3>6. gap[t].last <= MaxFrames
      BY <3>1, <3>3, <3>4, <3>5
    <3> QED
      BY <3>1, <3>4, <3>5, <3>6
  <2>2. ASSUME NEW w \in Workers
        PROVE  /\ Len(ring[w]) <= RingCap /\ Len(worker[w].batch) <= BatchMax
               /\ worker[w].table \subseteq Topics /\ worker[w].empty \in 0 .. ExitPolls
    <3>1. worker[w].table \subseteq Topics /\ worker[w].empty \in Nat
      BY DEF Typed, ProcessesOK, Local
    <3>2. ExitPolls \in Nat
      BY ConstantsAssumption
    <3> QED
      BY <3>1, <3>2 DEF WorkersOK, LimitsOK
  <2> QED
    BY <2>1, <2>2 DEF TypeOK, Typed, ClientOK, ProcessesOK, ServerOK, HistoryOK
<1>2. Typed /\ GapsOK /\ [Next]_vars => (Typed /\ GapsOK)'
  BY TypedNext, GapsNext
<1>3. Spec => [](Typed /\ GapsOK)
  BY <1>2, TypedInit, GapsInit, PTL DEF Spec
<1> QED
  BY <1>1, <1>3, TypedAlways, PTL

Missing == [t \in Topics |-> gap[t].missing]

New == [t \in Topics |-> gap[t].missing - gap[t].reported]

Stats == [w \in Workers |-> worker[w].stats]

\* Each of the three counts is either in a heartbeat or still at hand.
SumsOK ==
    /\ Total(Missing) = told["gaps"] + Total(New)
    /\ Total(refused) = told["drops"] + unsent
    /\ Cardinality(handled) = told["proc"] + statsq + Total(Stats)

LEMMA SumTypes ==
    /\ Typed => Missing \in [Topics -> Nat] /\ New \in [Topics -> Nat] /\ Stats \in [Workers -> Nat]
    /\ Typed' => Missing' \in [Topics -> Nat] /\ New' \in [Topics -> Nat] /\ Stats' \in [Workers -> Nat]
<1>1. ASSUME Typed
      PROVE  Missing \in [Topics -> Nat] /\ New \in [Topics -> Nat] /\ Stats \in [Workers -> Nat]
  <2>1. \A t \in Topics : gap[t].missing \in Nat /\ gap[t].missing - gap[t].reported \in Nat
    BY <1>1 DEF Typed, ClientOK, Gap
  <2>2. \A w \in Workers : worker[w].stats \in Nat
    BY <1>1 DEF Typed, ProcessesOK, Local
  <2> QED
    BY <2>1, <2>2 DEF Missing, New, Stats
<1>2. ASSUME Typed'
      PROVE  Missing' \in [Topics -> Nat] /\ New' \in [Topics -> Nat] /\ Stats' \in [Workers -> Nat]
  <2>1. \A t \in Topics : gap'[t].missing \in Nat /\ gap'[t].missing - gap'[t].reported \in Nat
    BY <1>2 DEF Typed, ClientOK, Gap
  <2>2. \A w \in Workers : worker'[w].stats \in Nat
    BY <1>2 DEF Typed, ProcessesOK, Local
  <2> QED
    BY <2>1, <2>2 DEF Missing, New, Stats
<1> QED
  BY <1>1, <1>2

\* A sum after one of its parts has changed.
LEMMA Moved ==
    ASSUME NEW S, IsFiniteSet(S), NEW f \in [S -> Nat], NEW g \in [S -> Nat],
           NEW a \in S, \A x \in S \ {a} : g[x] = f[x]
    PROVE  /\ Total(g) = Total(f) - f[a] + g[a]
           /\ Total(f) \in Nat /\ Total(g) \in Nat /\ f[a] \in Nat /\ g[a] \in Nat
<1>1. f \in [S -> Int] /\ g \in [S -> Int]
  OBVIOUS
<1>2. SumFunction(g) = SumFunction(f) - f[a] + g[a]
  BY <1>1, TotalChange
<1>3. SumFunction(f) \in Nat /\ SumFunction(g) \in Nat
  BY TotalType
<1> QED
  BY <1>2, <1>3 DEF Total

LEMMA SumsInit == Init => SumsOK
<1> SUFFICES ASSUME Init PROVE SumsOK
  OBVIOUS
<1>1. IsFiniteSet(Topics) /\ IsFiniteSet(Workers)
  BY ConstantsAssumption, WorkersFinite
<1>2. Missing \in [Topics -> Int] /\ \A t \in Topics : Missing[t] = 0
  BY DEF Init, Missing
<1>3. New \in [Topics -> Int] /\ \A t \in Topics : New[t] = 0
  BY DEF Init, New
<1>4. Stats \in [Workers -> Int] /\ \A w \in Workers : Stats[w] = 0
  BY FreshIsIdle DEF Init, Stats
<1>5. refused \in [Topics -> Int] /\ \A t \in Topics : refused[t] = 0
  BY DEF Init
<1>6. Total(Missing) = 0 /\ Total(New) = 0 /\ Total(Stats) = 0 /\ Total(refused) = 0
  BY <1>1, <1>2, <1>3, <1>4, <1>5, TotalZero DEF Total
<1>7. told["gaps"] = 0 /\ told["drops"] = 0 /\ told["proc"] = 0 /\ unsent = 0 /\ statsq = 0
  BY DEF Init, Nothing, Kinds
<1>8. Cardinality(handled) = 0
  BY FS_EmptySet DEF Init
<1> QED
  BY <1>6, <1>7, <1>8 DEF SumsOK

\* Frames received: what is missing, and what is refused.
LEMMA ReceiveSums ==
    ASSUME Typed, SumsOK, NEW t \in Topics, NEW k \in Keys \cup {NoKey}, Receive(t, k), Typed'
    PROVE  SumsOK'
<1>1. PICK ok \in BOOLEAN :
        /\ gap' = [gap EXCEPT ![t] = Tracked(@, server.seq[t] + 1, ok)]
        /\ unsent' = IF ok THEN unsent ELSE unsent + 1
        /\ refused' = IF ok THEN refused ELSE [refused EXCEPT ![t] = @ + 1]
  BY ReceiveIs
<1>2. handled' = handled /\ told' = told /\ statsq' = statsq /\ worker' = worker
  BY DEF Receive
<1>3. IsFiniteSet(Topics)
  BY ConstantsAssumption
<1>4. /\ Missing \in [Topics -> Nat] /\ New \in [Topics -> Nat]
      /\ Missing' \in [Topics -> Nat] /\ New' \in [Topics -> Nat]
  BY SumTypes
<1>5. /\ gap \in [Topics -> Gap] /\ gap[t] \in Gap /\ server.seq[t] \in Nat
      /\ refused \in [Topics -> Nat] /\ unsent \in Nat /\ told \in [Kinds -> Nat]
  BY DEF Typed, ClientOK, ServerOK, HistoryOK
<1>6. PICK j \in Nat : /\ gap'[t].missing = gap[t].missing + j
                       /\ gap'[t].reported = gap[t].reported
  <2> DEFINE g == gap[t]
             n == server.seq[t] + 1
             new == Tracked(g, n, ok)
  <2>1. g \in Gap /\ n \in Nat \ {0} /\ gap'[t] = new
    BY <1>1, <1>5
  <2> HIDE DEF g, n
  <2>2. /\ new.reported = g.reported
        /\ new.missing = g.missing + (IF g.last # NoSeq /\ n > g.last + 1 THEN n - g.last - 1 ELSE 0)
    BY <2>1, TrackedIs
  <2>3. (IF g.last # NoSeq /\ n > g.last + 1 THEN n - g.last - 1 ELSE 0) \in Nat
    BY <2>1 DEF Gap
  <2> HIDE DEF new
  <2> QED
    BY <2>1, <2>2, <2>3 DEF g
<1>7. \A x \in Topics \ {t} : gap'[x] = gap[x]
  BY <1>1, <1>5
<1>8. /\ Missing'[t] = Missing[t] + j /\ New'[t] = New[t] + j
      /\ Missing[t] \in Nat /\ New[t] \in Nat
  <2>1. gap[t].missing \in Nat /\ gap[t].reported \in Nat
    BY <1>5 DEF Gap
  <2>2. gap'[t].missing - gap'[t].reported = gap[t].missing - gap[t].reported + j
    BY <1>6, <2>1
  <2> QED
    BY <1>4, <1>6, <2>2 DEF Missing, New
<1>9. \A x \in Topics \ {t} : Missing'[x] = Missing[x] /\ New'[x] = New[x]
  BY <1>7 DEF Missing, New
<1>10. /\ Total(Missing)' = Total(Missing) + j /\ Total(New)' = Total(New) + j
       /\ Total(Missing) \in Nat /\ Total(New) \in Nat
  <2> DEFINE f == Missing
             g == Missing'
             h == New
             i == New'
  <2>1. /\ f \in [Topics -> Nat] /\ g \in [Topics -> Nat] /\ h \in [Topics -> Nat]
        /\ i \in [Topics -> Nat] /\ g[t] = f[t] + j /\ i[t] = h[t] + j
        /\ \A x \in Topics \ {t} : g[x] = f[x] /\ i[x] = h[x]
    BY <1>4, <1>8, <1>9
  <2>2. Total(Missing)' = Total(g) /\ Total(New)' = Total(i)
    BY DEF Total
  <2> HIDE DEF f, g, h, i
  <2>3. /\ Total(g) = Total(f) - f[t] + g[t]
        /\ Total(f) \in Nat /\ Total(g) \in Nat /\ f[t] \in Nat /\ g[t] \in Nat
    BY <1>3, <2>1, Moved
  <2>4. /\ Total(i) = Total(h) - h[t] + i[t]
        /\ Total(h) \in Nat /\ Total(i) \in Nat /\ h[t] \in Nat /\ i[t] \in Nat
    BY <1>3, <2>1, Moved
  <2>5. Total(g) = Total(f) + j /\ Total(i) = Total(h) + j
    BY <2>1, <2>3, <2>4
  <2> QED
    BY <2>2, <2>3, <2>4, <2>5 DEF f, h
<1>11. Total(refused)' = told["drops"] + unsent'
  <2>1. CASE ok
    BY <1>1, <2>1 DEF SumsOK, Total
  <2>2. CASE ~ok
    <3> DEFINE f == refused
               g == [refused EXCEPT ![t] = @ + 1]
    <3>1. /\ f \in [Topics -> Nat] /\ g \in [Topics -> Nat] /\ g[t] = f[t] + 1
          /\ \A x \in Topics \ {t} : g[x] = f[x]
      BY <1>5
    <3>2. Total(refused)' = Total(g) /\ unsent' = unsent + 1
      BY <1>1, <2>2 DEF Total
    <3>3. Total(f) = told["drops"] + unsent
      BY DEF SumsOK
    <3> HIDE DEF f, g
    <3>4. Total(g) = Total(f) - f[t] + g[t] /\ Total(f) \in Nat /\ f[t] \in Nat
      BY <1>3, <3>1, Moved
    <3>5. told["drops"] \in Nat
      BY <1>5 DEF Kinds
    <3> QED
      BY <1>5, <3>1, <3>2, <3>3, <3>4, <3>5
  <2> QED
    BY <2>1, <2>2
<1>12. told["gaps"] \in Nat
  BY <1>5 DEF Kinds
<1>13. Total(Missing)' = told'["gaps"] + Total(New)'
  BY <1>2, <1>10, <1>12 DEF SumsOK
<1>14. Cardinality(handled)' = told'["proc"] + statsq' + Total(Stats)'
  BY <1>2 DEF SumsOK, Stats, Total
<1> QED
  BY <1>2, <1>11, <1>13, <1>14 DEF SumsOK

LEMMA HeartbeatSums ==
    ASSUME Typed, SumsOK, Heartbeat, Typed'
    PROVE  SumsOK'
<1>1. IsFiniteSet(Topics)
  BY ConstantsAssumption
<1>2. PICK stats \in {0, statsq} :
        /\ statsq' = statsq - stats
        /\ told' = Plus(told, [gaps |-> NewGaps, drops |-> unsent, proc |-> stats])
  BY DEF Heartbeat
<1>3. /\ gap \in [Topics -> Gap] /\ gap' = Marked(gap) /\ unsent' = 0 /\ unsent \in Nat
      /\ refused' = refused /\ handled' = handled /\ worker' = worker /\ statsq \in Nat
      /\ told \in [Kinds -> Nat]
  BY DEF Heartbeat, Typed, ClientOK, ProcessesOK, HistoryOK
<1>4. NewGaps = Total(New)
  BY DEF NewGaps, New
<1>5. /\ told'["gaps"] = told["gaps"] + Total(New) /\ told'["drops"] = told["drops"] + unsent
      /\ told'["proc"] = told["proc"] + stats
  BY <1>2, <1>4 DEF Plus, Kinds
<1>6. told["gaps"] \in Nat /\ told["drops"] \in Nat /\ told["proc"] \in Nat
  BY <1>3 DEF Kinds
<1>7. ASSUME NEW t \in Topics PROVE Missing'[t] = Missing[t] /\ New'[t] = 0
  <2>1. gap'[t].missing = gap[t].missing /\ gap'[t].reported = gap[t].missing /\ gap[t].missing \in Nat
    BY <1>3 DEF Marked, Gap
  <2> QED
    BY <2>1 DEF Missing, New
<1>8. Missing' = Missing
  BY <1>7 DEF Missing
<1>9. Total(New)' = 0
  <2> DEFINE g == New'
  <2>1. g \in [Topics -> Int] /\ \A t \in Topics : g[t] = 0
    BY <1>7, SumTypes
  <2>2. Total(New)' = Total(g)
    BY DEF Total
  <2> HIDE DEF g
  <2> QED
    BY <1>1, <2>1, <2>2, TotalZero DEF Total
<1>10. Total(New) \in Nat /\ Total(Missing)' = Total(Missing)
  BY <1>1, <1>8, SumTypes, TotalType DEF Total
<1>11. Total(Stats)' = Total(Stats) /\ Total(Stats) \in Nat /\ Total(refused)' = Total(refused)
  BY <1>3, WorkersFinite, SumTypes, TotalType DEF Stats, Total
<1>12. Total(Missing)' = told'["gaps"] + Total(New)'
  BY <1>5, <1>6, <1>9, <1>10 DEF SumsOK
<1>13. Total(refused)' = told'["drops"] + unsent'
  BY <1>3, <1>5, <1>6, <1>11 DEF SumsOK
<1>14. Cardinality(handled)' = told'["proc"] + statsq' + Total(Stats)'
  <2>1. Cardinality(handled) = told["proc"] + statsq + Total(Stats)
    BY DEF SumsOK
  <2>2. stats \in Nat /\ statsq' = statsq - stats
    BY <1>2, <1>3
  <2> QED
    BY <1>3, <1>5, <1>6, <1>11, <2>1, <2>2
<1> QED
  BY <1>12, <1>13, <1>14 DEF SumsOK

\* The steps of a worker move processed frames from one place to the next.
LEMMA WorkerSums ==
    ASSUME Typed, QueuesOK, WorkersOK, SumsOK, NEW w \in Workers, WorkerStep(w) \/ Crash(w), Typed'
    PROVE  SumsOK'
<1>1. IsFiniteSet(Workers)
  BY WorkersFinite
<1>2. gap' = gap /\ refused' = refused /\ unsent' = unsent
  BY DEF WorkerStep, ReadRing, Poll, Exit, HandleFrame, FlushStats, Crash, client, history
<1>3. \A v \in Workers \ {w} : worker'[v] = worker[v]
  BY Turn DEF WorkerStep
<1>4. /\ statsq \in Nat /\ told \in [Kinds -> Nat] /\ told["proc"] \in Nat
      /\ worker[w].stats \in Nat /\ worker'[w].stats \in Nat
  BY DEF Typed, ProcessesOK, HistoryOK, Local, Kinds
<1>5. Total(Stats)' = Total(Stats) - worker[w].stats + worker'[w].stats /\ Total(Stats) \in Nat
  <2> DEFINE f == Stats
             g == Stats'
  <2>1. f \in [Workers -> Nat] /\ g \in [Workers -> Nat] /\ \A v \in Workers \ {w} : g[v] = f[v]
    BY <1>3, SumTypes DEF Stats
  <2>2. f[w] = worker[w].stats /\ g[w] = worker'[w].stats /\ Total(Stats)' = Total(g)
    BY DEF Stats, Total
  <2> HIDE DEF f, g
  <2>3. Total(g) = Total(f) - f[w] + g[w] /\ Total(f) \in Nat
    BY <1>1, <2>1, Moved
  <2> QED
    BY <2>2, <2>3 DEF f
<1>6. told'["gaps"] = told["gaps"] /\ told'["drops"] = told["drops"]
  BY <1>4 DEF WorkerStep, ReadRing, Poll, Exit, HandleFrame, FlushStats, Crash, history, Kinds
<1>7. Cardinality(handled) = told["proc"] + statsq + Total(Stats)
  BY DEF SumsOK
<1>8. Cardinality(handled)' = told'["proc"] + statsq' + Total(Stats)'
  <2>1. CASE ReadRing(w) \/ Poll(w)
    <3>1. worker'[w].stats = worker[w].stats
      BY <2>1, Turn
    <3>2. handled' = handled /\ told' = told /\ statsq' = statsq
      BY <2>1 DEF ReadRing, Poll, history
    <3> QED
      BY <1>4, <1>5, <1>7, <3>1, <3>2
  <2>2. CASE Exit(w) \/ FlushStats(w)
    <3>1. worker'[w].stats = 0
      BY <2>2, Turn
    <3>2. handled' = handled /\ told' = told /\ statsq' = statsq + worker[w].stats
      BY <2>2 DEF Exit, FlushStats, history
    <3> QED
      BY <1>4, <1>5, <1>7, <3>1, <3>2
  <2>3. CASE Crash(w)
    <3>1. worker'[w].stats = 0
      BY <2>3, Turn
    <3>2. handled' = handled /\ statsq' = statsq /\ told'["proc"] = told["proc"] + worker[w].stats
      BY <1>4, <2>3 DEF Crash, Kinds
    <3> QED
      BY <1>4, <1>5, <1>7, <3>1, <3>2
  <2>4. CASE HandleFrame(w)
    <3> DEFINE f == Head(worker[w].batch)
    <3>1. told' = told /\ statsq' = statsq
      BY <2>4 DEF HandleFrame
    <3>2. IF f.topic \in worker[w].table
          THEN worker'[w].stats = worker[w].stats + 1 /\ handled' = handled \cup {f.id}
          ELSE worker'[w].stats = worker[w].stats /\ handled' = handled
      BY <2>4, Turn
    <3>3. f.id \notin handled
      <4>1. 1 \in 1 .. Len(Queued(w)) /\ Queued(w)[1] = f
        BY <2>4, HandleQueues
      <4>2. f \in Carried(w)
        BY <4>1 DEF Carried
      <4> QED
        BY <4>2 DEF QueuesOK, FrameOK
    <3> HIDE DEF f
    <3>4. IsFiniteSet(handled) /\ Cardinality(handled) \in Nat
      BY FS_CardinalityType DEF QueuesOK
    <3>5. Cardinality(handled \cup {f.id}) = Cardinality(handled) + 1
      BY <3>3, <3>4, FS_AddElement
    <3>6. CASE f.topic \in worker[w].table
      <4>1. Cardinality(handled)' = Cardinality(handled) + 1 /\ worker'[w].stats = worker[w].stats + 1
        BY <3>2, <3>5, <3>6
      <4>2. Total(Stats)' = Total(Stats) + 1
        BY <1>4, <1>5, <4>1
      <4> QED
        BY <1>4, <1>5, <1>7, <3>1, <4>1, <4>2
    <3>7. CASE f.topic \notin worker[w].table
      BY <1>4, <1>5, <1>7, <3>1, <3>2, <3>7
    <3> QED
      BY <3>6, <3>7
  <2> QED
    BY <2>1, <2>2, <2>3, <2>4 DEF WorkerStep
<1>9. Total(Missing)' = told'["gaps"] + Total(New)'
  BY <1>2, <1>6 DEF SumsOK, Missing, New, Total
<1>10. Total(refused)' = told'["drops"] + unsent'
  BY <1>2, <1>6 DEF SumsOK, Total
<1> QED
  BY <1>8, <1>9, <1>10 DEF SumsOK

\* stop() ends what is still running; what it had not reported dies with it.
LEMMA CloseSums ==
    ASSUME Typed, WorkersOK, SumsOK, Close, Typed'
    PROVE  SumsOK'
<1>1. gap' = gap /\ refused' = refused /\ unsent' = unsent /\ handled' = handled /\ statsq' = statsq
  BY DEF Close
<1>2. told \in [Kinds -> Nat] /\ statsq \in Nat /\ Total(Stats) \in Nat
  BY WorkersFinite, SumTypes, TotalType DEF Typed, ProcessesOK, HistoryOK, Total
<1>3. /\ told'["gaps"] = told["gaps"] /\ told'["drops"] = told["drops"]
      /\ told'["proc"] = told["proc"] + Total(Stats)
  <2> DEFINE n == Total(Stats)
  <2>1. told' = [told EXCEPT !["proc"] = @ + n]
    BY DEF Close, Stats
  <2> HIDE DEF n
  <2>2. told'["gaps"] = told["gaps"] /\ told'["drops"] = told["drops"]
        /\ told'["proc"] = told["proc"] + n
    BY <1>2, <2>1 DEF Kinds
  <2> QED
    BY <2>2 DEF n
<1>4. ASSUME NEW w \in Workers PROVE worker'[w].stats = 0
  <2>1. CASE Running(w)
    <3>1. worker'[w] = [worker[w] EXCEPT !.state = "terminated", !.batch = <<>>, !.stats = 0]
      BY <2>1 DEF Close, Killed
    <3>2. worker[w] \in Local
      BY DEF Typed, ProcessesOK
    <3> QED
      BY <3>1, <3>2 DEF Local
  <2>2. CASE ~Running(w)
    BY <2>2 DEF Close, Running, WorkersOK, IdleOK
  <2> QED
    BY <2>1, <2>2
<1>5. Total(Stats)' = 0
  <2> DEFINE g == Stats'
  <2>1. g \in [Workers -> Int] /\ \A w \in Workers : g[w] = 0
    BY <1>4, SumTypes DEF Stats
  <2>2. Total(Stats)' = Total(g)
    BY DEF Total
  <2> HIDE DEF g
  <2> QED
    BY <2>1, <2>2, WorkersFinite, TotalZero DEF Total
<1>6. Total(Missing)' = told'["gaps"] + Total(New)'
  BY <1>1, <1>3 DEF SumsOK, Missing, New, Total
<1>7. Total(refused)' = told'["drops"] + unsent'
  BY <1>1, <1>3 DEF SumsOK, Total
<1>8. Cardinality(handled)' = told'["proc"] + statsq' + Total(Stats)'
  <2>1. Cardinality(handled) = told["proc"] + statsq + Total(Stats)
    BY DEF SumsOK
  <2>2. told["proc"] \in Nat
    BY <1>2 DEF Kinds
  <2> QED
    BY <1>1, <1>2, <1>3, <1>5, <2>1, <2>2
<1> QED
  BY <1>6, <1>7, <1>8 DEF SumsOK

LEMMA SumsNext ==
    ASSUME Typed, WorkersOK, QueuesOK, SumsOK, [Next]_vars
    PROVE  SumsOK'
<1>1. Typed'
  BY TypedNext
<1>2. ASSUME UNCHANGED <<gap, refused, unsent, told, handled, statsq>>,
             \A w \in Workers : worker'[w].stats = worker[w].stats
      PROVE  SumsOK'
  BY <1>2 DEF SumsOK, Missing, New, Stats, Total
<1>3. CASE \/ UNCHANGED vars \/ Break \/ Restore \/ Stop \/ ServerRestarts
           \/ \E t \in Topics : FrameLost(t) \/ Unsubscribe(t)
  BY <1>2, <1>3 DEF vars, client, processes, history, Break, Restore, Stop, ServerRestarts,
                    FrameLost, Unsubscribe
<1>4. ASSUME NEW t \in Topics, Subscribe(t) PROVE SumsOK'
  <2>1. UNCHANGED <<gap, refused, unsent, told, handled, statsq>>
    BY <1>4 DEF Subscribe, history
  <2>2. CASE worker' = worker
    BY <1>2, <2>1, <2>2
  <2>3. CASE ~pool /\ worker' = [w \in Workers |-> Fresh(subs')]
    <3>1. ASSUME NEW w \in Workers PROVE worker'[w].stats = worker[w].stats
      BY <2>3, FreshIsIdle DEF WorkersOK, IdleOK
    <3> QED
      BY <1>2, <2>1, <3>1
  <2> QED
    BY <1>4, <2>2, <2>3 DEF Subscribe
<1> QED
  BY <1>1, <1>3, <1>4, ReceiveSums, HeartbeatSums, CloseSums, WorkerSums DEF Next

\* Every gap, every refused frame and every frame handled is counted into one
\* heartbeat: it has been, it is still to be, or it died with the process that
\* held the count.  Failed sends, late statistics, crashes, stop() and a pool
\* made anew neither lose a count nor report one twice.
THEOREM ReportedOnceAlways == Spec => []ReportedOnce
<1>1. Typed /\ WorkersOK /\ QueuesOK /\ SumsOK /\ [Next]_vars => SumsOK'
  BY SumsNext
<1>2. Typed /\ SumsOK => ReportedOnce
  <2> SUFFICES ASSUME Typed, SumsOK PROVE Happened = Plus(told, StillToReport)
    BY DEF ReportedOnce
  <2>1. /\ Happened = [gaps |-> Total(Missing), drops |-> Total(refused), proc |-> Cardinality(handled)]
        /\ StillToReport = [gaps |-> Total(New), drops |-> unsent, proc |-> statsq + Total(Stats)]
    BY DEF Happened, StillToReport, NewGaps, Missing, New, Stats
  <2>2. /\ told["proc"] \in Nat /\ statsq \in Nat /\ Total(Stats) \in Nat
    BY WorkersFinite, SumTypes, TotalType DEF Typed, ProcessesOK, HistoryOK, Kinds, Total
  <2>3. told["proc"] + statsq + Total(Stats) = told["proc"] + (statsq + Total(Stats))
    BY <2>2
  <2>4. /\ Plus(told, StillToReport)["gaps"] = told["gaps"] + Total(New)
        /\ Plus(told, StillToReport)["drops"] = told["drops"] + unsent
        /\ Plus(told, StillToReport)["proc"] = told["proc"] + (statsq + Total(Stats))
        /\ DOMAIN Plus(told, StillToReport) = {"gaps", "drops", "proc"}
        /\ Plus(told, StillToReport) = [k \in {"gaps", "drops", "proc"} |-> Plus(told, StillToReport)[k]]
    BY <2>1 DEF Plus, Kinds
  <2>5. \A k \in {"gaps", "drops", "proc"} : Happened[k] = Plus(told, StillToReport)[k]
    BY <2>1, <2>3, <2>4 DEF SumsOK
  <2>6. /\ DOMAIN Happened = {"gaps", "drops", "proc"}
        /\ Happened = [k \in {"gaps", "drops", "proc"} |-> Happened[k]]
    BY <2>1
  <2> QED
    BY <2>4, <2>5, <2>6
<1> QED
  BY <1>1, <1>2, QueuesAlways, SumsInit, PTL DEF Spec
=============================================================================
