---------------------------- MODULE AdminProofs ----------------------------
(***************************************************************************)
(* Proofs about what the admin side administers and shows:                 *)
(*  - Accounts: for any users and passwords, any commands and handlers at  *)
(*    the same time, and any number of edits, reloads and starts;          *)
(*  - MinuteStats: for any topics, any sizes of a batch, and any numbers   *)
(*    of records, minutes and starts;                                      *)
(*  - Monitor: for any topics, clients, limits and retention, and any      *)
(*    numbers of events and minutes.                                       *)
(* The three modules share nothing; each part has its own invariant.       *)
(***************************************************************************)
EXTENDS Accounts, MinuteStats, Monitor, Counting, SequenceTheorems, TLAPS

-----------------------------------------------------------------------------
(* Types *)

Account == [password : Passwords, enabled : BOOLEAN]

Table == UNION {[S -> Account] : S \in SUBSET Users}

Content == [state : {"missing", "torn", "whole"}, users : Table]

Doing == [at : {"rest", "open", "write", "replace"}, edit : Edits \cup {NoEdit},
          users : Table, holds : {"none", "tmp", "file", "gone"}]

Checking == [result : {"none", "checking", "granted", "refused"}, user : Users,
             password : Passwords \cup {NoCheck.password}, version : Nat,
             account : Account \cup {NoCheck.account}]

Save == [edit : Edits \cup {NoEdit}, accounts : Table]

Typed ==
    /\ file \in Content /\ tmp \in Content /\ users \in Table
    /\ pc \in [Writers -> Doing]
    /\ check \in [Handlers -> Checking]
    /\ saved \in Seq(Save)
    /\ loaded \in Nat /\ loaded <= Len(saved)
    /\ \A h \in Handlers : check[h].version <= Len(saved)

\* Nobody, and what the names lead to, are of their types.
LEMMA Constants ==
    /\ NoAccounts \in Table
    /\ Missing \in Content
    /\ \A a \in Table : Whole(a) \in Content /\ Torn \in Content
    /\ Resting \in Doing
    /\ NoCheck \in Checking
<1>1. NoAccounts \in [{} -> Account]
  BY DEF NoAccounts
<1>2. NoAccounts \in Table
  BY <1>1 DEF Table
<1>3. Resting \in Doing
  BY <1>2 DEF Resting, Doing
<1>4. NoCheck \in Checking
  BY ConstantsAssumption DEF NoCheck, Checking
<1> QED
  BY <1>2, <1>3, <1>4 DEF Missing, Whole, Torn, Content

\* An edit that applies makes a table of a table.
LEMMA EditedTyped ==
    ASSUME NEW a \in Table, NEW e \in Edits, Applies(a, e)
    PROVE  Edited(a, e) \in Table
<1>1. PICK S \in SUBSET Users : a \in [S -> Account]
  BY DEF Table
<1>2. e.user \in Users /\ e.password \in Passwords
      /\ e.op \in {"add", "passwd", "enable", "disable"}
  BY DEF Edits
<1>3. CASE e.op = "add"
  <2> DEFINE T == S \cup {e.user}
             b == [u \in T |-> IF u = e.user THEN [password |-> e.password, enabled |-> TRUE]
                               ELSE a[u]]
  <2>1. b \in [T -> Account] /\ T \in SUBSET Users
    BY <1>1, <1>2 DEF Account
  <2>2. Edited(a, e) = b
    BY <1>1, <1>3 DEF Edited
  <2> QED
    BY <2>1, <2>2 DEF Table
<1>4. CASE e.op # "add"
  <2>1. e.user \in S
    BY <1>1, <1>4 DEF Applies
  <2>2. a[e.user] \in Account
    BY <1>1, <2>1
  <2> DEFINE c == [a[e.user] EXCEPT !.password = e.password]
             d == [a[e.user] EXCEPT !.enabled = (e.op = "enable")]
  <2>3. c \in Account
    BY <1>2, <2>2 DEF Account
  <2>4. d \in Account
    BY <2>2 DEF Account
  <2>5. CASE e.op = "passwd"
    <3>1. Edited(a, e) = [a EXCEPT ![e.user] = c]
      BY <2>5 DEF Edited
    <3> HIDE DEF c
    <3>2. [a EXCEPT ![e.user] = c] \in [S -> Account]
      BY <1>1, <2>3
    <3> QED
      BY <3>1, <3>2 DEF Table
  <2>6. CASE e.op # "passwd"
    <3>1. Edited(a, e) = [a EXCEPT ![e.user] = d]
      BY <1>4, <2>6 DEF Edited
    <3> HIDE DEF d
    <3>2. [a EXCEPT ![e.user] = d] \in [S -> Account]
      BY <1>1, <2>4
    <3> QED
      BY <3>1, <3>2 DEF Table
  <2> QED
    BY <2>5, <2>6
<1> QED
  BY <1>3, <1>4

\* One more save leaves all earlier ones what they were.
LEMMA SavedAfter ==
    ASSUME saved \in Seq(Save), NEW s \in Save, saved' = Append(saved, s)
    PROVE  /\ Len(saved) \in Nat /\ Len(saved') = Len(saved) + 1
           /\ saved' \in Seq(Save) /\ saved' # <<>>
           /\ saved'[Len(saved')] = s
           /\ \A n \in 1 .. Len(saved) : saved'[n] = saved[n]
<1>1. Len(saved) \in Nat
  BY LenProperties
<1>2. Len(saved') = Len(saved) + 1 /\ saved' \in Seq(Save) /\ saved' # <<>>
      /\ saved'[Len(saved) + 1] = s
      /\ \A n \in 1 .. Len(saved) : saved'[n] = saved[n]
  BY AppendProperties
<1> QED
  BY <1>1, <1>2

-----------------------------------------------------------------------------
(* The type invariant *)

\* What a writer is about to do stays of its type when it begins, when it goes
\* on, and when the file it holds gets another name.
LEMMA DoingTyped ==
    /\ \A e \in Edits \cup {NoEdit}, a \in Table :
          [Resting EXCEPT !.at = "open", !.edit = e, !.users = a] \in Doing
    /\ \A d \in Doing : /\ [d EXCEPT !.at = "write", !.holds = "tmp"] \in Doing
                        /\ [d EXCEPT !.at = "replace"] \in Doing
                        /\ [d EXCEPT !.holds = Moved(@)] \in Doing
<1>1. Resting \in Doing
  BY Constants
<1>2. \A d \in Doing : Moved(d.holds) \in {"none", "tmp", "file", "gone"}
  BY DEF Doing, Moved
<1> QED
  BY <1>1, <1>2 DEF Doing

LEMMA TypedInit == Init => Typed
<1> SUFFICES ASSUME Init PROVE Typed
  OBVIOUS
<1>1. saved \in Seq(Save) /\ Len(saved) = 0
  BY EmptySeq DEF Init
<1>2. \A h \in Handlers : check[h] = NoCheck
  BY DEF Init
<1> QED
  BY <1>1, <1>2, Constants DEF Init, Typed, NoCheck

\* Whoever begins has an edit that makes a table of a table.
LEMMA TypedBegins ==
    ASSUME Typed, NEW w \in Writers, NEW e \in Edits, NEW a \in Table, Applies(a, e),
           Begins(w, e, a)
    PROVE  pc' \in [Writers -> Doing]
<1>1. Edited(a, e) \in Table
  BY EditedTyped
<1> DEFINE d == [Resting EXCEPT !.at = "open", !.edit = e, !.users = Edited(a, e)]
<1>2. d \in Doing
  BY <1>1, DoingTyped
<1>3. pc' = [pc EXCEPT ![w] = d]
  BY DEF Begins
<1> HIDE DEF d
<1> QED
  BY <1>2, <1>3 DEF Typed

LEMMA TypedNext == Typed /\ [Next]_vars => Typed'
<1> SUFFICES ASSUME Typed, [Next]_vars PROVE Typed'
  OBVIOUS
<1> USE DEF Typed
<1>1. ASSUME NEW c \in Commands, NEW e \in Edits, Command(c, e) PROVE Typed'
  <2>1. file.users \in Table /\ c \in Writers
    BY DEF Content, Writers
  <2>2. pc' \in [Writers -> Doing]
    BY <1>1, <2>1, TypedBegins DEF Command
  <2> QED
    BY <1>1, <2>2 DEF Command, disk, server
<1>2. ASSUME NEW p \in Passwords, Generate(p) PROVE Typed'
  <2> DEFINE e == [op |-> "add", user |-> Admin, password |-> p]
  <2>1. e \in Edits /\ Applies(NoAccounts, e) /\ Server \in Writers
    BY ConstantsAssumption DEF Edits, Applies, NoAccounts, Writers
  <2>2. Begins(Server, e, NoAccounts)
    BY <1>2 DEF Generate
  <2> HIDE DEF e
  <2>3. pc' \in [Writers -> Doing]
    BY <2>1, <2>2, TypedBegins, Constants
  <2> QED
    BY <1>2, <2>3 DEF Generate, disk, server
<1>3. ASSUME NEW w \in Writers, Open(w) PROVE Typed'
  <2>1. pc' \in [Writers -> Doing]
    <3> DEFINE d == [pc[w] EXCEPT !.at = "write", !.holds = "tmp"]
    <3>1. d \in Doing
      BY DoingTyped
    <3>2. pc' = [pc EXCEPT ![w] = d]
      BY <1>3 DEF Open, SavedTo
    <3> HIDE DEF d
    <3> QED
      BY <3>1, <3>2
  <2>2. file' \in Content /\ tmp' \in Content
    BY <1>3, Constants DEF Open
  <2> QED
    BY <1>3, <2>1, <2>2 DEF Open, server
<1>4. ASSUME NEW w \in Writers, Write(w) PROVE Typed'
  <2>1. pc' \in [Writers -> Doing]
    <3> DEFINE d == [pc[w] EXCEPT !.at = "replace"]
    <3>1. d \in Doing
      BY DoingTyped
    <3>2. pc' = [pc EXCEPT ![w] = d]
      BY <1>4 DEF Write
    <3> HIDE DEF d
    <3> QED
      BY <3>1, <3>2
  <2>2. pc[w].users \in Table
    BY DEF Doing
  <2>3. \A content : Overlay(content, pc[w].users) \subseteq Content
    BY <2>2, Constants DEF Overlay
  <2>4. file' \in Content /\ tmp' \in Content
    BY <1>4, <2>3 DEF Write
  <2> QED
    BY <1>4, <2>1, <2>4 DEF Write, server
<1>5. ASSUME NEW w \in Writers, Replace(w) PROVE Typed'
  <2>1. CASE tmp = Missing
    BY <1>5, <2>1, Constants DEF Replace, disk, server
  <2>2. CASE tmp # Missing
    <3> DEFINE s == [edit |-> pc[w].edit, accounts |-> pc[w].users]
    <3>1. s \in Save /\ pc[w].users \in Table
      BY DEF Save, Doing
    <3>2. saved' = Append(saved, s)
      BY <1>5, <2>2 DEF Replace
    <3> HIDE DEF s
    <3>3. Len(saved) \in Nat /\ Len(saved') = Len(saved) + 1 /\ saved' \in Seq(Save)
      BY <3>1, <3>2, SavedAfter
    <3>4. pc' \in [Writers -> Doing]
      <4> DEFINE d(v) == [pc[v] EXCEPT !.holds = Moved(@)]
      <4>1. \A v \in Writers : d(v) \in Doing
        BY DoingTyped
      <4>2. pc' = [v \in Writers |-> IF v = w THEN Resting ELSE d(v)]
        BY <1>5, <2>2 DEF Replace
      <4> HIDE DEF d
      <4> QED
        BY <4>1, <4>2, Constants
    <3>5. users' \in Table /\ loaded' \in Nat /\ loaded' <= Len(saved') /\ check' = check
      BY <1>5, <2>2, <3>1, <3>3 DEF Replace, server
    <3>6. file' \in Content /\ tmp' \in Content
      BY <1>5, <2>2, Constants DEF Replace
    <3>7. \A h \in Handlers : check[h].version \in Nat
      BY DEF Checking
    <3> QED
      BY <3>3, <3>4, <3>5, <3>6, <3>7
  <2> QED
    BY <2>1, <2>2
<1>6. ASSUME NEW w \in Writers, Killed(w) PROVE Typed'
  BY <1>6, Constants DEF Killed, disk, server
<1>7. CASE Start \/ Reload
  <2>1. Len(saved) \in Nat
    BY LenProperties
  <2> QED
    BY <1>7, <2>1 DEF Start, Reload, Reloaded, disk, Content
<1>8. CASE Stop \/ KilledWritingToken
  <2>1. Len(saved) \in Nat
    BY LenProperties
  <2>2. NoCheck.version = 0
    BY DEF NoCheck
  <2>3. users' \in Table /\ loaded' = 0
    BY <1>8, Constants DEF Stop, KilledWritingToken
  <2>4. check' \in [Handlers -> Checking]
    BY <1>8, Constants DEF Stop, KilledWritingToken
  <2>5. \A h \in Handlers : check'[h].version <= Len(saved)
    BY <1>8, <2>1, <2>2 DEF Stop, KilledWritingToken
  <2> QED
    BY <1>8, <2>1, <2>3, <2>4, <2>5 DEF Stop, KilledWritingToken, disk
<1>9. CASE KeepToken \/ MakeToken \/ UNCHANGED vars
  BY <1>9 DEF KeepToken, MakeToken, disk, server, vars
<1>10. ASSUME NEW h \in Handlers, NEW u \in Users, NEW p \in Passwords, Verify(h, u, p)
       PROVE  Typed'
  <2> DEFINE known == u \in DOMAIN users /\ users[u].enabled
             c == [result |-> IF known THEN "checking" ELSE "refused",
                   user |-> u, password |-> p, version |-> loaded,
                   account |-> IF known THEN users[u] ELSE NoCheck.account]
  <2>1. u \in DOMAIN users => users[u] \in Account
    BY DEF Table
  <2>2. c \in Checking /\ c.version = loaded
    BY <2>1 DEF Checking
  <2>3. check' = [check EXCEPT ![h] = c]
    BY <1>10 DEF Verify
  <2> HIDE DEF c
  <2> QED
    BY <1>10, <2>2, <2>3 DEF Verify, disk
<1>11. ASSUME NEW h \in Handlers, Answered(h) PROVE Typed'
  <2>1. PICK r \in {"granted", "refused"} : check' = [check EXCEPT ![h].result = r]
    BY <1>11 DEF Answered, Answer
  <2> DEFINE c == [check[h] EXCEPT !.result = r]
  <2>2. c \in Checking /\ c.version = check[h].version
    BY DEF Checking
  <2>3. check' = [check EXCEPT ![h] = c]
    BY <2>1
  <2> HIDE DEF c
  <2> QED
    BY <1>11, <2>2, <2>3 DEF Answered, disk
<1> QED
  BY <1>1, <1>2, <1>3, <1>4, <1>5, <1>6, <1>7, <1>8, <1>9, <1>10, <1>11 DEF Next

-----------------------------------------------------------------------------
(* Saves and edits *)

Saving(w) == pc[w].at \in {"write", "replace"}

\* While no two saves overlap: the file has what was saved last, at most one
\* writer has the temporary file open, and what that one has written is there.
DiskOK ==
    raced # "saves" =>
       /\ file = IF saved = <<>> THEN Missing ELSE Whole(AsSaved(Len(saved)))
       /\ \A v, w \in Writers : Saving(v) /\ Saving(w) => v = w
       /\ \A w \in Writers :
             /\ pc[w].at = "write" => pc[w].holds = "tmp" /\ tmp = Whole(NoAccounts)
             /\ pc[w].at = "replace" => tmp = Whole(pc[w].users)

\* While no two writers are at work at the same time: who is at work edits what
\* was saved last, and every save added its edit to the one before.
EditsOK ==
    raced = "nothing" =>
       /\ \A v, w \in Writers : pc[v].at # "rest" /\ pc[w].at # "rest" => v = w
       /\ \A w \in Writers : pc[w].at # "rest" =>
             pc[w].users = Edited(AsSaved(Len(saved)), pc[w].edit)
       /\ \A n \in 1 .. Len(saved) :
             saved[n].accounts = Edited(AsSaved(n - 1), saved[n].edit)

\* A history that goes on with what was saved before stays as it was.
LEMMA AsSavedAfter ==
    ASSUME saved \in Seq(Save), NEW s \in Save, saved' = Append(saved, s)
    PROVE  /\ \A n \in 0 .. Len(saved) : AsSaved(n)' = AsSaved(n)
           /\ AsSaved(Len(saved))' = s.accounts
<1>1. /\ Len(saved) \in Nat /\ Len(saved') = Len(saved) + 1
      /\ saved'[Len(saved')] = s
      /\ \A n \in 1 .. Len(saved) : saved'[n] = saved[n]
  BY SavedAfter
<1> QED
  BY <1>1 DEF AsSaved

\* What was saved last is in the file, and it is there as a whole.
LEMMA InFile ==
    ASSUME Typed, DiskOK, raced # "saves"
    PROVE  /\ file.state # "torn" /\ file.users = AsSaved(Len(saved))
           /\ file = Missing => AsSaved(Len(saved)) = NoAccounts
<1>1. Len(saved) \in Nat /\ (Len(saved) = 0 <=> saved = <<>>)
  BY LenProperties, EmptySeq DEF Typed
<1> QED
  BY <1>1 DEF DiskOK, Missing, Whole, AsSaved

\* Whoever begins has its edit made to what the file has, and no save open.
LEMMA Beginning ==
    ASSUME Typed, NEW w \in Writers, NEW e, NEW a, pc[w].at = "rest", Begins(w, e, a)
    PROVE  /\ pc'[w].at = "open" /\ pc'[w].edit = e /\ pc'[w].users = Edited(a, e)
           /\ \A v \in Writers : v # w => pc'[v] = pc[v]
           /\ raced' # "saves" => raced # "saves"
           /\ raced' = "nothing" => raced = "nothing" /\ \A v \in Writers : pc[v].at = "rest"
  BY DEF Typed, Begins, Resting

LEMMA DiskBegins ==
    ASSUME Typed, DiskOK, NEW w \in Writers, NEW e, NEW a, pc[w].at = "rest",
           Begins(w, e, a), UNCHANGED <<disk, saved>>
    PROVE  DiskOK'
  BY Beginning DEF DiskOK, disk, Saving, AsSaved

LEMMA EditsBegins ==
    ASSUME Typed, DiskOK, EditsOK, NEW w \in Writers, NEW e, NEW a, pc[w].at = "rest",
           Begins(w, e, a), saved' = saved,
           raced # "saves" => a = AsSaved(Len(saved))
    PROVE  EditsOK'
  BY Beginning DEF EditsOK, AsSaved

\* Replacing the file: all other writers keep what they are about to do.
LEMMA Replacing ==
    ASSUME Typed, NEW w \in Writers, Replace(w), tmp # Missing
    PROVE  /\ pc'[w] = Resting /\ file' = tmp
           /\ \A v \in Writers : v # w => /\ pc'[v].at = pc[v].at
                                          /\ pc'[v].users = pc[v].users
                                          /\ pc'[v].edit = pc[v].edit
           /\ [edit |-> pc[w].edit, accounts |-> pc[w].users] \in Save
           /\ saved' = Append(saved, [edit |-> pc[w].edit, accounts |-> pc[w].users])
<1>1. pc[w] \in Doing
  BY DEF Typed
<1>2. [edit |-> pc[w].edit, accounts |-> pc[w].users] \in Save
  BY <1>1 DEF Save, Doing
<1> QED
  BY <1>2 DEF Replace, Typed, Doing

LEMMA DiskNext == Typed /\ DiskOK /\ [Next]_vars => DiskOK'
<1> SUFFICES ASSUME Typed, DiskOK, [Next]_vars PROVE DiskOK'
  OBVIOUS
<1>1. ASSUME NEW c \in Commands, NEW e \in Edits, Command(c, e) PROVE DiskOK'
  BY <1>1, DiskBegins DEF Command, Writers
<1>2. ASSUME NEW p \in Passwords, Generate(p) PROVE DiskOK'
  BY <1>2, DiskBegins DEF Generate, Writers
<1>3. ASSUME NEW w \in Writers, Open(w) PROVE DiskOK'
  <2> SUFFICES ASSUME raced' # "saves" PROVE DiskOK'
    BY DEF DiskOK
  <2>1. raced # "saves" /\ \A v \in Writers : v # w => ~Saving(v)
    BY <1>3 DEF Open, Saving
  <2>2. pc'[w].at = "write" /\ pc'[w].holds = "tmp"
        /\ \A v \in Writers : v # w => pc'[v] = pc[v]
    BY <1>3 DEF Open, SavedTo, Typed, Doing
  <2>3. file' = file /\ saved' = saved /\ tmp' = Whole(NoAccounts)
    BY <1>3 DEF Open, SavedTo
  <2> QED
    BY <2>1, <2>2, <2>3 DEF DiskOK, Saving, AsSaved
<1>4. ASSUME NEW w \in Writers, Write(w) PROVE DiskOK'
  <2> SUFFICES ASSUME raced # "saves" PROVE DiskOK'
    BY <1>4 DEF DiskOK, Write
  <2>1. pc[w].holds = "tmp" /\ tmp = Whole(NoAccounts) /\ Saving(w)
    BY <1>4 DEF DiskOK, Write, Saving
  <2>2. pc'[w].at = "replace" /\ pc'[w].users = pc[w].users
        /\ \A v \in Writers : v # w => pc'[v] = pc[v]
    BY <1>4 DEF Write, Typed, Doing
  <2>3. file' = file /\ saved' = saved /\ tmp' = Whole(pc[w].users)
    BY <1>4, <2>1 DEF Write, Overlay
  <2> QED
    BY <2>1, <2>2, <2>3 DEF DiskOK, Saving, AsSaved
<1>5. ASSUME NEW w \in Writers, Replace(w) PROVE DiskOK'
  <2> SUFFICES ASSUME raced # "saves" PROVE DiskOK'
    BY <1>5 DEF DiskOK, Replace
  <2>1. tmp = Whole(pc[w].users) /\ \A v \in Writers : v # w => ~Saving(v)
    BY <1>5 DEF DiskOK, Replace, Saving
  <2>2. tmp # Missing
    BY <2>1 DEF Whole, Missing
  <2> DEFINE s == [edit |-> pc[w].edit, accounts |-> pc[w].users]
  <2>3. s \in Save /\ saved' = Append(saved, s) /\ s.accounts = pc[w].users
    BY <1>5, <2>2, Replacing
  <2>4. pc'[w] = Resting /\ file' = tmp /\ \A v \in Writers : v # w => pc'[v].at = pc[v].at
    BY <1>5, <2>2, Replacing
  <2> HIDE DEF s
  <2>5. saved' # <<>> /\ AsSaved(Len(saved))' = pc[w].users
    BY <2>3, SavedAfter, AsSavedAfter DEF Typed
  <2> QED
    BY <2>1, <2>4, <2>5 DEF DiskOK, Saving, Resting
<1>6. ASSUME NEW w \in Writers, Killed(w) PROVE DiskOK'
  BY <1>6 DEF Killed, DiskOK, disk, Saving, AsSaved, Resting, Typed
<1>7. CASE Start \/ Reload \/ Stop \/ KeepToken \/ MakeToken \/ KilledWritingToken
           \/ UNCHANGED vars
  BY <1>7 DEF Start, Reload, Stop, KeepToken, MakeToken, KilledWritingToken, vars, disk,
              DiskOK, Saving, AsSaved
<1>8. ASSUME NEW h \in Handlers, Answered(h) \/ \E u \in Users, p \in Passwords : Verify(h, u, p)
      PROVE  DiskOK'
  BY <1>8 DEF Answered, Verify, disk, DiskOK, Saving, AsSaved
<1> QED
  BY <1>1, <1>2, <1>3, <1>4, <1>5, <1>6, <1>7, <1>8 DEF Next

LEMMA EditsNext == Typed /\ DiskOK /\ EditsOK /\ [Next]_vars => EditsOK'
<1> SUFFICES ASSUME Typed, DiskOK, EditsOK, [Next]_vars PROVE EditsOK'
  OBVIOUS
<1>1. ASSUME NEW c \in Commands, NEW e \in Edits, Command(c, e) PROVE EditsOK'
  BY <1>1, EditsBegins, InFile DEF Command, Writers
<1>2. ASSUME NEW p \in Passwords, Generate(p) PROVE EditsOK'
  BY <1>2, EditsBegins, InFile DEF Generate, Writers
<1>3. ASSUME NEW w \in Writers, Open(w) \/ Write(w) \/ Killed(w) PROVE EditsOK'
  <2>1. saved' = saved /\ (raced' = "nothing" => raced = "nothing")
    BY <1>3 DEF Open, Write, Killed
  <2>2. \A v \in Writers : pc'[v].at # "rest" =>
           pc[v].at # "rest" /\ pc'[v].users = pc[v].users /\ pc'[v].edit = pc[v].edit
    <3> SUFFICES ASSUME NEW v \in Writers, pc'[v].at # "rest"
                 PROVE  pc[v].at # "rest" /\ pc'[v].users = pc[v].users
                        /\ pc'[v].edit = pc[v].edit
      OBVIOUS
    <3>1. pc \in [Writers -> Doing] /\ pc[w] \in Doing /\ pc[v] \in Doing
      BY DEF Typed
    <3>2. CASE v = w
      <4>1. ~Killed(w) /\ pc[w].at # "rest"
        BY <1>3, <3>1, <3>2 DEF Open, Write, Killed, Resting
      <4> QED
        BY <1>3, <3>1, <3>2, <4>1 DEF Open, Write, Doing
    <3>3. CASE v # w
      <4>1. pc'[v] = pc[v]
        BY <1>3, <3>1, <3>3 DEF Open, Write, Killed
      <4> QED
        BY <4>1
    <3> QED
      BY <3>2, <3>3
  <2> QED
    BY <2>1, <2>2 DEF EditsOK, AsSaved
<1>4. ASSUME NEW w \in Writers, Replace(w) PROVE EditsOK'
  <2> SUFFICES ASSUME raced = "nothing" PROVE EditsOK'
    BY <1>4 DEF EditsOK, Replace
  <2>1. tmp = Whole(pc[w].users) /\ pc[w].at # "rest"
    BY <1>4 DEF DiskOK, Replace
  <2>2. tmp # Missing
    BY <2>1 DEF Whole, Missing
  <2> DEFINE s == [edit |-> pc[w].edit, accounts |-> pc[w].users]
  <2>3. s \in Save /\ saved' = Append(saved, s)
        /\ s.accounts = Edited(AsSaved(Len(saved)), s.edit)
    BY <1>4, <2>1, <2>2, Replacing DEF EditsOK
  <2>4. \A v \in Writers : pc'[v].at = "rest"
    <3>1. pc'[w] = Resting
      BY <1>4, <2>2, Replacing
    <3>2. \A v \in Writers : v # w => pc'[v].at = pc[v].at
      BY <1>4, <2>2, Replacing
    <3>3. \A v \in Writers : v # w => pc[v].at = "rest"
      BY <2>1 DEF EditsOK
    <3> QED
      BY <3>1, <3>2, <3>3 DEF Resting
  <2> HIDE DEF s
  <2>5. /\ Len(saved) \in Nat /\ Len(saved') = Len(saved) + 1
        /\ saved'[Len(saved')] = s
        /\ \A n \in 1 .. Len(saved) : saved'[n] = saved[n]
        /\ \A n \in 0 .. Len(saved) : AsSaved(n)' = AsSaved(n)
    BY <2>3, SavedAfter, AsSavedAfter DEF Typed
  <2>6. ASSUME NEW n \in 1 .. Len(saved')
        PROVE  saved'[n].accounts = Edited(AsSaved(n - 1)', saved'[n].edit)
    <3>1. n - 1 \in 0 .. Len(saved)
      BY <2>5
    <3>2. CASE n = Len(saved')
      BY <2>3, <2>5, <3>1, <3>2
    <3>3. CASE n # Len(saved')
      <4>1. n \in 1 .. Len(saved)
        BY <2>5, <3>3
      <4> QED
        BY <2>5, <3>1, <4>1 DEF EditsOK
    <3> QED
      BY <3>2, <3>3
  <2> QED
    BY <2>4, <2>6 DEF EditsOK, AsSaved
<1>5. CASE Start \/ Reload \/ Stop \/ KeepToken \/ MakeToken \/ KilledWritingToken
           \/ UNCHANGED vars
  BY <1>5 DEF Start, Reload, Stop, KeepToken, MakeToken, KilledWritingToken, vars,
              EditsOK, AsSaved
<1>6. ASSUME NEW h \in Handlers, Answered(h) \/ \E u \in Users, p \in Passwords : Verify(h, u, p)
      PROVE  EditsOK'
  BY <1>6 DEF Answered, Verify, EditsOK, AsSaved
<1> QED
  BY <1>1, <1>2, <1>3, <1>4, <1>5, <1>6 DEF Next

-----------------------------------------------------------------------------
(* What the server has loaded *)

IsAnswered(c) == c.result \in {"granted", "refused"}

\* What GrantedAsLoaded says of a check.
Grants(c) ==
    /\ c.user \in DOMAIN AsSaved(c.version)
    /\ AsSaved(c.version)[c.user] = [password |-> c.password, enabled |-> TRUE]

\* A check goes on with an enabled account of the version it began with.
CheckOK(c) ==
    /\ c.result = "checking" => /\ c.user \in DOMAIN AsSaved(c.version)
                                /\ c.account = AsSaved(c.version)[c.user]
                                /\ c.account.enabled
    /\ IsAnswered(c) => ((c.result = "granted") <=> Grants(c))

\* While no two saves overlap: the server's store is a saved version of the file,
\* and all checks are those of such a version.
LoadedOK ==
    raced # "saves" => users = AsSaved(loaded) /\ \A h \in Handlers : CheckOK(check[h])

\* While every token could be written: all tokens the server has run with are the
\* one the token file has.
TokenOK ==
    /\ token \in Nat /\ issued \in Nat
    /\ ~mislaid => /\ \A t \in offered : t = tokenFile
                   /\ offered # {} => tokenFile \notin {NoTokenFile, Empty}
                   /\ token # NoToken => token = tokenFile /\ token \in offered
    /\ tokenFile \in Nat \cup {NoTokenFile}

LEMMA LoadedNext == Typed /\ DiskOK /\ LoadedOK /\ [Next]_vars => LoadedOK'
<1> SUFFICES ASSUME Typed, DiskOK, LoadedOK, [Next]_vars, raced' # "saves" PROVE LoadedOK'
  BY DEF LoadedOK
<1>0. /\ Len(saved) \in Nat /\ loaded \in 0 .. Len(saved)
      /\ \A h \in Handlers : check[h] \in Checking /\ check[h].version \in 0 .. Len(saved)
  BY LenProperties DEF Typed, Checking
<1>1. ASSUME raced' = raced, saved' = saved, users' = users, loaded' = loaded, check' = check
      PROVE  LoadedOK'
  BY <1>1 DEF LoadedOK, CheckOK, IsAnswered, Grants, AsSaved
<1>2. ASSUME NEW c \in Commands, NEW e \in Edits, Command(c, e) PROVE LoadedOK'
  BY <1>2 DEF Command, Begins, server, LoadedOK, CheckOK, IsAnswered, Grants, AsSaved
<1>3. ASSUME NEW p \in Passwords, Generate(p) PROVE LoadedOK'
  BY <1>3 DEF Generate, Begins, server, LoadedOK, CheckOK, IsAnswered, Grants, AsSaved
<1>4. ASSUME NEW w \in Writers, Open(w) PROVE LoadedOK'
  BY <1>4 DEF Open, server, LoadedOK, CheckOK, IsAnswered, Grants, AsSaved
<1>5. ASSUME NEW w \in Writers, Write(w) \/ Killed(w) PROVE LoadedOK'
  BY <1>1, <1>5 DEF Write, Killed, server
<1>6. ASSUME NEW w \in Writers, Replace(w) PROVE LoadedOK'
  <2>1. raced # "saves" /\ tmp # Missing
    BY <1>6 DEF Replace, DiskOK, Whole, Missing
  <2> DEFINE s == [edit |-> pc[w].edit, accounts |-> pc[w].users]
  <2>2. s \in Save /\ saved' = Append(saved, s) /\ s.accounts = pc[w].users
    BY <1>6, <2>1, Replacing
  <2> HIDE DEF s
  <2>3. /\ \A n \in 0 .. Len(saved) : AsSaved(n)' = AsSaved(n)
        /\ AsSaved(Len(saved))' = pc[w].users
    BY <2>2, AsSavedAfter DEF Typed
  <2>4. check' = check /\ users' = AsSaved(loaded)'
    <3>1. CASE w = Server
      BY <1>6, <2>1, <2>3, <3>1 DEF Replace
    <3>2. CASE w # Server
      <4>1. check' = check /\ users' = users /\ loaded' = loaded
        BY <1>6, <2>1, <3>2 DEF Replace, server
      <4>2. AsSaved(loaded)' = AsSaved(loaded)
        BY <1>0, <2>3, <4>1 DEF AsSaved
      <4> QED
        BY <2>1, <4>1, <4>2 DEF LoadedOK
    <3> QED
      BY <3>1, <3>2
  <2>5. ASSUME NEW h \in Handlers PROVE AsSaved(check[h].version)' = AsSaved(check[h].version)
    <3> DEFINE n == check[h].version
    <3>1. AsSaved(n)' = IF n' = 0 THEN NoAccounts ELSE saved'[n'].accounts
      BY DEF AsSaved
    <3>2. n' = n /\ n \in 0 .. Len(saved)
      BY <1>0, <2>4
    <3>3. \A m \in 0 .. Len(saved) :
             (IF m = 0 THEN NoAccounts ELSE saved'[m].accounts) = AsSaved(m)
      BY <2>3 DEF AsSaved
    <3> HIDE DEF n
    <3>4. AsSaved(n)' = AsSaved(n)
      BY <3>1, <3>2, <3>3
    <3> QED
      BY <3>4 DEF n
  <2> QED
    BY <2>1, <2>4, <2>5 DEF LoadedOK, CheckOK, IsAnswered, Grants
<1>7. CASE Start \/ Reload
  <2>1. raced # "saves" /\ saved' = saved /\ check' = check
    BY <1>7 DEF Start, Reload
  <2>2. users' = AsSaved(loaded)'
    <3>1. CASE file.state = "whole" /\ users' = file.users /\ loaded' = Len(saved)
      BY <2>1, <3>1, InFile DEF AsSaved
    <3>2. CASE UNCHANGED <<users, loaded>>
      BY <2>1, <3>2 DEF LoadedOK, AsSaved
    <3> QED
      BY <1>7, <3>1, <3>2 DEF Start, Reload, Reloaded
  <2> QED
    BY <2>1, <2>2 DEF LoadedOK, CheckOK, IsAnswered, Grants, AsSaved
<1>8. CASE Stop
  BY <1>8 DEF Stop, LoadedOK, CheckOK, IsAnswered, AsSaved, NoCheck
<1>9. CASE KilledWritingToken
  BY <1>9 DEF KilledWritingToken, LoadedOK, CheckOK, IsAnswered, Grants, AsSaved
<1>10. CASE KeepToken \/ MakeToken \/ UNCHANGED vars
  BY <1>1, <1>10 DEF KeepToken, MakeToken, server, vars
<1>11. ASSUME NEW h \in Handlers, NEW u \in Users, NEW p \in Passwords, Verify(h, u, p)
       PROVE  LoadedOK'
  <2> DEFINE known == u \in DOMAIN users /\ users[u].enabled
             c == [result |-> IF known THEN "checking" ELSE "refused",
                   user |-> u, password |-> p, version |-> loaded,
                   account |-> IF known THEN users[u] ELSE NoCheck.account]
  <2>1. /\ raced # "saves" /\ UNCHANGED <<saved, users, loaded, raced>>
        /\ check' = [check EXCEPT ![h] = c] /\ users = AsSaved(loaded)
    BY <1>11 DEF Verify, LoadedOK
  <2>2. /\ c.result = IF known THEN "checking" ELSE "refused"
        /\ c.user = u /\ c.password = p /\ c.version = loaded
        /\ c.account = IF known THEN users[u] ELSE NoCheck.account
    OBVIOUS
  <2>3. check'[h] = c /\ \A g \in Handlers : g # h => check'[g] = check[g]
    BY <2>1 DEF Typed
  <2> HIDE DEF c
  <2>4. CheckOK(c)
    BY <2>1, <2>2 DEF CheckOK, IsAnswered, Grants
  <2>5. \A g \in Handlers : CheckOK(check'[g])
    BY <2>1, <2>3, <2>4 DEF LoadedOK
  <2>6. \A g \in Handlers : CheckOK(check[g])'
    BY <2>1, <2>5 DEF CheckOK, IsAnswered, Grants, AsSaved
  <2> QED
    BY <2>1, <2>6 DEF LoadedOK, AsSaved
<1>12. ASSUME NEW h \in Handlers, Answered(h) PROVE LoadedOK'
  <2> DEFINE r == IF check[h].password = check[h].account.password THEN "granted" ELSE "refused"
             c == [check[h] EXCEPT !.result = r]
             accounts == AsSaved(check[h].version)
  <2>1. /\ raced # "saves" /\ UNCHANGED <<saved, users, loaded, raced>>
        /\ check' = [check EXCEPT ![h] = c] /\ check[h].result = "checking"
    BY <1>12 DEF Answered, Answer
  <2>2. /\ c.result = r /\ c.user = check[h].user /\ c.password = check[h].password
        /\ c.version = check[h].version
    BY <1>0 DEF Checking
  <2>3. check'[h] = c /\ \A g \in Handlers : g # h => check'[g] = check[g]
    BY <2>1 DEF Typed
  <2>4. /\ check[h].user \in DOMAIN accounts /\ check[h].account = accounts[check[h].user]
        /\ check[h].account.enabled
    BY <2>1 DEF LoadedOK, CheckOK
  <2>5. check[h].account \in Account
    <3>1. accounts \in Table
      <4> DEFINE n == check[h].version
      <4>1. n \in 0 .. Len(saved)
        BY <1>0
      <4> HIDE DEF n
      <4>2. n # 0 => saved[n] \in Save
        BY <1>0, <4>1, ElementOfSeq DEF Typed
      <4>3. n # 0 => saved[n].accounts \in Table
        BY <4>2 DEF Save
      <4>4. AsSaved(n) \in Table
        BY <4>3, Constants DEF AsSaved
      <4> QED
        BY <4>4 DEF n
    <3> HIDE DEF accounts
    <3> QED
      BY <2>4, <3>1 DEF Table
  <2>6. (check[h].account = [password |-> check[h].password, enabled |-> TRUE])
           <=> check[h].password = check[h].account.password
    <3> DEFINE a == check[h].account
    <3>1. a = [password |-> a.password, enabled |-> a.enabled] /\ a.enabled = TRUE
      BY <2>4, <2>5 DEF Account
    <3> HIDE DEF a
    <3>2. \A q : (a = [password |-> q, enabled |-> TRUE]) <=> q = a.password
      BY <3>1
    <3> QED
      BY <3>2 DEF a
  <2> HIDE DEF c
  <2>7. CheckOK(c)
    BY <2>2, <2>4, <2>6 DEF CheckOK, Grants
  <2>8. \A g \in Handlers : CheckOK(check'[g])
    BY <2>1, <2>3, <2>7 DEF LoadedOK
  <2>9. \A g \in Handlers : CheckOK(check[g])'
    BY <2>1, <2>8 DEF CheckOK, IsAnswered, Grants, AsSaved
  <2> QED
    BY <2>1, <2>9 DEF LoadedOK, AsSaved
<1> QED
  BY <1>2, <1>3, <1>4, <1>5, <1>6, <1>7, <1>8, <1>9, <1>10, <1>11, <1>12 DEF Next

LEMMA TokenNext == TokenOK /\ [Next]_vars => TokenOK'
<1> SUFFICES ASSUME TokenOK, [Next]_vars PROVE TokenOK'
  OBVIOUS
<1> USE DEF TokenOK, NoToken, NoTokenFile, Empty
<1>1. ASSUME UNCHANGED tokens PROVE TokenOK'
  BY <1>1 DEF tokens
<1>2. CASE KeepToken
  BY <1>2 DEF KeepToken, RunsWith
<1>3. CASE MakeToken
  BY <1>3 DEF MakeToken, RunsWith
<1>4. CASE KilledWritingToken
  BY <1>4 DEF KilledWritingToken
<1>5. CASE Stop
  BY <1>5 DEF Stop
<1> QED
  BY <1>1, <1>2, <1>3, <1>4, <1>5
  DEF Next, vars, Command, Generate, Open, Write, Replace, Killed, Start, Reload, Verify,
      Answered

-----------------------------------------------------------------------------
(* Theorems *)

Inv == Typed /\ DiskOK /\ EditsOK /\ LoadedOK /\ TokenOK

LEMMA Invariance == Spec => []Inv
<1>1. Init => Inv
  <2> SUFFICES ASSUME Init PROVE Inv
    OBVIOUS
  <2>1. Typed
    BY TypedInit
  <2>2. Len(saved) = 0 /\ \A w \in Writers : pc[w] = Resting
    BY EmptySeq DEF Init
  <2>3. DiskOK /\ EditsOK
    BY <2>2 DEF Init, DiskOK, EditsOK, Saving, Resting
  <2>4. LoadedOK
    BY DEF Init, LoadedOK, CheckOK, AsSaved, IsAnswered, NoCheck
  <2>5. TokenOK
    BY DEF Init, TokenOK, NoToken, NoTokenFile, Empty
  <2> QED
    BY <2>1, <2>3, <2>4, <2>5 DEF Inv
<1>2. Inv /\ [Next]_vars => Inv'
  BY TypedNext, DiskNext, EditsNext, LoadedNext, TokenNext DEF Inv
<1> QED
  BY <1>1, <1>2, PTL DEF Spec

\* The invariant of the run: wherever processes are killed, the file is what was
\* saved last and, unless two writers were at work at once, every save kept all
\* earlier edits; and a token that could be written stays in use.
THEOREM ChangesAreKept == Spec => []ChangesKept
<1>1. Inv => ChangesKept
  BY DEF Inv, DiskOK, EditsOK, TokenOK, ChangesKept, Admits
<1> QED
  BY <1>1, Invariance, PTL

\* The invariant of the run: a check is granted if and only if its password is the
\* one of an enabled user in the accounts that were loaded when it began.
THEOREM ChecksGrantAsLoaded == Spec => []GrantedAsLoaded
<1>1. Inv => GrantedAsLoaded
  BY DEF Inv, LoadedOK, CheckOK, GrantedAsLoaded, IsAnswered, Grants
<1> QED
  BY <1>1, Invariance, PTL

-----------------------------------------------------------------------------
(* Traffic statistics: the inductive invariant *)

Rows == [topic : Topics, minute : Nat, count : Nat]

Local == [pc : {"idle", "enter", "create", "add", "store", "roll", "copy", "clear", "rolled",
                "drained"},
          topic : Topics \cup {Idle.topic}, slot : Nat, after : {"idle", "create", "archive"},
          read : Nat, now : Nat, rows : SUBSET Rows, clean : BOOLEAN]

TrafficTyped ==
    /\ phase \in {"running", "stopping", "stopped"}
    /\ clock \in Nat /\ minute \in Nat
    /\ current \in [Topics -> Nat] /\ slots \in Seq(Rows)
    /\ cum \in [Topics -> Nat]
    /\ lock \in Threads \cup {NoThread}
    /\ thread \in [Threads -> Local]
    /\ deques \in SUBSET Rows /\ IsFiniteSet(deques)
    /\ gone \in SUBSET Rows /\ IsFiniteSet(gone)
    /\ queue \in Seq(SUBSET Rows)
    /\ db \in SUBSET Rows /\ pending \in SUBSET Rows
    /\ entered \in [Topics -> Nat] /\ overlap \in [Topics -> Nat]
    /\ recorders \in [Topics -> SUBSET Threads]

\* The lock is its holder's from the slow path, or the roll, to the end of it.
Locked ==
    \A w \in Threads :
        /\ thread[w].pc \in {"copy", "clear", "create"} => lock = w
        /\ lock = w => thread[w].pc \in {"copy", "clear", "create", "add", "store"}

\* A roll is into a later minute.
Forward ==
    /\ minute <= clock
    /\ \A w \in Threads : Rolling(w) => minute < thread[w].now /\ thread[w].now <= clock

\* The thread is in record() and has counted, or will count, for its topic.
InRecord(w) ==
    \/ thread[w].pc \in {"enter", "create", "add", "store"}
    \/ Rolling(w) /\ thread[w].after = "create"

\* The slots of this minute are their topics'; a slot is made where there is
\* none; a thread adds to the slot of its topic, and unless it overlaps a roll,
\* to the one of this minute, of which no roll has taken a copy.
Placed ==
    /\ \A t \in Topics : current[t] # NoSlot =>
          /\ current[t] \in 1 .. Len(slots)
          /\ slots[current[t]].topic = t /\ slots[current[t]].minute = minute
    /\ \A w \in Threads :
          /\ InRecord(w) => thread[w].topic \in Topics
          /\ thread[w].pc = "roll" => thread[w].after # "create"
          /\ thread[w].pc = "create" => current[thread[w].topic] = NoSlot
          /\ thread[w].pc \in {"add", "store"} =>
                /\ thread[w].slot \in 1 .. Len(slots)
                /\ slots[thread[w].slot].topic = thread[w].topic
          /\ thread[w].pc = "add" /\ thread[w].clean =>
                /\ thread[w].slot = current[thread[w].topic]
                /\ \A v \in Threads : thread[v].pc # "clear"

\* The rows archived since the start, and the rows that the table has or may get
\* with the next commit.
Ever == deques \cup gone

InTable == db \cup pending

\* The rows of memory and table are of past minutes, but for a roll that has
\* made its copy and not begun the new minute.
Dated ==
    /\ \A row \in InTable : row.minute < minute
    /\ \A row \in Ever :
          \/ row.minute < minute
          \/ row.minute = minute /\ \E w \in Threads : thread[w].pc = "clear"

\* There is one row of a topic and a minute, in memory and table together.
Unique ==
    \A r, s \in InTable \cup Ever : r.topic = s.topic /\ r.minute = s.minute => r = s

\* What is on its way to the table has been archived.
OnTheWay ==
    /\ \A row \in UNION ToSet(queue) : row \in Ever /\ row.minute < minute
    /\ \A w \in Threads : thread[w].pc = "clear" => thread[w].rows \subseteq Ever

\* Rows that were handed over are saved, lost, or in the queue; only the event
\* loop hands over, and not after the last roll.
HandedOver ==
    /\ handed \subseteq lost \cup db \cup (UNION ToSet(queue))
    /\ thread["data"].after # "archive"
    /\ thread["loop"].pc = "drained" => queue = <<>>
    /\ phase = "stopped" => thread["loop"].pc = "drained"

\* The minutes that memory keeps are later than those it has let go, and as many
\* as it keeps; what both count is what was archived.
Archived(t) == {row \in Ever : row.topic = t}

Windowed ==
    \A t \in Topics :
        /\ LetGo(t) # {} => Cardinality(Remembered(t)) >= Retention
        /\ \A old \in LetGo(t), row \in Remembered(t) : old.minute < row.minute
        /\ Sum(Archived(t)) = Sum(Remembered(t)) + Sum(LetGo(t))

\* Records in archived rows and in the slot of this minute, unless copied.
Clearing == \E w \in Threads : thread[w].pc = "clear"

SlotCount(t) == IF current[t] = NoSlot THEN 0 ELSE slots[current[t]].count

InSlot(t) == IF current[t] = NoSlot \/ Clearing THEN 0 ELSE slots[current[t]].count

Tallied(t) == Sum(Archived(t)) + InSlot(t)

ShownRight ==
    \A t \in Topics : Tallied(t) \in entered[t] - overlap[t] .. entered[t]

\* A roll that is about to clear a slot has the records of its copy twice.
ShownTwice ==
    Clearing => \A t \in Topics :
        Sum(Archived(t)) + SlotCount(t) <= entered[t] + Sum(Copied(t))

Storing(t) == {w \in Threads : thread[w].pc = "store" /\ thread[w].topic = t}

\* A topic that one thread alone records.
Sole(t) == \A v, w \in recorders[t] : v = w

Cumulated ==
    /\ \A w \in Threads : InRecord(w) => w \in recorders[thread[w].topic]
    /\ \A t \in Topics : Sole(t) =>
          /\ \A w \in Storing(t) : thread[w].read = cum[t]
          /\ cum[t] + Cardinality(Storing(t)) = entered[t]

TrafficInv ==
    /\ TrafficTyped /\ Locked /\ Forward /\ Placed /\ Dated /\ Unique /\ OnTheWay
    /\ HandedOver /\ Windowed /\ ShownRight /\ ShownTwice /\ Cumulated

-----------------------------------------------------------------------------
(* The type invariant *)

LEMMA IdleLocal == Idle \in Local
BY DEF Idle, Local, NoSlot

\* The rows of the slots of this minute: of their topics, finitely many.
Live == {slots[current[t]] : t \in {u \in Topics : current[u] # NoSlot}}

LEMMA FiniteImage ==
    ASSUME NEW S, IsFiniteSet(S), NEW f, NEW g
    PROVE  IsFiniteSet({f[g[x]] : x \in S})
<1> DEFINE T == {f[g[x]] : x \in S}
           h == [x \in S |-> f[g[x]]]
<1>1. h \in Surjection(S, T)
  BY DEF Surjection
<1> QED
  BY <1>1, FS_Surjection

LEMMA LiveRows ==
    ASSUME TrafficTyped, Placed
    PROVE  /\ Live \subseteq Rows /\ IsFiniteSet(Live)
           /\ \A row \in Live : row.minute = minute /\ row = slots[current[row.topic]]
                                /\ current[row.topic] # NoSlot
<1>1. ASSUME NEW t \in Topics, current[t] # NoSlot
      PROVE  /\ slots[current[t]] \in Rows
             /\ slots[current[t]].topic = t /\ slots[current[t]].minute = minute
  <2>1. current[t] \in 1 .. Len(slots)
    BY <1>1 DEF Placed
  <2>2. slots[current[t]] \in Rows
    BY <2>1, ElementOfSeq DEF TrafficTyped
  <2> QED
    BY <1>1, <2>2 DEF Placed
<1>2. IsFiniteSet(Live)
  <2> DEFINE S == {u \in Topics : current[u] # NoSlot}
  <2>1. IsFiniteSet(S)
    BY TrafficAssumption, FS_Subset
  <2> HIDE DEF S
  <2>2. IsFiniteSet({slots[current[t]] : t \in S})
    BY <2>1, FiniteImage
  <2> QED
    BY <2>2 DEF Live, S
<1> QED
  BY <1>1, <1>2 DEF Live

LEMMA SlotAt ==
    ASSUME TrafficTyped, Placed, NEW w \in Threads, thread[w].pc \in {"add", "store"}
    PROVE  /\ thread[w].slot \in 1 .. Len(slots) /\ thread[w].topic \in Topics
           /\ slots[thread[w].slot] \in Rows /\ slots[thread[w].slot].topic = thread[w].topic
<1>1. thread[w].slot \in 1 .. Len(slots) /\ slots[thread[w].slot].topic = thread[w].topic
      /\ thread[w].topic \in Topics
  BY DEF Placed, InRecord
<1> QED
  BY <1>1, ElementOfSeq DEF TrafficTyped

LEMMA InRange ==
    ASSUME NEW S, NEW q \in Seq(S), NEW e
    PROVE  e \in ToSet(q) <=> \E i \in 1 .. Len(q) : e = q[i]
BY DEF ToSet

\* What a batch of the writer is, and what is left.
LEMMA BatchLength ==
    ASSUME queue \in Seq(SUBSET Rows), queue # <<>>
    PROVE  Min({BatchSize, Len(queue)}) \in 1 .. Len(queue)
<1>1. Len(queue) \in Nat \ {0}
  BY EmptySeq, LenProperties
<1>2. BatchSize \in Nat \ {0}
  BY TrafficAssumption
<1> QED
  BY <1>1, <1>2, Smaller

LEMMA SplitQueue ==
    ASSUME queue \in Seq(SUBSET Rows), NEW n \in 1 .. Len(queue)
    PROVE  /\ SubSeq(queue, 1, n) \in Seq(SUBSET Rows)
           /\ SubSeq(queue, n + 1, Len(queue)) \in Seq(SUBSET Rows)
           /\ UNION ToSet(queue) = (UNION ToSet(SubSeq(queue, 1, n)))
                                     \cup (UNION ToSet(SubSeq(queue, n + 1, Len(queue))))
<1> DEFINE front == SubSeq(queue, 1, n)
           rest == SubSeq(queue, n + 1, Len(queue))
<1>1. Len(queue) \in Nat /\ n \in Nat /\ n <= Len(queue)
      /\ \A i \in 1 .. Len(queue) : queue[i] \in SUBSET Rows
  BY LenProperties, ElementOfSeq
<1>2. /\ front \in Seq(SUBSET Rows) /\ Len(front) = n
      /\ \A i \in 1 .. n : front[i] = queue[i]
  <2>1. \A i \in 1 .. n : queue[i] \in SUBSET Rows
    BY <1>1
  <2> QED
    BY <1>1, <2>1, SubSeqProperties
<1>3. /\ rest \in Seq(SUBSET Rows) /\ Len(rest) = Len(queue) - n
      /\ \A i \in 1 .. Len(queue) - n : rest[i] = queue[n + i]
  <2>1. \A i \in n + 1 .. Len(queue) : queue[i] \in SUBSET Rows
    BY <1>1
  <2> QED
    BY <1>1, <2>1, SubSeqProperties
<1>4. ASSUME NEW i \in 1 .. Len(queue)
      PROVE  queue[i] \in ToSet(front) \cup ToSet(rest)
  <2>1. CASE i <= n
    <3>1. i \in 1 .. Len(front) /\ front[i] = queue[i]
      BY <1>1, <1>2, <2>1
    <3> QED
      BY <1>2, <3>1, InRange
  <2>2. CASE ~(i <= n)
    <3>1. i - n \in 1 .. Len(rest) /\ rest[i - n] = queue[i]
      BY <1>1, <1>3, <2>2
    <3> QED
      BY <1>3, <3>1, InRange
  <2> QED
    BY <2>1, <2>2
<1>5. ASSUME NEW i \in 1 .. n PROVE front[i] \in ToSet(queue)
  <2>1. i \in 1 .. Len(queue) /\ front[i] = queue[i]
    BY <1>1, <1>2
  <2> QED
    BY <2>1, InRange
<1>6. ASSUME NEW i \in 1 .. Len(queue) - n PROVE rest[i] \in ToSet(queue)
  <2>1. n + i \in 1 .. Len(queue) /\ rest[i] = queue[n + i]
    BY <1>1, <1>3
  <2> QED
    BY <2>1, InRange
<1> HIDE DEF front, rest
<1>7. ToSet(queue) = ToSet(front) \cup ToSet(rest)
  <2>1. \A e \in ToSet(queue) : e \in ToSet(front) \cup ToSet(rest)
    BY <1>4, InRange
  <2>2. \A e \in ToSet(front) : e \in ToSet(queue)
    BY <1>2, <1>5, InRange
  <2>3. \A e \in ToSet(rest) : e \in ToSet(queue)
    BY <1>3, <1>6, InRange
  <2> QED
    BY <2>1, <2>2, <2>3
<1>8. UNION ToSet(queue) = (UNION ToSet(front)) \cup (UNION ToSet(rest))
  BY <1>7
<1> QED
  BY <1>2, <1>3, <1>8 DEF front, rest

LEMMA SavedRows ==
    ASSUME db \in SUBSET Rows, pending \in SUBSET Rows,
           NEW batch \in Seq(SUBSET Rows), SaveBatch(batch)
    PROVE  db' \in SUBSET Rows /\ pending' \in SUBSET Rows
<1>1. UNION ToSet(batch) \subseteq Rows
  <2>1. \A rows \in ToSet(batch) : rows \in SUBSET Rows
    BY InRange, ElementOfSeq
  <2> QED
    BY <2>1
<1>2. Merged(batch) \subseteq Rows
  BY <1>1 DEF Merged
<1>3. \A table, rows \in SUBSET Rows : Replaced(table, rows) \in SUBSET Rows
  BY DEF Replaced
<1>4. Merged(batch) \in SUBSET Rows /\ Visible \in SUBSET Rows
  BY <1>2, <1>3 DEF Visible
<1>5. \/ db' = Replaced(Visible, Merged(batch)) /\ pending' = {}
      \/ /\ db' = db
         /\ pending' = {} \/ \E part \in SUBSET Merged(batch) : pending' = Replaced(pending, part)
  BY DEF SaveBatch
<1>6. CASE db' = Replaced(Visible, Merged(batch)) /\ pending' = {}
  BY <1>3, <1>4, <1>6
<1>7. CASE /\ db' = db
           /\ pending' = {} \/ \E part \in SUBSET Merged(batch) : pending' = Replaced(pending, part)
  BY <1>3, <1>4, <1>7
<1> QED
  BY <1>5, <1>6, <1>7

LEMMA TrafficTypes ==
    ASSUME TrafficTyped, Placed, TrafficNext
    PROVE  TrafficTyped'
<1> USE IdleLocal
<1>1. ASSUME NEW w \in Threads, NEW t \in Topics, Record(w, t) PROVE TrafficTyped'
  <2>1. [Idle EXCEPT !.pc = IF current[t] = NoSlot THEN "enter" ELSE "add",
                     !.topic = t, !.slot = current[t],
                     !.clean = \A v \in Threads : ~Rolling(v)] \in Local
    BY DEF TrafficTyped, Local, Idle
  <2> QED
    BY <1>1, <2>1 DEF Record, Goes, TrafficTyped, memory, writer, world
<1>2. ASSUME NEW w \in Threads, EnterSlow(w) PROVE TrafficTyped'
  <2>1. thread[w].topic \in Topics
    BY <1>2 DEF EnterSlow, Placed, InRecord
  <2>2. current[thread[w].topic] \in Nat
    BY <2>1 DEF TrafficTyped
  <2> DEFINE slot == current[thread[w].topic]
             to == IF slot # NoSlot THEN "add" ELSE IF clock # minute THEN "copy" ELSE "create"
  <2>3. Goes(w, [thread[w] EXCEPT !.slot = slot, !.pc = to, !.after = "create", !.now = clock])
    BY <1>2 DEF EnterSlow, LookedUp
  <2>4. to \in {"add", "copy", "create"}
    OBVIOUS
  <2> HIDE DEF slot, to
  <2>5. [thread[w] EXCEPT !.slot = slot, !.pc = to, !.after = "create", !.now = clock] \in Local
    BY <2>2, <2>4 DEF TrafficTyped, Local, slot
  <2>6. thread' \in [Threads -> Local]
    BY <2>3, <2>5 DEF Goes, TrafficTyped
  <2> QED
    BY <1>2, <2>6 DEF EnterSlow, TrafficTyped, writer, world, tally
<1>3. ASSUME NEW w \in Threads, CreateSlot(w) PROVE TrafficTyped'
  <2>1. thread[w].topic \in Topics
    BY <1>3 DEF CreateSlot, Placed, InRecord
  <2> DEFINE new == [topic |-> thread[w].topic, minute |-> minute, count |-> 0]
  <2>2. new \in Rows
    BY <2>1 DEF Rows, TrafficTyped
  <2>3. slots' = Append(slots, new)
    BY <1>3 DEF CreateSlot
  <2> HIDE DEF new
  <2>4. slots' \in Seq(Rows) /\ Len(slots') \in Nat
    BY <2>2, <2>3, AppendProperties, LenProperties DEF TrafficTyped
  <2>5. current' \in [Topics -> Nat]
    BY <1>3, <2>4 DEF CreateSlot, TrafficTyped
  <2>6. thread' \in [Threads -> Local]
    <3>1. [thread[w] EXCEPT !.pc = "add", !.slot = Len(slots')] \in Local
      BY <2>4 DEF TrafficTyped, Local
    <3> QED
      BY <1>3, <3>1 DEF CreateSlot, Goes, TrafficTyped
  <2> QED
    BY <1>3, <2>4, <2>5, <2>6 DEF CreateSlot, TrafficTyped, writer, world, tally
<1>4. ASSUME NEW w \in Threads, Add(w) PROVE TrafficTyped'
  <2>1. /\ thread[w].slot \in 1 .. Len(slots) /\ slots[thread[w].slot] \in Rows
        /\ thread[w].topic \in Topics
    BY <1>4, SlotAt DEF Add
  <2> DEFINE row == slots[thread[w].slot]
             more == [row EXCEPT !.count = @ + 1]
  <2>2. more \in Rows
    BY <2>1 DEF Rows
  <2>3. slots' = [slots EXCEPT ![thread[w].slot] = more]
    BY <1>4 DEF Add
  <2> HIDE DEF more
  <2>4. slots' \in Seq(Rows)
    BY <2>1, <2>2, <2>3, ExceptSeq DEF TrafficTyped
  <2>5. entered' \in [Topics -> Nat] /\ overlap' \in [Topics -> Nat]
    <3> DEFINE t == thread[w].topic
    <3>1. /\ entered' = [entered EXCEPT ![t] = @ + 1]
          /\ overlap' = IF thread[w].clean THEN overlap ELSE [overlap EXCEPT ![t] = @ + 1]
          /\ t \in Topics
      BY <1>4, <2>1 DEF Add
    <3> HIDE DEF t
    <3> QED
      BY <3>1 DEF TrafficTyped
  <2>6. thread' \in [Threads -> Local]
    <3>1. cum[thread[w].topic] \in Nat
      BY <2>1 DEF TrafficTyped
    <3>2. [thread[w] EXCEPT !.pc = "store", !.read = cum[thread[w].topic]] \in Local
      BY <3>1 DEF TrafficTyped, Local
    <3>3. Goes(w, [thread[w] EXCEPT !.pc = "store", !.read = cum[thread[w].topic]])
      BY <1>4 DEF Add
    <3> QED
      BY <3>2, <3>3 DEF Goes, TrafficTyped
  <2> QED
    BY <1>4, <2>4, <2>5, <2>6 DEF Add, TrafficTyped, writer, world
<1>5. ASSUME NEW w \in Threads, Store(w) PROVE TrafficTyped'
  <2>1. thread[w].topic \in Topics /\ thread[w].read + 1 \in Nat
    BY <1>5 DEF Store, Placed, InRecord, TrafficTyped, Local
  <2>2. cum' \in [Topics -> Nat]
    BY <1>5, <2>1 DEF Store, Stored, TrafficTyped
  <2>3. [Idle EXCEPT !.pc = "roll"] \in Local
    BY DEF Idle, Local
  <2>4. thread' \in [Threads -> Local] /\ lock' \in Threads \cup {NoThread}
    BY <1>5, <2>3 DEF Store, Goes, TrafficTyped
  <2> QED
    BY <1>5, <2>2, <2>4 DEF Store, TrafficTyped, writer, world, tally
<1>6. ASSUME NEW w \in Threads, EnterRoll(w) PROVE TrafficTyped'
  <2>1. [Idle EXCEPT !.pc = IF phase = "stopping" /\ w = "loop" THEN "rolled" ELSE "idle"] \in Local
    BY DEF Idle, Local
  <2>2. [thread[w] EXCEPT !.pc = "copy", !.now = clock] \in Local
    BY DEF Local, TrafficTyped
  <2>3. thread' \in [Threads -> Local] /\ lock' \in Threads \cup {NoThread}
    BY <1>6, <2>1, <2>2 DEF EnterRoll, Goes, TrafficTyped
  <2> QED
    BY <1>6, <2>3 DEF EnterRoll, TrafficTyped, writer, world, tally
<1>7. ASSUME NEW w \in Threads, Copy(w) PROVE TrafficTyped'
  <2> DEFINE rows == {s \in Live : s.count > 0}
  <2>1. rows \in SUBSET Rows /\ IsFiniteSet(rows)
    BY LiveRows, FS_Subset
  <2>2. /\ deques' = (deques \ Outdated(rows)) \cup rows
        /\ gone' = gone \cup Outdated(rows)
        /\ thread' = [v \in Threads |->
                         IF v = w THEN [thread[v] EXCEPT !.pc = "clear", !.rows = rows]
                         ELSE [thread[v] EXCEPT !.clean = FALSE]]
    BY <1>7 DEF Copy, Live
  <2>3. Outdated(rows) \subseteq deques
    BY DEF Outdated
  <2> DEFINE out == Outdated(rows)
  <2> HIDE DEF rows, out
  <2>5. out \in SUBSET Rows /\ IsFiniteSet(out) /\ IsFiniteSet(deques \ out)
    BY <2>3, FS_Subset DEF TrafficTyped, out
  <2>6. /\ deques' \in SUBSET Rows /\ IsFiniteSet(deques')
        /\ gone' \in SUBSET Rows /\ IsFiniteSet(gone')
    BY <2>1, <2>2, <2>5, FS_Union DEF TrafficTyped, out
  <2>4. thread' \in [Threads -> Local]
    BY <2>1, <2>2 DEF TrafficTyped, Local
  <2> QED
    BY <1>7, <2>4, <2>6 DEF Copy, TrafficTyped, writer, world, tally
<1>8. ASSUME NEW w \in Threads, Clear(w) PROVE TrafficTyped'
  <2>1. [Idle EXCEPT !.pc = IF phase = "stopping" /\ w = "loop" THEN "rolled" ELSE "idle"] \in Local
    BY DEF Idle, Local
  <2>2. [thread[w] EXCEPT !.pc = "create"] \in Local /\ thread[w].now \in Nat
        /\ thread[w].rows \in SUBSET Rows
    BY DEF Local, TrafficTyped
  <2>3. thread' \in [Threads -> Local] /\ lock' \in Threads \cup {NoThread}
    BY <1>8, <2>1, <2>2 DEF Clear, Goes, TrafficTyped
  <2>4. queue' \in Seq(SUBSET Rows)
    <3>1. Append(queue, thread[w].rows) \in Seq(SUBSET Rows)
      BY <2>2, AppendProperties DEF TrafficTyped
    <3> QED
      BY <1>8, <3>1 DEF Clear, TrafficTyped
  <2> QED
    BY <1>8, <2>2, <2>3, <2>4 DEF Clear, TrafficTyped, world, tally, NoSlot
<1>9. ASSUME Consume PROVE TrafficTyped'
  <2> DEFINE n == Min({BatchSize, Len(queue)})
  <2>1. n \in 1 .. Len(queue)
    BY <1>9, BatchLength DEF Consume, TrafficTyped
  <2>2. SaveBatch(SubSeq(queue, 1, n)) /\ queue' = SubSeq(queue, n + 1, Len(queue))
    BY <1>9 DEF Consume
  <2> HIDE DEF n
  <2>3. SubSeq(queue, 1, n) \in Seq(SUBSET Rows) /\ queue' \in Seq(SUBSET Rows)
    BY <2>1, <2>2, SplitQueue DEF TrafficTyped
  <2>4. db' \in SUBSET Rows /\ pending' \in SUBSET Rows
    BY <2>2, <2>3, SavedRows DEF TrafficTyped
  <2> QED
    BY <1>9, <2>3, <2>4 DEF Consume, TrafficTyped, memory, world, tally
<1>10. ASSUME MinutePasses PROVE TrafficTyped'
  BY <1>10 DEF MinutePasses, TrafficTyped, memory, writer, tally
<1>11. ASSUME StartRoll \/ StopServer PROVE TrafficTyped'
  <2>1. [Idle EXCEPT !.pc = "roll", !.after = "archive"] \in Local
    BY DEF Idle, Local
  <2>2. thread' \in [Threads -> Local]
    BY <1>11, <2>1 DEF StartRoll, StopServer, Goes, TrafficTyped
  <2> QED
    BY <1>11, <2>2 DEF StartRoll, StopServer, TrafficTyped, memory, writer, world, tally
<1>12. ASSUME StopWriter PROVE TrafficTyped'
  <2>1. db' \in SUBSET Rows /\ pending' \in SUBSET Rows
    BY <1>12, SavedRows DEF StopWriter, Drained, TrafficTyped
  <2>2. queue' \in Seq(SUBSET Rows)
    BY <1>12 DEF StopWriter
  <2>3. [Idle EXCEPT !.pc = "drained"] \in Local
    BY DEF Idle, Local
  <2>4. thread' \in [Threads -> Local]
    BY <1>12, <2>3 DEF StopWriter, Goes, TrafficTyped
  <2> QED
    BY <1>12, <2>1, <2>2, <2>4 DEF StopWriter, TrafficTyped, memory, world, tally
<1>14. ASSUME SaveOthers \/ CloseServer PROVE TrafficTyped'
  <2>1. db' \in SUBSET Rows /\ pending' \in SUBSET Rows
    BY <1>14 DEF SaveOthers, CloseServer, TrafficTyped, Visible, Replaced
  <2> QED
    BY <1>14, <2>1 DEF SaveOthers, CloseServer, TrafficTyped, memory, world, tally
<1>13. ASSUME Restart PROVE TrafficTyped'
  <2>1. IsFiniteSet({}) /\ <<>> \in Seq(Rows) /\ <<>> \in Seq(SUBSET Rows)
    BY FS_EmptySet
  <2> QED
    BY <1>13, <2>1 DEF Restart, FreshMemory, TrafficTyped, NoSlot, NoThread
<1> QED
  BY <1>1, <1>2, <1>3, <1>4, <1>5, <1>6, <1>7, <1>8, <1>9, <1>10, <1>11, <1>12, <1>13, <1>14
     DEF TrafficNext

-----------------------------------------------------------------------------
(* What an operation makes of its thread, and of the others *)

\* Nothing of what another thread is doing changes, unless a roll overlaps it.
Others(w) ==
    \A v \in Threads \ {w} :
        /\ thread'[v].pc = thread[v].pc /\ thread'[v].topic = thread[v].topic
        /\ thread'[v].slot = thread[v].slot /\ thread'[v].after = thread[v].after
        /\ thread'[v].read = thread[v].read /\ thread'[v].now = thread[v].now
        /\ thread'[v].rows = thread[v].rows
        /\ thread'[v].clean => thread[v].clean

LEMMA OneGoes ==
    ASSUME TrafficTyped, NEW w \in Threads, NEW local, Goes(w, local)
    PROVE  thread'[w] = local /\ Others(w)
<1>1. thread'[w] = local /\ \A v \in Threads \ {w} : thread'[v] = thread[v]
  BY DEF Goes, TrafficTyped
<1> QED
  BY <1>1 DEF Others

LEMMA RecordMoves ==
    ASSUME TrafficTyped, NEW w \in Threads, NEW t \in Topics, Record(w, t)
    PROVE  /\ thread'[w].pc = IF current[t] = NoSlot THEN "enter" ELSE "add"
           /\ thread'[w].topic = t /\ thread'[w].slot = current[t] /\ thread'[w].after = "idle"
           /\ thread'[w].clean => \A v \in Threads : ~Rolling(v)
           /\ Others(w)
           /\ thread[w].pc = "idle" /\ records' = records + 1
           /\ UNCHANGED <<lock, minute, current, slots, cum, deques, gone, queue, db, pending, handed,
                           lost, phase, clock, entered, overlap>>
<1> DEFINE local == [Idle EXCEPT !.pc = IF current[t] = NoSlot THEN "enter" ELSE "add",
                                 !.topic = t, !.slot = current[t],
                                 !.clean = \A v \in Threads : ~Rolling(v)]
<1>1. Goes(w, local)
  BY DEF Record
<1>2. thread'[w] = local /\ Others(w)
  BY <1>1, OneGoes
<1>3. /\ thread[w].pc = "idle" /\ records' = records + 1
      /\ UNCHANGED <<lock, minute, current, slots, cum, deques, gone, queue, db, pending, handed,
                      lost, phase, clock, entered, overlap>>
  BY DEF Record, memory, writer, world
<1> QED
  BY <1>3, <1>2 DEF Idle

LEMMA EnterSlowMoves ==
    ASSUME TrafficTyped, NEW w \in Threads, EnterSlow(w)
    PROVE  LET t == thread[w].topic
           IN /\ thread'[w].pc = IF current[t] # NoSlot THEN "add"
                                 ELSE IF clock # minute THEN "copy" ELSE "create"
              /\ thread'[w].topic = t /\ thread'[w].slot = current[t]
              /\ thread'[w].after = "create" /\ thread'[w].now = clock
              /\ Others(w)
              /\ thread[w].pc = "enter" /\ lock = NoThread /\ lock' = w
              /\ UNCHANGED <<minute, current, slots, cum, deques, gone, queue, db, pending, handed, lost,
                              phase, clock, entered, overlap, recorders>>
<1> DEFINE t == thread[w].topic
           next == IF current[t] # NoSlot THEN "add" ELSE IF clock # minute THEN "copy" ELSE "create"
           local == [thread[w] EXCEPT !.slot = current[t], !.pc = next, !.after = "create",
                                      !.now = clock]
<1>1. Goes(w, local)
  BY DEF EnterSlow, LookedUp
<1>2. thread'[w] = local /\ Others(w)
  BY <1>1, OneGoes
<1>3. thread[w] \in Local
  BY DEF TrafficTyped
<1> HIDE DEF t, next
<1>4. /\ thread'[w].pc = next /\ thread'[w].topic = thread[w].topic
      /\ thread'[w].slot = current[t]
      /\ thread'[w].after = "create" /\ thread'[w].now = clock
  BY <1>2, <1>3 DEF Local
<1>5. /\ thread[w].pc = "enter" /\ lock = NoThread /\ lock' = w
      /\ UNCHANGED <<minute, current, slots, cum, deques, gone, queue, db, pending, handed, lost,
                      phase, clock, entered, overlap, recorders>>
  BY DEF EnterSlow, writer, world, tally
<1> QED
  BY <1>5, <1>2, <1>4 DEF t, next

LEMMA CreateMoves ==
    ASSUME TrafficTyped, NEW w \in Threads, CreateSlot(w)
    PROVE  /\ thread'[w].pc = "add" /\ thread'[w].topic = thread[w].topic
           /\ thread'[w].slot = Len(slots') /\ thread'[w].after = thread[w].after
           /\ Others(w)
           /\ thread[w].pc = "create"
           /\ UNCHANGED <<lock, minute, cum, deques, gone, queue, db, pending, handed, lost,
                           phase, clock, entered, overlap, recorders>>
<1> DEFINE local == [thread[w] EXCEPT !.pc = "add", !.slot = Len(slots')]
<1>1. Goes(w, local)
  BY DEF CreateSlot
<1>2. thread'[w] = local /\ Others(w)
  BY <1>1, OneGoes
<1>3. thread[w] \in Local
  BY DEF TrafficTyped
<1>4. /\ thread[w].pc = "create"
      /\ UNCHANGED <<lock, minute, cum, deques, gone, queue, db, pending, handed, lost,
                      phase, clock, entered, overlap, recorders>>
  BY DEF CreateSlot, writer, world, tally
<1> QED
  BY <1>4, <1>2, <1>3 DEF Local

LEMMA AddMoves ==
    ASSUME TrafficTyped, NEW w \in Threads, Add(w)
    PROVE  /\ thread'[w].pc = "store" /\ thread'[w].topic = thread[w].topic
           /\ thread'[w].slot = thread[w].slot /\ thread'[w].after = thread[w].after
           /\ thread'[w].read = cum[thread[w].topic]
           /\ Others(w)
           /\ thread[w].pc = "add"
           /\ UNCHANGED <<lock, minute, current, cum, deques, gone, queue, db, pending, handed,
                           lost, phase, clock, recorders>>
<1> DEFINE local == [thread[w] EXCEPT !.pc = "store", !.read = cum[thread[w].topic]]
<1>1. Goes(w, local)
  BY DEF Add
<1>2. thread'[w] = local /\ Others(w)
  BY <1>1, OneGoes
<1>3. thread[w] \in Local
  BY DEF TrafficTyped
<1>4. /\ thread[w].pc = "add"
      /\ UNCHANGED <<lock, minute, current, cum, deques, gone, queue, db, pending, handed,
                      lost, phase, clock, recorders>>
  BY DEF Add, writer, world
<1> QED
  BY <1>4, <1>2, <1>3 DEF Local

LEMMA StoreMoves ==
    ASSUME TrafficTyped, NEW w \in Threads, Store(w)
    PROVE  /\ thread'[w].pc \in {"idle", "roll"} /\ thread'[w].after = "idle"
           /\ Others(w)
           /\ thread[w].pc = "store" /\ lock' = IF lock = w THEN NoThread ELSE lock
           /\ UNCHANGED <<minute, current, slots, deques, gone, queue, db, pending, handed, lost,
                           phase, clock, entered, overlap, recorders>>
<1>1. PICK local \in {[Idle EXCEPT !.pc = "roll"], Idle} : Goes(w, local)
  BY DEF Store
<1>2. thread'[w] = local /\ Others(w)
  BY <1>1, OneGoes
<1>3. /\ thread[w].pc = "store" /\ lock' = IF lock = w THEN NoThread ELSE lock
      /\ UNCHANGED <<minute, current, slots, deques, gone, queue, db, pending, handed, lost,
                      phase, clock, entered, overlap, recorders>>
  BY DEF Store, writer, world, tally
<1> QED
  BY <1>3, <1>2 DEF Idle

LEMMA EnterRollMoves ==
    ASSUME TrafficTyped, NEW w \in Threads, EnterRoll(w)
    PROVE  /\ \/ /\ lock' = lock
                 /\ thread'[w].pc \in {"idle", "rolled"} /\ thread'[w].after = "idle"
              \/ /\ lock' = w /\ clock # minute
                 /\ thread'[w].pc = "copy" /\ thread'[w].after = thread[w].after
                 /\ thread'[w].now = clock /\ thread'[w].topic = thread[w].topic
           /\ Others(w)
           /\ thread[w].pc = "roll" /\ lock = NoThread
           /\ UNCHANGED <<minute, current, slots, cum, deques, gone, queue, db, pending, handed, lost,
                           phase, clock, entered, overlap, recorders>>
<1> DEFINE done == [Idle EXCEPT !.pc =
                      IF phase = "stopping" /\ w = "loop" THEN "rolled" ELSE "idle"]
           copying == [thread[w] EXCEPT !.pc = "copy", !.now = clock]
<1>0. /\ thread[w].pc = "roll" /\ lock = NoThread
      /\ UNCHANGED <<minute, current, slots, cum, deques, gone, queue, db, pending, handed, lost,
                      phase, clock, entered, overlap, recorders>>
  BY DEF EnterRoll, writer, world, tally
<1>1. CASE SameMinute
  <2>1. Goes(w, done) /\ lock' = lock
    BY <1>1 DEF EnterRoll
  <2>2. thread'[w] = done /\ Others(w)
    BY <2>1, OneGoes
  <2> QED
    BY <1>0, <2>1, <2>2 DEF Idle
<1>2. CASE ~SameMinute
  <2>1. Goes(w, copying) /\ lock' = w /\ clock # minute
    BY <1>2 DEF EnterRoll, SameMinute
  <2>2. thread'[w] = copying /\ Others(w)
    BY <2>1, OneGoes
  <2>3. thread[w] \in Local
    BY DEF TrafficTyped
  <2> QED
    BY <1>0, <2>1, <2>2, <2>3 DEF Local
<1> QED
  BY <1>1, <1>2

LEMMA CopyMoves ==
    ASSUME TrafficTyped, NEW w \in Threads, Copy(w)
    PROVE  /\ thread'[w].pc = "clear" /\ thread'[w].rows = {s \in Live : s.count > 0}
           /\ thread'[w].after = thread[w].after /\ thread'[w].topic = thread[w].topic
           /\ thread'[w].now = thread[w].now
           /\ Others(w)
           /\ \A v \in Threads \ {w} : ~thread'[v].clean
           /\ deques' = (deques \ Outdated({s \in Live : s.count > 0}))
                          \cup {s \in Live : s.count > 0}
           /\ gone' = gone \cup Outdated({s \in Live : s.count > 0})
           /\ Ever' = Ever \cup {s \in Live : s.count > 0}
           /\ thread[w].pc = "copy"
           /\ UNCHANGED <<lock, minute, current, slots, cum, queue, db, pending, handed, lost,
                           phase, clock, entered, overlap, recorders>>
<1> DEFINE rows == {s \in Live : s.count > 0}
<1>1. /\ deques' = (deques \ Outdated(rows)) \cup rows
      /\ gone' = gone \cup Outdated(rows)
      /\ thread' = [v \in Threads |->
                       IF v = w THEN [thread[v] EXCEPT !.pc = "clear", !.rows = rows]
                       ELSE [thread[v] EXCEPT !.clean = FALSE]]
  BY DEF Copy, Live
<1> HIDE DEF rows
<1>7. Ever' = Ever \cup rows
  BY <1>1 DEF Ever, Outdated
<1>2. /\ thread'[w] = [thread[w] EXCEPT !.pc = "clear", !.rows = rows]
      /\ \A v \in Threads \ {w} : thread'[v] = [thread[v] EXCEPT !.clean = FALSE]
  BY <1>1
<1>3. \A v \in Threads : thread[v] \in Local
  BY DEF TrafficTyped
<1>4. Others(w) /\ \A v \in Threads \ {w} : ~thread'[v].clean
  <2>1. ASSUME NEW v \in Threads \ {w}, NEW local \in Local, thread[v] = local
        PROVE  /\ thread'[v].pc = local.pc /\ thread'[v].topic = local.topic
               /\ thread'[v].slot = local.slot /\ thread'[v].after = local.after
               /\ thread'[v].read = local.read /\ thread'[v].now = local.now
               /\ thread'[v].rows = local.rows /\ ~thread'[v].clean
    <3>1. thread'[v] = [local EXCEPT !.clean = FALSE]
      BY <1>2, <2>1
    <3> QED
      BY <3>1 DEF Local
  <2> QED
    BY <1>3, <2>1 DEF Others
<1>5. /\ thread'[w].pc = "clear" /\ thread'[w].rows = rows
      /\ thread'[w].after = thread[w].after /\ thread'[w].topic = thread[w].topic
      /\ thread'[w].now = thread[w].now
  BY <1>2, <1>3 DEF Local
<1>6. /\ thread[w].pc = "copy"
      /\ UNCHANGED <<lock, minute, current, slots, cum, queue, db, pending, handed, lost,
                      phase, clock, entered, overlap, recorders>>
  BY DEF Copy, writer, world, tally
<1> QED
  BY <1>6, <1>1, <1>4, <1>5, <1>7 DEF rows

LEMMA ClearMoves ==
    ASSUME TrafficTyped, NEW w \in Threads, Clear(w)
    PROVE  /\ \/ /\ thread[w].after = "create" /\ lock' = lock
                 /\ thread'[w].pc = "create" /\ thread'[w].after = "create"
                 /\ thread'[w].topic = thread[w].topic
              \/ /\ thread[w].after # "create" /\ lock' = NoThread
                 /\ thread'[w].pc \in {"idle", "rolled"} /\ thread'[w].after = "idle"
           /\ Others(w)
           /\ thread[w].pc = "clear" /\ minute' = thread[w].now
           /\ current' = [t \in Topics |-> NoSlot]
           /\ UNCHANGED <<slots, cum, deques, gone, db, pending, lost, phase, clock,
                           entered, overlap, recorders>>
<1> DEFINE done == [Idle EXCEPT !.pc =
                      IF phase = "stopping" /\ w = "loop" THEN "rolled" ELSE "idle"]
           create == [thread[w] EXCEPT !.pc = "create"]
<1>0. /\ thread[w].pc = "clear" /\ minute' = thread[w].now /\ current' = [t \in Topics |-> NoSlot]
      /\ UNCHANGED <<slots, cum, deques, gone, db, pending, lost, phase, clock,
                      entered, overlap, recorders>>
  BY DEF Clear, world, tally
<1>1. CASE thread[w].after = "create"
  <2>1. Goes(w, create) /\ lock' = lock
    BY <1>1 DEF Clear
  <2>2. thread'[w] = create /\ Others(w)
    BY <2>1, OneGoes
  <2>3. thread[w] \in Local
    BY DEF TrafficTyped
  <2> QED
    BY <1>0, <1>1, <2>1, <2>2, <2>3 DEF Local
<1>2. CASE thread[w].after # "create"
  <2>1. Goes(w, done) /\ lock' = NoThread
    BY <1>2 DEF Clear
  <2>2. thread'[w] = done /\ Others(w)
    BY <2>1, OneGoes
  <2> QED
    BY <1>0, <1>2, <2>1, <2>2 DEF Idle
<1> QED
  BY <1>1, <1>2

LEMMA LoopMoves ==
    ASSUME TrafficTyped, StartRoll \/ StopServer
    PROVE  /\ thread["loop"].pc = "idle"
           /\ thread'["loop"].pc = "roll" /\ thread'["loop"].after = "archive"
           /\ Others("loop")
           /\ "loop" \in Threads
           /\ UNCHANGED <<memory, writer, clock, entered, overlap, recorders>>
<1> DEFINE local == [Idle EXCEPT !.pc = "roll", !.after = "archive"]
<1>1. Goes("loop", local) /\ "loop" \in Threads
  BY DEF StartRoll, StopServer, Threads
<1>2. thread'["loop"] = local /\ Others("loop")
  BY <1>1, OneGoes
<1>3. UNCHANGED <<memory, writer, clock, entered, overlap, recorders>>
  BY DEF StartRoll, StopServer, world, tally
<1> QED
  BY <1>1, <1>2, <1>3 DEF Idle, StartRoll, StopServer

LEMMA StopMoves ==
    ASSUME TrafficTyped, StopWriter
    PROVE  /\ thread["loop"].pc = "rolled"
           /\ thread'["loop"].pc = "drained" /\ thread'["loop"].after = "idle"
           /\ Others("loop")
           /\ "loop" \in Threads
           /\ UNCHANGED <<memory, handed, phase, clock, entered, overlap, recorders>>
<1> DEFINE local == [Idle EXCEPT !.pc = "drained"]
<1>1. Goes("loop", local) /\ "loop" \in Threads
  BY DEF StopWriter, Threads
<1>2. thread'["loop"] = local /\ Others("loop")
  BY <1>1, OneGoes
<1>3. UNCHANGED <<memory, handed, phase, clock, entered, overlap, recorders>>
  BY DEF StopWriter, world, tally
<1> QED
  BY <1>1, <1>2, <1>3 DEF Idle, StopWriter

-----------------------------------------------------------------------------
(* The lock, the minute and the slots *)

LEMMA LockedAfter ==
    ASSUME TrafficTyped, Locked, TrafficNext
    PROVE  Locked'
<1> USE DEF Locked, Others
<1>0. NoThread \notin Threads
  BY DEF NoThread, Threads
<1>1. ASSUME NEW w \in Threads, NEW t \in Topics, Record(w, t) PROVE Locked'
  BY <1>1, RecordMoves
<1>2. ASSUME NEW w \in Threads, EnterSlow(w) PROVE Locked'
  BY <1>0, <1>2, EnterSlowMoves
<1>3. ASSUME NEW w \in Threads, CreateSlot(w) PROVE Locked'
  BY <1>3, CreateMoves
<1>4. ASSUME NEW w \in Threads, Add(w) PROVE Locked'
  BY <1>4, AddMoves
<1>5. ASSUME NEW w \in Threads, Store(w) PROVE Locked'
  BY <1>0, <1>5, StoreMoves
<1>6. ASSUME NEW w \in Threads, EnterRoll(w) PROVE Locked'
  BY <1>0, <1>6, EnterRollMoves
<1>7. ASSUME NEW w \in Threads, Copy(w) PROVE Locked'
  BY <1>7, CopyMoves
<1>8. ASSUME NEW w \in Threads, Clear(w) PROVE Locked'
  BY <1>0, <1>8, ClearMoves
<1>9. ASSUME StartRoll \/ StopServer PROVE Locked'
  BY <1>9, LoopMoves DEF memory
<1>10. ASSUME Consume \/ SaveOthers \/ MinutePasses \/ CloseServer PROVE Locked'
  BY <1>10 DEF Consume, SaveOthers, MinutePasses, CloseServer, memory
<1>11. ASSUME Restart PROVE Locked'
  BY <1>0, <1>11 DEF Restart, FreshMemory, Idle
<1>12. ASSUME StopWriter PROVE Locked'
  BY <1>12, StopMoves DEF memory
<1> QED
  BY <1>1, <1>2, <1>3, <1>4, <1>5, <1>6, <1>7, <1>8, <1>9, <1>10, <1>11, <1>12
     DEF TrafficNext

LEMMA ForwardAfter ==
    ASSUME TrafficTyped, Locked, Forward, TrafficNext
    PROVE  Forward'
<1> USE DEF Forward, Others, Rolling
<1>0. minute \in Nat /\ clock \in Nat
  BY DEF TrafficTyped
<1>1. ASSUME NEW w \in Threads, NEW t \in Topics, Record(w, t) PROVE Forward'
  BY <1>1, RecordMoves
<1>2. ASSUME NEW w \in Threads, EnterSlow(w) PROVE Forward'
  BY <1>0, <1>2, EnterSlowMoves
<1>3. ASSUME NEW w \in Threads, CreateSlot(w) PROVE Forward'
  BY <1>3, CreateMoves
<1>4. ASSUME NEW w \in Threads, Add(w) PROVE Forward'
  BY <1>4, AddMoves
<1>5. ASSUME NEW w \in Threads, Store(w) PROVE Forward'
  BY <1>5, StoreMoves
<1>6. ASSUME NEW w \in Threads, EnterRoll(w) PROVE Forward'
  BY <1>0, <1>6, EnterRollMoves
<1>7. ASSUME NEW w \in Threads, Copy(w) PROVE Forward'
  BY <1>7, CopyMoves
<1>8. ASSUME NEW w \in Threads, Clear(w) PROVE Forward'
  <2>1. minute' = thread[w].now /\ thread[w].now <= clock /\ clock' = clock
    BY <1>8 DEF Clear, world
  <2>2. \A v \in Threads \ {w} : thread[v].pc \notin {"copy", "clear"}
    BY <1>8 DEF Locked, Clear
  <2> QED
    BY <1>8, <2>1, <2>2, ClearMoves
<1>9. ASSUME StartRoll \/ StopServer PROVE Forward'
  BY <1>9, LoopMoves DEF memory
<1>10. ASSUME Consume \/ SaveOthers \/ CloseServer PROVE Forward'
  BY <1>10 DEF Consume, SaveOthers, CloseServer, memory, world
<1>11. ASSUME MinutePasses PROVE Forward'
  <2>1. \A w \in Threads : thread[w].now \in Nat
    BY DEF TrafficTyped, Local
  <2> QED
    BY <1>0, <1>11, <2>1 DEF MinutePasses, memory
<1>12. ASSUME Restart PROVE Forward'
  BY <1>0, <1>12 DEF Restart, FreshMemory, Idle
<1>13. ASSUME StopWriter PROVE Forward'
  BY <1>13, StopMoves DEF memory
<1> QED
  BY <1>1, <1>2, <1>3, <1>4, <1>5, <1>6, <1>7, <1>8, <1>9, <1>10, <1>11, <1>12, <1>13
     DEF TrafficNext

\* A new slot is at the end; counting leaves a slot its topic and its minute.
LEMMA SlotsGrow ==
    ASSUME TrafficTyped, Placed, NEW w \in Threads, CreateSlot(w)
    PROVE  /\ thread[w].topic \in Topics /\ Len(slots) \in Nat
           /\ Len(slots') = Len(slots) + 1
           /\ \A i \in 1 .. Len(slots) : slots'[i] = slots[i]
           /\ slots'[Len(slots')].topic = thread[w].topic
           /\ slots'[Len(slots')].minute = minute /\ slots'[Len(slots')].count = 0
           /\ current' = [current EXCEPT ![thread[w].topic] = Len(slots')]
<1> DEFINE new == [topic |-> thread[w].topic, minute |-> minute, count |-> 0]
<1>1. slots' = Append(slots, new) /\ current' = [current EXCEPT ![thread[w].topic] = Len(slots')]
      /\ thread[w].topic \in Topics
  BY DEF CreateSlot, Placed, InRecord
<1>2. new \in Rows /\ new.topic = thread[w].topic /\ new.minute = minute /\ new.count = 0
  BY <1>1 DEF Rows, TrafficTyped
<1> HIDE DEF new
<1>3. /\ Len(slots) \in Nat /\ Len(slots') = Len(slots) + 1
      /\ \A i \in 1 .. Len(slots) : slots'[i] = slots[i]
      /\ slots'[Len(slots) + 1] = new
  BY <1>1, <1>2, AppendProperties, LenProperties DEF TrafficTyped
<1> QED
  BY <1>1, <1>2, <1>3

LEMMA SlotsCount ==
    ASSUME TrafficTyped, Placed, NEW w \in Threads, Add(w)
    PROVE  /\ thread[w].topic \in Topics /\ Len(slots') = Len(slots)
           /\ thread[w].slot \in 1 .. Len(slots)
           /\ \A i \in 1 .. Len(slots) :
                 /\ slots'[i].topic = slots[i].topic /\ slots'[i].minute = slots[i].minute
                 /\ slots[i].count \in Nat
                 /\ slots'[i].count = IF i = thread[w].slot THEN slots[i].count + 1
                                      ELSE slots[i].count
<1>1. /\ thread[w].slot \in 1 .. Len(slots) /\ slots[thread[w].slot] \in Rows
      /\ thread[w].topic \in Topics
  BY SlotAt DEF Add
<1> DEFINE row == slots[thread[w].slot]
           more == [row EXCEPT !.count = @ + 1]
<1>2. /\ more \in Rows /\ more.topic = row.topic /\ more.minute = row.minute
      /\ more.count = row.count + 1
  BY <1>1 DEF Rows
<1>3. slots' = [slots EXCEPT ![thread[w].slot] = more]
  BY DEF Add
<1> HIDE DEF more
<1>4. /\ Len(slots') = Len(slots)
      /\ \A i \in 1 .. Len(slots) : slots'[i] = IF i = thread[w].slot THEN more ELSE slots[i]
  BY <1>1, <1>2, <1>3, ExceptSeq DEF TrafficTyped
<1>5. \A i \in 1 .. Len(slots) : slots[i] \in Rows
  BY ElementOfSeq DEF TrafficTyped
<1> HIDE DEF row
<1>6. \A i \in 1 .. Len(slots) : slots[i].count \in Nat
  BY <1>5 DEF Rows
<1> QED
  BY <1>1, <1>2, <1>4, <1>6 DEF row

\* What Placed says of one thread.
PlacedThread(w) ==
    /\ InRecord(w) => thread[w].topic \in Topics
    /\ thread[w].pc = "roll" => thread[w].after # "create"
    /\ thread[w].pc = "create" => current[thread[w].topic] = NoSlot
    /\ thread[w].pc \in {"add", "store"} =>
          /\ thread[w].slot \in 1 .. Len(slots)
          /\ slots[thread[w].slot].topic = thread[w].topic
    /\ thread[w].pc = "add" /\ thread[w].clean =>
          /\ thread[w].slot = current[thread[w].topic]
          /\ \A v \in Threads : thread[v].pc # "clear"

PlacedSlots ==
    \A t \in Topics : current[t] # NoSlot =>
        /\ current[t] \in 1 .. Len(slots)
        /\ slots[current[t]].topic = t /\ slots[current[t]].minute = minute

LEMMA PlacedAfter ==
    ASSUME TrafficTyped, Locked, Placed, TrafficNext
    PROVE  Placed'
<1> USE DEF Others, InRecord, Rolling
<1>0. /\ PlacedSlots /\ \A w \in Threads : PlacedThread(w)
      /\ PlacedSlots' /\ (\A w \in Threads : PlacedThread(w)') => Placed'
  BY DEF Placed, PlacedSlots, PlacedThread
<1>1. ASSUME NEW w \in Threads, NEW t \in Topics, Record(w, t) PROVE Placed'
  <2>1. PlacedSlots'
    BY <1>0, <1>1, RecordMoves DEF PlacedSlots
  <2>2. ASSUME NEW v \in Threads, v # w PROVE PlacedThread(v)'
    BY <1>0, <1>1, <2>2, RecordMoves DEF PlacedThread
  <2>3. PlacedThread(w)'
    BY <1>0, <1>1, RecordMoves DEF PlacedThread, PlacedSlots
  <2> QED
    BY <1>0, <2>1, <2>2, <2>3
<1>2. ASSUME NEW w \in Threads, EnterSlow(w) PROVE Placed'
  <2>1. PlacedSlots'
    BY <1>0, <1>2, EnterSlowMoves DEF PlacedSlots
  <2>2. ASSUME NEW v \in Threads, v # w PROVE PlacedThread(v)'
    BY <1>0, <1>2, <2>2, EnterSlowMoves DEF PlacedThread
  <2>3. PlacedThread(w)'
    <3>1. \A v \in Threads : thread[v].pc # "clear"
      BY <1>2, EnterSlowMoves DEF Locked, NoThread, Threads
    <3>2. thread[w].topic \in Topics
      BY <1>0, <1>2, EnterSlowMoves DEF PlacedThread
    <3> QED
      BY <1>0, <1>2, <3>1, <3>2, EnterSlowMoves DEF PlacedThread, PlacedSlots
  <2> QED
    BY <1>0, <2>1, <2>2, <2>3
<1>3. ASSUME NEW w \in Threads, CreateSlot(w) PROVE Placed'
  <2>0. /\ lock = w /\ thread[w].topic \in Topics /\ Len(slots') \in Nat \ {0}
        /\ \A t \in Topics : current'[t] = IF t = thread[w].topic THEN Len(slots') ELSE current[t]
        /\ minute' = minute
        /\ \A i \in 1 .. Len(slots) : i \in 1 .. Len(slots') /\ slots'[i] = slots[i]
        /\ Len(slots') \in 1 .. Len(slots')
    <3>1. /\ lock = w /\ thread[w].topic \in Topics /\ minute' = minute
      BY <1>3, SlotsGrow, CreateMoves DEF Locked
    <3>2. /\ Len(slots) \in Nat /\ Len(slots') = Len(slots) + 1
          /\ \A i \in 1 .. Len(slots) : slots'[i] = slots[i]
          /\ current' = [current EXCEPT ![thread[w].topic] = Len(slots')]
      BY <1>3, SlotsGrow
    <3>3. \A t \in Topics : current'[t] = IF t = thread[w].topic THEN Len(slots') ELSE current[t]
      BY <3>2 DEF TrafficTyped
    <3> QED
      BY <3>1, <3>2, <3>3
  <2>1. PlacedSlots'
    BY <1>0, <1>3, <2>0, SlotsGrow DEF PlacedSlots
  <2>2. ASSUME NEW v \in Threads, v # w PROVE PlacedThread(v)'
    <3>1. thread[v].pc \notin {"create", "copy", "clear"}
      BY <2>0, <2>2 DEF Locked
    <3>2. thread[v].pc = "add" /\ thread[v].clean => thread[v].topic # thread[w].topic
      BY <1>0, <1>3, CreateMoves DEF PlacedThread, NoSlot
    <3> QED
      BY <1>0, <1>3, <2>0, <2>2, <3>1, <3>2, CreateMoves DEF PlacedThread
  <2>3. PlacedThread(w)'
    <3>1. \A v \in Threads : thread[v].pc # "clear"
      BY <1>3, <2>0, CreateMoves DEF Locked
    <3> QED
      BY <1>0, <1>3, <2>0, <3>1, SlotsGrow, CreateMoves DEF PlacedThread
  <2> QED
    BY <1>0, <2>1, <2>2, <2>3
<1>4. ASSUME NEW w \in Threads, Add(w) PROVE Placed'
  <2>1. PlacedSlots'
    BY <1>0, <1>4, SlotsCount, AddMoves DEF PlacedSlots
  <2>2. ASSUME NEW v \in Threads, v # w PROVE PlacedThread(v)'
    BY <1>0, <1>4, <2>2, SlotsCount, AddMoves DEF PlacedThread
  <2>3. PlacedThread(w)'
    BY <1>0, <1>4, SlotsCount, AddMoves DEF PlacedThread
  <2> QED
    BY <1>0, <2>1, <2>2, <2>3
<1>5. ASSUME NEW w \in Threads, Store(w) PROVE Placed'
  <2>1. PlacedSlots'
    BY <1>0, <1>5, StoreMoves DEF PlacedSlots
  <2>2. ASSUME NEW v \in Threads, v # w PROVE PlacedThread(v)'
    BY <1>0, <1>5, <2>2, StoreMoves DEF PlacedThread
  <2>3. PlacedThread(w)'
    BY <1>0, <1>5, StoreMoves DEF PlacedThread
  <2> QED
    BY <1>0, <2>1, <2>2, <2>3
<1>6. ASSUME NEW w \in Threads, EnterRoll(w) PROVE Placed'
  <2>1. PlacedSlots'
    BY <1>0, <1>6, EnterRollMoves DEF PlacedSlots
  <2>2. ASSUME NEW v \in Threads, v # w PROVE PlacedThread(v)'
    BY <1>0, <1>6, <2>2, EnterRollMoves DEF PlacedThread
  <2>3. PlacedThread(w)'
    BY <1>0, <1>6, EnterRollMoves DEF PlacedThread
  <2> QED
    BY <1>0, <2>1, <2>2, <2>3
<1>7. ASSUME NEW w \in Threads, Copy(w) PROVE Placed'
  <2>1. PlacedSlots'
    BY <1>0, <1>7, CopyMoves DEF PlacedSlots
  <2>2. ASSUME NEW v \in Threads, v # w PROVE PlacedThread(v)'
    BY <1>0, <1>7, <2>2, CopyMoves DEF PlacedThread
  <2>3. PlacedThread(w)'
    BY <1>0, <1>7, CopyMoves DEF PlacedThread
  <2> QED
    BY <1>0, <2>1, <2>2, <2>3
<1>8. ASSUME NEW w \in Threads, Clear(w) PROVE Placed'
  <2>0. \A t \in Topics : current'[t] = NoSlot
    BY <1>8, ClearMoves
  <2>1. PlacedSlots'
    BY <2>0 DEF PlacedSlots
  <2>2. ASSUME NEW v \in Threads, v # w PROVE PlacedThread(v)'
    <3>1. /\ thread[v].pc \notin {"create", "copy", "clear"}
          /\ ~(thread[v].pc = "add" /\ thread[v].clean)
      BY <1>0, <1>8, <2>2, ClearMoves DEF Locked, PlacedThread
    <3> QED
      BY <1>0, <1>8, <2>2, <3>1, ClearMoves DEF PlacedThread
  <2>3. PlacedThread(w)'
    BY <1>0, <1>8, <2>0, ClearMoves DEF PlacedThread
  <2> QED
    BY <1>0, <2>1, <2>2, <2>3
<1>9. ASSUME StartRoll \/ StopServer PROVE Placed'
  <2>1. PlacedSlots'
    BY <1>0, <1>9, LoopMoves DEF PlacedSlots, memory
  <2>2. ASSUME NEW v \in Threads PROVE PlacedThread(v)'
    BY <1>0, <1>9, <2>2, LoopMoves DEF PlacedThread, memory
  <2> QED
    BY <1>0, <2>1, <2>2
<1>10. ASSUME Consume \/ SaveOthers \/ MinutePasses \/ CloseServer PROVE Placed'
  BY <1>10 DEF Consume, SaveOthers, MinutePasses, CloseServer, memory, Placed
<1>11. ASSUME Restart PROVE Placed'
  BY <1>11 DEF Restart, FreshMemory, Idle, Placed
<1>12. ASSUME StopWriter PROVE Placed'
  <2>1. PlacedSlots'
    BY <1>0, <1>12, StopMoves DEF PlacedSlots, memory
  <2>2. ASSUME NEW v \in Threads PROVE PlacedThread(v)'
    BY <1>0, <1>12, <2>2, StopMoves DEF PlacedThread, memory
  <2> QED
    BY <1>0, <2>1, <2>2
<1> QED
  BY <1>1, <1>2, <1>3, <1>4, <1>5, <1>6, <1>7, <1>8, <1>9, <1>10, <1>11, <1>12
     DEF TrafficNext

-----------------------------------------------------------------------------
(* Rows: in memory, on their way, and in the table *)

\* A batch of rows that were archived: the table only gains rows, and each row
\* is saved or lost.
LEMMA TableIs ==
    ASSUME Unique
    PROVE  Visible = InTable
BY DEF Visible, Replaced, InTable, Unique

LEMMA SavedBatch ==
    ASSUME Unique, NEW batch, UNION ToSet(batch) \subseteq Ever, SaveBatch(batch)
    PROVE  /\ db \subseteq db' /\ InTable' \subseteq InTable \cup UNION ToSet(batch)
           /\ lost \subseteq lost' /\ UNION ToSet(batch) \subseteq lost' \cup db'
<1> DEFINE all == UNION ToSet(batch)
           rows == Merged(batch)
<1>1. rows \subseteq all /\ all \subseteq Ever
  BY DEF Merged
<1>2. \/ /\ db' = Replaced(InTable, rows) /\ pending' = {}
         /\ lost' = lost \cup (all \ rows)
      \/ /\ db' = db /\ lost' = lost \cup all
         /\ pending' = {} \/ \E part \in SUBSET rows : pending' = Replaced(pending, part)
  BY TableIs DEF SaveBatch
<1> HIDE DEF all, rows
<1>3. /\ InTable \subseteq Replaced(InTable, rows) /\ Replaced(InTable, rows) \subseteq InTable \cup rows
      /\ rows \subseteq Replaced(InTable, rows)
  BY <1>1 DEF Replaced, Unique
<1>4. CASE /\ db' = Replaced(InTable, rows) /\ pending' = {}
           /\ lost' = lost \cup (all \ rows)
  <2>1. db \subseteq InTable /\ InTable' = db'
    BY <1>4 DEF InTable
  <2> QED
    BY <1>1, <1>3, <1>4, <2>1 DEF all
<1>5. CASE /\ db' = db /\ lost' = lost \cup all
           /\ pending' = {} \/ \E part \in SUBSET rows : pending' = Replaced(pending, part)
  <2>1. pending' \subseteq pending \cup all
    BY <1>1, <1>5 DEF Replaced
  <2> QED
    BY <1>5, <2>1 DEF InTable, all
<1> QED
  BY <1>2, <1>4, <1>5

\* What the writer takes off its queue, and what stop() finds in it.
Taken(batch, rest) ==
    /\ UNION ToSet(queue) = (UNION ToSet(batch)) \cup (UNION ToSet(rest))
    /\ queue' = rest
    /\ \/ SaveBatch(batch)
       \/ batch = <<>> /\ UNCHANGED <<lost, db, pending>>

LEMMA ConsumeTakes ==
    ASSUME TrafficTyped, Consume
    PROVE  \E batch, rest \in Seq(SUBSET Rows) : Taken(batch, rest)
<1> DEFINE n == Min({BatchSize, Len(queue)})
<1>1. n \in 1 .. Len(queue)
  BY BatchLength DEF Consume, TrafficTyped
<1>2. SaveBatch(SubSeq(queue, 1, n)) /\ queue' = SubSeq(queue, n + 1, Len(queue))
  BY DEF Consume
<1> HIDE DEF n
<1> DEFINE batch == SubSeq(queue, 1, n)
           rest == SubSeq(queue, n + 1, Len(queue))
<1>3. /\ batch \in Seq(SUBSET Rows) /\ rest \in Seq(SUBSET Rows)
      /\ UNION ToSet(queue) = (UNION ToSet(batch)) \cup (UNION ToSet(rest))
  BY <1>1, SplitQueue DEF TrafficTyped
<1>4. SaveBatch(batch) /\ queue' = rest
  BY <1>2
<1> HIDE DEF batch, rest
<1> QED
  BY <1>3, <1>4 DEF Taken

LEMMA EmptyUnion == UNION ToSet(<<>>) = {}
<1>1. ASSUME NEW q \in Seq({}), Len(q) = 0 PROVE UNION ToSet(q) = {}
  <2>1. DOMAIN q = 1 .. Len(q) /\ 1 .. Len(q) = {}
    BY <1>1, LenProperties
  <2>2. ToSet(q) = {}
    BY <2>1 DEF ToSet
  <2> QED
    BY <2>2
<1>2. <<>> \in Seq({}) /\ Len(<<>>) = 0
  BY EmptySeq
<1> QED
  BY <1>1, <1>2

LEMMA StopTakes ==
    ASSUME TrafficTyped, StopWriter
    PROVE  \E batch, rest \in Seq(SUBSET Rows) : Taken(batch, rest)
<1>1. queue \in Seq(SUBSET Rows) /\ <<>> \in Seq(SUBSET Rows)
  BY DEF TrafficTyped
<1>2. Taken(queue, <<>>)
  BY EmptyUnion DEF StopWriter, Drained, Taken
<1> QED
  BY <1>1, <1>2

LEMMA TakenRows ==
    ASSUME Unique, OnTheWay, NEW batch, NEW rest, Taken(batch, rest)
    PROVE  /\ db \subseteq db' /\ InTable' \subseteq InTable \cup UNION ToSet(queue)
           /\ UNION ToSet(queue') \subseteq UNION ToSet(queue)
           /\ lost \subseteq lost'
           /\ UNION ToSet(queue) \subseteq (lost' \cup db') \cup UNION ToSet(queue')
<1>1. UNION ToSet(batch) \subseteq Ever
  BY DEF OnTheWay, Taken
<1>2. /\ UNION ToSet(queue) = (UNION ToSet(batch)) \cup (UNION ToSet(rest))
      /\ queue' = rest
  BY DEF Taken
<1>3. CASE SaveBatch(batch)
  BY <1>1, <1>2, <1>3, SavedBatch
<1>4. CASE batch = <<>> /\ UNCHANGED <<lost, db, pending>>
  BY <1>2, <1>4, EmptyUnion DEF InTable
<1> QED
  BY <1>3, <1>4 DEF Taken

\* What else is done to the table: the open transaction is committed, or is gone.
LEMMA OthersSave ==
    ASSUME Unique, SaveOthers \/ CloseServer
    PROVE  /\ db \subseteq db' /\ InTable' \subseteq InTable
           /\ UNCHANGED <<memory, thread, queue, handed, lost, clock, entered, overlap, recorders>>
<1>1. CASE SaveOthers
  BY <1>1, TableIs DEF SaveOthers, InTable, world, tally
<1>2. CASE CloseServer
  BY <1>2 DEF CloseServer, InTable, tally
<1> QED
  BY <1>1, <1>2

LEMMA AppendedUnion ==
    ASSUME NEW S, NEW q \in Seq(SUBSET S), NEW rows \in SUBSET S
    PROVE  UNION ToSet(Append(q, rows)) = (UNION ToSet(q)) \cup rows
<1> DEFINE longer == Append(q, rows)
<1>1. /\ longer \in Seq(SUBSET S) /\ Len(q) \in Nat /\ Len(longer) = Len(q) + 1
      /\ \A i \in 1 .. Len(q) : longer[i] = q[i]
      /\ longer[Len(q) + 1] = rows
  BY AppendProperties, LenProperties
<1> HIDE DEF longer
<1>2. \A i \in 1 .. Len(longer) : i \in 1 .. Len(q) \/ i = Len(q) + 1
  BY <1>1
<1>3. ASSUME NEW e \in ToSet(longer) PROVE e \in ToSet(q) \/ e = rows
  <2>1. PICK i \in 1 .. Len(longer) : e = longer[i]
    BY <1>1, InRange
  <2> QED
    BY <1>1, <1>2, <2>1, InRange
<1>4. ASSUME NEW e \in ToSet(q) PROVE e \in ToSet(longer)
  <2>1. PICK i \in 1 .. Len(q) : e = q[i]
    BY InRange
  <2>2. i \in 1 .. Len(longer) /\ longer[i] = e
    BY <1>1, <2>1
  <2> QED
    BY <1>1, <2>2, InRange
<1>5. rows \in ToSet(longer)
  <2>1. Len(q) + 1 \in 1 .. Len(longer)
    BY <1>1
  <2> QED
    BY <1>1, <2>1, InRange
<1>6. ToSet(longer) = ToSet(q) \cup {rows}
  BY <1>3, <1>4, <1>5
<1>7. UNION ToSet(longer) = (UNION ToSet(q)) \cup rows
  BY <1>6
<1> QED
  BY <1>7 DEF longer

LEMMA RowsTyped ==
    ASSUME TrafficTyped
    PROVE  \A row \in InTable \cup Ever : row.minute \in Nat
BY DEF TrafficTyped, Rows, InTable, Ever

RowsRight == Dated /\ Unique /\ OnTheWay

\* A step that neither archives, rolls nor saves.
LEMMA RowsSteady ==
    ASSUME RowsRight, UNCHANGED <<minute, deques, gone, db, pending, queue>>,
           \A w \in Threads : /\ thread'[w].pc = "clear" <=> thread[w].pc = "clear"
                              /\ thread[w].pc = "clear" => thread'[w].rows = thread[w].rows
    PROVE  RowsRight'
BY DEF RowsRight, Dated, Unique, OnTheWay, Ever, InTable

LEMMA RowsAfter ==
    ASSUME TrafficTyped, Locked, Forward, Placed, RowsRight, TrafficNext
    PROVE  RowsRight'
<1> USE DEF Others
<1>0. minute \in Nat /\ clock \in Nat /\ minute <= clock
  BY DEF TrafficTyped, Forward
<1>1. ASSUME NEW w \in Threads, NEW t \in Topics, Record(w, t) PROVE RowsRight'
  BY <1>1, RecordMoves, RowsSteady
<1>2. ASSUME NEW w \in Threads, EnterSlow(w) PROVE RowsRight'
  BY <1>2, EnterSlowMoves, RowsSteady
<1>3. ASSUME NEW w \in Threads, CreateSlot(w) PROVE RowsRight'
  BY <1>3, CreateMoves, RowsSteady
<1>4. ASSUME NEW w \in Threads, Add(w) PROVE RowsRight'
  BY <1>4, AddMoves, RowsSteady
<1>5. ASSUME NEW w \in Threads, Store(w) PROVE RowsRight'
  BY <1>5, StoreMoves, RowsSteady
<1>6. ASSUME NEW w \in Threads, EnterRoll(w) PROVE RowsRight'
  BY <1>6, EnterRollMoves, RowsSteady
<1>7. ASSUME NEW w \in Threads, Copy(w) PROVE RowsRight'
  <2> DEFINE rows == {s \in Live : s.count > 0}
  <2>1. /\ Ever' = Ever \cup rows /\ thread'[w].pc = "clear" /\ thread'[w].rows = rows
        /\ UNCHANGED <<minute, queue>> /\ InTable' = InTable
    BY <1>7, CopyMoves DEF InTable
  <2>2. \A row \in rows : row.minute = minute /\ row = slots[current[row.topic]]
    BY LiveRows
  <2>3. \A v \in Threads : thread[v].pc # "clear"
    BY <1>7, CopyMoves DEF Locked
  <2>4. \A row \in InTable \cup Ever : row.minute < minute
    BY <2>3 DEF RowsRight, Dated
  <2> HIDE DEF rows
  <2>5. Dated'
    BY <2>1, <2>2, <2>4 DEF Dated
  <2>6. Unique'
    <3>1. \A r \in rows, s \in InTable \cup Ever : r.minute # s.minute
      <4>1. \A s \in InTable \cup Ever : s.minute # minute
        BY <1>0, <2>4, RowsTyped
      <4> QED
        BY <2>2, <4>1
    <3>2. \A r, s \in rows : r.topic = s.topic => r = s
      BY <2>2
    <3>3. Unique
      BY DEF RowsRight
    <3> QED
      BY <2>1, <3>1, <3>2, <3>3 DEF Unique
  <2>7. OnTheWay'
    <3>1. \A v \in Threads \ {w} : thread'[v].pc # "clear"
      BY <1>7, <2>3, CopyMoves
    <3> QED
      BY <2>1, <3>1 DEF RowsRight, OnTheWay
  <2> QED
    BY <2>5, <2>6, <2>7 DEF RowsRight
<1>8. ASSUME NEW w \in Threads, Clear(w) PROVE RowsRight'
  <2>1. /\ minute' = thread[w].now /\ Ever' = Ever /\ InTable' = InTable
        /\ thread[w].pc = "clear" /\ \A v \in Threads : thread'[v].pc # "clear"
    BY <1>8, ClearMoves DEF Locked, Ever, InTable
  <2>2. minute' \in Nat /\ minute < minute'
    BY <2>1 DEF TrafficTyped, Local, Forward, Rolling
  <2>3. \A row \in InTable \cup Ever : row.minute < minute'
    <3>1. \A row \in InTable \cup Ever : row.minute \in Nat /\ row.minute <= minute
      BY <1>0, RowsTyped DEF RowsRight, Dated
    <3> QED
      BY <1>0, <2>2, <3>1
  <2>4. Dated'
    BY <2>1, <2>3 DEF Dated
  <2>5. Unique'
    BY <2>1 DEF RowsRight, Unique
  <2>6. OnTheWay'
    <3>1. UNION ToSet(queue') \subseteq (UNION ToSet(queue)) \cup thread[w].rows
      <4>1. CASE UNCHANGED queue
        BY <4>1
      <4>2. CASE queue' = Append(queue, thread[w].rows)
        <5>1. thread[w].rows \in SUBSET Rows /\ queue \in Seq(SUBSET Rows)
          BY DEF TrafficTyped, Local
        <5> QED
          BY <4>2, <5>1, AppendedUnion
      <4> QED
        BY <1>8, <4>1, <4>2 DEF Clear
    <3>2. UNION ToSet(queue') \subseteq Ever
      BY <2>1, <3>1 DEF RowsRight, OnTheWay
    <3> QED
      BY <2>1, <2>3, <3>2 DEF OnTheWay
  <2> QED
    BY <2>4, <2>5, <2>6 DEF RowsRight
<1>9. ASSUME StartRoll \/ StopServer PROVE RowsRight'
  <2>1. UNCHANGED <<minute, deques, gone, db, pending, queue>>
    BY <1>9, LoopMoves DEF memory, writer
  <2> QED
    BY <1>9, <2>1, LoopMoves, RowsSteady
<1>10. ASSUME Consume \/ StopWriter \/ SaveOthers \/ CloseServer PROVE RowsRight'
  <2>1. /\ InTable' \subseteq InTable \cup UNION ToSet(queue)
        /\ UNION ToSet(queue') \subseteq UNION ToSet(queue)
    <3>1. CASE Consume \/ StopWriter
      <4>1. PICK batch, rest \in Seq(SUBSET Rows) : Taken(batch, rest)
        BY <3>1, ConsumeTakes, StopTakes
      <4> QED
        BY <4>1, TakenRows DEF RowsRight
    <3>2. CASE SaveOthers \/ CloseServer
      BY <3>2, OthersSave DEF RowsRight
    <3> QED
      BY <1>10, <3>1, <3>2
  <2>2. /\ minute' = minute /\ Ever' = Ever
        /\ \A w \in Threads : /\ thread'[w].pc = "clear" <=> thread[w].pc = "clear"
                              /\ thread[w].pc = "clear" => thread'[w].rows = thread[w].rows
    <3>1. CASE StopWriter
      BY <3>1, StopMoves DEF memory, Ever
    <3>2. CASE ~StopWriter
      BY <1>10, <3>2 DEF Consume, SaveOthers, CloseServer, memory, Ever
    <3> QED
      BY <3>1, <3>2
  <2>3. \A row \in UNION ToSet(queue) : row \in Ever /\ row.minute < minute
    BY DEF RowsRight, OnTheWay
  <2>4. Dated'
    BY <2>1, <2>2, <2>3 DEF RowsRight, Dated
  <2>5. Unique'
    BY <2>1, <2>2, <2>3 DEF RowsRight, Unique
  <2>6. OnTheWay'
    BY <2>1, <2>2 DEF RowsRight, OnTheWay
  <2> QED
    BY <2>4, <2>5, <2>6 DEF RowsRight
<1>11. ASSUME MinutePasses PROVE RowsRight'
  BY <1>11, RowsSteady DEF MinutePasses, memory, writer
<1>12. ASSUME Restart PROVE RowsRight'
  <2>1. /\ minute' = clock /\ Ever' = {} /\ queue' = <<>> /\ InTable' \subseteq InTable
        /\ \A w \in Threads : thread'[w] = Idle
    BY <1>12 DEF Restart, FreshMemory, Ever, InTable
  <2>2. \A row \in InTable : row.minute < clock
    <3>1. \A row \in InTable : row.minute < minute /\ row.minute \in Nat
      BY RowsTyped DEF RowsRight, Dated
    <3> QED
      BY <1>0, <3>1
  <2>3. Dated'
    BY <2>1, <2>2 DEF Dated
  <2>4. Unique'
    BY <2>1 DEF RowsRight, Unique
  <2>5. OnTheWay'
    BY <2>1, EmptyUnion DEF OnTheWay, Idle
  <2> QED
    BY <2>3, <2>4, <2>5 DEF RowsRight
<1> QED
  BY <1>1, <1>2, <1>3, <1>4, <1>5, <1>6, <1>7, <1>8, <1>9, <1>10, <1>11, <1>12 DEF TrafficNext

\* Rows handed over are saved, lost, or in the queue.
LEMMA HandedAfter ==
    ASSUME TrafficTyped, Locked, RowsRight, HandedOver, TrafficNext
    PROVE  HandedOver'
<1> USE DEF Others
<1>0. "data" \in Threads /\ "loop" \in Threads /\ \A w \in Threads : w = "data" \/ w = "loop"
  BY DEF Threads
<1>1. ASSUME UNCHANGED <<handed, lost, db, queue, phase>>, thread'["data"].after # "archive",
             thread["loop"].pc = "drained" <=> thread'["loop"].pc = "drained"
      PROVE  HandedOver'
  BY <1>1 DEF HandedOver
<1>2. ASSUME NEW w \in Threads, NEW t \in Topics, Record(w, t) PROVE HandedOver'
  BY <1>0, <1>1, <1>2, RecordMoves DEF HandedOver
<1>3. ASSUME NEW w \in Threads, EnterSlow(w) PROVE HandedOver'
  BY <1>0, <1>1, <1>3, EnterSlowMoves DEF HandedOver
<1>4. ASSUME NEW w \in Threads, CreateSlot(w) PROVE HandedOver'
  BY <1>0, <1>1, <1>4, CreateMoves DEF HandedOver
<1>5. ASSUME NEW w \in Threads, Add(w) PROVE HandedOver'
  BY <1>0, <1>1, <1>5, AddMoves DEF HandedOver
<1>6. ASSUME NEW w \in Threads, Store(w) PROVE HandedOver'
  BY <1>0, <1>1, <1>6, StoreMoves DEF HandedOver
<1>7. ASSUME NEW w \in Threads, EnterRoll(w) PROVE HandedOver'
  BY <1>0, <1>1, <1>7, EnterRollMoves DEF HandedOver
<1>8. ASSUME NEW w \in Threads, Copy(w) PROVE HandedOver'
  BY <1>0, <1>1, <1>8, CopyMoves DEF HandedOver
<1>9. ASSUME NEW w \in Threads, Clear(w) PROVE HandedOver'
  <2>1. thread[w].pc = "clear" /\ UNCHANGED <<lost, db, pending, phase>>
    BY <1>9, ClearMoves
  <2>2. CASE UNCHANGED <<queue, handed>>
    BY <1>0, <1>1, <1>9, <2>1, <2>2, ClearMoves DEF HandedOver
  <2>3. CASE /\ thread[w].after = "archive"
             /\ queue' = Append(queue, thread[w].rows) /\ handed' = handed \cup thread[w].rows
    <3>1. UNION ToSet(queue') = (UNION ToSet(queue)) \cup thread[w].rows
      <4>1. thread[w].rows \in SUBSET Rows /\ queue \in Seq(SUBSET Rows)
        BY DEF TrafficTyped, Local
      <4> QED
        BY <2>3, <4>1, AppendedUnion
    <3>2. handed' \subseteq lost' \cup db' \cup (UNION ToSet(queue'))
      BY <2>1, <2>3, <3>1 DEF HandedOver
    <3>3. w = "loop" /\ phase # "stopped"
      BY <1>0, <2>1, <2>3 DEF HandedOver
    <3>4. thread'["data"].after # "archive" /\ thread'["loop"].pc # "drained"
      BY <1>0, <1>9, <3>3, ClearMoves DEF HandedOver
    <3> QED
      BY <2>1, <3>2, <3>3, <3>4 DEF HandedOver
  <2> QED
    BY <1>9, <2>2, <2>3 DEF Clear
<1>10. ASSUME StartRoll \/ StopServer PROVE HandedOver'
  <2>1. /\ UNCHANGED <<handed, lost, db, queue>> /\ phase' # "stopped"
        /\ thread'["data"].after # "archive" /\ thread'["loop"].pc # "drained"
    BY <1>0, <1>10, LoopMoves DEF writer, HandedOver, StartRoll, StopServer, world
  <2> QED
    BY <2>1 DEF HandedOver
<1>11. ASSUME Consume \/ StopWriter PROVE HandedOver'
  <2>1. PICK batch, rest \in Seq(SUBSET Rows) : Taken(batch, rest)
    BY <1>11, ConsumeTakes, StopTakes
  <2>2. /\ db \subseteq db' /\ lost \subseteq lost'
        /\ UNION ToSet(queue) \subseteq (lost' \cup db') \cup UNION ToSet(queue')
    BY <2>1, TakenRows DEF RowsRight
  <2>3. handed' = handed /\ phase' = phase /\ phase # "stopped"
    BY <1>11 DEF Consume, StopWriter, world
  <2>4. handed' \subseteq lost' \cup db' \cup (UNION ToSet(queue'))
    BY <2>2, <2>3 DEF HandedOver
  <2>5. thread'["data"].after # "archive" /\ (thread'["loop"].pc = "drained" => queue' = <<>>)
    <3>1. CASE Consume
      BY <3>1 DEF Consume, HandedOver
    <3>2. CASE StopWriter
      BY <1>0, <3>2, StopMoves DEF StopWriter, HandedOver
    <3> QED
      BY <1>11, <3>1, <3>2
  <2> QED
    BY <2>3, <2>4, <2>5 DEF HandedOver
<1>14. ASSUME SaveOthers \/ CloseServer PROVE HandedOver'
  <2>1. db \subseteq db' /\ UNCHANGED <<thread, queue, handed, lost>>
    BY <1>14, OthersSave DEF RowsRight
  <2>2. phase' = "stopped" => thread["loop"].pc = "drained"
    BY <1>14 DEF SaveOthers, CloseServer, world
  <2> QED
    BY <2>1, <2>2 DEF HandedOver
<1>12. ASSUME MinutePasses PROVE HandedOver'
  BY <1>12 DEF MinutePasses, writer, HandedOver
<1>13. ASSUME Restart PROVE HandedOver'
  BY <1>0, <1>13 DEF Restart, FreshMemory, HandedOver, Idle
<1> QED
  BY <1>2, <1>3, <1>4, <1>5, <1>6, <1>7, <1>8, <1>9, <1>10, <1>11, <1>12, <1>13, <1>14
     DEF TrafficNext

-----------------------------------------------------------------------------
(* Counts: in archived rows and in the slots of this minute *)

LEMMA SumRow ==
    ASSUME NEW S \in SUBSET Rows, IsFiniteSet(S), NEW r \in Rows, r \notin S
    PROVE  Sum(S \cup {r}) = Sum(S) + r.count
<1> DEFINE all == S \cup {r}
           f == [row \in all |-> row.count]
           g == [row \in S |-> row.count]
<1>1. IsFiniteSet(all) /\ all \ {r} = S /\ r \in all
  BY FS_AddElement
<1>2. \A row \in all : f[row] \in Int
  BY DEF Rows
<1>3. SumFunctionOnSet(f, all) = f[r] + SumFunctionOnSet(f, S)
  <2> HIDE DEF f, all
  <2> QED
    BY <1>1, <1>2, SumRemove
<1>4. SumFunctionOnSet(f, S) = SumFunctionOnSet(g, S)
  <2>1. \A row \in S : f[row] = g[row]
    OBVIOUS
  <2> HIDE DEF f, g
  <2> QED
    BY <2>1, SumSame
<1>5. Sum(all) = SumFunctionOnSet(f, all) /\ Sum(S) = SumFunctionOnSet(g, S)
  BY DEF Sum, SumFunction
<1>6. SumFunctionOnSet(g, S) \in Int /\ f[r] = r.count /\ r.count \in Int
  <2>1. \A row \in S : g[row] \in Int
    BY DEF Rows
  <2>2. SumFunctionOnSet(g, S) \in Int
    BY <2>1, SumInt
  <2> QED
    BY <2>2 DEF Rows
<1> HIDE DEF f, g, all
<1>7. Sum(all) = Sum(S) + r.count
  BY <1>3, <1>4, <1>5, <1>6
<1> QED
  BY <1>7 DEF all

LEMMA SumTyped ==
    ASSUME NEW S \in SUBSET Rows, IsFiniteSet(S)
    PROVE  Sum(S) \in Nat
<1> DEFINE g == [row \in S |-> row.count]
<1>1. \A row \in S : g[row] \in Nat
  BY DEF Rows
<1>2. SumFunctionOnSet(g, S) \in Nat
  BY <1>1, SumNat
<1> QED
  BY <1>2 DEF Sum, SumFunction

LEMMA SumNone == Sum({}) = 0
<1>1. SumFunctionOnSet([row \in {} |-> row.count], {}) = 0
  BY SumStep, FS_EmptySet
<1> QED
  BY <1>1 DEF Sum, SumFunction

LEMMA ShownIs ==
    ASSUME TrafficTyped, Placed, NEW t \in Topics
    PROVE  /\ Tallied(t) = Sum(Archived(t)) + InSlot(t)
           /\ Archived(t) \in SUBSET Rows /\ IsFiniteSet(Archived(t))
           /\ Sum(Archived(t)) \in Nat /\ InSlot(t) \in Nat /\ SlotCount(t) \in Nat
           /\ entered[t] \in Nat /\ overlap[t] \in Nat
<1>1. Tallied(t) = Sum(Archived(t)) + InSlot(t)
  BY DEF Tallied, Archived, InSlot, Clearing
<1>2. Archived(t) \in SUBSET Rows /\ IsFiniteSet(Archived(t)) /\ Sum(Archived(t)) \in Nat
  <2>1. Archived(t) \in SUBSET Rows /\ IsFiniteSet(Archived(t))
    <3>1. Ever \in SUBSET Rows /\ IsFiniteSet(Ever)
      BY FS_Union DEF Ever, TrafficTyped
    <3> QED
      BY <3>1, FS_Subset DEF Archived
  <2> QED
    BY <2>1, SumTyped
<1>3. InSlot(t) \in Nat /\ SlotCount(t) \in Nat
  <2>1. CASE current[t] = NoSlot
    BY <2>1 DEF InSlot, SlotCount
  <2>2. CASE current[t] # NoSlot
    <3>1. slots[current[t]] \in Rows
      BY <2>2, ElementOfSeq DEF Placed, TrafficTyped
    <3> QED
      BY <3>1 DEF InSlot, SlotCount, Rows
  <2> QED
    BY <2>1, <2>2
<1> QED
  BY <1>1, <1>2, <1>3 DEF TrafficTyped

\* A step that archives nothing and leaves the counts in the slots.
LEMMA ShownSteady ==
    ASSUME ShownRight, UNCHANGED <<deques, gone, entered, overlap>>, TrafficTyped, Placed,
           TrafficTyped', Placed',
           \A t \in Topics : InSlot(t)' = InSlot(t)
    PROVE  ShownRight'
<1>1. ASSUME NEW t \in Topics PROVE (Tallied(t) \in entered[t] - overlap[t] .. entered[t])'
  <2>1. Tallied(t) = Sum(Archived(t)) + InSlot(t)
    BY ShownIs
  <2>2. Tallied(t)' = Sum(Archived(t))' + InSlot(t)'
    BY DEF Tallied, Archived, InSlot, Clearing
  <2>3. Sum(Archived(t))' = Sum(Archived(t))
    BY DEF Archived, Ever, Sum
  <2> QED
    BY <2>1, <2>2, <2>3 DEF ShownRight
<1> QED
  BY <1>1 DEF ShownRight

LEMMA ShownAfter ==
    ASSUME TrafficTyped, TrafficTyped', Placed, Placed', Locked, RowsRight, ShownRight, TrafficNext
    PROVE  ShownRight'
<1> USE DEF Others
<1>0. ASSUME UNCHANGED <<deques, gone, entered, overlap, current, slots>>,
             \A w \in Threads : thread'[w].pc = "clear" <=> thread[w].pc = "clear"
      PROVE  ShownRight'
  <2>1. \A t \in Topics : InSlot(t)' = InSlot(t)
    BY <1>0 DEF InSlot, Clearing
  <2> QED
    BY <1>0, <2>1, ShownSteady
<1>1. ASSUME NEW w \in Threads, NEW t \in Topics, Record(w, t) PROVE ShownRight'
  BY <1>0, <1>1, RecordMoves
<1>2. ASSUME NEW w \in Threads, EnterSlow(w) PROVE ShownRight'
  BY <1>0, <1>2, EnterSlowMoves
<1>3. ASSUME NEW w \in Threads, CreateSlot(w) PROVE ShownRight'
  <2>1. /\ lock = w /\ ~Clearing /\ ~Clearing' /\ current[thread[w].topic] = NoSlot
        /\ UNCHANGED <<deques, gone, entered, overlap>>
    BY <1>3, CreateMoves DEF Locked, Clearing, Placed
  <2>2. ASSUME NEW t \in Topics PROVE InSlot(t)' = InSlot(t)
    <3>1. CASE t = thread[w].topic
      <4>1. current'[t] = Len(slots') /\ slots'[Len(slots')].count = 0
        BY <1>3, <3>1, SlotsGrow DEF TrafficTyped
      <4> QED
        BY <2>1, <3>1, <4>1 DEF InSlot
    <3>2. CASE t # thread[w].topic
      <4>1. current'[t] = current[t]
        BY <1>3, <3>2, SlotsGrow DEF TrafficTyped
      <4>2. current[t] # NoSlot => slots'[current[t]] = slots[current[t]]
        BY <1>3, SlotsGrow DEF Placed
      <4> QED
        BY <2>1, <4>1, <4>2 DEF InSlot
    <3> QED
      BY <3>1, <3>2
  <2> QED
    BY <2>1, <2>2, ShownSteady
<1>4. ASSUME NEW w \in Threads, Add(w) PROVE ShownRight'
  <2> DEFINE u == thread[w].topic
  <2>1. /\ UNCHANGED <<deques, gone, current>> /\ (Clearing' <=> Clearing)
        /\ thread[w].pc = "add" /\ u \in Topics
    BY <1>4, AddMoves, SlotsCount DEF Clearing
  <2>2. \A t \in Topics : /\ entered'[t] = IF t = u THEN entered[t] + 1 ELSE entered[t]
                          /\ overlap'[t] = IF t = u /\ ~thread[w].clean THEN overlap[t] + 1
                                           ELSE overlap[t]
    <3>1. /\ entered' = [entered EXCEPT ![u] = @ + 1]
          /\ overlap' = IF thread[w].clean THEN overlap ELSE [overlap EXCEPT ![u] = @ + 1]
      BY <1>4 DEF Add
    <3> HIDE DEF u
    <3> QED
      BY <3>1 DEF TrafficTyped
  <2>3. ASSUME NEW t \in Topics PROVE (Tallied(t) \in entered[t] - overlap[t] .. entered[t])'
    <3>1. /\ Tallied(t) = Sum(Archived(t)) + InSlot(t)
          /\ Sum(Archived(t)) \in Nat /\ InSlot(t) \in Nat
          /\ entered[t] \in Nat /\ overlap[t] \in Nat
          /\ Tallied(t) \in entered[t] - overlap[t] .. entered[t]
      BY ShownIs DEF ShownRight
    <3>2. Tallied(t)' = Sum(Archived(t)) + InSlot(t)'
      <4>1. Tallied(t)' = Sum(Archived(t))' + InSlot(t)'
        BY DEF Tallied, Archived, InSlot, Clearing
      <4> QED
        BY <2>1, <4>1 DEF Archived, Ever, Sum
    <3>3. CASE t # u
      <4>1. current[t] # NoSlot => slots'[current[t]].count = slots[current[t]].count
        <5>1. current[t] # NoSlot => current[t] \in 1 .. Len(slots) /\ slots[current[t]].topic = t
          BY DEF Placed
        <5>2. slots[thread[w].slot].topic = u
          BY <2>1 DEF Placed
        <5> QED
          BY <1>4, <3>3, <5>1, <5>2, SlotsCount
      <4>2. InSlot(t)' = InSlot(t)
        BY <2>1, <4>1 DEF InSlot
      <4> QED
        BY <2>2, <3>1, <3>2, <3>3, <4>2
    <3>4. CASE t = u
      <4>1. /\ InSlot(t)' \in {InSlot(t), InSlot(t) + 1}
            /\ thread[w].clean => InSlot(t)' = InSlot(t) + 1
        <5>1. CASE current[t] = NoSlot \/ Clearing
          <6>1. InSlot(t)' = 0 /\ InSlot(t) = 0
            BY <2>1, <5>1 DEF InSlot
          <6>2. ~thread[w].clean
            BY <2>1, <3>4, <5>1 DEF Placed, Clearing, NoSlot
          <6> QED
            BY <6>1, <6>2
        <5>2. CASE ~(current[t] = NoSlot \/ Clearing)
          <6>1. InSlot(t) = slots[current[t]].count /\ InSlot(t)' = slots'[current[t]].count
            BY <2>1, <5>2 DEF InSlot
          <6>2. current[t] \in 1 .. Len(slots)
            BY <5>2 DEF Placed
          <6>3. thread[w].clean => current[t] = thread[w].slot
            BY <2>1, <3>4 DEF Placed
          <6> QED
            BY <1>4, <6>1, <6>2, <6>3, SlotsCount
        <5> QED
          BY <5>1, <5>2
      <4> DEFINE shown == Tallied(t)
                 shownNow == Tallied(t)'
                 sum == Sum(Archived(t))
                 slot == InSlot(t)
                 slotNow == InSlot(t)'
                 more == entered'[t]
                 over == overlap'[t]
      <4>2. /\ shown = sum + slot /\ shownNow = sum + slotNow
            /\ sum \in Nat /\ slot \in Nat /\ slotNow \in {slot, slot + 1}
            /\ shown \in entered[t] - overlap[t] .. entered[t]
            /\ more = entered[t] + 1 /\ entered[t] \in Nat /\ overlap[t] \in Nat
            /\ over = IF thread[w].clean THEN overlap[t] ELSE overlap[t] + 1
            /\ thread[w].clean => slotNow = slot + 1
        BY <2>2, <3>1, <3>2, <3>4, <4>1
      <4> HIDE DEF shown, shownNow, sum, slot, slotNow, more, over
      <4>3. shownNow \in more - over .. more
        BY <4>2
      <4> QED
        BY <4>3 DEF shownNow, more, over
    <3> QED
      BY <3>3, <3>4
  <2> QED
    BY <2>3 DEF ShownRight
<1>5. ASSUME NEW w \in Threads, Store(w) PROVE ShownRight'
  BY <1>0, <1>5, StoreMoves
<1>6. ASSUME NEW w \in Threads, EnterRoll(w) PROVE ShownRight'
  BY <1>0, <1>6, EnterRollMoves
<1>7. ASSUME NEW w \in Threads, Copy(w) PROVE ShownRight'
  <2> DEFINE rows == {s \in Live : s.count > 0}
  <2>1. /\ Ever' = Ever \cup rows /\ thread'[w].pc = "clear"
        /\ UNCHANGED <<entered, overlap, current, slots>>
    BY <1>7, CopyMoves
  <2>2. ~Clearing /\ Clearing'
    BY <1>7, <2>1, CopyMoves DEF Locked, Clearing
  <2>3. ASSUME NEW t \in Topics PROVE Tallied(t)' = Tallied(t)
    <3>1. Tallied(t) = Sum(Archived(t)) + InSlot(t) /\ Sum(Archived(t)) \in Nat
      BY ShownIs
    <3>2. Tallied(t)' = Sum(Archived(t)') + InSlot(t)' /\ InSlot(t)' = 0
      BY <2>2 DEF Tallied, Archived, InSlot, Clearing, Sum
    <3>3. Archived(t)' = Archived(t) \cup {row \in rows : row.topic = t}
      BY <2>1 DEF Archived
    <3>4. \A row \in rows : row \in Rows /\ row.minute = minute
                            /\ row = slots[current[row.topic]] /\ current[row.topic] # NoSlot
      BY LiveRows
    <3>5. CASE current[t] # NoSlot /\ slots[current[t]].count > 0
      <4> DEFINE row == slots[current[t]]
      <4>1. row \in rows
        BY <3>5 DEF Live
      <4>2. row.topic = t /\ row \in Rows /\ row.minute = minute
        BY <3>4, <3>5, <4>1 DEF Placed
      <4>3. {r \in rows : r.topic = t} = {row}
        BY <3>4, <4>1, <4>2
      <4>4. row \notin Archived(t)
        BY <2>2, <4>2 DEF Archived, RowsRight, Dated, Clearing, Rows
      <4>5. Archived(t) \in SUBSET Rows /\ IsFiniteSet(Archived(t))
        BY ShownIs
      <4>6. InSlot(t) = row.count
        BY <2>2, <3>5 DEF InSlot
      <4>7. Archived(t)' = Archived(t) \cup {row}
        BY <3>3, <4>3
      <4>8. row.count \in Nat
        BY <4>2 DEF Rows
      <4> HIDE DEF row, rows
      <4>9. Sum(Archived(t)') = Sum(Archived(t)) + row.count
        BY <4>2, <4>4, <4>5, <4>7, SumRow
      <4> QED
        BY <3>1, <3>2, <4>6, <4>8, <4>9
    <3>6. CASE ~(current[t] # NoSlot /\ slots[current[t]].count > 0)
      <4>1. {r \in rows : r.topic = t} = {}
        BY <3>4, <3>6
      <4>2. Archived(t)' = Archived(t)
        BY <3>3, <4>1
      <4>3. InSlot(t) = 0
        BY <2>2, <3>6, ShownIs DEF InSlot
      <4> QED
        BY <3>1, <3>2, <4>2, <4>3
    <3> QED
      BY <3>5, <3>6
  <2> QED
    BY <2>1, <2>3 DEF ShownRight
<1>8. ASSUME NEW w \in Threads, Clear(w) PROVE ShownRight'
  <2>1. /\ UNCHANGED <<deques, gone, entered, overlap>> /\ Clearing
        /\ \A t \in Topics : current'[t] = NoSlot
    BY <1>8, ClearMoves DEF Clearing
  <2>2. \A t \in Topics : InSlot(t) = 0 /\ InSlot(t)' = 0
    BY <2>1 DEF InSlot
  <2> QED
    BY <2>1, <2>2, ShownSteady
<1>9. ASSUME StartRoll \/ StopServer PROVE ShownRight'
  BY <1>0, <1>9, LoopMoves DEF memory
<1>10. ASSUME Consume \/ SaveOthers \/ MinutePasses \/ CloseServer PROVE ShownRight'
  <2>1. UNCHANGED <<deques, gone, entered, overlap, current, slots, thread>>
    BY <1>10 DEF Consume, SaveOthers, MinutePasses, CloseServer, memory, tally
  <2> QED
    BY <1>0, <2>1
<1>11. ASSUME Restart PROVE ShownRight'
  <2>1. /\ Ever' = {}
        /\ \A t \in Topics : current'[t] = NoSlot /\ entered'[t] = 0 /\ overlap'[t] = 0
    BY <1>11 DEF Restart, FreshMemory, Ever
  <2>2. ASSUME NEW t \in Topics PROVE Tallied(t)' = 0
    <3>1. Tallied(t)' = Sum(Archived(t)') + InSlot(t)' /\ InSlot(t)' = 0
      BY <2>1 DEF Tallied, Archived, InSlot, Clearing, Sum
    <3>2. Archived(t)' = {}
      BY <2>1 DEF Archived
    <3> QED
      BY <3>1, <3>2, SumNone
  <2> QED
    BY <2>1, <2>2 DEF ShownRight
<1>12. ASSUME StopWriter PROVE ShownRight'
  BY <1>0, <1>12, StopMoves DEF memory
<1> QED
  BY <1>1, <1>2, <1>3, <1>4, <1>5, <1>6, <1>7, <1>8, <1>9, <1>10, <1>11, <1>12
     DEF TrafficNext

\* A row more, and one less when the deque is full.
Movable(K, G, row, out) ==
    /\ K \in SUBSET Rows /\ IsFiniteSet(K) /\ G \in SUBSET Rows /\ IsFiniteSet(G)
    /\ row \in Rows /\ row \notin K /\ out \in SUBSET K
    /\ \A a, b \in out : a = b
    /\ \A a \in K : a \notin G

LEMMA RowMoves ==
    ASSUME NEW K, NEW G, NEW row, NEW out, Movable(K, G, row, out)
    PROVE  /\ Sum((K \ out) \cup {row}) + Sum(G \cup out) = Sum(K) + Sum(G) + row.count
           /\ Cardinality((K \ out) \cup {row}) >= Cardinality(K)
           /\ out = {} => Cardinality((K \ out) \cup {row}) = Cardinality(K) + 1
<1>0. /\ K \in SUBSET Rows /\ IsFiniteSet(K) /\ G \in SUBSET Rows /\ IsFiniteSet(G)
      /\ row \in Rows /\ row \notin K /\ out \in SUBSET K
      /\ \A a, b \in out : a = b
      /\ \A a \in K : a \notin G
  BY DEF Movable
<1> USE <1>0
<1>1. Sum(K) \in Nat /\ Sum(G) \in Nat /\ row.count \in Nat /\ Cardinality(K) \in Nat
  BY SumTyped, FS_CardinalityType DEF Rows
<1>2. CASE out = {}
  <2>1. (K \ out) \cup {row} = K \cup {row} /\ G \cup out = G
    BY <1>2
  <2>2. Sum(K \cup {row}) = Sum(K) + row.count
    BY SumRow
  <2>3. Cardinality(K \cup {row}) = Cardinality(K) + 1
    BY FS_AddElement
  <2>4. /\ Sum((K \ out) \cup {row}) = Sum(K) + row.count /\ Sum(G \cup out) = Sum(G)
        /\ Cardinality((K \ out) \cup {row}) = Cardinality(K) + 1
    BY <2>1, <2>2, <2>3
  <2> QED
    BY <1>1, <2>4
<1>3. CASE out # {}
  <2>1. PICK old \in out : TRUE
    BY <1>3
  <2> DEFINE L == K \ {old}
  <2>2. /\ out = {old} /\ old \in K /\ old \in Rows /\ old \notin G
        /\ L \in SUBSET Rows /\ IsFiniteSet(L) /\ old \notin L /\ row \notin L
        /\ L \cup {old} = K
        /\ Cardinality(L) = Cardinality(K) - 1
    BY <2>1, FS_RemoveElement
  <2> HIDE DEF L
  <2>3. Sum(L) \in Nat /\ old.count \in Nat
    BY <2>2, SumTyped DEF Rows
  <2>4. Sum(K) = Sum(L) + old.count
    <3>1. Sum(L \cup {old}) = Sum(L) + old.count
      BY <2>2, SumRow
    <3> QED
      BY <2>2, <3>1
  <2>5. Sum(L \cup {row}) = Sum(L) + row.count
    BY <2>2, SumRow
  <2>6. Sum(G \cup {old}) = Sum(G) + old.count
    BY <2>2, SumRow
  <2>7. Cardinality(L \cup {row}) = Cardinality(L) + 1
    BY <2>2, FS_AddElement
  <2>8. (K \ out) \cup {row} = L \cup {row} /\ G \cup out = G \cup {old}
    BY <2>2 DEF L
  <2>9. /\ Sum((K \ out) \cup {row}) = Sum(L \cup {row})
        /\ Sum(G \cup out) = Sum(G \cup {old})
        /\ Cardinality((K \ out) \cup {row}) = Cardinality(L \cup {row})
    BY <2>8
  <2>10. Cardinality((K \ out) \cup {row}) = Cardinality(K)
    BY <1>1, <2>2, <2>7, <2>9
  <2> QED
    BY <1>1, <1>3, <2>3, <2>4, <2>5, <2>6, <2>9, <2>10
<1> QED
  BY <1>2, <1>3

LEMMA RowSets ==
    ASSUME TrafficTyped, NEW t
    PROVE  /\ Remembered(t) \in SUBSET Rows /\ IsFiniteSet(Remembered(t))
           /\ LetGo(t) \in SUBSET Rows /\ IsFiniteSet(LetGo(t))
           /\ Archived(t) = Remembered(t) \cup LetGo(t)
           /\ Sum(Remembered(t)) \in Nat /\ Sum(LetGo(t)) \in Nat
<1>1. /\ Remembered(t) \in SUBSET Rows /\ IsFiniteSet(Remembered(t))
      /\ LetGo(t) \in SUBSET Rows /\ IsFiniteSet(LetGo(t))
  BY FS_Subset DEF TrafficTyped, Remembered, LetGo
<1> QED
  BY <1>1, SumTyped DEF Remembered, LetGo, Archived, Ever

\* What a roll makes of the archived rows of a topic.
LEMMA CopyArchives ==
    ASSUME TrafficTyped, Placed, Locked, RowsRight, Windowed,
           NEW w \in Threads, Copy(w), NEW t \in Topics
    PROVE  LET row == slots[current[t]]
               some == current[t] # NoSlot /\ slots[current[t]].count > 0
               rows == {s \in Live : s.count > 0}
               out == {old \in Outdated(rows) : old.topic = t}
           IN /\ some => /\ row \in Rows /\ {r \in rows : r.topic = t} = {row}
                         /\ row \notin Archived(t)
                         /\ \A r \in Archived(t) : r.minute < row.minute
              /\ ~some => {r \in rows : r.topic = t} = {} /\ out = {}
              /\ Remembered(t)' = (Remembered(t) \ out) \cup {r \in rows : r.topic = t}
              /\ LetGo(t)' = LetGo(t) \cup out
              /\ out \subseteq Remembered(t) /\ \A a, b \in out : a = b
              /\ out # {} => Cardinality(Remembered(t)) >= Retention
              /\ \A old \in out, r \in Remembered(t) \ out : old.minute < r.minute
<1> DEFINE row == slots[current[t]]
           some == current[t] # NoSlot /\ slots[current[t]].count > 0
           rows == {s \in Live : s.count > 0}
           out == {old \in Outdated(rows) : old.topic = t}
<1>1. /\ deques' = (deques \ Outdated(rows)) \cup rows
      /\ gone' = gone \cup Outdated(rows)
      /\ thread[w].pc = "copy"
  BY CopyMoves
<1>2. \A r \in rows : /\ r \in Rows /\ r.minute = minute
                       /\ r = slots[current[r.topic]] /\ current[r.topic] # NoSlot
  BY LiveRows
<1>3. \A v \in Threads : thread[v].pc # "clear"
  BY <1>1 DEF Locked
<1>4. \A r \in Archived(t) : r.minute < minute
  BY <1>3 DEF Archived, RowsRight, Dated
<1>5. ASSUME some
      PROVE  /\ row \in Rows /\ {r \in rows : r.topic = t} = {row}
             /\ row \notin Archived(t)
             /\ \A r \in Archived(t) : r.minute < row.minute
  <2>1. row \in rows
    BY <1>5 DEF Live
  <2>2. row.topic = t /\ row \in Rows /\ row.minute = minute
    BY <1>2, <1>5, <2>1 DEF Placed
  <2>3. {r \in rows : r.topic = t} = {row}
    BY <1>2, <2>1, <2>2
  <2>4. minute \in Nat
    BY DEF TrafficTyped
  <2> QED
    BY <1>4, <2>2, <2>3, <2>4
<1>6. out = {old \in Remembered(t) : /\ \E r \in rows : r.topic = t
                               /\ Cardinality(Remembered(t)) >= Retention
                               /\ \A r \in Remembered(t) : old.minute <= r.minute}
  BY DEF Outdated, Remembered
<1>7. ASSUME ~some PROVE {r \in rows : r.topic = t} = {} /\ out = {}
  <2>1. {r \in rows : r.topic = t} = {}
    BY <1>2, <1>7
  <2> QED
    BY <1>6, <2>1
<1>8. /\ Remembered(t)' = (Remembered(t) \ out) \cup {r \in rows : r.topic = t}
      /\ LetGo(t)' = LetGo(t) \cup out
  <2> HIDE DEF rows
  <2> QED
    BY <1>1 DEF Remembered, LetGo
<1>9. \A r, u \in Remembered(t) :
         /\ r.minute \in Nat /\ u.minute \in Nat
         /\ r.minute = u.minute => r = u
  BY RowsTyped DEF Remembered, RowsRight, Unique, Ever
<1> HIDE DEF rows, some, row, out
<1>10. /\ out \subseteq Remembered(t) /\ \A a, b \in out : a = b
       /\ out # {} => Cardinality(Remembered(t)) >= Retention
       /\ \A old \in out, r \in Remembered(t) \ out : old.minute < r.minute
  <2>1. out \subseteq Remembered(t) /\ (out # {} => Cardinality(Remembered(t)) >= Retention)
    BY <1>6
  <2>2. \A old \in out, r \in Remembered(t) : old.minute <= r.minute
    BY <1>6
  <2>3. \A a, b \in out : a = b
    BY <1>9, <2>1, <2>2
  <2>4. ASSUME NEW old \in out, NEW r \in Remembered(t) \ out PROVE old.minute < r.minute
    BY <1>9, <2>1, <2>2
  <2> QED
    BY <2>1, <2>3, <2>4
<1> QED
  BY <1>5, <1>7, <1>8, <1>10 DEF rows, some, row, out

LEMMA WindowedSteady ==
    ASSUME Windowed, UNCHANGED <<deques, gone>>
    PROVE  Windowed'
<1>1. \A t : Remembered(t)' = Remembered(t) /\ LetGo(t)' = LetGo(t) /\ Archived(t)' = Archived(t)
  BY DEF Remembered, LetGo, Archived, Ever
<1>2. \A t : /\ Sum(Remembered(t))' = Sum(Remembered(t)) /\ Sum(LetGo(t))' = Sum(LetGo(t))
             /\ Sum(Archived(t))' = Sum(Archived(t))
  BY <1>1 DEF Sum
<1> QED
  BY <1>1, <1>2 DEF Windowed

LEMMA WindowedAfter ==
    ASSUME TrafficTyped, Placed, Locked, RowsRight, Windowed, TrafficNext
    PROVE  Windowed'
<1>1. ASSUME NEW w \in Threads, Copy(w) PROVE Windowed'
  <2> SUFFICES ASSUME NEW t \in Topics
               PROVE  /\ LetGo(t)' # {} => Cardinality(Remembered(t)') >= Retention
                      /\ \A old \in LetGo(t)', r \in Remembered(t)' : old.minute < r.minute
                      /\ Sum(Archived(t)') = Sum(Remembered(t)') + Sum(LetGo(t)')
    <3>1. \A t \in Topics : Sum(Archived(t))' = Sum(Archived(t)')
                             /\ Sum(Remembered(t))' = Sum(Remembered(t)') /\ Sum(LetGo(t))' = Sum(LetGo(t)')
      BY DEF Sum
    <3> QED
      BY <3>1 DEF Windowed
  <2> DEFINE row == slots[current[t]]
             some == current[t] # NoSlot /\ slots[current[t]].count > 0
             rows == {s \in Live : s.count > 0}
             new == {r \in rows : r.topic = t}
             out == {old \in Outdated(rows) : old.topic = t}
  <2>1. /\ some => /\ row \in Rows /\ new = {row} /\ row \notin Archived(t)
                   /\ \A r \in Archived(t) : r.minute < row.minute
        /\ ~some => new = {} /\ out = {}
        /\ Remembered(t)' = (Remembered(t) \ out) \cup new /\ LetGo(t)' = LetGo(t) \cup out
        /\ out \subseteq Remembered(t) /\ \A a, b \in out : a = b
        /\ out # {} => Cardinality(Remembered(t)) >= Retention
        /\ \A old \in out, r \in Remembered(t) \ out : old.minute < r.minute
    BY <1>1, CopyArchives
  <2> HIDE DEF row, some, rows, new, out
  <2>2. /\ LetGo(t) # {} => Cardinality(Remembered(t)) >= Retention
        /\ \A old \in LetGo(t), r \in Remembered(t) : old.minute < r.minute
        /\ Sum(Archived(t)) = Sum(Remembered(t)) + Sum(LetGo(t))
    BY DEF Windowed
  <2>3. /\ Remembered(t) \in SUBSET Rows /\ IsFiniteSet(Remembered(t))
        /\ LetGo(t) \in SUBSET Rows /\ IsFiniteSet(LetGo(t))
        /\ Archived(t) = Remembered(t) \cup LetGo(t)
        /\ Sum(Remembered(t)) \in Nat /\ Sum(LetGo(t)) \in Nat
    BY RowSets
  <2>4. Archived(t)' = Archived(t) \cup new
    <3>1. Archived(t)' = Remembered(t)' \cup LetGo(t)'
      BY DEF Archived, Remembered, LetGo, Ever
    <3> QED
      BY <2>1, <2>3, <3>1
  <2>5. Retention \in Nat /\ Cardinality(Remembered(t)) \in Nat
    BY <2>3, TrafficAssumption, FS_CardinalityType
  <2>6. CASE some
    <3>1. /\ row \in Rows /\ new = {row} /\ row \notin Remembered(t) /\ row \notin Archived(t)
          /\ Archived(t) \in SUBSET Rows /\ IsFiniteSet(Archived(t))
      BY <2>1, <2>3, <2>6, ShownIs
    <3>2. \A a \in Remembered(t) : a \notin LetGo(t)
      <4>1. \A a \in Remembered(t) : a.minute \in Nat
        BY <2>3 DEF Rows
      <4> QED
        BY <2>2, <4>1
    <3>3. /\ Sum((Remembered(t) \ out) \cup {row}) + Sum(LetGo(t) \cup out)
               = Sum(Remembered(t)) + Sum(LetGo(t)) + row.count
          /\ Cardinality((Remembered(t) \ out) \cup {row}) >= Cardinality(Remembered(t))
      <4> DEFINE K == Remembered(t)
                 G == LetGo(t)
      <4>1. Movable(K, G, row, out)
        BY <2>1, <2>3, <3>1, <3>2 DEF Movable
      <4> HIDE DEF K, G
      <4>2. /\ Sum((K \ out) \cup {row}) + Sum(G \cup out) = Sum(K) + Sum(G) + row.count
            /\ Cardinality((K \ out) \cup {row}) >= Cardinality(K)
        BY <4>1, RowMoves
      <4> QED
        BY <4>2 DEF K, G
    <3>4. Sum(Archived(t)') = Sum(Archived(t)) + row.count
      <4>1. Sum(Archived(t) \cup {row}) = Sum(Archived(t)) + row.count
        BY <3>1, SumRow
      <4> QED
        BY <2>4, <3>1, <4>1
    <3>5. Sum(Archived(t)') = Sum(Remembered(t)') + Sum(LetGo(t)')
      BY <2>1, <2>2, <3>1, <3>3, <3>4
    <3>6. LetGo(t)' # {} => Cardinality(Remembered(t)') >= Retention
      <4>1. IsFiniteSet((Remembered(t) \ out) \cup {row})
        BY <2>3, FS_Difference, FS_AddElement
      <4>2. Cardinality((Remembered(t) \ out) \cup {row}) \in Nat
        BY <4>1, FS_CardinalityType
      <4> QED
        BY <2>1, <2>2, <2>5, <3>1, <3>3, <4>2
    <3>7. ASSUME NEW old \in LetGo(t)', NEW r \in Remembered(t)' PROVE old.minute < r.minute
      <4>1. CASE r = row
        BY <2>1, <2>3, <2>6, <3>1, <3>7, <4>1
      <4>2. CASE r # row
        <5>1. r \in Remembered(t) \ out
          BY <2>1, <3>1, <3>7, <4>2
        <5> QED
          BY <2>1, <2>2, <3>7, <5>1
      <4> QED
        BY <4>1, <4>2
    <3> QED
      BY <3>5, <3>6, <3>7
  <2>7. CASE ~some
    <3>1. Remembered(t)' = Remembered(t) /\ LetGo(t)' = LetGo(t) /\ Archived(t)' = Archived(t)
      BY <2>1, <2>4, <2>7
    <3> QED
      BY <2>2, <3>1
  <2> QED
    BY <2>6, <2>7
<1>2. ASSUME Restart PROVE Windowed'
  <2>1. deques' = {} /\ gone' = {}
    BY <1>2 DEF Restart, FreshMemory
  <2>2. \A t \in Topics : Remembered(t)' = {} /\ LetGo(t)' = {} /\ Archived(t)' = {}
    BY <2>1 DEF Remembered, LetGo, Archived, Ever
  <2>3. \A t \in Topics : Sum(Remembered(t))' = 0 /\ Sum(LetGo(t))' = 0 /\ Sum(Archived(t))' = 0
    <3>1. \A t \in Topics : Sum(Archived(t))' = Sum(Archived(t)')
                             /\ Sum(Remembered(t))' = Sum(Remembered(t)') /\ Sum(LetGo(t))' = Sum(LetGo(t)')
      BY DEF Sum
    <3> QED
      BY <2>2, <3>1, SumNone
  <2> QED
    BY <2>2, <2>3 DEF Windowed
<1>3. ASSUME UNCHANGED <<deques, gone>> PROVE Windowed'
  BY <1>3, WindowedSteady
<1>4. CASE ~Restart /\ \A w \in Threads : ~Copy(w)
  <2>1. UNCHANGED <<deques, gone>>
    BY <1>4 DEF TrafficNext, Record, EnterSlow, CreateSlot, Add, Store, EnterRoll, Clear, Consume,
       SaveOthers, MinutePasses, StartRoll, StopServer, StopWriter, CloseServer, memory
  <2> QED
    BY <1>3, <2>1
<1> QED
  BY <1>1, <1>2, <1>4

\* Between copy and clear the copy, and what is counted in its slot since.
LEMMA CopiedFinite ==
    ASSUME TrafficTyped, OnTheWay, NEW t
    PROVE  Sum(Copied(t)) \in Nat
<1>1. Ever \in SUBSET Rows /\ IsFiniteSet(Ever)
  BY FS_Union DEF Ever, TrafficTyped
<1>2. Copied(t) \subseteq Ever
  BY DEF Copied, OnTheWay
<1>3. Copied(t) \in SUBSET Rows /\ IsFiniteSet(Copied(t))
  BY <1>1, <1>2, FS_Subset
<1> QED
  BY <1>3, SumTyped

LEMMA TwiceSteady ==
    ASSUME ShownTwice, UNCHANGED <<deques, gone, entered, current, slots>>,
           \A w \in Threads : /\ thread'[w].pc = "clear" <=> thread[w].pc = "clear"
                              /\ thread[w].pc = "clear" => thread'[w].rows = thread[w].rows
    PROVE  ShownTwice'
<1>1. \A t : Archived(t)' = Archived(t) /\ SlotCount(t)' = SlotCount(t)
  BY DEF Archived, Ever, SlotCount
<1>2. \A t : Copied(t)' = Copied(t)
  BY DEF Copied
<1>3. \A t : Sum(Archived(t))' = Sum(Archived(t)) /\ Sum(Copied(t))' = Sum(Copied(t))
  BY <1>1, <1>2 DEF Sum
<1>4. Clearing' <=> Clearing
  BY DEF Clearing
<1> QED
  BY <1>1, <1>3, <1>4 DEF ShownTwice

LEMMA TwiceAfter ==
    ASSUME TrafficTyped, TrafficTyped', Placed, Placed', Locked, RowsRight, RowsRight', Windowed,
           ShownRight, ShownTwice, TrafficNext
    PROVE  ShownTwice'
<1> USE DEF Others
<1>1. ASSUME NEW w \in Threads, NEW t \in Topics, Record(w, t) PROVE ShownTwice'
  BY <1>1, RecordMoves, TwiceSteady
<1>2. ASSUME NEW w \in Threads, EnterSlow(w) PROVE ShownTwice'
  BY <1>2, EnterSlowMoves, TwiceSteady
<1>3. ASSUME NEW w \in Threads, CreateSlot(w) PROVE ShownTwice'
  <2>1. ~Clearing'
    BY <1>3, CreateMoves DEF Locked, Clearing
  <2> QED
    BY <2>1 DEF ShownTwice
<1>4. ASSUME NEW w \in Threads, Add(w) PROVE ShownTwice'
  <2> SUFFICES ASSUME Clearing', NEW t \in Topics
               PROVE  Sum(Archived(t))' + SlotCount(t)' <= entered'[t] + Sum(Copied(t))'
    BY DEF ShownTwice
  <2> DEFINE u == thread[w].topic
  <2>1. /\ UNCHANGED <<deques, gone, current>> /\ u \in Topics
        /\ \A v \in Threads : /\ thread'[v].pc = "clear" <=> thread[v].pc = "clear"
                              /\ thread[v].pc = "clear" => thread'[v].rows = thread[v].rows
    BY <1>4, AddMoves, SlotsCount
  <2>2. Archived(t)' = Archived(t) /\ Copied(t)' = Copied(t) /\ Clearing
    BY <2>1 DEF Archived, Ever, Copied, Clearing
  <2>3. Sum(Archived(t))' = Sum(Archived(t)) /\ Sum(Copied(t))' = Sum(Copied(t))
    BY <2>2 DEF Sum
  <2>4. Sum(Archived(t)) + SlotCount(t) <= entered[t] + Sum(Copied(t))
    BY <2>2 DEF ShownTwice
  <2>5. /\ Sum(Archived(t)) \in Nat /\ SlotCount(t) \in Nat /\ entered[t] \in Nat
        /\ Sum(Copied(t)) \in Nat
    BY ShownIs, CopiedFinite DEF RowsRight
  <2>6. entered'[t] = IF t = u THEN entered[t] + 1 ELSE entered[t]
    <3>1. entered' = [entered EXCEPT ![u] = @ + 1]
      BY <1>4 DEF Add
    <3> HIDE DEF u
    <3> QED
      BY <3>1 DEF TrafficTyped
  <2>7. SlotCount(t)' <= SlotCount(t) + (IF t = u THEN 1 ELSE 0) /\ SlotCount(t)' \in Nat
    <3>1. CASE current[t] = NoSlot
      BY <2>1, <3>1 DEF SlotCount
    <3>2. CASE current[t] # NoSlot
      <4>1. current[t] \in 1 .. Len(slots) /\ slots[current[t]].topic = t
        BY <3>2 DEF Placed
      <4>2. SlotCount(t) = slots[current[t]].count /\ SlotCount(t)' = slots'[current[t]].count
        BY <2>1, <3>2 DEF SlotCount
      <4>3. slots[thread[w].slot].topic = u
        BY <1>4, SlotAt DEF Add
      <4> QED
        BY <1>4, <4>1, <4>2, <4>3, SlotsCount
    <3> QED
      BY <3>1, <3>2
  <2> HIDE DEF u
  <2>8. entered[t] + 1 = entered'[t] \/ (t # u /\ entered'[t] = entered[t])
    BY <2>6
  <2> QED
    BY <2>3, <2>4, <2>5, <2>6, <2>7
<1>5. ASSUME NEW w \in Threads, Store(w) PROVE ShownTwice'
  BY <1>5, StoreMoves, TwiceSteady
<1>6. ASSUME NEW w \in Threads, EnterRoll(w) PROVE ShownTwice'
  BY <1>6, EnterRollMoves, TwiceSteady
<1>7. ASSUME NEW w \in Threads, Copy(w) PROVE ShownTwice'
  <2> SUFFICES ASSUME NEW t \in Topics
               PROVE  Sum(Archived(t))' + SlotCount(t)' <= entered'[t] + Sum(Copied(t))'
    BY DEF ShownTwice
  <2> DEFINE row == slots[current[t]]
             some == current[t] # NoSlot /\ slots[current[t]].count > 0
             rows == {s \in Live : s.count > 0}
             new == {r \in rows : r.topic = t}
             out == {old \in Outdated(rows) : old.topic = t}
  <2>1. /\ some => row \in Rows /\ new = {row} /\ row \notin Archived(t)
        /\ ~some => new = {}
    BY <1>7, CopyArchives
  <2>2. /\ Ever' = Ever \cup rows /\ thread'[w].pc = "clear" /\ thread'[w].rows = rows
        /\ UNCHANGED <<entered, current, slots>>
        /\ \A v \in Threads \ {w} : thread'[v].pc # "clear" /\ thread[v].pc # "clear"
        /\ ~Clearing
    BY <1>7, CopyMoves DEF Locked, Clearing
  <2> HIDE DEF rows
  <2>3. Copied(t)' = new /\ Archived(t)' = Archived(t) \cup new
    BY <2>2 DEF Copied, Archived
  <2> HIDE DEF new
  <2>4. Sum(Copied(t))' = Sum(new) /\ Sum(Archived(t))' = Sum(Archived(t) \cup new)
    BY <2>3 DEF Sum
  <2>5. /\ Archived(t) \in SUBSET Rows /\ IsFiniteSet(Archived(t))
        /\ Sum(Archived(t)) \in Nat /\ SlotCount(t) \in Nat
        /\ entered[t] \in Nat /\ overlap[t] \in Nat
        /\ Tallied(t) = Sum(Archived(t)) + InSlot(t)
    BY ShownIs
  <2>6. InSlot(t) = SlotCount(t) /\ SlotCount(t)' = SlotCount(t)
    BY <2>2 DEF InSlot, SlotCount
  <2>7. Sum(Archived(t)) + SlotCount(t) <= entered[t]
    BY <2>5, <2>6 DEF ShownRight
  <2>8. CASE some
    <3>1. row \in Rows /\ new = {row} /\ row \notin Archived(t) /\ SlotCount(t) = row.count
      BY <2>1, <2>8 DEF SlotCount
    <3> HIDE DEF row
    <3>2. Sum(Archived(t) \cup {row}) = Sum(Archived(t)) + row.count
      BY <2>5, <3>1, SumRow
    <3>3. Sum({row}) = row.count
      <4>1. {} \cup {row} = {row} /\ IsFiniteSet({}) /\ row.count \in Nat
        BY <3>1, FS_EmptySet DEF Rows
      <4>2. Sum({} \cup {row}) = Sum({}) + row.count
        BY <3>1, <4>1, SumRow
      <4> QED
        BY <4>1, <4>2, SumNone
    <3> QED
      BY <2>2, <2>4, <2>5, <2>6, <2>7, <3>1, <3>2, <3>3
  <2>9. CASE ~some
    <3>1. new = {} /\ Archived(t) \cup new = Archived(t)
      BY <2>1, <2>9
    <3> QED
      BY <2>2, <2>4, <2>5, <2>6, <2>7, <3>1, SumNone
  <2> QED
    BY <2>8, <2>9
<1>8. ASSUME NEW w \in Threads, Clear(w) PROVE ShownTwice'
  <2>1. ~Clearing'
    BY <1>8, ClearMoves DEF Locked, Clearing
  <2> QED
    BY <2>1 DEF ShownTwice
<1>9. ASSUME StartRoll \/ StopServer PROVE ShownTwice'
  BY <1>9, LoopMoves, TwiceSteady DEF memory
<1>10. ASSUME StopWriter PROVE ShownTwice'
  BY <1>10, StopMoves, TwiceSteady DEF memory
<1>11. ASSUME Consume \/ SaveOthers \/ MinutePasses \/ CloseServer PROVE ShownTwice'
  <2>1. UNCHANGED <<deques, gone, entered, current, slots, thread>>
    BY <1>11 DEF Consume, SaveOthers, MinutePasses, CloseServer, memory, tally
  <2> QED
    BY <2>1, TwiceSteady
<1>12. ASSUME Restart PROVE ShownTwice'
  <2>1. ~Clearing'
    BY <1>12 DEF Restart, FreshMemory, Clearing, Idle
  <2> QED
    BY <2>1 DEF ShownTwice
<1> QED
  BY <1>1, <1>2, <1>3, <1>4, <1>5, <1>6, <1>7, <1>8, <1>9, <1>10, <1>11, <1>12 DEF TrafficNext

\* The cumulated count: a thread that is in record() is one of the topic's.
LEMMA ThreadsFinite == IsFiniteSet(Threads)
<1>1. IsFiniteSet({"data"})
  BY FS_Singleton
<1>2. IsFiniteSet({"data"} \cup {"loop"})
  BY <1>1, FS_AddElement
<1>3. {"data"} \cup {"loop"} = Threads
  BY DEF Threads
<1> QED
  BY <1>2, <1>3

LEMMA StoringFinite ==
    ASSUME NEW t
    PROVE  /\ IsFiniteSet(Storing(t)) /\ Cardinality(Storing(t)) \in Nat
           /\ \A w : Storing(t) \subseteq {w} =>
                  Cardinality(Storing(t)) = IF w \in Storing(t) THEN 1 ELSE 0
<1>1. IsFiniteSet(Threads)
  BY ThreadsFinite
<1>2. IsFiniteSet(Storing(t)) /\ Cardinality(Storing(t)) \in Nat
  BY <1>1, FS_Subset, FS_CardinalityType DEF Storing
<1>3. ASSUME NEW w, Storing(t) \subseteq {w}
      PROVE  Cardinality(Storing(t)) = IF w \in Storing(t) THEN 1 ELSE 0
  <2>1. Storing(t) = {w} \/ (Storing(t) = {} /\ w \notin Storing(t))
    BY <1>3
  <2>2. Cardinality({w}) = 1 /\ Cardinality({}) = 0
    BY FS_Singleton, FS_EmptySet
  <2> QED
    BY <2>1, <2>2
<1> QED
  BY <1>2, <1>3

\* A step that neither begins nor ends a count.
LEMMA CumulatedSteady ==
    ASSUME Cumulated, UNCHANGED <<cum, entered, recorders>>,
           \A w \in Threads :
              /\ InRecord(w)' => InRecord(w) /\ thread'[w].topic = thread[w].topic
              /\ thread'[w].pc = "store" <=> thread[w].pc = "store"
              /\ thread[w].pc = "store" => /\ thread'[w].topic = thread[w].topic
                                           /\ thread'[w].read = thread[w].read
    PROVE  Cumulated'
<1>1. \A t \in Topics : Storing(t)' = Storing(t)
  BY DEF Storing
<1>2. \A t \in Topics : Sole(t)' <=> Sole(t)
  BY DEF Sole
<1>3. \A t \in Topics : Sole(t)' =>
         /\ \A w \in Storing(t)' : thread'[w].read = cum'[t]
         /\ cum'[t] + Cardinality(Storing(t)') = entered'[t]
  BY <1>1, <1>2 DEF Cumulated, Storing
<1>4. \A w \in Threads : InRecord(w)' => w \in recorders'[thread'[w].topic]
  BY DEF Cumulated
<1> QED
  BY <1>3, <1>4 DEF Cumulated

\* Of a topic that one thread alone records, no other is in record().
LEMMA SoleStores ==
    ASSUME Cumulated, NEW w \in Threads, InRecord(w), Sole(thread[w].topic)
    PROVE  Storing(thread[w].topic) \subseteq {w}
BY DEF Cumulated, Sole, Storing, InRecord

LEMMA CumulatedAfter ==
    ASSUME TrafficTyped, Placed, Cumulated, TrafficNext
    PROVE  Cumulated'
<1> USE DEF Others
<1>1. ASSUME NEW w \in Threads, NEW t \in Topics, Record(w, t) PROVE Cumulated'
  <2>1. /\ recorders' = [recorders EXCEPT ![t] = @ \cup {w}] /\ UNCHANGED <<cum, entered>>
        /\ thread[w].pc = "idle" /\ thread'[w].topic = t /\ thread'[w].pc \in {"enter", "add"}
    BY <1>1, RecordMoves DEF Record
  <2>2. \A u \in Topics : recorders[u] \subseteq recorders'[u] /\ w \in recorders'[t]
    BY <2>1 DEF TrafficTyped
  <2>3. \A u \in Topics : Storing(u)' = Storing(u)
    BY <1>1, <2>1, RecordMoves DEF Storing
  <2>4. \A u \in Topics : Sole(u)' => Sole(u)
    BY <2>2 DEF Sole
  <2>5. ASSUME NEW v \in Threads, InRecord(v)' PROVE v \in recorders'[thread'[v].topic]
    <3>1. CASE v = w
      BY <2>1, <2>2, <3>1
    <3>2. CASE v # w
      <4>1. InRecord(v) /\ thread'[v].topic = thread[v].topic
        BY <1>1, <2>5, <3>2, RecordMoves DEF InRecord, Rolling
      <4>2. thread[v].topic \in Topics /\ v \in recorders[thread[v].topic]
        BY <4>1 DEF Placed, Cumulated
      <4> QED
        BY <2>2, <4>1, <4>2
    <3> QED
      BY <3>1, <3>2
  <2>6. ASSUME NEW u \in Topics, Sole(u)'
        PROVE  /\ \A v \in Storing(u)' : thread'[v].read = cum'[u]
               /\ cum'[u] + Cardinality(Storing(u)') = entered'[u]
    <3>1. \A v \in Storing(u) : v # w /\ thread[v].read = cum[u]
      BY <2>1, <2>4, <2>6 DEF Cumulated, Storing
    <3>2. \A v \in Storing(u) : v \in Threads
      BY DEF Storing
    <3> QED
      BY <1>1, <2>1, <2>3, <2>4, <2>6, <3>1, <3>2, RecordMoves DEF Cumulated
  <2> QED
    BY <2>5, <2>6 DEF Cumulated
<1>2. ASSUME NEW w \in Threads, EnterSlow(w) PROVE Cumulated'
  BY <1>2, EnterSlowMoves, CumulatedSteady DEF InRecord, Rolling
<1>3. ASSUME NEW w \in Threads, CreateSlot(w) PROVE Cumulated'
  BY <1>3, CreateMoves, CumulatedSteady DEF InRecord, Rolling
<1>4. ASSUME NEW w \in Threads, Add(w) PROVE Cumulated'
  <2> DEFINE t == thread[w].topic
  <2>1. /\ thread[w].pc = "add" /\ t \in Topics
        /\ thread'[w].pc = "store" /\ thread'[w].topic = t /\ thread'[w].read = cum[t]
        /\ UNCHANGED <<cum, recorders>>
    BY <1>4, AddMoves, SlotAt
  <2>2. \A u \in Topics : entered'[u] = IF u = t THEN entered[u] + 1 ELSE entered[u]
    <3>1. entered' = [entered EXCEPT ![t] = @ + 1]
      BY <1>4 DEF Add
    <3> HIDE DEF t
    <3> QED
      BY <3>1 DEF TrafficTyped
  <2>3. \A u \in Topics : Sole(u)' <=> Sole(u)
    BY <2>1 DEF Sole
  <2>4. \A v \in Threads : InRecord(v)' => v \in recorders'[thread'[v].topic]
    BY <1>4, <2>1, AddMoves DEF Cumulated, InRecord, Rolling
  <2>5. ASSUME NEW u \in Topics, Sole(u)'
        PROVE  /\ \A v \in Storing(u)' : thread'[v].read = cum'[u]
               /\ cum'[u] + Cardinality(Storing(u)') = entered'[u]
    <3>1. /\ \A v \in Storing(u) : thread[v].read = cum[u]
          /\ cum[u] + Cardinality(Storing(u)) = entered[u]
      BY <2>3, <2>5 DEF Cumulated
    <3>2. CASE u # t
      <4>1. Storing(u)' = Storing(u)
        BY <1>4, <2>1, <3>2, AddMoves DEF Storing
      <4>2. \A v \in Storing(u) : v # w /\ v \in Threads
        BY <2>1 DEF Storing
      <4> QED
        BY <1>4, <2>1, <2>2, <3>1, <3>2, <4>1, <4>2, AddMoves
    <3>3. CASE u = t
      <4>1. Storing(t) \subseteq {w} /\ w \notin Storing(t)
        BY <2>1, <2>3, <2>5, <3>3, SoleStores DEF InRecord, Storing
      <4>2. Storing(t)' = {w}
        BY <1>4, <2>1, <4>1, AddMoves DEF Storing
      <4>3. Cardinality(Storing(t)) = 0 /\ Cardinality(Storing(t)') = 1
        BY <4>1, <4>2, StoringFinite, FS_Singleton
      <4>4. cum[t] \in Nat /\ entered[t] \in Nat
        BY <2>1 DEF TrafficTyped
      <4>5. cum'[t] = cum[t] /\ entered'[t] = entered[t] + 1
        BY <2>1, <2>2
      <4>6. cum'[t] + Cardinality(Storing(t)') = entered'[t]
        BY <3>1, <3>3, <4>3, <4>4, <4>5
      <4> QED
        BY <2>1, <3>3, <4>2, <4>6
    <3> QED
      BY <3>2, <3>3
  <2> QED
    BY <2>4, <2>5 DEF Cumulated
<1>5. ASSUME NEW w \in Threads, Store(w) PROVE Cumulated'
  <2> DEFINE t == thread[w].topic
  <2>1. /\ thread[w].pc = "store" /\ t \in Topics
        /\ thread'[w].pc \in {"idle", "roll"}
        /\ UNCHANGED <<entered, recorders>>
    BY <1>5, StoreMoves, SlotAt
  <2>2. \A u \in Topics : cum'[u] = IF u = t THEN thread[w].read + 1 ELSE cum[u]
    <3>1. cum' = [cum EXCEPT ![t] = thread[w].read + 1]
      BY <1>5 DEF Store, Stored
    <3> HIDE DEF t
    <3> QED
      BY <3>1 DEF TrafficTyped
  <2>3. \A u \in Topics : Sole(u)' <=> Sole(u)
    BY <2>1 DEF Sole
  <2>4. \A v \in Threads : InRecord(v)' => v \in recorders'[thread'[v].topic]
    BY <1>5, <2>1, StoreMoves DEF Cumulated, InRecord, Rolling
  <2>5. ASSUME NEW u \in Topics, Sole(u)'
        PROVE  /\ \A v \in Storing(u)' : thread'[v].read = cum'[u]
               /\ cum'[u] + Cardinality(Storing(u)') = entered'[u]
    <3>1. /\ \A v \in Storing(u) : thread[v].read = cum[u]
          /\ cum[u] + Cardinality(Storing(u)) = entered[u]
      BY <2>3, <2>5 DEF Cumulated
    <3>2. CASE u # t
      <4>1. Storing(u)' = Storing(u) /\ \A v \in Storing(u) : v # w /\ v \in Threads
        BY <1>5, <2>1, <3>2, StoreMoves DEF Storing
      <4> QED
        BY <1>5, <2>1, <2>2, <3>1, <3>2, <4>1, StoreMoves
    <3>3. CASE u = t
      <4>1. Storing(t) \subseteq {w} /\ w \in Storing(t)
        BY <2>1, <2>3, <2>5, <3>3, SoleStores DEF InRecord, Storing
      <4>2. Storing(u)' = {}
        BY <1>5, <2>1, <3>3, <4>1, StoreMoves DEF Storing
      <4>3. Cardinality(Storing(t)) = 1 /\ Cardinality(Storing(u)') = 0
        BY <4>1, <4>2, StoringFinite, FS_EmptySet
      <4>4. cum[t] \in Nat /\ entered[t] \in Nat
        BY <2>1 DEF TrafficTyped
      <4>5. cum'[u] = cum[t] + 1 /\ entered'[u] = entered[t]
        BY <2>1, <2>2, <3>1, <3>3, <4>1
      <4>6. cum'[u] + Cardinality(Storing(u)') = entered'[u]
        BY <3>1, <3>3, <4>3, <4>4, <4>5
      <4> QED
        BY <3>3, <4>2, <4>6
    <3> QED
      BY <3>2, <3>3
  <2> QED
    BY <2>4, <2>5 DEF Cumulated
<1>6. ASSUME NEW w \in Threads, EnterRoll(w) PROVE Cumulated'
  <2>1. thread[w].pc = "roll" /\ thread[w].after # "create"
    BY <1>6, EnterRollMoves DEF Placed
  <2> QED
    BY <1>6, <2>1, EnterRollMoves, CumulatedSteady DEF InRecord, Rolling
<1>7. ASSUME NEW w \in Threads, Copy(w) PROVE Cumulated'
  BY <1>7, CopyMoves, CumulatedSteady DEF InRecord, Rolling
<1>8. ASSUME NEW w \in Threads, Clear(w) PROVE Cumulated'
  BY <1>8, ClearMoves, CumulatedSteady DEF InRecord, Rolling
<1>9. ASSUME StartRoll \/ StopServer PROVE Cumulated'
  BY <1>9, LoopMoves, CumulatedSteady DEF InRecord, Rolling, memory
<1>10. ASSUME Consume \/ SaveOthers \/ MinutePasses \/ CloseServer PROVE Cumulated'
  <2>1. UNCHANGED <<cum, entered, recorders, thread>>
    BY <1>10 DEF Consume, SaveOthers, MinutePasses, CloseServer, memory, tally
  <2> QED
    BY <2>1, CumulatedSteady DEF InRecord, Rolling
<1>11. ASSUME Restart PROVE Cumulated'
  <2>1. /\ \A t \in Topics : cum'[t] = 0 /\ entered'[t] = 0
        /\ \A w \in Threads : thread'[w].pc = "idle"
    BY <1>11 DEF Restart, FreshMemory, Idle
  <2>2. \A t \in Topics : Storing(t)' = {}
    BY <2>1 DEF Storing
  <2>3. Cardinality({}) = 0
    BY FS_EmptySet
  <2>4. \A t \in Topics : cum'[t] + Cardinality(Storing(t)') = entered'[t]
    BY <2>1, <2>2, <2>3
  <2>5. \A w \in Threads : ~InRecord(w)'
    BY <2>1 DEF InRecord, Rolling
  <2> QED
    BY <2>2, <2>4, <2>5 DEF Cumulated
<1>12. ASSUME StopWriter PROVE Cumulated'
  BY <1>12, StopMoves, CumulatedSteady DEF InRecord, Rolling, memory
<1> QED
  BY <1>1, <1>2, <1>3, <1>4, <1>5, <1>6, <1>7, <1>8, <1>9, <1>10, <1>11, <1>12
     DEF TrafficNext

-----------------------------------------------------------------------------
(* The traffic statistics *)

LEMMA TrafficStarts == TrafficInit => TrafficInv
<1> SUFFICES ASSUME TrafficInit PROVE TrafficInv
  OBVIOUS
<1> USE DEF TrafficInit, NoSlot
<1>0. /\ \A w \in Threads : thread[w] = Idle /\ thread[w].pc = "idle" /\ thread[w].after = "idle"
      /\ <<>> \in Seq(Rows) /\ <<>> \in Seq(SUBSET Rows) /\ IsFiniteSet({})
      /\ \A t \in Topics : current[t] = 0 /\ entered[t] = 0 /\ overlap[t] = 0 /\ cum[t] = 0
  BY FS_EmptySet DEF Idle
<1>1. TrafficTyped
  BY <1>0, IdleLocal DEF TrafficTyped
<1>2. Locked /\ Forward /\ Placed
  BY <1>0 DEF Locked, Forward, Placed, InRecord, Rolling, NoThread, Threads
<1>3. RowsRight /\ HandedOver
  BY <1>0, EmptyUnion DEF RowsRight, Dated, Unique, OnTheWay, HandedOver, Threads, Ever, InTable
<1>4. ShownRight
  <2>1. \A t \in Topics : Archived(t) = {} /\ InSlot(t) = 0
    BY <1>0 DEF Archived, Ever, InSlot
  <2>2. ASSUME NEW t \in Topics PROVE Tallied(t) = 0
    <3>1. Archived(t) = {} /\ InSlot(t) = 0
      BY <2>1
    <3>2. Sum(Archived(t)) = 0
      BY <3>1, SumNone
    <3>3. Tallied(t) = Sum(Archived(t)) + InSlot(t)
      BY <1>1, <1>2, ShownIs
    <3> QED
      BY <3>1, <3>2, <3>3
  <2> QED
    BY <1>0, <2>2 DEF ShownRight
<1>5. Cumulated
  <2>1. \A t \in Topics : Storing(t) = {}
    BY <1>0 DEF Storing
  <2>2. Cardinality({}) = 0
    BY FS_EmptySet
  <2>3. ASSUME NEW t \in Topics PROVE cum[t] + Cardinality(Storing(t)) = entered[t]
    <3>1. cum[t] = 0 /\ entered[t] = 0 /\ Storing(t) = {}
      BY <1>0, <2>1
    <3> QED
      BY <2>2, <3>1
  <2>4. \A w \in Threads : ~InRecord(w)
    BY <1>0 DEF InRecord, Rolling
  <2> QED
    BY <2>1, <2>3, <2>4 DEF Cumulated
<1>6. Windowed
  <2>1. \A t \in Topics : Remembered(t) = {} /\ LetGo(t) = {} /\ Archived(t) = {}
    BY DEF Remembered, LetGo, Archived, Ever
  <2>2. \A t \in Topics : Sum(Remembered(t)) = 0 /\ Sum(LetGo(t)) = 0 /\ Sum(Archived(t)) = 0
    BY <2>1, SumNone
  <2> QED
    BY <2>1, <2>2 DEF Windowed
<1>7. ShownTwice
  BY <1>0 DEF ShownTwice, Clearing
<1> QED
  BY <1>1, <1>2, <1>3, <1>4, <1>5, <1>6, <1>7 DEF TrafficInv, RowsRight

LEMMA TrafficStep == TrafficInv /\ [TrafficNext]_trafficVars => TrafficInv'
<1> SUFFICES ASSUME TrafficInv, [TrafficNext]_trafficVars PROVE TrafficInv'
  OBVIOUS
<1>1. CASE TrafficNext
  <2>1. TrafficTyped' /\ Locked' /\ Forward' /\ Placed'
    BY <1>1, TrafficTypes, LockedAfter, ForwardAfter, PlacedAfter DEF TrafficInv
  <2>2. RowsRight /\ RowsRight'
    BY <1>1, RowsAfter DEF TrafficInv, RowsRight
  <2>3. HandedOver'
    BY <1>1, <2>2, HandedAfter DEF TrafficInv
  <2>4. ShownRight'
    BY <1>1, <2>1, <2>2, ShownAfter DEF TrafficInv
  <2>5. Cumulated'
    BY <1>1, CumulatedAfter DEF TrafficInv
  <2>6. Windowed'
    BY <1>1, <2>2, WindowedAfter DEF TrafficInv
  <2>7. ShownTwice'
    BY <1>1, <2>1, <2>2, TwiceAfter DEF TrafficInv
  <2> QED
    BY <2>1, <2>2, <2>3, <2>4, <2>5, <2>6, <2>7 DEF TrafficInv, RowsRight
<1>2. CASE UNCHANGED trafficVars
  <2> USE <1>2 DEF trafficVars, memory, writer, world, tally, TrafficInv
  <2>1. TrafficTyped'
    BY DEF TrafficTyped
  <2>2. Locked' /\ Forward' /\ Placed'
    BY DEF Locked, Forward, Rolling, Placed, InRecord
  <2>3. Dated' /\ Unique' /\ OnTheWay' /\ HandedOver'
    BY DEF Dated, Unique, OnTheWay, HandedOver, Ever, InTable
  <2>4. ShownRight'
    <3>1. ShownRight /\ Placed /\ TrafficTyped /\ UNCHANGED <<deques, gone, entered, overlap>>
      OBVIOUS
    <3>2. \A t \in Topics : InSlot(t)' = InSlot(t)
      BY DEF InSlot, Clearing
    <3> QED
      BY <2>1, <2>2, <3>1, <3>2, ShownSteady
  <2>5. Cumulated'
    BY CumulatedSteady DEF InRecord, Rolling
  <2>6. Windowed' /\ ShownTwice'
    BY WindowedSteady, TwiceSteady
  <2> QED
    BY <2>1, <2>2, <2>3, <2>4, <2>5, <2>6
<1> QED
  BY <1>1, <1>2

LEMMA TrafficHolds == TrafficSpec => []TrafficInv
<1> QED
  BY TrafficStarts, TrafficStep, PTL DEF TrafficSpec

\* One thread at most: any two of it are the same.
LEMMA AtMostOne ==
    ASSUME NEW S, IsFiniteSet(S), Cardinality(S) <= 1
    PROVE  \A a, b \in S : a = b
<1> SUFFICES ASSUME NEW a \in S, NEW b \in S, a # b PROVE FALSE
  OBVIOUS
<1>1. IsFiniteSet(S \ {a}) /\ Cardinality(S \ {a}) = Cardinality(S) - 1 /\ b \in S \ {a}
  BY FS_RemoveElement
<1>2. Cardinality(S \ {a}) \in Nat \ {0}
  BY <1>1, FS_EmptySet, FS_CardinalityType
<1>3. Cardinality(S) \in Nat
  BY FS_CardinalityType
<1> QED
  BY <1>1, <1>2, <1>3

\* The counters miss none but records that overlap a roll and minutes that made
\* room for later ones, and have nothing twice but a minute that a roll has copied
\* and is about to clear; the cumulated count is exact for a topic that one thread
\* alone records.
THEOREM RecordsCountedOnce == TrafficSpec => []CountedOnce
<1>1. TrafficInv => CountedOnce
  <2> SUFFICES ASSUME TrafficInv, NEW t \in Topics
               PROVE  /\ Shown(t) + Sum(LetGo(t))
                           \in entered[t] - overlap[t] .. entered[t] + Sum(Copied(t))
                      /\ LetGo(t) # {} => Cardinality(Remembered(t)) >= Retention
                      /\ \A old \in LetGo(t), row \in Remembered(t) : old.minute < row.minute
                      /\ Cardinality(recorders[t]) <= 1 =>
                            cum[t] + Cardinality(Storing(t)) = entered[t]
    BY DEF CountedOnce, Storing
  <2>1. Shown(t) + Sum(LetGo(t)) \in entered[t] - overlap[t] .. entered[t] + Sum(Copied(t))
    <3>1. /\ Sum(Archived(t)) = Sum(Remembered(t)) + Sum(LetGo(t))
          /\ Tallied(t) \in entered[t] - overlap[t] .. entered[t]
          /\ Clearing => Sum(Archived(t)) + SlotCount(t) <= entered[t] + Sum(Copied(t))
      BY DEF TrafficInv, Windowed, ShownRight, ShownTwice
    <3>2. /\ Tallied(t) = Sum(Archived(t)) + InSlot(t)
          /\ Sum(Archived(t)) \in Nat /\ InSlot(t) \in Nat /\ SlotCount(t) \in Nat
          /\ entered[t] \in Nat /\ overlap[t] \in Nat
      BY ShownIs DEF TrafficInv
    <3>3. /\ Sum(Remembered(t)) \in Nat /\ Sum(LetGo(t)) \in Nat /\ Sum(Copied(t)) \in Nat
      BY RowSets, CopiedFinite DEF TrafficInv
    <3>4. Shown(t) = Sum(Remembered(t)) + SlotCount(t)
      BY DEF Shown, SlotCount
    <3>5. IF Clearing THEN InSlot(t) = 0 ELSE InSlot(t) = SlotCount(t)
      BY DEF InSlot, SlotCount
    <3> QED
      BY <3>1, <3>2, <3>3, <3>4, <3>5
  <2>3. /\ LetGo(t) # {} => Cardinality(Remembered(t)) >= Retention
        /\ \A old \in LetGo(t), row \in Remembered(t) : old.minute < row.minute
    BY DEF TrafficInv, Windowed
  <2>2. ASSUME Cardinality(recorders[t]) <= 1
        PROVE  cum[t] + Cardinality(Storing(t)) = entered[t]
    <3>1. IsFiniteSet(recorders[t])
      <4>1. recorders[t] \in SUBSET Threads
        BY DEF TrafficInv, TrafficTyped
      <4> QED
        BY <4>1, ThreadsFinite, FS_Subset
    <3>2. Sole(t)
      BY <2>2, <3>1, AtMostOne DEF Sole
    <3> QED
      BY <3>2 DEF TrafficInv, Cumulated
  <2> QED
    BY <2>1, <2>2, <2>3
<1> QED
  BY <1>1, TrafficHolds, PTL

\* After an orderly stop every row that was handed to the writer is in the table,
\* but for those it could not save or overwrote in the same batch.
THEOREM ArchiveDrained == TrafficSpec => []NothingLeftBehind
<1>1. TrafficInv => NothingLeftBehind
  <2> SUFFICES ASSUME TrafficInv, phase = "stopped" PROVE handed \ lost \subseteq db
    BY DEF NothingLeftBehind
  <2>1. handed \subseteq lost \cup db \cup (UNION ToSet(queue)) /\ queue = <<>>
    BY DEF TrafficInv, HandedOver
  <2> QED
    BY <2>1, EmptyUnion
<1> QED
  BY <1>1, TrafficHolds, PTL

\* A step of the server never takes a row out of the table.
LEMMA TableGrows == TrafficInv /\ [TrafficNext]_trafficVars => db \subseteq db'
<1> SUFFICES ASSUME TrafficInv, [TrafficNext]_trafficVars PROVE db \subseteq db'
  OBVIOUS
<1>1. CASE Consume \/ StopWriter
  <2>1. PICK batch, rest \in Seq(SUBSET Rows) : Taken(batch, rest)
    BY <1>1, ConsumeTakes, StopTakes DEF TrafficInv
  <2> QED
    BY <2>1, TakenRows DEF TrafficInv
<1>2. CASE SaveOthers \/ CloseServer
  BY <1>2, OthersSave DEF TrafficInv
<1>3. CASE ~(Consume \/ StopWriter \/ SaveOthers \/ CloseServer)
  <2>1. UNCHANGED db
    BY <1>3 DEF TrafficNext, Record, EnterSlow, CreateSlot, Add, Store, EnterRoll, Copy, Clear,
       MinutePasses, StartRoll, StopServer, Restart, writer, trafficVars
  <2> QED
    BY <2>1
<1> QED
  BY <1>1, <1>2, <1>3

\* A stored minute is never replaced, and memory and table never contradict each
\* other: the admin view of a topic is all there is of it in both.
THEOREM StoredRowsKept == TrafficSpec => RowsKept
<1>1. TrafficInv =>
        \A t \in Topics : HistoryOf(t) = {row \in deques \cup db \cup pending : row.topic = t}
  <2> SUFFICES ASSUME TrafficInv
               PROVE  \A t \in Topics :
                         HistoryOf(t) = {row \in deques \cup db \cup pending : row.topic = t}
    OBVIOUS
  <2>1. Visible = InTable
    BY TableIs DEF TrafficInv
  <2> QED
    BY <2>1 DEF TrafficInv, Unique, HistoryOf, Remembered, InTable, Ever
<1> QED
  BY <1>1, TableGrows, TrafficHolds, PTL DEF TrafficSpec, RowsKept

-----------------------------------------------------------------------------
(* Health and alerts: the inductive invariant *)

MinuteRow == [minute : Nat, count : Nat]

Stat == [current : Nat, cum : Nat, minutes : Seq(MinuteRow)]

\* Row i of q is of a minute in which was counted what it says, and as many rolls
\* ago at least as rows follow it.
MinuteRight(q, i, h, roll) ==
    /\ q[i].minute \in 1 .. roll /\ q[i].minute <= roll - (Len(q) - i)
    /\ q[i].count = h[q[i].minute]

\* The rows q of the minutes up to a roll: none but right ones, and one of every
\* minute within the retention in which something was counted.
MinutesRight(q, h, roll) ==
    /\ \A i \in 1 .. Len(q) : MinuteRight(q, i, h, roll)
    /\ \A m \in 1 .. roll : h[m] > 0 /\ m > roll - Retained => \E i \in 1 .. Len(q) : q[i].minute = m

\* h[m] is what was counted in minute m.
Kept(s, h, roll) ==
    /\ MinutesRight(s.minutes, h, roll)
    /\ s.current = h[roll + 1]
    /\ \A m \in Minutes : m > roll + 1 => h[m] = 0
    /\ s.cum = SumFunction(h)

Archiving ==
    /\ stats \in [Kinds -> [Monitored -> Stat]] /\ rolls \in 0 .. MaxRolls
    /\ happened \in [Kinds -> [Monitored -> [Minutes -> Nat]]]
    /\ \A k \in Kinds, t \in Monitored : Kept(stats[k][t], happened[k][t], rolls)

\* The entry of a client has no more of a topic than the client reported.
Crediting ==
    /\ DOMAIN proc = Clients /\ reported \in [Clients -> [Monitored -> Nat]]
    /\ \A c \in Clients : \A t \in DOMAIN proc[c] :
          t \in Monitored /\ proc[c][t] \in Nat /\ proc[c][t] <= reported[c][t]

Watching ==
    /\ window \in [starved : Nat, stall : BOOLEAN, age : Int]
    /\ starved \in [all : Nat, shown : Nat]
    /\ starved.all = starved.shown + window.starved

MonitorInv == Archiving /\ Crediting /\ Watching

-----------------------------------------------------------------------------
(* Minutes and rows *)

LEMMA MinutesFinite == IsFiniteSet(Minutes) /\ Minutes \subseteq Nat
<1>1. 1 \in Int /\ MaxRolls + 1 \in Int
  BY MonitorAssumption
<1> QED
  BY <1>1, FS_Interval DEF Minutes

LEMMA MinutesChange ==
    \A f, e \in [Minutes -> Int] : \A b \in Minutes :
        (\A m \in Minutes \ {b} : e[m] = f[m]) => SumFunction(e) = SumFunction(f) - f[b] + e[b]
<1> SUFFICES ASSUME NEW f \in [Minutes -> Int], NEW e \in [Minutes -> Int], NEW b \in Minutes,
                    \A m \in Minutes \ {b} : e[m] = f[m]
             PROVE  SumFunction(e) = SumFunction(f) - f[b] + e[b]
  OBVIOUS
<1> QED
  BY MinutesFinite, TotalChange

\* A frame counted.
LEMMA KeptCounting ==
    ASSUME NEW s \in Stat, NEW h \in [Minutes -> Nat], NEW roll \in 0 .. MaxRolls, Kept(s, h, roll),
           NEW n, n = [s EXCEPT !.current = @ + 1, !.cum = @ + 1],
           NEW g, g = [h EXCEPT ![roll + 1] = @ + 1]
    PROVE  n \in Stat /\ g \in [Minutes -> Nat] /\ Kept(n, g, roll)
<1>0. s.current \in Nat /\ s.cum \in Nat /\ s.minutes \in Seq(MinuteRow)
      /\ roll \in Nat /\ roll + 1 \in Minutes
  BY MonitorAssumption DEF Stat, Minutes
<1>1. n \in Stat /\ n.minutes = s.minutes /\ n.current = s.current + 1 /\ n.cum = s.cum + 1
  <2> DEFINE Lists == Seq(MinuteRow)
  <2>1. s \in [current : Nat, cum : Nat, minutes : Lists]
    BY DEF Stat
  <2>2. s.minutes \in Lists
    BY <1>0
  <2> HIDE DEF Lists
  <2>3. n = [current |-> s.current + 1, cum |-> s.cum + 1, minutes |-> s.minutes]
    BY <2>1
  <2>4. n \in [current : Nat, cum : Nat, minutes : Lists]
    BY <1>0, <2>2, <2>3
  <2> QED
    BY <2>3, <2>4 DEF Stat, Lists
<1>2. /\ g \in [Minutes -> Nat] /\ g[roll + 1] = h[roll + 1] + 1
      /\ \A m \in Minutes : m # roll + 1 => g[m] = h[m]
  BY <1>0
<1>3. MinutesRight(n.minutes, g, roll)
  <2> DEFINE q == s.minutes
  <2>1. 1 .. roll \subseteq Minutes /\ \A m \in 1 .. roll : g[m] = h[m]
    BY <1>0, <1>2, MonitorAssumption DEF Minutes
  <2>2. n.minutes = q /\ MinutesRight(q, h, roll)
    BY <1>1 DEF Kept
  <2> HIDE DEF q
  <2>3. ASSUME NEW i \in 1 .. Len(q) PROVE MinuteRight(q, i, g, roll)
    <3>1. MinuteRight(q, i, h, roll)
      BY <2>2 DEF MinutesRight
    <3> QED
      BY <2>1, <3>1 DEF MinuteRight
  <2>4. ASSUME NEW m \in 1 .. roll, g[m] > 0, m > roll - Retained
        PROVE  \E i \in 1 .. Len(q) : q[i].minute = m
    BY <2>1, <2>2, <2>4 DEF MinutesRight
  <2>5. MinutesRight(q, g, roll)
    BY <2>3, <2>4 DEF MinutesRight
  <2> QED
    BY <2>2, <2>5
<1>4. SumFunction(g) = SumFunction(h) + 1
  <2>1. h \in [Minutes -> Int] /\ g \in [Minutes -> Int] /\ \A m \in Minutes \ {roll + 1} : g[m] = h[m]
    BY <1>2
  <2>2. SumFunction(g) = SumFunction(h) - h[roll + 1] + g[roll + 1]
    BY <1>0, <2>1, MinutesChange
  <2>3. SumFunction(h) \in Int
    BY <2>1, MinutesFinite, TotalType
  <2>4. h[roll + 1] \in Int
    BY <1>0
  <2> QED
    BY <1>2, <2>2, <2>3, <2>4
<1>5. n.current = g[roll + 1] /\ \A m \in Minutes : m > roll + 1 => g[m] = 0
  BY <1>0, <1>1, <1>2 DEF Kept
<1> QED
  BY <1>1, <1>2, <1>3, <1>4, <1>5 DEF Kept

\* A roll at which a row is appended, and one without.
LEMMA RowAppended ==
    ASSUME NEW q \in Seq(MinuteRow), NEW h \in [Minutes -> Nat], NEW roll \in Nat,
           roll + 1 \in Minutes, MinutesRight(q, h, roll),
           NEW row \in MinuteRow, row.minute = roll + 1, row.count = h[roll + 1]
    PROVE  LET more == Append(q, row)
           IN more \in Seq(MinuteRow) /\ more # <<>> /\ MinutesRight(more, h, roll + 1)
<1> DEFINE more == Append(q, row)
           n == Len(q)
<1>1. /\ more \in Seq(MinuteRow) /\ n \in Nat /\ Len(more) = n + 1
      /\ \A i \in 1 .. n : more[i] = q[i]
      /\ more[n + 1] = row /\ more # <<>>
  BY AppendProperties, LenProperties
<1> HIDE DEF more
<1>2. ASSUME NEW i \in 1 .. Len(more) PROVE MinuteRight(more, i, h, roll + 1)
  <2>1. CASE i = n + 1
    BY <1>1, <2>1 DEF MinuteRight
  <2>2. CASE i \in 1 .. n
    <3>1. /\ q[i].minute \in 1 .. roll /\ q[i].minute <= roll - (n - i)
          /\ q[i].count = h[q[i].minute]
      BY <2>2 DEF MinutesRight, MinuteRight
    <3>2. more[i] = q[i] /\ Len(more) = n + 1
      BY <1>1, <2>2
    <3> HIDE DEF n
    <3>3. more[i].minute \in 1 .. roll + 1 /\ more[i].minute <= (roll + 1) - (Len(more) - i)
      BY <1>1, <2>2, <3>1, <3>2
    <3> QED
      BY <3>1, <3>2, <3>3 DEF MinuteRight
  <2> QED
    BY <1>1, <2>1, <2>2
<1>3. ASSUME NEW m \in 1 .. roll + 1, h[m] > 0, m > (roll + 1) - Retained
      PROVE  \E i \in 1 .. Len(more) : more[i].minute = m
  <2>1. CASE m = roll + 1
    BY <1>1, <2>1
  <2>2. CASE m # roll + 1
    <3>1. m \in 1 .. roll /\ m > roll - Retained
      BY <1>3, <2>2, MonitorAssumption
    <3>2. PICK i \in 1 .. n : q[i].minute = m
      BY <1>3, <3>1 DEF MinutesRight
    <3> QED
      BY <1>1, <3>2
  <2> QED
    BY <2>1, <2>2
<1>4. MinutesRight(more, h, roll + 1)
  <2>1. \A i \in 1 .. Len(more) : MinuteRight(more, i, h, roll + 1)
    BY <1>2
  <2>2. \A m \in 1 .. roll + 1 : h[m] > 0 /\ m > (roll + 1) - Retained =>
           \E i \in 1 .. Len(more) : more[i].minute = m
    BY <1>3
  <2> QED
    BY <2>1, <2>2 DEF MinutesRight
<1> QED
  BY <1>1, <1>4 DEF more

LEMMA NoRowAppended ==
    ASSUME NEW q \in Seq(MinuteRow), NEW h \in [Minutes -> Nat], NEW roll \in Nat,
           MinutesRight(q, h, roll), h[roll + 1] = 0
    PROVE  MinutesRight(q, h, roll + 1)
<1>1. Len(q) \in Nat
  BY LenProperties
<1>2. ASSUME NEW i \in 1 .. Len(q) PROVE MinuteRight(q, i, h, roll + 1)
  BY <1>1 DEF MinutesRight, MinuteRight
<1>3. ASSUME NEW m \in 1 .. roll + 1, h[m] > 0, m > (roll + 1) - Retained
      PROVE  \E i \in 1 .. Len(q) : q[i].minute = m
  <2>1. m \in 1 .. roll /\ m > roll - Retained
    BY <1>3, MonitorAssumption
  <2> QED
    BY <1>3, <2>1 DEF MinutesRight
<1>4. \A i \in 1 .. Len(q) : MinuteRight(q, i, h, roll + 1)
  BY <1>2
<1>5. \A m \in 1 .. roll + 1 : h[m] > 0 /\ m > (roll + 1) - Retained => \E i \in 1 .. Len(q) : q[i].minute = m
  BY <1>3
<1> QED
  BY <1>4, <1>5 DEF MinutesRight

\* The row the deque lets go is of a minute before the retention.
LEMMA RowLetGo ==
    ASSUME NEW q \in Seq(MinuteRow), q # <<>>, NEW h, NEW roll \in Nat, MinutesRight(q, h, roll)
    PROVE  Newest(q) \in Seq(MinuteRow) /\ MinutesRight(Newest(q), h, roll)
<1>1. CASE Len(q) > Retained
  <2> DEFINE rest == Tail(q)
  <2>1. /\ rest \in Seq(MinuteRow) /\ Len(q) \in Nat /\ Len(rest) = Len(q) - 1
        /\ \A i \in 1 .. Len(rest) : rest[i] = q[i + 1]
    BY HeadTailProperties, LenProperties
  <2>2. Newest(q) = rest
    BY <1>1 DEF Newest
  <2> HIDE DEF rest
  <2>3. ASSUME NEW i \in 1 .. Len(rest) PROVE MinuteRight(rest, i, h, roll)
    <3>1. i + 1 \in 1 .. Len(q) /\ rest[i] = q[i + 1]
      BY <2>1
    <3>2. /\ q[i + 1].minute \in 1 .. roll /\ q[i + 1].minute <= roll - (Len(q) - (i + 1))
          /\ q[i + 1].count = h[q[i + 1].minute]
      BY <3>1 DEF MinutesRight, MinuteRight
    <3>3. Len(q) - (i + 1) = Len(rest) - i
      BY <2>1
    <3> QED
      BY <3>1, <3>2, <3>3 DEF MinuteRight
  <2>4. ASSUME NEW m \in 1 .. roll, h[m] > 0, m > roll - Retained
        PROVE  \E i \in 1 .. Len(rest) : rest[i].minute = m
    <3>1. PICK j \in 1 .. Len(q) : q[j].minute = m
      BY <2>4 DEF MinutesRight
    <3>2. q[j].minute <= roll - (Len(q) - j)
      BY DEF MinutesRight, MinuteRight
    <3>3. j # 1
      BY <1>1, <2>1, <2>4, <3>1, <3>2, MonitorAssumption
    <3>4. j - 1 \in 1 .. Len(rest) /\ (j - 1) + 1 = j
      BY <2>1, <3>3
    <3> QED
      BY <2>1, <3>1, <3>4
  <2> QED
    BY <2>1, <2>2, <2>3, <2>4 DEF MinutesRight
<1>2. CASE ~(Len(q) > Retained)
  BY <1>2 DEF Newest
<1> QED
  BY <1>1, <1>2

\* A minute archived.
LEMMA KeptRolling ==
    ASSUME rolls \in Nat, rolls < MaxRolls, NEW s \in Stat, NEW h \in [Minutes -> Nat],
           Kept(s, h, rolls), NEW n, n = Rolled(s)
    PROVE  n \in Stat /\ Kept(n, h, rolls + 1)
<1>1. /\ s.minutes \in Seq(MinuteRow) /\ s.current \in Nat /\ s.cum \in Nat
      /\ rolls + 1 \in Minutes /\ rolls + 2 \in Minutes /\ rolls + 2 > rolls + 1
  BY MonitorAssumption DEF Stat, Minutes
<1>2. MinutesRight(s.minutes, h, rolls) /\ s.current = h[rolls + 1] /\ h[rolls + 2] = 0
  BY <1>1 DEF Kept
<1>3. CASE s.current > 0
  <2> DEFINE row == Row(s)
             more == Append(s.minutes, row)
             q == Newest(more)
  <2>1. row \in MinuteRow /\ row.minute = rolls + 1 /\ row.count = h[rolls + 1]
    BY <1>1, <1>2 DEF Row, MinuteRow
  <2> HIDE DEF row
  <2>2. more \in Seq(MinuteRow) /\ more # <<>> /\ MinutesRight(more, h, rolls + 1)
    BY <1>1, <1>2, <2>1, RowAppended
  <2> HIDE DEF more
  <2>3. q \in Seq(MinuteRow) /\ MinutesRight(q, h, rolls + 1)
    BY <2>2, RowLetGo
  <2>4. n = [current |-> 0, cum |-> s.cum, minutes |-> q]
    <3>1. n = [s EXCEPT !.current = 0, !.minutes = q]
      BY <1>3 DEF Rolled, more, row
    <3> HIDE DEF q
    <3> QED
      BY <3>1 DEF Stat
  <2> HIDE DEF q
  <2>5. n.current = 0 /\ n.cum = s.cum /\ n.minutes = q
    BY <2>4
  <2>6. n \in Stat
    <3> DEFINE Lists == Seq(MinuteRow)
    <3>1. q \in Lists
      BY <2>3
    <3> HIDE DEF Lists
    <3>2. n \in [current : Nat, cum : Nat, minutes : Lists]
      BY <1>1, <2>4, <3>1
    <3> QED
      BY <3>2 DEF Stat, Lists
  <2>7. /\ n.current = h[(rolls + 1) + 1] /\ n.cum = SumFunction(h)
        /\ \A m \in Minutes : m > (rolls + 1) + 1 => h[m] = 0
    <3>1. \A m \in Minutes : m \in Nat /\ (m > (rolls + 1) + 1 => m > rolls + 1)
      BY MinutesFinite
    <3>2. (rolls + 1) + 1 = rolls + 2
      OBVIOUS
    <3> QED
      BY <1>2, <2>5, <3>1, <3>2 DEF Kept
  <2> QED
    BY <2>3, <2>5, <2>6, <2>7 DEF Kept
<1>4. CASE ~(s.current > 0)
  <2>1. n = s /\ s.current = 0
    BY <1>1, <1>4 DEF Rolled
  <2>2. MinutesRight(s.minutes, h, rolls + 1)
    BY <1>1, <1>2, <2>1, NoRowAppended
  <2> QED
    BY <1>1, <1>2, <2>1, <2>2 DEF Kept
<1> QED
  BY <1>3, <1>4

\* What the curve of the admin pages shows of a minute.
LEMMA CurvePoint ==
    ASSUME NEW k \in Kinds, NEW t \in Monitored, NEW h \in [Minutes -> Nat], rolls \in 0 .. MaxRolls,
           stats[k][t] \in Stat, Kept(stats[k][t], h, rolls),
           NEW now \in Clock, NEW asked \in 1 .. Retained, NEW m \in 1 .. rolls + 1
    PROVE  LET curve == Curve(k, t, now, asked)
           IN IF m = rolls + 1
              THEN h[m] > 0 => Point(curve, now) = h[m]
              ELSE m > now - asked /\ m # now => Point(curve, m) = h[m]
<1> DEFINE s == stats[k][t]
           rows == ToSet(s.minutes)
           shown == {r.minute : r \in rows} \cup (IF s.current > 0 THEN {now} ELSE {})
           curve == Curve(k, t, now, asked)
<1>1. curve = [n \in {x \in shown : x > now - asked} |->
                  IF n = now /\ s.current > 0 THEN s.current
                  ELSE (CHOOSE r \in rows : r.minute = n).count]
  BY DEF Curve
<1>2. /\ s.current = h[rolls + 1] /\ MinutesRight(s.minutes, h, rolls)
      /\ rolls \in Nat /\ now \in Nat /\ asked \in Nat \ {0} /\ asked <= Retained
      /\ now >= rolls /\ m \in Nat /\ Retained \in Nat
  BY MonitorAssumption DEF Kept, Clock
<1>3. /\ \A r \in rows : r.count = h[r.minute]
      /\ \A x \in 1 .. rolls : h[x] > 0 /\ x > rolls - Retained => \E r \in rows : r.minute = x
  <2>1. s.minutes \in Seq(MinuteRow)
    BY DEF Stat
  <2>2. rows = {s.minutes[i] : i \in 1 .. Len(s.minutes)}
    BY <2>1, LenProperties DEF ToSet
  <2> HIDE DEF s, rows
  <2>3. \A i \in 1 .. Len(s.minutes) : s.minutes[i].count = h[s.minutes[i].minute]
    BY <1>2 DEF MinutesRight, MinuteRight
  <2>4. ASSUME NEW x \in 1 .. rolls, h[x] > 0, x > rolls - Retained PROVE \E r \in rows : r.minute = x
    <3>1. PICK i \in 1 .. Len(s.minutes) : s.minutes[i].minute = x
      BY <1>2, <2>4 DEF MinutesRight
    <3> QED
      BY <2>2, <3>1
  <2> QED
    BY <2>2, <2>3, <2>4
<1> HIDE DEF s, rows, curve
<1>4. CASE m = rolls + 1
  <2> SUFFICES ASSUME h[m] > 0 PROVE Point(curve, now) = h[m]
    BY <1>4 DEF curve
  <2>1. s.current > 0 /\ now \in shown /\ now > now - asked
    BY <1>2, <1>4
  <2>2. now \in DOMAIN curve /\ curve[now] = s.current
    BY <1>1, <2>1
  <2> QED
    BY <1>2, <1>4, <2>2 DEF Point
<1>5. CASE m # rolls + 1
  <2> SUFFICES ASSUME m > now - asked, m # now PROVE Point(curve, m) = h[m]
    BY <1>5 DEF curve
  <2>1. m \in 1 .. rolls /\ m > rolls - Retained /\ m \in Minutes
    BY <1>2, <1>5, MonitorAssumption DEF Minutes
  <2>2. CASE m \in DOMAIN curve
    <3>1. \E r \in rows : r.minute = m
      BY <1>1, <2>2
    <3>2. curve[m] = (CHOOSE r \in rows : r.minute = m).count
      BY <1>1, <2>2
    <3>3. (CHOOSE r \in rows : r.minute = m).count = h[m]
      BY <1>3, <3>1
    <3> QED
      BY <2>2, <3>2, <3>3 DEF Point
  <2>3. CASE m \notin DOMAIN curve
    <3>1. ~(\E r \in rows : r.minute = m)
      BY <1>1, <2>3
    <3>2. h[m] \in Nat /\ ~(h[m] > 0)
      BY <1>3, <2>1, <3>1
    <3> QED
      BY <2>3, <3>2 DEF Point
  <2> QED
    BY <2>2, <2>3
<1> QED
  BY <1>4, <1>5 DEF curve

-----------------------------------------------------------------------------
(* Every step keeps the invariant *)

LEMMA KeptNew ==
    ASSUME NEW s, s = [current |-> 0, cum |-> 0, minutes |-> <<>>],
           NEW h, h = [m \in Minutes |-> 0]
    PROVE  s \in Stat /\ h \in [Minutes -> Nat] /\ Kept(s, h, 0)
<1>1. <<>> \in Seq(MinuteRow) /\ Len(<<>>) = 0
  BY EmptySeq
<1>2. s.current = 0 /\ s.cum = 0 /\ s.minutes = <<>> /\ s \in Stat
  BY <1>1 DEF Stat
<1>3. h \in [Minutes -> Int] /\ h \in [Minutes -> Nat] /\ \A m \in Minutes : h[m] = 0
  OBVIOUS
<1>4. SumFunction(h) = 0
  BY <1>3, MinutesFinite, TotalZero
<1>5. MinutesRight(s.minutes, h, 0)
  BY <1>1, <1>2 DEF MinutesRight
<1>6. 1 \in Minutes
  BY MonitorAssumption DEF Minutes
<1> QED
  BY <1>2, <1>3, <1>4, <1>5, <1>6 DEF Kept

LEMMA CountsKept ==
    ASSUME Archiving, NEW kind \in Kinds, NEW topic \in Monitored, Counts(kind, topic), rolls' = rolls
    PROVE  Archiving'
<1> DEFINE s == stats[kind][topic]
           h == happened[kind][topic]
           n == [s EXCEPT !.current = @ + 1, !.cum = @ + 1]
           g == [h EXCEPT ![rolls + 1] = @ + 1]
<1>1. s \in Stat /\ h \in [Minutes -> Nat] /\ Kept(s, h, rolls) /\ rolls \in 0 .. MaxRolls
  BY DEF Archiving
<1>2. n \in Stat /\ g \in [Minutes -> Nat] /\ Kept(n, g, rolls)
  <2> HIDE DEF s, h
  <2> QED
    BY <1>1, KeptCounting
<1>3. /\ stats' = [stats EXCEPT ![kind] = [@ EXCEPT ![topic] = n]]
      /\ happened' = [happened EXCEPT ![kind] = [@ EXCEPT ![topic] = g]]
  BY DEF Counts, Archiving
<1> HIDE DEF n, g
<1>4. /\ stats' \in [Kinds -> [Monitored -> Stat]]
      /\ happened' \in [Kinds -> [Monitored -> [Minutes -> Nat]]]
  <2> DEFINE Hs == [Minutes -> Nat]
  <2>1. happened \in [Kinds -> [Monitored -> Hs]] /\ g \in Hs
    BY <1>2 DEF Archiving
  <2> HIDE DEF Hs
  <2>2. happened' \in [Kinds -> [Monitored -> Hs]]
    BY <1>3, <2>1
  <2> QED
    BY <1>2, <1>3, <2>2 DEF Archiving, Hs
<1>5. ASSUME NEW k \in Kinds, NEW t \in Monitored
      PROVE  Kept(stats'[k][t], happened'[k][t], rolls)
  <2>1. CASE k = kind /\ t = topic
    <3>1. stats'[k][t] = n /\ happened'[k][t] = g
      BY <1>3, <2>1 DEF Archiving
    <3> QED
      BY <1>2, <3>1
  <2>2. CASE ~(k = kind /\ t = topic)
    <3>1. stats'[k][t] = stats[k][t] /\ happened'[k][t] = happened[k][t]
      BY <1>3, <2>2 DEF Archiving
    <3> QED
      BY <3>1 DEF Archiving
  <2> QED
    BY <2>1, <2>2
<1> QED
  BY <1>1, <1>4, <1>5 DEF Archiving

LEMMA ArchivingStep ==
    ASSUME Archiving, [MonitorNext]_monitorVars
    PROVE  Archiving'
<1>1. ASSUME NEW k \in Kinds, NEW t \in Monitored, Counts(k, t), rolls' = rolls PROVE Archiving'
  BY <1>1, CountsKept
<1>2. CASE RollMinute
  <2>1. /\ rolls' = rolls + 1 /\ rolls < MaxRolls /\ happened' = happened
        /\ stats' = [k \in Kinds |-> [t \in Monitored |-> Rolled(stats[k][t])]]
    BY <1>2 DEF RollMinute, observed
  <2>2. ASSUME NEW k \in Kinds, NEW t \in Monitored
        PROVE  Rolled(stats[k][t]) \in Stat /\ Kept(Rolled(stats[k][t]), happened[k][t], rolls + 1)
    <3> DEFINE h == happened[k][t]
    <3>1. /\ stats[k][t] \in Stat /\ h \in [Minutes -> Nat] /\ Kept(stats[k][t], h, rolls)
          /\ rolls \in Nat
      BY DEF Archiving
    <3> HIDE DEF h
    <3>2. Rolled(stats[k][t]) \in Stat /\ Kept(Rolled(stats[k][t]), h, rolls + 1)
      BY <2>1, <3>1, KeptRolling
    <3> QED
      BY <3>2 DEF h
  <2>3. stats' \in [Kinds -> [Monitored -> Stat]]
    BY <2>1, <2>2
  <2>4. \A k \in Kinds, t \in Monitored : Kept(stats'[k][t], happened'[k][t], rolls')
    BY <2>1, <2>2
  <2>5. rolls' \in 0 .. MaxRolls
    BY <2>1, MonitorAssumption DEF Archiving
  <2> QED
    BY <2>1, <2>3, <2>4, <2>5 DEF Archiving
<1>3. CASE UNCHANGED <<stats, happened, rolls>>
  BY <1>3 DEF Archiving
<1>4. ASSUME NEW t \in Monitored, RecordDrop(t) PROVE Archiving'
  <2>1. "drops" \in Kinds /\ Counts("drops", t) /\ rolls' = rolls
    BY <1>4 DEF RecordDrop, Kinds
  <2> QED
    BY <1>1, <2>1
<1>5. ASSUME NEW c \in Clients, NEW ts \in SUBSET Monitored, NEW gap \in BOOLEAN, Heartbeat(c, ts, gap)
      PROVE  Archiving'
  <2>1. "gaps" \in Kinds /\ rolls' = rolls
        /\ ((\E t \in Monitored : Counts("gaps", t)) \/ UNCHANGED <<stats, happened>>)
    BY <1>5 DEF Heartbeat, Kinds
  <2> QED
    BY <1>1, <1>3, <2>1
<1>6. \/ \E t \in Monitored : RecordDrop(t)
      \/ \E c \in Clients, ts \in SUBSET Monitored, gap \in BOOLEAN : Heartbeat(c, ts, gap)
      \/ RollMinute
      \/ UNCHANGED <<stats, happened, rolls>>
  BY DEF MonitorNext, monitorVars, counters, observed, RecordStarved, RecordStall, Backlog, Gone,
         Check, Post, Tick, Scrape
<1> QED
  BY <1>2, <1>3, <1>4, <1>5, <1>6

LEMMA NoTopics ==
    DOMAIN NoEntry = {}
<1>1. <<>> \in Seq({}) /\ Len(<<>>) = 0
  BY EmptySeq
<1>2. ASSUME NEW q \in Seq({}), Len(q) = 0 PROVE DOMAIN q = {}
  <2>1. DOMAIN q = 1 .. 0
    BY <1>2, LenProperties
  <2> QED
    BY <2>1
<1> QED
  BY <1>1, <1>2 DEF NoEntry

LEMMA CreditingStep ==
    ASSUME Crediting, [MonitorNext]_monitorVars
    PROVE  Crediting'
<1>1. ASSUME NEW c \in Clients, NEW ts \in SUBSET Monitored, NEW gap \in BOOLEAN,
             Heartbeat(c, ts, gap)
      PROVE  Crediting'
  <2> DEFINE entry == [t \in ts |-> Carried(proc[c], t) + 1]
             sum == [t \in Monitored |-> IF t \in ts THEN reported[c][t] + 1 ELSE reported[c][t]]
  <2>1. /\ proc' = IF ts = {} THEN proc ELSE [proc EXCEPT ![c] = entry]
        /\ reported' = [reported EXCEPT ![c] = sum]
    BY <1>1 DEF Heartbeat, Crediting
  <2>2. \A t \in Monitored : reported[c][t] \in Nat
    BY DEF Crediting
  <2>3. sum \in [Monitored -> Nat] /\ \A t \in Monitored : reported[c][t] <= sum[t]
    BY <2>2
  <2>4. \A t \in ts : entry[t] \in Nat /\ entry[t] <= sum[t]
    BY <2>2 DEF Carried, Crediting
  <2>5. DOMAIN entry = ts
    OBVIOUS
  <2> HIDE DEF entry, sum
  <2>6. reported' \in [Clients -> [Monitored -> Nat]] /\ DOMAIN proc' = Clients
    BY <2>1, <2>3 DEF Crediting
  <2>7. ASSUME NEW d \in Clients, NEW t \in DOMAIN proc'[d]
        PROVE  t \in Monitored /\ proc'[d][t] \in Nat /\ proc'[d][t] <= reported'[d][t]
    <3>1. CASE d = c /\ ts # {}
      <4>1. proc'[d] = entry /\ reported'[d] = sum
        BY <2>1, <3>1 DEF Crediting
      <4> QED
        BY <2>4, <2>5, <4>1
    <3>2. CASE d = c /\ ts = {}
      <4>1. proc'[d] = proc[c] /\ reported'[d] = sum
        BY <2>1, <3>2 DEF Crediting
      <4>2. t \in Monitored /\ proc[c][t] \in Nat /\ proc[c][t] <= reported[c][t]
        BY <4>1 DEF Crediting
      <4>3. reported[c][t] <= sum[t] /\ reported[c][t] \in Nat /\ sum[t] \in Nat
        BY <2>2, <2>3, <4>2
      <4> QED
        BY <4>1, <4>2, <4>3
    <3>3. CASE d # c
      <4>1. proc'[d] = proc[d] /\ reported'[d] = reported[d]
        BY <2>1, <3>3 DEF Crediting
      <4> QED
        BY <4>1 DEF Crediting
    <3> QED
      BY <3>1, <3>2, <3>3
  <2> QED
    BY <2>6, <2>7 DEF Crediting
<1>2. ASSUME NEW c \in Clients, NEW kicked \in BOOLEAN, Gone(c, kicked)
      PROVE  Crediting'
  <2>1. /\ proc' = [proc EXCEPT ![c] = NoEntry]
        /\ reported' = [reported EXCEPT ![c] = [t \in Monitored |-> 0]]
    BY <1>2 DEF Gone
  <2>2. reported' \in [Clients -> [Monitored -> Nat]] /\ DOMAIN proc' = Clients
    BY <2>1 DEF Crediting
  <2>3. ASSUME NEW d \in Clients, NEW t \in DOMAIN proc'[d]
        PROVE  t \in Monitored /\ proc'[d][t] \in Nat /\ proc'[d][t] <= reported'[d][t]
    <3>1. d # c
      BY <2>1, NoTopics DEF Crediting
    <3>2. proc'[d] = proc[d] /\ reported'[d] = reported[d]
      BY <2>1, <3>1 DEF Crediting
    <3> QED
      BY <3>2 DEF Crediting
  <2> QED
    BY <2>2, <2>3 DEF Crediting
<1>3. CASE UNCHANGED <<proc, reported>>
  BY <1>3 DEF Crediting
<1>4. \/ \E c \in Clients, ts \in SUBSET Monitored, gap \in BOOLEAN : Heartbeat(c, ts, gap)
      \/ \E c \in Clients, kicked \in BOOLEAN : Gone(c, kicked)
      \/ UNCHANGED <<proc, reported>>
  BY DEF MonitorNext, monitorVars, counters, observed, RecordDrop, RecordStarved, RecordStall,
         Backlog, RollMinute, Check, Post, Tick, Scrape
<1> QED
  BY <1>1, <1>2, <1>3, <1>4

LEMMA WatchingStep ==
    ASSUME Watching, [MonitorNext]_monitorVars
    PROVE  Watching'
<1>1. CASE RecordStarved
  BY <1>1 DEF RecordStarved, Watching
<1>2. CASE RecordStall
  BY <1>2 DEF RecordStall, Watching, observed
<1>3. CASE Looked
  BY <1>3 DEF Looked, NewWindow, Watching
<1>4. CASE Tick
  BY <1>4 DEF Tick, Watching, observed
<1>5. CASE UNCHANGED <<window, starved>>
  BY <1>5 DEF Watching
<1>6. \/ RecordStarved \/ RecordStall \/ Looked \/ Tick
      \/ UNCHANGED <<window, starved>>
  BY DEF MonitorNext, monitorVars, counters, observed, RecordDrop, Heartbeat, Gone, Backlog,
         RollMinute, Check, Post, Scrape
<1> QED
  BY <1>1, <1>2, <1>3, <1>4, <1>5, <1>6

LEMMA MonitorStarts ==
    ASSUME MonitorInit
    PROVE  MonitorInv
<1>1. Archiving
  <2> DEFINE s == [current |-> 0, cum |-> 0, minutes |-> <<>>]
             h == [m \in Minutes |-> 0]
  <2>1. s \in Stat /\ h \in [Minutes -> Nat] /\ Kept(s, h, 0)
    BY KeptNew
  <2>2. /\ stats = [k \in Kinds |-> [t \in Monitored |-> s]] /\ rolls = 0
        /\ happened = [k \in Kinds |-> [t \in Monitored |-> h]]
    BY DEF MonitorInit
  <2> HIDE DEF s, h
  <2> QED
    BY <2>1, <2>2, MonitorAssumption DEF Archiving
<1>2. Crediting
  <2>1. /\ proc = [c \in Clients |-> NoEntry]
        /\ reported = [c \in Clients |-> [t \in Monitored |-> 0]]
    BY DEF MonitorInit
  <2> QED
    BY <2>1, NoTopics DEF Crediting
<1>3. Watching
  BY DEF MonitorInit, Watching
<1> QED
  BY <1>1, <1>2, <1>3 DEF MonitorInv

LEMMA TotalBelow ==
    ASSUME NEW S, IsFiniteSet(S), NEW f \in [S -> Nat], NEW g \in [S -> Nat],
           \A x \in S : f[x] <= g[x]
    PROVE  SumFunction(f) <= SumFunction(g)
<1> DEFINE h == [x \in S |-> g[x] - f[x]]
<1>1. h \in [S -> Nat] /\ \A x \in S : g[x] = f[x] + h[x]
  OBVIOUS
<1> HIDE DEF h
<1>2. SumFunction(g) = SumFunction(f) + SumFunction(h)
  <2>1. f \in [S -> Int] /\ g \in [S -> Int] /\ h \in [S -> Int]
    BY <1>1
  <2> QED
    BY <1>1, <2>1, TotalPlus
<1>3. SumFunction(f) \in Nat /\ SumFunction(h) \in Nat
  BY <1>1, TotalType
<1> QED
  BY <1>2, <1>3

LEMMA CountedAlike ==
    ASSUME MonitorInv
    PROVE  EachCountedOnce
<1>1. ASSUME NEW k \in Kinds, NEW t \in Monitored, NEW now \in Clock, NEW asked \in 1 .. Retained,
             NEW m \in 1 .. rolls + 1
      PROVE  LET curve == Curve(k, t, now, asked)
             IN IF m = rolls + 1
                THEN happened[k][t][m] > 0 => Point(curve, now) = happened[k][t][m]
                ELSE m > now - asked /\ m # now => Point(curve, m) = happened[k][t][m]
  <2> DEFINE h == happened[k][t]
  <2>1. /\ stats[k][t] \in Stat /\ h \in [Minutes -> Nat] /\ Kept(stats[k][t], h, rolls)
        /\ rolls \in 0 .. MaxRolls
    BY DEF MonitorInv, Archiving
  <2> HIDE DEF h
  <2>2. LET curve == Curve(k, t, now, asked)
        IN IF m = rolls + 1
           THEN h[m] > 0 => Point(curve, now) = h[m]
           ELSE m > now - asked /\ m # now => Point(curve, m) = h[m]
    BY <2>1, CurvePoint
  <2> QED
    BY <2>2 DEF h
<1>4. ASSUME NEW t \in Monitored, NEW fresh \in SUBSET Clients
      PROVE  /\ Reconciled(t, fresh).dropped = SumFunction(happened["drops"][t])
             /\ Reconciled(t, fresh).missing = SumFunction(happened["gaps"][t])
  BY DEF MonitorInv, Archiving, Kept, Kinds, Reconciled
<1>2. ASSUME NEW t \in Monitored, NEW fresh \in SUBSET Clients
      PROVE  Reconciled(t, fresh).processed <= SumFunction([c \in fresh |-> reported[c][t]])
  <2> DEFINE f == [c \in fresh |-> IF t \in DOMAIN proc[c] THEN proc[c][t] ELSE 0]
             g == [c \in fresh |-> reported[c][t]]
  <2>1. f \in [fresh -> Nat] /\ g \in [fresh -> Nat] /\ \A c \in fresh : f[c] <= g[c]
    BY DEF MonitorInv, Crediting
  <2>2. IsFiniteSet(fresh)
    BY MonitorAssumption, FS_Subset
  <2>3. Reconciled(t, fresh).processed = SumFunction(f)
    BY DEF Reconciled, Processed
  <2> HIDE DEF f
  <2>4. SumFunction(f) <= SumFunction(g)
    <3> HIDE DEF g
    <3> QED
      BY <2>1, <2>2, TotalBelow
  <2> QED
    BY <2>3, <2>4
<1>3. starved.all = starved.shown + window.starved
  BY DEF MonitorInv, Watching
<1> QED
  BY <1>1, <1>2, <1>3, <1>4 DEF EachCountedOnce

\* Whoever looks and whenever, the curve of drops and of gaps shows of every minute
\* within the retention what was counted in it, the reconciliation has what was
\* counted in all minutes, no topic is credited with more than was reported of
\* it, and every starved frame is shown to one reader.
THEOREM HealthCountedOnce ==
    MonitorSpec => []EachCountedOnce
<1>1. MonitorInit => MonitorInv
  BY MonitorStarts
<1>2. MonitorInv /\ [MonitorNext]_monitorVars => MonitorInv'
  BY ArchivingStep, CreditingStep, WatchingStep DEF MonitorInv
<1>3. MonitorInv => EachCountedOnce
  BY CountedAlike
<1> QED
  BY <1>1, <1>2, <1>3, PTL DEF MonitorSpec
=============================================================================
