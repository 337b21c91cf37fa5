------------------------------ MODULE Accounts ------------------------------
(***************************************************************************)
(* Who is let in.  The users of the server: the credentials file and the   *)
(* store in memory (security.py), the user commands (cli/users.py), which  *)
(* are processes of their own, the server's start and its reload on SIGHUP *)
(* (server.py), and the two authentication handlers (transport/router.py,  *)
(* auth.py), each of which checks one password at a time.  And the token   *)
(* of the admin pages (server.py, admin/auth.py), where none is set.       *)
(*                                                                         *)
(* save() writes a temporary file and renames it.  All processes use one   *)
(* temporary name and no lock, and each may be killed between two system   *)
(* calls.  An open file keeps its contents when its name goes to another:  *)
(* a process holds "tmp", "file" or a file without a name ("gone").        *)
(* Roles and dates are left out; a password stands for its hash.           *)
(***************************************************************************)
EXTENDS Integers, Sequences, TLC

CONSTANTS
    Users, Passwords,
    Admin,         \* the user that is generated when there is no file
    Commands,      \* user commands that may run at the same time
    Handlers,      \* authentication handlers: of the data and the control plane
    AllowAuto,     \* allow_auto_generated_credentials
    MaxCommands,   \* bounds, for TLC only: on commands,
    MaxReloads,    \* on reloads,
    MaxStarts      \* and on starts of the server

ASSUME ConstantsAssumption ==
    /\ Admin \in Users /\ AllowAuto \in BOOLEAN
    /\ MaxCommands \in Nat /\ MaxReloads \in Nat /\ MaxStarts \in Nat

Server == "server"
Writers == Commands \cup {Server}

VARIABLES
    file, tmp,  \* what the two names lead to
    pc,         \* pc[w]: what writer w is about to do, its edit, its store,
                \* and the file it holds
    up,         \* the server runs
    users,      \* _users of the server's store
    check,      \* check[h]: what handler h checks, or checked last
    used,       \* commands, reloads and starts so far
    saved,      \* history: the edits that were saved, with all accounts
    loaded,     \* history: how many of them the server has loaded
    raced,      \* history: what two writers did at the same time
    token,      \* admin_token of the running server
    tokenFile,  \* what admin_token_file has
    issued,     \* tokens generated so far; they are numbered
    offered,    \* history: the tokens the server has run with
    mislaid     \* history: a token could not be written

disk == <<file, tmp>>
server == <<up, users, check, loaded>>
tokens == <<token, tokenFile, issued, offered, mislaid>>
vars == <<disk, pc, server, used, saved, raced, tokens>>

-----------------------------------------------------------------------------
(* Contents and edits *)

NoAccounts == [u \in {} |-> [password |-> "none", enabled |-> FALSE]]
Missing == [state |-> "missing", users |-> NoAccounts]
Torn == [state |-> "torn", users |-> NoAccounts]
Whole(accounts) == [state |-> "whole", users |-> accounts]

Edits == [op : {"add", "passwd", "enable", "disable"}, user : Users, password : Passwords]

\* add_user(), set_password() and set_enabled(); the server's own edit adds the
\* generated administrator.
Applies(accounts, e) == (e.op = "add") <=> (e.user \notin DOMAIN accounts)

Edited(accounts, e) ==
    CASE e.op = "add" -> [u \in DOMAIN accounts \cup {e.user} |->
                             IF u = e.user THEN [password |-> e.password, enabled |-> TRUE]
                             ELSE accounts[u]]
      [] e.op = "passwd" -> [accounts EXCEPT ![e.user].password = e.password]
      [] OTHER -> [accounts EXCEPT ![e.user].enabled = (e.op = "enable")]

NoEdit == [op |-> "none", user |-> Admin, password |-> "none"]
Resting == [at |-> "rest", edit |-> NoEdit, users |-> NoAccounts, holds |-> "none"]
NoToken == 0
Empty == 0
NoTokenFile == -1

NoCheck == [result |-> "none", user |-> Admin, password |-> "none",
            account |-> [password |-> "none", enabled |-> FALSE], version |-> 0]

Init ==
    /\ file = Missing /\ tmp = Missing
    /\ pc = [w \in Writers |-> Resting]
    /\ up = FALSE /\ users = NoAccounts
    /\ check = [h \in Handlers |-> NoCheck]
    /\ used = [commands |-> 0, reloads |-> 0, starts |-> 0]
    /\ saved = <<>> /\ loaded = 0 /\ raced = "nothing"
    /\ token = NoToken /\ tokenFile = NoTokenFile /\ issued = 0
    /\ offered = {} /\ mislaid = FALSE

-----------------------------------------------------------------------------
(* Writers *)

\* A writer has read the file, or found none, and will save.
Begins(w, e, accounts) ==
    /\ pc' = [pc EXCEPT ![w] = [Resting EXCEPT !.at = "open", !.edit = e,
                                               !.users = Edited(accounts, e)]]
    /\ raced' = IF raced = "nothing" /\ \E v \in Writers : pc[v].at # "rest"
                THEN "edits" ELSE raced

\* _store() and the edit.  A file that does not parse and an edit that does not
\* apply end the command.
Command(c, e) ==
    /\ pc[c].at = "rest" /\ used.commands < MaxCommands
    /\ used' = [used EXCEPT !.commands = @ + 1]
    /\ file.state # "torn" /\ Applies(file.users, e)
    /\ Begins(c, e, file.users)
    /\ UNCHANGED <<disk, server, saved, tokens>>

\* load() of a server that finds no file.
Generate(p) ==
    /\ ~up /\ pc[Server].at = "rest" /\ used.starts < MaxStarts
    /\ file = Missing /\ AllowAuto
    /\ used' = [used EXCEPT !.starts = @ + 1]
    /\ Begins(Server, [op |-> "add", user |-> Admin, password |-> p], NoAccounts)
    /\ UNCHANGED <<disk, server, saved, tokens>>

\* MUTANT: the file is written in place.
InPlace == "file"

SavedTo == "tmp"

\* open(tmp, "w") makes the file, or empties it, whoever is writing it.
Open(w) ==
    /\ pc[w].at = "open"
    /\ IF SavedTo = "tmp" THEN tmp' = Whole(NoAccounts) /\ file' = file
                          ELSE file' = Whole(NoAccounts) /\ tmp' = tmp
    /\ pc' = [pc EXCEPT ![w].at = "write", ![w].holds = SavedTo]
    /\ raced' = IF \E v \in Writers \ {w} : pc[v].at \in {"write", "replace"}
                THEN "saves" ELSE raced
    /\ UNCHANGED <<server, used, saved, tokens>>

\* Written from the start of the file; what another left behind that may show.
Overlay(content, accounts) ==
    IF content = Whole(NoAccounts) THEN {Whole(accounts)} ELSE {Whole(accounts), Torn}

Write(w) ==
    /\ pc[w].at = "write"
    /\ IF pc[w].holds = "tmp" THEN tmp' \in Overlay(tmp, pc[w].users) ELSE tmp' = tmp
    /\ IF pc[w].holds = "file" THEN file' \in Overlay(file, pc[w].users) ELSE file' = file
    /\ pc' = [pc EXCEPT ![w].at = "replace"]
    /\ UNCHANGED <<server, used, saved, raced, tokens>>

\* Whoever holds the file that is renamed holds it still.
Moved(place) == CASE place = "tmp" -> "file" [] place = "file" -> "gone" [] OTHER -> place

\* os.replace(); without a temporary file it raises, and the command, or the
\* start of the server, fails.
Replace(w) ==
    /\ pc[w].at = "replace"
    /\ IF tmp = Missing
       THEN /\ pc' = [pc EXCEPT ![w] = Resting]
            /\ UNCHANGED <<disk, server, saved>>
       ELSE /\ file' = tmp /\ tmp' = Missing
            /\ pc' = [v \in Writers |-> IF v = w THEN Resting
                                        ELSE [pc[v] EXCEPT !.holds = Moved(@)]]
            /\ saved' = Append(saved, [edit |-> pc[w].edit, accounts |-> pc[w].users])
            /\ IF w = Server
               THEN up' = TRUE /\ users' = pc[w].users /\ loaded' = Len(saved') /\ check' = check
               ELSE UNCHANGED server
    /\ UNCHANGED <<used, raced, tokens>>

Killed(w) ==
    /\ pc[w].at # "rest"
    /\ pc' = [pc EXCEPT ![w] = Resting]
    /\ UNCHANGED <<disk, server, used, saved, raced, tokens>>

-----------------------------------------------------------------------------
(* The server's store *)

\* MUTANT: users that are known already stay as they are.
ReloadedNew(accounts) == users @@ accounts

\* The table in memory is replaced as a whole.
Reloaded(accounts) == accounts

Start ==
    /\ ~up /\ pc[Server].at = "rest" /\ used.starts < MaxStarts
    /\ file.state = "whole"
    /\ used' = [used EXCEPT !.starts = @ + 1]
    /\ up' = TRUE /\ users' = file.users /\ loaded' = Len(saved)
    /\ UNCHANGED <<disk, pc, check, saved, raced, tokens>>

\* No file: nothing happens; one that does not parse: the old users stay.
Reload ==
    /\ token # NoToken /\ used.reloads < MaxReloads
    /\ used' = [used EXCEPT !.reloads = @ + 1]
    /\ IF file.state = "whole" THEN users' = Reloaded(file.users) /\ loaded' = Len(saved)
                               ELSE UNCHANGED <<users, loaded>>
    /\ UNCHANGED <<disk, pc, up, check, saved, raced, tokens>>

\* Orderly or not; nothing of the store is written.
Stop ==
    /\ up
    /\ up' = FALSE /\ users' = NoAccounts /\ loaded' = 0
    /\ check' = [h \in Handlers |-> NoCheck]
    /\ token' = NoToken
    /\ UNCHANGED <<disk, pc, used, saved, raced, tokenFile, issued, offered, mislaid>>

-----------------------------------------------------------------------------
(* The token of the admin pages: _resolve_admin_token() *)

RunsWith(t) == token' = t /\ offered' = offered \cup {t}

\* "重启不再换 token": a token the file has is used again.
KeepToken ==
    /\ up /\ token = NoToken
    /\ tokenFile \notin {NoTokenFile, Empty}
    /\ RunsWith(tokenFile)
    /\ UNCHANGED <<disk, pc, server, used, saved, raced, tokenFile, issued, mislaid>>

\* Else a new one is generated, and written if the file can be.
MakeToken ==
    /\ up /\ token = NoToken
    /\ tokenFile \in {NoTokenFile, Empty}
    /\ issued' = issued + 1
    /\ RunsWith(issued')
    /\ \/ tokenFile' = issued' /\ mislaid' = mislaid
       \/ tokenFile' = tokenFile /\ mislaid' = TRUE
    /\ UNCHANGED <<disk, pc, server, used, saved, raced>>

\* Killed with the file open: it is empty.
KilledWritingToken ==
    /\ up /\ token = NoToken
    /\ tokenFile \in {NoTokenFile, Empty}
    /\ tokenFile' = Empty
    /\ up' = FALSE /\ users' = NoAccounts /\ loaded' = 0
    /\ UNCHANGED <<disk, pc, check, used, saved, raced, token, issued, offered, mislaid>>

\* validate().
Admits(t) == t = token

-----------------------------------------------------------------------------
(* Authentication *)

Answer(h, result) == check' = [check EXCEPT ![h].result = result]

\* verify(): the account is looked up, then the hash takes its time.
Verify(h, u, p) ==
    /\ token # NoToken /\ check[h].result # "checking"
    /\ LET known == u \in DOMAIN users /\ users[u].enabled
       IN check' = [check EXCEPT ![h] =
              [result |-> IF known THEN "checking" ELSE "refused",
               user |-> u, password |-> p, version |-> loaded,
               account |-> IF known THEN users[u] ELSE NoCheck.account]]
    /\ UNCHANGED <<disk, pc, up, users, loaded, used, saved, raced, tokens>>

Answered(h) ==
    /\ check[h].result = "checking"
    /\ Answer(h, IF check[h].password = check[h].account.password THEN "granted" ELSE "refused")
    /\ UNCHANGED <<disk, pc, up, users, loaded, used, saved, raced, tokens>>

-----------------------------------------------------------------------------
Next ==
    \/ \E c \in Commands, e \in Edits : Command(c, e)
    \/ \E p \in Passwords : Generate(p)
    \/ \E w \in Writers : Open(w) \/ Write(w) \/ Replace(w) \/ Killed(w)
    \/ Start \/ Reload \/ Stop
    \/ KeepToken \/ MakeToken \/ KilledWritingToken
    \/ \E h \in Handlers :
         \/ \E u \in Users, p \in Passwords : Verify(h, u, p)
         \/ Answered(h)

Spec == Init /\ [][Next]_vars

-----------------------------------------------------------------------------
(* Properties *)

\* The accounts that were saved n-th; before the first save there are none.
AsSaved(n) == IF n = 0 THEN NoAccounts ELSE saved[n].accounts

\* "原子写": wherever a process is killed and whatever it leaves behind, the file
\* has what was saved last, as a whole, unless two saves overlapped; and as long
\* as commands, and a server that generates its file, run one after another, each
\* save adds its edit to all that were saved before.  And the token the pages were
\* opened with opens them after every restart, unless it could not be written.
ChangesKept ==
    /\ raced # "saves" =>
          file = IF saved = <<>> THEN Missing ELSE Whole(AsSaved(Len(saved)))
    /\ raced = "nothing" =>
          \A n \in 1 .. Len(saved) :
             saved[n].accounts = Edited(AsSaved(n - 1), saved[n].edit)
    /\ token # NoToken /\ ~mislaid => \A t \in offered : Admits(t)

\* A password is accepted if and only if it was the one of an enabled user in
\* the accounts the server had loaded when the check began; so a user who was
\* disabled is refused from the next reload on.
GrantedAsLoaded ==
    raced # "saves" => \A h \in Handlers : check[h].result \in {"granted", "refused"} =>
        LET c == check[h]
            accounts == AsSaved(c.version)
        IN (c.result = "granted") <=>
              /\ c.user \in DOMAIN accounts
              /\ accounts[c.user] = [password |-> c.password, enabled |-> TRUE]
=============================================================================
