---------------------------- MODULE ControlPlane ----------------------------
(***************************************************************************)
(* The control plane: the clients' connection state machine (client.py)    *)
(* against the server's control loop, its heartbeat sweep (server.py) and  *)
(* the table of online users (control.py).                                 *)
(*                                                                         *)
(* Every handler runs on the server's one asyncio loop and awaits only its *)
(* final, never blocking reply, so a handler is one step and is written as *)
(* a function from the server's state to the next.  A client's ROUTER      *)
(* identity is its client_id (client.py start()), so one name stands for   *)
(* both.  Each client has two connections, for data and for control; only  *)
(* the first is monitored.  The control connection delivers in order; when *)
(* the client gives it up any suffix of what it still holds is lost, when  *)
(* it breaks alone any part in between, and libzmq admits the identity     *)
(* again only after the server has read the rest.                          *)
(***************************************************************************)
EXTENDS Naturals, Sequences, FiniteSets

CONSTANTS
    Clients,    \* client ids
    Users,      \* user names
    Patterns,   \* subscription patterns
    UserOf,     \* UserOf[c]: the users under which client id c is started
    Wants,      \* Wants[c]: the patterns the application on c may subscribe
    Buffered,   \* clients that negotiate a valid buffer policy
    NoUser,
    NoClient,
    Restarts,   \* whether the server process may be restarted
    MaxChan     \* MaxChan[c]: bound on the messages in flight from c (TLC only)

ASSUME NamesAssumption ==
    /\ NoUser \notin Users
    /\ NoClient \notin Clients
    /\ UserOf \in [Clients -> SUBSET Users]
    /\ Wants \in [Clients -> SUBSET Patterns]
    /\ Buffered \subseteq Clients
    /\ Restarts \in BOOLEAN

ASSUME MaxChanAssumption == MaxChan \in [Clients -> Nat]

VARIABLES
    server,    \* the state the control handlers change
    client,    \* client[c]: connection state of the process using client id c
    chan,      \* chan[c]: control messages from c that the server has not handled
    evicted,   \* history: clients whose registration the server has discarded
    missed     \* history: missed[c], subscribed while the list was being restored,
               \* or by a SUBSCRIBE lost while the client stayed connected

vars == <<server, client, chan, evicted, missed>>

-----------------------------------------------------------------------------
(* The server.  online and holder are _by_client and _by_user, idents the  *)
(* keys of _ident_by_client_id, expired the clients whose last_seen is     *)
(* older than heartbeat_timeout, credits the keys of _credits and of the   *)
(* buffers' credit windows, which the handlers always change together.     *)

EmptyServer ==
    [online |-> [c \in Clients |-> NoUser],
     holder |-> [u \in Users |-> NoClient],
     topics |-> [c \in Clients |-> {}],
     routes |-> [c \in Clients |-> {}],
     idents |-> {}, expired |-> {}, credits |-> {}, buffers |-> {}, beats |-> {}]

Online(s) == {c \in Clients : s.online[c] # NoUser}

Accepts(s, m) == s.holder[m.user] = NoClient

\* MUTANT: register() that does not look the user up.
RegisteredAnyway(s, c, m) ==
    [s EXCEPT !.online[c] = m.user, !.holder[m.user] = c, !.topics[c] = m.topics,
              !.routes[c] = @ \cup m.topics, !.idents = @ \cup {c}, !.expired = @ \ {c},
              !.buffers = IF c \in Buffered THEN @ \cup {c} ELSE @]

\* MUTANT: ALREADY_ONLINE counts as a sign of life.
RegisteredRefreshing(s, c, m) ==
    IF ~Accepts(s, m) THEN [s EXCEPT !.expired = @ \ {c}]
    ELSE RegisteredAnyway(s, c, m)

\* MUTANT: the topics of the REGISTER are not routed.
RegisteredUnrouted(s, c, m) ==
    IF ~Accepts(s, m) THEN s
    ELSE [RegisteredAnyway(s, c, m) EXCEPT !.routes[c] = s.routes[c]]

Registered(s, c, m) ==
    IF ~Accepts(s, m) THEN s
    ELSE [s EXCEPT !.online[c] = m.user, !.holder[m.user] = c, !.topics[c] = m.topics,
                   !.routes[c] = @ \cup m.topics, !.idents = @ \cup {c},
                   !.expired = @ \ {c},
                   !.buffers = IF c \in Buffered THEN @ \cup {c} ELSE @]

\* Answered with OK whether or not the client is registered; the monitor and
\* the credit tables take the client in either way.
HeartBeaten(s, c, m) ==
    [s EXCEPT !.expired = @ \ {c}, !.beats = @ \cup {c},
              !.credits = IF m.credit THEN @ \cup {c} ELSE @]

\* Routed under any identity, noted in the registry for a registered client.
Subscribed(s, c, m) ==
    [s EXCEPT !.routes[c] = @ \cup {m.topic},
              !.topics[c] = IF c \in Online(s) THEN @ \cup {m.topic} ELSE @]

Unsubscribed(s, c, m) ==
    [s EXCEPT !.routes[c] = @ \ {m.topic}, !.topics[c] = @ \ {m.topic}]

\* _by_user.pop(username) pops whoever stands there.
Unregistered(s, gone) ==
    [s EXCEPT !.online = [c \in Clients |-> IF c \in gone THEN NoUser ELSE @[c]],
              !.holder = [u \in Users |->
                            IF \E c \in gone : s.online[c] = u THEN NoClient ELSE @[u]],
              !.topics = [c \in Clients |-> IF c \in gone THEN {} ELSE @[c]],
              !.expired = @ \ gone]

Released(s, gone) ==
    [s EXCEPT !.routes = [c \in Clients |-> IF c \in gone THEN {} ELSE @[c]],
              !.credits = @ \ gone, !.buffers = @ \ gone, !.idents = @ \ gone]

\* MUTANT: DISCONNECT leaves the routes to the sweep.
DisconnectedRouted(s, c) ==
    [Unregistered(Released(s, {c}), {c}) EXCEPT !.routes = s.routes, !.beats = @ \ {c}]

Disconnected(s, c) == [Unregistered(Released(s, {c}), {c}) EXCEPT !.beats = @ \ {c}]

\* Routes, credits and buffer go only when the identity is known.
Swept(s) ==
    LET gone == s.expired \cap Online(s)
    IN [Unregistered(Released(s, gone \cap s.idents), gone) EXCEPT !.beats = @ \ gone]

Handled(s, c, m) ==
    CASE m.cmd = "REGISTER" -> Registered(s, c, m)
      [] m.cmd = "HEARTBEAT" -> HeartBeaten(s, c, m)
      [] m.cmd = "SUBSCRIBE" -> Subscribed(s, c, m)
      [] m.cmd = "UNSUBSCRIBE" -> Unsubscribed(s, c, m)
      [] m.cmd = "DISCONNECT" -> Disconnected(s, c)

-----------------------------------------------------------------------------
(* Messages and clients.  req tells the REGISTER of the current attempt,   *)
(* the only one whose request_id the client waits for.                     *)

Register(u, subs) == [cmd |-> "REGISTER", user |-> u, topics |-> subs, req |-> TRUE]
Heartbeat(credit) == [cmd |-> "HEARTBEAT", credit |-> credit]
Subscribe(p) == [cmd |-> "SUBSCRIBE", topic |-> p]
Unsubscribe(p) == [cmd |-> "UNSUBSCRIBE", topic |-> p]
Disconnect == [cmd |-> "DISCONNECT"]

Send(c, m) ==
    /\ Len(chan[c]) < MaxChan[c]
    /\ chan' = [chan EXCEPT ![c] = Append(@, m)]

\* What is read from a connection that is gone is answered to nobody.
Unheard(m) == IF m.cmd = "REGISTER" THEN [m EXCEPT !.req = FALSE] ELSE m

\* The client gives its connections up: a prefix of its messages still arrives.
Cut(c) ==
    \E n \in 0 .. Len(chan[c]) :
        chan' = [chan EXCEPT ![c] = [i \in 1 .. n |-> Unheard(@[i])]]

\* A client is down; or start() and _reconnect_loop() take it from joining
\* (no connection) over awaiting (the reply to REGISTER) and restoring (the
\* subscriptions in todo are sent) to up, where _connected holds; first tells
\* start() from _reconnect_loop().
Down == [phase |-> "down", first |-> TRUE, user |-> NoUser, subs |-> {}, todo |-> {},
         reply |-> "none"]

Init ==
    /\ server = EmptyServer
    /\ client = [c \in Clients |-> Down]
    /\ chan = [c \in Clients |-> <<>>]
    /\ evicted = {}
    /\ missed = [c \in Clients |-> {}]

-----------------------------------------------------------------------------
(* Server steps *)

Handle(c) ==
    /\ chan[c] # <<>>
    /\ LET m == Head(chan[c])
           ok == m.cmd = "REGISTER" /\ Accepts(server, m)
       IN /\ server' = Handled(server, c, m)
          /\ client' =
               IF m.cmd = "REGISTER" /\ m.req /\ client[c].phase = "awaiting"
               THEN [client EXCEPT ![c].reply = IF ok THEN "OK" ELSE "ALREADY_ONLINE"]
               ELSE client
          /\ evicted' = IF ok \/ m.cmd = "DISCONNECT" THEN evicted \ {c} ELSE evicted
    /\ chan' = [chan EXCEPT ![c] = Tail(@)]
    /\ UNCHANGED missed

\* More than heartbeat_timeout has passed since last_seen.
Expire(c) ==
    /\ c \in Online(server) \ server.expired
    /\ server' = [server EXCEPT !.expired = @ \cup {c}]
    /\ UNCHANGED <<client, chan, evicted, missed>>

\* One round of _heartbeat_sweep_loop.
Sweep ==
    /\ server.expired # {}
    /\ server' = Swept(server)
    /\ evicted' = evicted \cup (server.expired \cap Online(server))
    /\ UNCHANGED <<client, chan, missed>>

\* The process ends and a new one takes over the port.  A client that is up
\* sees the data connection break and reconnects; one that is between the
\* handshake and set_monitor_callback(_on_runtime_monitor) does not notice,
\* and libzmq connects its sockets anew.  What they hold, and what a closed
\* one holds within its linger time, goes to the new process; Interrupt and
\* Cut lose of it what is lost.
Restart ==
    /\ Restarts
    /\ server # EmptyServer
    /\ server' = EmptyServer
    /\ client' = [c \in Clients |->
                    IF client[c].phase = "up"
                    THEN [client[c] EXCEPT !.phase = "joining"] ELSE client[c]]
    /\ evicted' = evicted \cup Online(server)
    /\ UNCHANGED <<chan, missed>>

-----------------------------------------------------------------------------
(* Client steps *)

Start(c, u) ==
    /\ client[c].phase = "down"
    /\ u \in UserOf[c]
    /\ client' = [client EXCEPT ![c] = [Down EXCEPT !.phase = "joining", !.user = u]]
    /\ UNCHANGED <<server, chan, evicted, missed>>

\* Connect, authenticate, send REGISTER with the current subscriptions.
SendRegister(c) ==
    /\ client[c].phase = "joining"
    /\ Send(c, Register(client[c].user, client[c].subs))
    /\ client' = [client EXCEPT ![c].phase = "awaiting"]
    /\ missed' = [missed EXCEPT ![c] = {}]
    /\ UNCHANGED <<server, evicted>>

\* MUTANT: any reply will do.
SucceedsAnyway(c) == client[c].reply # "none"

Succeeds(c) == client[c].reply = "OK"

\* MUTANT: nothing is restored, REGISTER has carried the topics.
RegisteringNothing(c) ==
    /\ client[c].phase = "awaiting"
    /\ Succeeds(c)
    /\ client' = [client EXCEPT ![c].phase = "restoring", ![c].reply = "none"]
    /\ UNCHANGED <<server, chan, evicted, missed>>

\* list(self._subscriptions) is taken before the first SUBSCRIBE is sent.
Registering(c) ==
    /\ client[c].phase = "awaiting"
    /\ Succeeds(c)
    /\ client' = [client EXCEPT ![c].phase = "restoring", ![c].todo = client[c].subs,
                                ![c].reply = "none"]
    /\ UNCHANGED <<server, chan, evicted, missed>>

\* MUTANT: the next attempt starts from a client that knows no user.
RegisterForgets(c) ==
    /\ client[c].phase = "awaiting"
    /\ ~Succeeds(c)
    /\ Cut(c)
    /\ client' = [client EXCEPT ![c] = [Down EXCEPT !.phase = "joining"]]
    /\ UNCHANGED <<server, evicted, missed>>

\* ALREADY_ONLINE, or no reply in time: start() raises, _reconnect_loop()
\* closes the connection, backs off and tries again.
RegisterFails(c) ==
    /\ client[c].phase = "awaiting"
    /\ ~Succeeds(c)
    /\ Cut(c)
    /\ client' = [client EXCEPT ![c] = IF @.first THEN Down
                                        ELSE [@ EXCEPT !.phase = "joining", !.reply = "none"]]
    /\ UNCHANGED <<server, evicted, missed>>

Restore(c, p) ==
    /\ client[c].phase = "restoring"
    /\ p \in client[c].todo
    /\ Send(c, Subscribe(p))
    /\ client' = [client EXCEPT ![c].todo = @ \ {p}]
    /\ UNCHANGED <<server, evicted, missed>>

Restored(c) ==
    /\ client[c].phase = "restoring"
    /\ client[c].todo = {}
    /\ client' = [client EXCEPT ![c].phase = "up", ![c].first = FALSE]
    /\ UNCHANGED <<server, chan, evicted, missed>>

\* subscribe() and unsubscribe() are sent when connected, otherwise noted; the
\* application awaits start() before it calls them.
Callable(c) == client[c].phase # "down" /\ ~(client[c].first /\ client[c].phase # "joining")

AppSubscribe(c, p) ==
    /\ Callable(c)
    /\ p \in Wants[c] \ client[c].subs
    /\ client' = [client EXCEPT ![c].subs = @ \cup {p}]
    /\ IF client[c].phase = "up" THEN Send(c, Subscribe(p)) ELSE UNCHANGED chan
    /\ missed' = CASE client[c].phase = "restoring" -> [missed EXCEPT ![c] = @ \cup {p}]
                   [] client[c].phase = "up" -> [missed EXCEPT ![c] = @ \ {p}]
                   [] OTHER -> missed
    /\ UNCHANGED <<server, evicted>>

AppUnsubscribe(c, p) ==
    /\ Callable(c)
    /\ p \in client[c].subs
    /\ client' = [client EXCEPT ![c].subs = @ \ {p}]
    /\ IF client[c].phase = "up" THEN Send(c, Unsubscribe(p)) ELSE UNCHANGED chan
    /\ UNCHANGED <<server, evicted, missed>>

\* A consumer's heartbeats carry the credit of its worker pool.
Beat(c) ==
    /\ client[c].phase = "up"
    /\ Send(c, Heartbeat(client[c].subs # {}))
    /\ UNCHANGED <<server, client, evicted, missed>>

\* The control connection breaks alone.  It has no monitor, so the client
\* notices nothing; libzmq connects it anew and sends what the socket still
\* holds, a part of what was under way before that is lost.  Nobody waits for
\* the reply to a SUBSCRIBE longer than half a second, or sends it again.
Interrupt(c) ==
    /\ \E i, j \in 0 .. Len(chan[c]) :
         /\ i <= j
         /\ chan' = [chan EXCEPT ![c] =
                       [k \in 1 .. Len(@) - (j - i) |->
                          IF k <= i THEN Unheard(@[k]) ELSE @[k + (j - i)]]]
         /\ LET lost == {p \in Patterns : \E k \in i + 1 .. j : chan[c][k] = Subscribe(p)}
            IN missed' = IF client[c].phase \in {"restoring", "up"}
                         THEN [missed EXCEPT ![c] = @ \cup lost] ELSE missed
    /\ UNCHANGED <<server, client, evicted>>

\* The monitor reports the data connection broken: _reconnect_loop begins, and
\* gives up the control connection as well.
Break(c) ==
    /\ client[c].phase = "up"
    /\ Cut(c)
    /\ client' = [client EXCEPT ![c].phase = "joining"]
    /\ UNCHANGED <<server, evicted, missed>>

\* stop() when registered: DISCONNECT is the last message of the connection.
\* (A reconnect that stop() cancels has closed its connection by then.)
Stop(c) ==
    /\ client[c].phase = "up" \/ (client[c].phase = "restoring" /\ client[c].first)
    /\ Send(c, Disconnect)
    /\ client' = [client EXCEPT ![c] = Down]
    /\ missed' = [missed EXCEPT ![c] = {}]
    /\ UNCHANGED <<server, evicted>>

\* The process dies, or stop() finds no registration or a closed connection.
Quit(c) ==
    /\ client[c].phase # "down"
    /\ Cut(c)
    /\ client' = [client EXCEPT ![c] = Down]
    /\ missed' = [missed EXCEPT ![c] = {}]
    /\ UNCHANGED <<server, evicted>>

-----------------------------------------------------------------------------
ServerStep == Sweep \/ Restart \/ \E c \in Clients : Handle(c) \/ Expire(c)

ClientStep(c) ==
    \/ \E u \in Users : Start(c, u)
    \/ SendRegister(c) \/ Registering(c) \/ RegisterFails(c) \/ Restored(c)
    \/ \E p \in Patterns : Restore(c, p) \/ AppSubscribe(c, p) \/ AppUnsubscribe(c, p)
    \/ Beat(c) \/ Interrupt(c) \/ Break(c) \/ Stop(c) \/ Quit(c)

Next == ServerStep \/ \E c \in Clients : ClientStep(c)

\* The control loop and the sweep never block, and time passes.  Nothing is
\* assumed of the clients.
Fairness ==
    /\ WF_vars(Sweep)
    /\ \A c \in Clients : WF_vars(Handle(c)) /\ WF_vars(Expire(c))

Spec == Init /\ [][Next]_vars /\ Fairness

-----------------------------------------------------------------------------
(* Properties *)

Message ==
    [cmd : {"REGISTER"}, user : Users, topics : SUBSET Patterns, req : BOOLEAN]
      \cup [cmd : {"HEARTBEAT"}, credit : BOOLEAN]
      \cup [cmd : {"SUBSCRIBE", "UNSUBSCRIBE"}, topic : Patterns]
      \cup [cmd : {"DISCONNECT"}]

ServerState ==
    [online : [Clients -> Users \cup {NoUser}], holder : [Users -> Clients \cup {NoClient}],
     topics : [Clients -> SUBSET Patterns], routes : [Clients -> SUBSET Patterns],
     idents : SUBSET Clients, expired : SUBSET Clients, credits : SUBSET Clients,
     buffers : SUBSET Clients, beats : SUBSET Clients]

ClientState ==
    [phase : {"down", "joining", "awaiting", "restoring", "up"}, first : BOOLEAN,
     user : Users \cup {NoUser}, subs : SUBSET Patterns, todo : SUBSET Patterns,
     reply : {"none", "OK", "ALREADY_ONLINE"}]

\* The values the variables range over.
TypeOK ==
    /\ server \in ServerState
    /\ client \in [Clients -> ClientState]
    /\ \A c \in Clients : client[c].phase # "down" => client[c].user \in UserOf[c]
    /\ chan \in [Clients -> Seq(Message)]
    /\ evicted \in SUBSET Clients
    /\ missed \in [Clients -> SUBSET Patterns]

\* The client id is started under one user only.
OneUser(c) == \A u, v \in UserOf[c] : u = v

\* "key=username（单用户单在线）" (OnlineRegistry): whoever is online holds its
\* name, so that no two clients are online under one; a name is held by nobody
\* but the client online under it, so that the sweep can free it, unless that
\* client's id is started under a second user; the identity of a client is
\* known exactly while it is registered, so that the sweep can free its routes.
RegistryAgrees ==
    /\ \A c \in Clients, u \in Users : server.online[c] = u => server.holder[u] = c
    /\ \A c \in Clients, u \in Users :
         server.holder[u] = c /\ OneUser(c) => server.online[c] = u
    /\ server.idents = Online(server)

Owners(s) == {c \in Clients : s.routes[c] # {}} \cup s.credits \cup s.buffers \cup s.beats

\* Whatever the server keeps for an identity belongs to a registered client or
\* to one whose registration it discarded while the client kept talking:
\* no order of REGISTER, DISCONNECT, sweeps, broken connections and late
\* messages leaves anything else behind.  A buffer is never left behind.
OwnersAccounted ==
    /\ Owners(server) \subseteq Online(server) \cup evicted
    /\ server.buffers \subseteq Online(server)

\* The monitoring view never lists a subscription that is not routed
\* ("在线快照/订阅计数（监控）会与实际订阅表脱节", OnlineRegistry.subscribe).
ListedIsRouted == \A c \in Clients : server.topics[c] \subseteq server.routes[c]

\* A client that believes it is registered is online under its own user unless
\* the server discarded its registration after answering OK.
BelievesOnline ==
    \A c \in Clients :
        client[c].phase \in {"restoring", "up"} /\ c \notin evicted
            => server.online[c] = client[c].user

\* The routes of c once the messages under way have been handled: those of the
\* server and those that a SUBSCRIBE under way asks for, unless an UNSUBSCRIBE
\* of the same pattern comes after.
RoutesToBe(c) ==
    LET StaysAfter(p, i) == \A j \in i + 1 .. Len(chan[c]) : chan[c][j] # Unsubscribe(p)
    IN {p \in Patterns :
          \/ p \in server.routes[c] /\ StaysAfter(p, 0)
          \/ \E i \in 1 .. Len(chan[c]) : chan[c][i] = Subscribe(p) /\ StaysAfter(p, i)}

\* A connected client whose registration stands is routed, or is about to be,
\* everything it subscribes to, after any number of reconnects, restarts and
\* broken connections; what it subscribed while the list was being restored,
\* and what a SUBSCRIBE lost with the control connection asked for, excepted.
SubscriptionsRouted ==
    \A c \in Clients :
        client[c].phase = "up" /\ c \notin evicted
            => client[c].subs \ missed[c] \subseteq RoutesToBe(c)

\* u stands in _by_user for a client that is gone or still trying to register.
StaleName(u) ==
    \E c \in Clients : server.holder[u] = c /\ OneUser(c) /\ client[c].phase # "up"

\* "待心跳扫描释放 username 后自然成功" (client.py): no user name stays taken by a
\* client that is gone or that keeps being refused, if its id has one user; it
\* is released, or the client gets through.
StaleNameReleased == \A u \in Users : []<>~StaleName(u)

-----------------------------------------------------------------------------
(* What the repository says and the code does not do *)

\* "订阅自动恢复" (README): a connected client is routed all it subscribes to,
\* however its connections broke.
SubscriptionsRestored ==
    \A c \in Clients :
        client[c].phase = "up" /\ c \notin evicted => client[c].subs \subseteq RoutesToBe(c)

\* "扫描踢线：删路由/credits/缓冲/池" (DESIGN): what the sweep released stays
\* released until the client registers again.
KickReleases == Owners(server) \subseteq Online(server)

\* "单用户单在线", and the sweep will free the name: every entry of _by_user
\* leads to a client that is registered under that user.
HolderIsOnline ==
    \A u \in Users : server.holder[u] # NoClient => server.online[server.holder[u]] = u
=============================================================================
