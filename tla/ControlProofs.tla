----------------------------- MODULE ControlProofs -----------------------------
(***************************************************************************)
(* Proofs about ControlPlane, for any sets of clients, users and patterns, *)
(* with and without restarts, whatever is lost or late.                    *)
(***************************************************************************)
EXTENDS ControlPlane, SequenceTheorems, TLAPS

\* The two maps of the registry, and the users of the client ids.
MapsAgree(s) ==
    /\ \A c \in Clients, u \in Users : s.online[c] = u => s.holder[u] = c
    /\ \A c \in Clients, u \in Users : s.holder[u] = c /\ OneUser(c) => s.online[c] = u
    /\ \A c \in Online(s) : s.online[c] \in UserOf[c]

\* What the handlers keep of the server's state whatever message arrives.
Sound(s) ==
    /\ s \in ServerState
    /\ s.idents = Online(s)
    /\ s.buffers \subseteq Online(s)
    /\ \A c \in Clients : s.topics[c] \subseteq s.routes[c]
    /\ MapsAgree(s)

Known == Online(server) \cup evicted

Served(c) == client[c].phase \in {"restoring", "up"} \/ client[c].reply = "OK"

\* A REGISTER in the channel is of an attempt not answered yet, or of one given
\* up; anything else was sent by a client that had been registered, on a
\* connection that has not said DISCONNECT before.
ChanOK(c) ==
    \A i \in 1 .. Len(chan[c]) :
      /\ chan[c][i].cmd = "REGISTER" =>
           /\ chan[c][i].user \in UserOf[c]
           /\ client[c].reply = "none"
           /\ client[c].phase \notin {"restoring", "up"}
           /\ chan[c][i].req => /\ client[c].phase = "awaiting"
                                /\ i = Len(chan[c])
                                /\ chan[c][i].user = client[c].user
      /\ chan[c][i].cmd \notin {"REGISTER", "DISCONNECT"} =>
           /\ c \in Known
           /\ \A j \in 1 .. i - 1 : chan[c][j].cmd # "DISCONNECT"

\* A client that has been answered OK is known, and under its own user unless
\* it was discarded since; DISCONNECT is not under way.
ServedOK(c) ==
    /\ client[c].reply # "none" => client[c].phase = "awaiting"
    /\ Served(c) => /\ c \in Known
                    /\ \A i \in 1 .. Len(chan[c]) : chan[c][i].cmd # "DISCONNECT"
                    /\ c \notin evicted => server.online[c] = client[c].user

Inv == /\ TypeOK
       /\ Sound(server)
       /\ Owners(server) \subseteq Known
       /\ \A c \in Clients : ChanOK(c) /\ ServedOK(c)

-----------------------------------------------------------------------------
(* The handlers, as functions of the server's state *)

\* A refused REGISTER changes nothing; an accepted one makes the client, and no
\* other, online.  The user was free, so no other client loses its entry, and
\* a client id with one user has no older one.
LEMMA RegisteredSound ==
    ASSUME NEW s, Sound(s), NEW c \in Clients, NEW m \in Message,
           m.cmd = "REGISTER", m.user \in UserOf[c]
    PROVE  /\ Sound(Registered(s, c, m))
           /\ ~Accepts(s, m) => Registered(s, c, m) = s
           /\ Accepts(s, m) => /\ Online(Registered(s, c, m)) = Online(s) \cup {c}
                               /\ Registered(s, c, m).online[c] = m.user
           /\ \A d \in Clients \ {c} : Registered(s, c, m).online[d] = s.online[d]
           /\ Owners(Registered(s, c, m)) \subseteq Owners(s) \cup {c}
<1> DEFINE t == Registered(s, c, m)
<1>1. m.user \in Users /\ m.topics \in SUBSET Patterns /\ m.user # NoUser
  BY NamesAssumption DEF Message
<1>2. s \in ServerState
  BY DEF Sound
<1>3. CASE ~Accepts(s, m)
  BY <1>3 DEF Registered
<1>4. CASE Accepts(s, m)
  <2>1. /\ t.online = [s.online EXCEPT ![c] = m.user]
        /\ t.holder = [s.holder EXCEPT ![m.user] = c]
        /\ t.topics = [s.topics EXCEPT ![c] = m.topics]
        /\ t.routes = [s.routes EXCEPT ![c] = @ \cup m.topics]
        /\ t.idents = s.idents \cup {c}
        /\ t.expired = s.expired \ {c}
        /\ t.credits = s.credits
        /\ t.buffers = IF c \in Buffered THEN s.buffers \cup {c} ELSE s.buffers
        /\ t.beats = s.beats
        /\ t \in ServerState
    BY <1>1, <1>2, <1>4 DEF Registered, ServerState
  <2>2. Online(t) = Online(s) \cup {c}
    BY <1>1, <1>2, <2>1 DEF Online, ServerState
  <2>3. \A d \in Clients : t.topics[d] \subseteq t.routes[d]
    BY <1>2, <2>1 DEF ServerState, Sound
  <2>4. MapsAgree(t)
    <3>1. s.holder[m.user] = NoClient
      BY <1>4 DEF Accepts
    <3>2. \A d \in Clients : s.online[d] # m.user
      BY <1>1, <3>1, NamesAssumption DEF Sound, MapsAgree
    <3>3. \A d \in Clients, u \in Users : t.online[d] = u => t.holder[u] = d
      BY <1>1, <1>2, <2>1, <3>1, <3>2, NamesAssumption DEF Sound, MapsAgree, ServerState
    <3>4. OneUser(c) => s.online[c] = NoUser
      BY <1>1, <1>2, <3>2, NamesAssumption DEF Sound, MapsAgree, OneUser, Online, ServerState
    <3>5. \A d \in Clients, u \in Users : t.holder[u] = d /\ OneUser(d) => t.online[d] = u
      BY <1>1, <1>2, <2>1, <3>4, NamesAssumption DEF Sound, MapsAgree, ServerState
    <3>6. \A d \in Online(t) : t.online[d] \in UserOf[d]
      BY <1>2, <2>1, <2>2 DEF Sound, MapsAgree, ServerState, Online
    <3> QED BY <3>3, <3>5, <3>6 DEF MapsAgree
  <2>5. Sound(t)
    BY <2>1, <2>2, <2>3, <2>4 DEF Sound
  <2>6. Owners(t) \subseteq Owners(s) \cup {c}
    BY <1>2, <2>1 DEF Owners, ServerState
  <2> QED BY <1>2, <1>4, <2>1, <2>2, <2>5, <2>6 DEF ServerState
<1> QED BY <1>3, <1>4

\* HEARTBEAT, SUBSCRIBE and UNSUBSCRIBE leave the registry alone and give only
\* the sender something to own.
LEMMA HeartBeatenSound ==
    ASSUME NEW s, Sound(s), NEW c \in Clients, NEW m \in Message, m.cmd = "HEARTBEAT"
    PROVE  /\ Sound(HeartBeaten(s, c, m))
           /\ HeartBeaten(s, c, m).online = s.online
           /\ Owners(HeartBeaten(s, c, m)) \subseteq Owners(s) \cup {c}
<1> DEFINE t == HeartBeaten(s, c, m)
           credits == IF m.credit THEN s.credits \cup {c} ELSE s.credits
<1>1. s \in ServerState
  BY DEF Sound
<1>2. credits \in SUBSET Clients /\ credits \subseteq s.credits \cup {c}
  BY <1>1 DEF ServerState
<1>3. t = [s EXCEPT !.expired = @ \ {c}, !.beats = @ \cup {c}, !.credits = credits]
  BY <1>1 DEF HeartBeaten, ServerState
<1> HIDE DEF t, credits
<1>4. /\ t.online = s.online /\ t.holder = s.holder
      /\ t.topics = s.topics /\ t.routes = s.routes
      /\ t.idents = s.idents /\ t.buffers = s.buffers
      /\ t.beats = s.beats \cup {c} /\ t.credits = credits
      /\ t \in ServerState
  BY <1>1, <1>2, <1>3 DEF ServerState
<1>5. Sound(t) /\ Owners(t) \subseteq Owners(s) \cup {c}
  BY <1>2, <1>4 DEF Sound, Owners, Online, MapsAgree
<1> QED BY <1>4, <1>5 DEF t

LEMMA SubscribedSound ==
    ASSUME NEW s, Sound(s), NEW c \in Clients, NEW m \in Message, m.cmd = "SUBSCRIBE"
    PROVE  /\ Sound(Subscribed(s, c, m))
           /\ Subscribed(s, c, m).online = s.online
           /\ Owners(Subscribed(s, c, m)) \subseteq Owners(s) \cup {c}
<1> DEFINE t == Subscribed(s, c, m)
           listed == IF c \in Online(s) THEN s.topics[c] \cup {m.topic} ELSE s.topics[c]
<1>1. s \in ServerState
  BY DEF Sound
<1>2. m.topic \in Patterns
  BY DEF Message
<1>3. listed \subseteq s.routes[c] \cup {m.topic} /\ listed \in SUBSET Patterns
  BY <1>1, <1>2 DEF ServerState, Sound
<1>4. t = [s EXCEPT !.routes[c] = @ \cup {m.topic}, !.topics[c] = listed]
  BY <1>1 DEF Subscribed, ServerState
<1> HIDE DEF t, listed
<1>5. /\ t.online = s.online /\ t.holder = s.holder
      /\ t.routes = [s.routes EXCEPT ![c] = @ \cup {m.topic}]
      /\ t.topics = [s.topics EXCEPT ![c] = listed]
      /\ t.idents = s.idents /\ t.buffers = s.buffers
      /\ t.beats = s.beats /\ t.credits = s.credits
      /\ t \in ServerState
  BY <1>1, <1>2, <1>3, <1>4 DEF ServerState
<1>6. \A d \in Clients : t.topics[d] \subseteq t.routes[d]
  BY <1>1, <1>3, <1>5 DEF Sound, ServerState
<1>7. Owners(t) \subseteq Owners(s) \cup {c}
  BY <1>1, <1>5 DEF Owners, ServerState
<1>8. Sound(t)
  BY <1>5, <1>6 DEF Sound, Online, MapsAgree
<1> QED BY <1>5, <1>7, <1>8 DEF t

LEMMA UnsubscribedSound ==
    ASSUME NEW s, Sound(s), NEW c \in Clients, NEW m \in Message, m.cmd = "UNSUBSCRIBE"
    PROVE  /\ Sound(Unsubscribed(s, c, m))
           /\ Unsubscribed(s, c, m).online = s.online
           /\ Owners(Unsubscribed(s, c, m)) \subseteq Owners(s)
<1> DEFINE t == Unsubscribed(s, c, m)
<1>1. s \in ServerState
  BY DEF Sound
<1>2. t = [s EXCEPT !.routes[c] = @ \ {m.topic}, !.topics[c] = @ \ {m.topic}]
  BY DEF Unsubscribed
<1> HIDE DEF t
<1>3. /\ t.online = s.online /\ t.holder = s.holder
      /\ t.routes = [s.routes EXCEPT ![c] = @ \ {m.topic}]
      /\ t.topics = [s.topics EXCEPT ![c] = @ \ {m.topic}]
      /\ t.idents = s.idents /\ t.buffers = s.buffers
      /\ t.beats = s.beats /\ t.credits = s.credits
      /\ t \in ServerState
  BY <1>1, <1>2 DEF ServerState
<1>4. \A d \in Clients : t.topics[d] \subseteq t.routes[d]
  BY <1>1, <1>3 DEF Sound, ServerState
<1>5. Owners(t) \subseteq Owners(s)
  BY <1>1, <1>3 DEF Owners, ServerState
<1>6. Sound(t)
  BY <1>3, <1>4 DEF Sound, Online, MapsAgree
<1> QED BY <1>3, <1>5, <1>6 DEF t

Dropped(s, known, gone) ==
    [Unregistered(Released(s, known), gone) EXCEPT !.beats = @ \ gone]

\* The clients in gone have left the registry, and those of them that were known
\* own nothing any more.
Left(s, known, gone, t) ==
    /\ Sound(t)
    /\ Online(t) = Online(s) \ gone
    /\ \A d \in Clients \ gone : t.online[d] = s.online[d]
    /\ \A d \in Clients : t.routes[d] = IF d \in known THEN {} ELSE s.routes[d]
    /\ t.credits = s.credits \ known /\ t.buffers = s.buffers \ known
    /\ t.beats = s.beats \ gone

\* DISCONNECT and the sweep keep the server's state sound.
LEMMA GoneSound ==
    ASSUME NEW s, Sound(s), NEW gone \in SUBSET Clients, NEW known \in SUBSET gone,
           gone \cap s.idents \subseteq known
    PROVE  Left(s, known, gone, Dropped(s, known, gone))
<1> DEFINE t == Dropped(s, known, gone)
<1> DEFINE r == Released(s, known)
           n == Unregistered(r, gone)
<1>1. s \in ServerState
  BY DEF Sound
<1>2. s.idents = Online(s) /\ s.buffers \subseteq Online(s)
  BY DEF Sound
<1>3. /\ r \in ServerState
      /\ r.online = s.online /\ r.holder = s.holder /\ r.topics = s.topics
      /\ r.routes = [c \in Clients |-> IF c \in known THEN {} ELSE s.routes[c]]
      /\ r.credits = s.credits \ known /\ r.buffers = s.buffers \ known
      /\ r.idents = s.idents \ known
      /\ r.beats = s.beats
  BY <1>1 DEF Released, ServerState
<1> HIDE DEF r
<1>4. /\ n \in ServerState
      /\ n.online = [c \in Clients |-> IF c \in gone THEN NoUser ELSE r.online[c]]
      /\ n.holder = [u \in Users |-> IF \E c \in gone : r.online[c] = u
                                     THEN NoClient ELSE r.holder[u]]
      /\ n.topics = [c \in Clients |-> IF c \in gone THEN {} ELSE r.topics[c]]
      /\ n.routes = r.routes
      /\ n.credits = r.credits /\ n.buffers = r.buffers /\ n.idents = r.idents
      /\ n.beats = r.beats
  BY <1>3 DEF Unregistered, ServerState
<1>5. t = [n EXCEPT !.beats = @ \ gone]
  BY DEF r, Dropped
<1> HIDE DEF n, t
<1>6. /\ t \in ServerState
      /\ t.online = n.online /\ t.holder = n.holder /\ t.topics = n.topics
      /\ t.routes = n.routes /\ t.credits = n.credits /\ t.buffers = n.buffers
      /\ t.idents = n.idents /\ t.beats = n.beats \ gone
  BY <1>4, <1>5 DEF ServerState
<1>7. Online(t) = Online(s) \ gone
  BY <1>3, <1>4, <1>6 DEF Online
<1>8. \A d \in Clients : t.topics[d] \subseteq t.routes[d]
  BY <1>1, <1>3, <1>4, <1>6 DEF Sound, ServerState
<1>9. MapsAgree(t)
  <2>1. /\ \A d \in Clients, u \in Users : s.online[d] = u => s.holder[u] = d
        /\ \A d \in Clients, u \in Users : s.holder[u] = d /\ OneUser(d) => s.online[d] = u
    BY DEF Sound, MapsAgree
  <2>2. \A d \in Clients, u \in Users : t.online[d] = u => t.holder[u] = d
    BY <2>1, <1>1, <1>3, <1>4, <1>6, NamesAssumption DEF ServerState
  <2>3. \A d \in Clients, u \in Users : t.holder[u] = d /\ OneUser(d) => t.online[d] = u
    BY <2>1, <1>1, <1>3, <1>4, <1>6, NamesAssumption DEF ServerState
  <2>4. \A d \in Online(t) : t.online[d] \in UserOf[d]
    BY <1>3, <1>4, <1>6, <1>7 DEF Sound, MapsAgree, Online
  <2> QED BY <2>2, <2>3, <2>4 DEF MapsAgree
<1>10. t.idents = s.idents \ known /\ t.buffers = s.buffers \ known
  BY <1>3, <1>4, <1>6
<1>11. t.idents = Online(t) /\ t.buffers \subseteq Online(t)
  BY <1>2, <1>7, <1>10
<1>12. Sound(t)
  BY <1>6, <1>8, <1>9, <1>11 DEF Sound
<1>13. \A d \in Clients \ gone : t.online[d] = s.online[d]
  BY <1>3, <1>4, <1>6
<1>14. Left(s, known, gone, t)
  BY <1>3, <1>4, <1>6, <1>7, <1>12, <1>13 DEF Left
<1> QED BY <1>14 DEF t

-----------------------------------------------------------------------------
(* Channels *)

\* What Send does, index by index.
LEMMA SendEffect ==
    ASSUME TypeOK, NEW c \in Clients, NEW m \in Message, Send(c, m)
    PROVE  /\ chan' \in [Clients -> Seq(Message)]
           /\ \A d \in Clients \ {c} : chan'[d] = chan[d]
           /\ Len(chan'[c]) = Len(chan[c]) + 1
           /\ \A i \in 1 .. Len(chan[c]) : chan'[c][i] = chan[c][i]
           /\ chan'[c][Len(chan[c]) + 1] = m
<1>1. chan \in [Clients -> Seq(Message)] /\ chan[c] \in Seq(Message)
  BY DEF TypeOK
<1>2. chan' = [chan EXCEPT ![c] = Append(@, m)]
  BY DEF Send
<1>3. Append(chan[c], m) \in Seq(Message)
  BY <1>1
<1>4. chan'[c] = Append(chan[c], m)
  BY <1>1, <1>2
<1>5. /\ Len(chan'[c]) = Len(chan[c]) + 1
      /\ \A i \in 1 .. Len(chan[c]) : chan'[c][i] = chan[c][i]
      /\ chan'[c][Len(chan[c]) + 1] = m
  BY <1>1, <1>4
<1> QED BY <1>1, <1>2, <1>3, <1>5

\* A message nobody waits for is the same but for the reply.
LEMMA UnheardMessage ==
    ASSUME NEW m \in Message
    PROVE  /\ Unheard(m) \in Message
           /\ Unheard(m).cmd = m.cmd
           /\ m.cmd = "REGISTER" => Unheard(m).user = m.user /\ ~Unheard(m).req
           /\ m.cmd # "REGISTER" => Unheard(m) = m
<1>1. CASE m.cmd = "REGISTER"
  BY <1>1 DEF Message, Unheard
<1>2. CASE m.cmd # "REGISTER"
  BY <1>2 DEF Unheard
<1> QED BY <1>1, <1>2

\* What survives when a connection goes away: no REGISTER that is waited for.
LEMMA CutEffect ==
    ASSUME TypeOK, NEW c \in Clients, Cut(c)
    PROVE  /\ chan' \in [Clients -> Seq(Message)]
           /\ \A d \in Clients \ {c} : chan'[d] = chan[d]
           /\ Len(chan'[c]) <= Len(chan[c])
           /\ \A i \in 1 .. Len(chan'[c]) :
                /\ chan'[c][i].cmd = chan[c][i].cmd
                /\ chan'[c][i].cmd = "REGISTER" =>
                     chan'[c][i].user = chan[c][i].user /\ ~chan'[c][i].req
<1>1. chan \in [Clients -> Seq(Message)] /\ chan[c] \in Seq(Message)
  BY DEF TypeOK
<1>2. \A m \in Message : /\ Unheard(m) \in Message
                         /\ Unheard(m).cmd = m.cmd
                         /\ m.cmd = "REGISTER" =>
                              Unheard(m).user = m.user /\ ~Unheard(m).req
  BY UnheardMessage
<1>3. PICK n \in 0 .. Len(chan[c]) :
        chan' = [chan EXCEPT ![c] = [i \in 1 .. n |-> Unheard(chan[c][i])]]
  BY DEF Cut
<1> DEFINE rest == [i \in 1 .. n |-> Unheard(chan[c][i])]
<1>4. \A i \in 1 .. n : chan[c][i] \in Message
  BY <1>1
<1>5. n \in Nat /\ n <= Len(chan[c])
  BY <1>1
<1>6. rest \in Seq(Message) /\ Len(rest) = n
  BY <1>2, <1>4, <1>5
<1>7. chan'[c] = rest
  BY <1>1, <1>3
<1>8. ASSUME NEW i \in 1 .. n
      PROVE  /\ rest[i].cmd = chan[c][i].cmd
             /\ rest[i].cmd = "REGISTER" => rest[i].user = chan[c][i].user /\ ~rest[i].req
  BY <1>2, <1>4
<1> HIDE DEF rest
<1>9. chan' \in [Clients -> Seq(Message)] /\ \A d \in Clients \ {c} : chan'[d] = chan[d]
  BY <1>1, <1>3, <1>6 DEF rest
<1> QED BY <1>5, <1>6, <1>7, <1>8, <1>9

\* Where the k-th message stood before i + 1 .. j were lost.
Before(i, j, k) == IF k <= i THEN k ELSE k + (j - i)

\* A control connection that breaks alone loses messages i + 1 .. j; the others
\* keep their order, and up to that run nobody hears of them.
Interrupted(c, i, j) ==
    /\ i \in 0 .. Len(chan[c]) /\ j \in 0 .. Len(chan[c]) /\ i <= j
    /\ chan' \in [Clients -> Seq(Message)]
    /\ \A d \in Clients \ {c} : chan'[d] = chan[d] /\ missed'[d] = missed[d]
    /\ Len(chan'[c]) = Len(chan[c]) - (j - i)
    /\ \A k \in 1 .. Len(chan'[c]) :
         /\ Before(i, j, k) \in 1 .. Len(chan[c])
         /\ chan'[c][k] = IF k <= i THEN Unheard(chan[c][k]) ELSE chan[c][Before(i, j, k)]
    /\ missed' \in [Clients -> SUBSET Patterns]
    /\ missed[c] \subseteq missed'[c]
    /\ client[c].phase \in {"restoring", "up"} =>
         \A k \in i + 1 .. j, p \in Patterns : chan[c][k] = Subscribe(p) => p \in missed'[c]

LEMMA InterruptEffect ==
    ASSUME TypeOK, NEW c \in Clients, Interrupt(c)
    PROVE  \E i, j : Interrupted(c, i, j)
<1>1. /\ chan \in [Clients -> Seq(Message)] /\ chan[c] \in Seq(Message)
      /\ Len(chan[c]) \in Nat /\ missed \in [Clients -> SUBSET Patterns]
  BY DEF TypeOK
<1>2. PICK i, j \in 0 .. Len(chan[c]) :
        /\ i <= j
        /\ chan' = [chan EXCEPT ![c] =
                      [k \in 1 .. Len(chan[c]) - (j - i) |->
                         IF k <= i THEN Unheard(chan[c][k]) ELSE chan[c][k + (j - i)]]]
        /\ LET lost == {p \in Patterns : \E k \in i + 1 .. j : chan[c][k] = Subscribe(p)}
           IN missed' = IF client[c].phase \in {"restoring", "up"}
                        THEN [missed EXCEPT ![c] = @ \cup lost] ELSE missed
  BY <1>1 DEF Interrupt
<1> DEFINE n == Len(chan[c]) - (j - i)
           left(k) == IF k <= i THEN Unheard(chan[c][k]) ELSE chan[c][k + (j - i)]
           rest == [k \in 1 .. n |-> left(k)]
<1>3. n \in Nat /\ \A k \in 1 .. n : Before(i, j, k) \in 1 .. Len(chan[c])
  BY <1>1, <1>2 DEF Before
<1>4. \A k \in 1 .. Len(chan[c]) : chan[c][k] \in Message /\ Unheard(chan[c][k]) \in Message
  BY <1>1, UnheardMessage
<1>5. \A k \in 1 .. n : /\ left(k) \in Message
                        /\ left(k) = IF k <= i THEN Unheard(chan[c][k])
                                     ELSE chan[c][Before(i, j, k)]
  BY <1>3, <1>4 DEF Before
<1>7. chan'[c] = rest /\ chan' = [chan EXCEPT ![c] = rest]
  BY <1>1, <1>2
<1> HIDE DEF left
<1>6. rest \in Seq(Message) /\ Len(rest) = n /\ \A k \in 1 .. n : rest[k] = left(k)
  BY <1>3, <1>5
<1> HIDE DEF rest
<1>8. chan' \in [Clients -> Seq(Message)] /\ \A d \in Clients \ {c} : chan'[d] = chan[d]
  BY <1>1, <1>6, <1>7
<1>9. /\ missed' \in [Clients -> SUBSET Patterns]
      /\ missed[c] \subseteq missed'[c]
      /\ \A d \in Clients \ {c} : missed'[d] = missed[d]
      /\ client[c].phase \in {"restoring", "up"} =>
           \A k \in i + 1 .. j, p \in Patterns :
              chan[c][k] = Subscribe(p) => p \in missed'[c]
  <2> DEFINE lost == {p \in Patterns : \E k \in i + 1 .. j : chan[c][k] = Subscribe(p)}
  <2>1. lost \in SUBSET Patterns
    OBVIOUS
  <2>2. \A k \in i + 1 .. j, p \in Patterns : chan[c][k] = Subscribe(p) => p \in lost
    OBVIOUS
  <2>3. missed' = IF client[c].phase \in {"restoring", "up"}
                  THEN [missed EXCEPT ![c] = @ \cup lost] ELSE missed
    BY <1>2
  <2> HIDE DEF lost
  <2>4. CASE client[c].phase \in {"restoring", "up"}
    <3>1. missed' = [missed EXCEPT ![c] = @ \cup lost]
      BY <2>3, <2>4
    <3> QED BY <1>1, <2>1, <2>2, <3>1
  <2>5. CASE client[c].phase \notin {"restoring", "up"}
    BY <1>1, <2>3, <2>5
  <2> QED BY <2>4, <2>5
<1>10. \A k \in 1 .. Len(chan'[c]) :
         /\ Before(i, j, k) \in 1 .. Len(chan[c])
         /\ chan'[c][k] = IF k <= i THEN Unheard(chan[c][k]) ELSE chan[c][Before(i, j, k)]
  BY <1>3, <1>5, <1>6, <1>7
<1>11. Len(chan'[c]) = Len(chan[c]) - (j - i)
  BY <1>6, <1>7
<1>12. Interrupted(c, i, j)
  BY <1>2, <1>8, <1>9, <1>10, <1>11 DEF Interrupted
<1> QED BY <1>12

-----------------------------------------------------------------------------
(* Steps of the clients *)

\* A step of one client is judged by that client's state and channel.
LEMMA Local ==
    ASSUME Inv, NEW c \in Clients, UNCHANGED <<server, evicted>>,
           client' \in [Clients -> ClientState],
           client'[c].phase # "down" => client'[c].user \in UserOf[c],
           chan' \in [Clients -> Seq(Message)],
           missed' \in [Clients -> SUBSET Patterns],
           \A d \in Clients \ {c} : client'[d] = client[d] /\ chan'[d] = chan[d],
           ChanOK(c)', ServedOK(c)'
    PROVE  Inv'
<1>1. TypeOK'
  BY DEF Inv, TypeOK
<1>2. Sound(server)' /\ (Owners(server) \subseteq Known)'
  <2>1. server' = server /\ evicted' = evicted
    OBVIOUS
  <2> QED BY <2>1 DEF Inv, Known
<1>3. ASSUME NEW d \in Clients \ {c} PROVE ChanOK(d)' /\ ServedOK(d)'
  <2>1. chan'[d] = chan[d] /\ client'[d] = client[d] /\ server' = server /\ evicted' = evicted
    OBVIOUS
  <2>2. ChanOK(d) /\ ServedOK(d)
    BY DEF Inv
  <2> QED BY <2>1, <2>2 DEF ChanOK, ServedOK, Served, Known
<1>4. \A d \in Clients : (ChanOK(d) /\ ServedOK(d))'
  BY <1>3
<1> QED BY <1>1, <1>2, <1>4 DEF Inv

\* What the client does has effect on its own state only, and is well typed.
Stays(c) ==
    /\ UNCHANGED <<server, evicted>>
    /\ client' \in [Clients -> ClientState]
    /\ \A d \in Clients \ {c} : client'[d] = client[d]
    /\ client'[c].phase # "down" => client'[c].user \in UserOf[c]
    /\ missed' \in [Clients -> SUBSET Patterns]

\* Nothing is sent, and the client remains as registered as it was.
LEMMA KeepInv ==
    ASSUME Inv, NEW c \in Clients, Stays(c), chan' = chan,
           client'[c].reply = client[c].reply, client'[c].phase = client[c].phase,
           client'[c].user = client[c].user
    PROVE  Inv'
<1>1. ChanOK(c) /\ ServedOK(c) /\ chan \in [Clients -> Seq(Message)]
  BY DEF Inv, TypeOK
<1>2. server' = server /\ evicted' = evicted
  BY DEF Stays
<1>3. ChanOK(c)' /\ ServedOK(c)'
  BY <1>1, <1>2 DEF ChanOK, ServedOK, Served, Known
<1> QED BY <1>1, <1>3, Local DEF Stays

\* A registered client sends something other than REGISTER or DISCONNECT.
LEMMA TalkInv ==
    ASSUME Inv, NEW c \in Clients, Stays(c), NEW m \in Message, Send(c, m),
           m.cmd \notin {"REGISTER", "DISCONNECT"},
           client[c].phase \in {"restoring", "up"},
           client'[c].reply = client[c].reply, client'[c].phase = client[c].phase,
           client'[c].user = client[c].user
    PROVE  Inv'
<1>1. ChanOK(c) /\ ServedOK(c) /\ Served(c) /\ TypeOK
  BY DEF Inv, Served
<1>2. server' = server /\ evicted' = evicted
  BY DEF Stays
<1>3. chan[c] \in Seq(Message) /\ Len(chan[c]) \in Nat
  BY <1>1 DEF TypeOK
<1>4. /\ chan' \in [Clients -> Seq(Message)]
      /\ \A d \in Clients \ {c} : chan'[d] = chan[d]
      /\ Len(chan'[c]) = Len(chan[c]) + 1
      /\ \A i \in 1 .. Len(chan[c]) : chan'[c][i] = chan[c][i]
      /\ chan'[c][Len(chan[c]) + 1] = m
  BY <1>1, SendEffect
<1>5. c \in Known /\ \A i \in 1 .. Len(chan[c]) : chan[c][i].cmd # "DISCONNECT"
  BY <1>1 DEF ServedOK
<1>6. Known' = Known
  BY <1>2 DEF Known
<1>7. ASSUME NEW i \in 1 .. Len(chan'[c])
      PROVE  /\ chan'[c][i].cmd \notin {"REGISTER", "DISCONNECT"}
             /\ \A j \in 1 .. i - 1 : chan'[c][j].cmd # "DISCONNECT"
  <2>1. \A k \in 1 .. Len(chan[c]) : chan[c][k].cmd \notin {"REGISTER", "DISCONNECT"}
    BY <1>1, <1>5 DEF ChanOK
  <2>2. \A k \in 1 .. Len(chan[c]) + 1 : chan'[c][k].cmd \notin {"REGISTER", "DISCONNECT"}
    BY <1>3, <1>4, <2>1
  <2> QED BY <1>3, <1>4, <2>2
<1>8. ChanOK(c)'
  BY <1>5, <1>6, <1>7 DEF ChanOK
<1>9. ServedOK(c)'
  BY <1>1, <1>2, <1>5, <1>6, <1>7 DEF ServedOK, Served
<1> QED BY <1>4, <1>8, <1>9, Local DEF Stays

\* The connection goes away, and the client is down or begins anew.
LEMMA CutInv ==
    ASSUME Inv, NEW c \in Clients, Stays(c), Cut(c),
           client'[c].reply = "none", client'[c].phase \in {"down", "joining"}
    PROVE  Inv'
<1>1. ChanOK(c) /\ ServedOK(c) /\ TypeOK
  BY DEF Inv
<1>2. Known' = Known
  BY DEF Stays, Known
<1>3. chan[c] \in Seq(Message) /\ Len(chan[c]) \in Nat
  BY <1>1 DEF TypeOK
<1>4. /\ chan' \in [Clients -> Seq(Message)]
      /\ \A d \in Clients \ {c} : chan'[d] = chan[d]
      /\ Len(chan'[c]) <= Len(chan[c])
      /\ \A i \in 1 .. Len(chan'[c]) :
           /\ chan'[c][i].cmd = chan[c][i].cmd
           /\ chan'[c][i].cmd = "REGISTER" =>
                chan'[c][i].user = chan[c][i].user /\ ~chan'[c][i].req
  BY <1>1, CutEffect
<1>5. Len(chan'[c]) \in Nat
  BY <1>4
<1>6. ASSUME NEW i \in 1 .. Len(chan'[c])
      PROVE  /\ i \in 1 .. Len(chan[c])
             /\ \A j \in 1 .. i - 1 : j \in 1 .. Len(chan[c]) /\ j \in 1 .. Len(chan'[c])
  BY <1>3, <1>4, <1>5
<1>7. ChanOK(c)'
  <2> SUFFICES ASSUME NEW i \in 1 .. Len(chan'[c])
               PROVE  /\ chan'[c][i].cmd = "REGISTER" =>
                           chan'[c][i].user \in UserOf[c] /\ ~chan'[c][i].req
                      /\ chan'[c][i].cmd \notin {"REGISTER", "DISCONNECT"} =>
                           /\ c \in Known
                           /\ \A j \in 1 .. i - 1 : chan'[c][j].cmd # "DISCONNECT"
    BY <1>2 DEF ChanOK
  <2>1. i \in 1 .. Len(chan[c]) /\ chan'[c][i].cmd = chan[c][i].cmd
    BY <1>4, <1>6
  <2>2. CASE chan[c][i].cmd = "REGISTER"
    BY <1>1, <1>4, <2>1, <2>2 DEF ChanOK
  <2>3. CASE chan[c][i].cmd \notin {"REGISTER", "DISCONNECT"}
    <3>1. c \in Known /\ \A j \in 1 .. i - 1 : chan[c][j].cmd # "DISCONNECT"
      BY <1>1, <2>1, <2>3 DEF ChanOK
    <3> QED BY <1>4, <1>6, <2>1, <2>3, <3>1
  <2> QED BY <2>1, <2>2, <2>3
<1>8. ServedOK(c)'
  BY DEF ServedOK, Served
<1> QED BY <1>4, <1>7, <1>8, Local DEF Stays

\* The messages a client sends are messages.
LEMMA Messages ==
    ASSUME NEW p \in Patterns, NEW b \in BOOLEAN
    PROVE  /\ Subscribe(p) \in Message /\ Subscribe(p).cmd = "SUBSCRIBE"
           /\ Unsubscribe(p) \in Message /\ Unsubscribe(p).cmd = "UNSUBSCRIBE"
           /\ Heartbeat(b) \in Message /\ Heartbeat(b).cmd = "HEARTBEAT"
           /\ Disconnect \in Message /\ Disconnect.cmd = "DISCONNECT"
BY DEF Subscribe, Unsubscribe, Heartbeat, Disconnect, Message

LEMMA DownState == Down \in ClientState /\ Down.phase = "down" /\ Down.reply = "none"
BY DEF Down, ClientState

LEMMA StartInv ==
    ASSUME Inv, NEW c \in Clients, NEW u \in Users, Start(c, u)
    PROVE  Inv'
<1> DEFINE new == [Down EXCEPT !.phase = "joining", !.user = u]
<1>1. TypeOK /\ ChanOK(c) /\ ServedOK(c) /\ client[c].phase = "down"
  BY DEF Inv, Start
<1>2. new \in ClientState /\ new.phase = "joining" /\ new.reply = "none" /\ new.user = u
  BY DEF Down, ClientState
<1>3. /\ client' = [client EXCEPT ![c] = new] /\ u \in UserOf[c]
      /\ UNCHANGED <<server, chan, evicted, missed>>
  BY DEF Start
<1> HIDE DEF new
<1>4. client'[c] = new
  BY <1>1, <1>3 DEF TypeOK
<1>5. ChanOK(c)' /\ ServedOK(c)'
  BY <1>1, <1>2, <1>3, <1>4 DEF ChanOK, ServedOK, Served, Known
<1>6. Stays(c)
  BY <1>1, <1>2, <1>3, <1>4 DEF Stays, TypeOK
<1>7. chan' \in [Clients -> Seq(Message)]
  BY <1>1, <1>3 DEF TypeOK
<1> QED BY <1>3, <1>5, <1>6, <1>7, Local DEF Stays

\* REGISTER goes out: nobody waits for an earlier one.
LEMMA SendRegisterInv ==
    ASSUME Inv, NEW c \in Clients, SendRegister(c)
    PROVE  Inv'
<1> DEFINE m == Register(client[c].user, client[c].subs)
<1>1. TypeOK /\ ChanOK(c) /\ ServedOK(c) /\ client[c].phase = "joining" /\ Send(c, m)
  BY DEF Inv, SendRegister
<1>2. client[c] \in ClientState /\ client[c].user \in UserOf[c] /\ UserOf[c] \subseteq Users
  BY <1>1, NamesAssumption DEF TypeOK
<1>3. m \in Message /\ m.cmd = "REGISTER" /\ m.user = client[c].user
  BY <1>2 DEF Register, Message, ClientState
<1> HIDE DEF m
<1>4. /\ client' = [client EXCEPT ![c].phase = "awaiting"]
      /\ missed' = [missed EXCEPT ![c] = {}]
      /\ UNCHANGED <<server, evicted>>
  BY DEF SendRegister
<1>5. /\ client'[c].phase = "awaiting" /\ client'[c].reply = client[c].reply
      /\ client'[c].user = client[c].user
      /\ client' \in [Clients -> ClientState]
      /\ \A d \in Clients \ {c} : client'[d] = client[d]
  BY <1>1, <1>2, <1>4 DEF TypeOK, ClientState
<1>6. Stays(c)
  BY <1>1, <1>2, <1>4, <1>5 DEF Stays, TypeOK
<1>7. /\ chan' \in [Clients -> Seq(Message)]
      /\ \A d \in Clients \ {c} : chan'[d] = chan[d]
      /\ Len(chan'[c]) = Len(chan[c]) + 1
      /\ \A i \in 1 .. Len(chan[c]) : chan'[c][i] = chan[c][i]
      /\ chan'[c][Len(chan[c]) + 1] = m
  BY <1>1, <1>3, SendEffect
<1>8. Len(chan[c]) \in Nat /\ Known' = Known /\ client[c].reply = "none"
  BY <1>1, <1>4 DEF TypeOK, Known, ServedOK
<1>9. ChanOK(c)'
  <2> SUFFICES ASSUME NEW i \in 1 .. Len(chan'[c])
               PROVE  /\ chan'[c][i].cmd = "REGISTER" =>
                           /\ chan'[c][i].user \in UserOf[c]
                           /\ chan'[c][i].req => /\ i = Len(chan'[c])
                                                 /\ chan'[c][i].user = client'[c].user
                      /\ chan'[c][i].cmd \notin {"REGISTER", "DISCONNECT"} =>
                           /\ c \in Known
                           /\ \A j \in 1 .. i - 1 : chan'[c][j].cmd # "DISCONNECT"
    BY <1>5, <1>8 DEF ChanOK
  <2>1. CASE i = Len(chan[c]) + 1
    BY <1>2, <1>3, <1>5, <1>7, <2>1
  <2>2. CASE i \in 1 .. Len(chan[c])
    <3>1. chan'[c][i] = chan[c][i] /\ \A j \in 1 .. i - 1 : chan'[c][j] = chan[c][j]
      BY <1>7, <1>8, <2>2
    <3> QED BY <1>1, <2>2, <3>1 DEF ChanOK
  <2> QED BY <1>7, <1>8, <2>1, <2>2
<1>10. ServedOK(c)'
  BY <1>5, <1>8 DEF ServedOK, Served
<1> QED BY <1>6, <1>7, <1>9, <1>10, Local DEF Stays

\* The reply was OK, so the channel holds nothing but what follows it.
LEMMA RegisteringInv ==
    ASSUME Inv, NEW c \in Clients, Registering(c)
    PROVE  Inv'
<1>1. TypeOK /\ ChanOK(c) /\ ServedOK(c)
  BY DEF Inv
<1>2. /\ client[c].phase = "awaiting" /\ client[c].reply = "OK"
      /\ client' = [client EXCEPT ![c].phase = "restoring", ![c].todo = client[c].subs,
                                  ![c].reply = "none"]
      /\ UNCHANGED <<server, chan, evicted, missed>>
  BY DEF Registering, Succeeds
<1>3. client[c] \in ClientState /\ client[c].user \in UserOf[c]
  BY <1>1, <1>2 DEF TypeOK
<1>4. /\ client'[c].phase = "restoring" /\ client'[c].reply = "none"
      /\ client'[c].user = client[c].user
      /\ client' \in [Clients -> ClientState]
      /\ \A d \in Clients \ {c} : client'[d] = client[d]
  BY <1>1, <1>2, <1>3 DEF TypeOK, ClientState
<1>5. Stays(c) /\ chan' \in [Clients -> Seq(Message)]
  BY <1>1, <1>2, <1>3, <1>4 DEF Stays, TypeOK
<1>6. ChanOK(c)' /\ ServedOK(c)'
  BY <1>1, <1>2, <1>4 DEF ChanOK, ServedOK, Served, Known
<1> QED BY <1>2, <1>5, <1>6, Local DEF Stays

LEMMA RestoredInv ==
    ASSUME Inv, NEW c \in Clients, Restored(c)
    PROVE  Inv'
<1>1. TypeOK /\ ChanOK(c) /\ ServedOK(c)
  BY DEF Inv
<1>2. /\ client[c].phase = "restoring"
      /\ client' = [client EXCEPT ![c].phase = "up", ![c].first = FALSE]
      /\ UNCHANGED <<server, chan, evicted, missed>>
  BY DEF Restored
<1>3. client[c] \in ClientState /\ client[c].user \in UserOf[c]
  BY <1>1, <1>2 DEF TypeOK
<1>4. /\ client'[c].phase = "up" /\ client'[c].reply = client[c].reply
      /\ client'[c].user = client[c].user
      /\ client' \in [Clients -> ClientState]
      /\ \A d \in Clients \ {c} : client'[d] = client[d]
  BY <1>1, <1>2, <1>3 DEF TypeOK, ClientState
<1>5. Stays(c) /\ chan' \in [Clients -> Seq(Message)]
  BY <1>1, <1>2, <1>3, <1>4 DEF Stays, TypeOK
<1>6. ChanOK(c)' /\ ServedOK(c)'
  BY <1>1, <1>2, <1>4 DEF ChanOK, ServedOK, Served, Known
<1> QED BY <1>2, <1>5, <1>6, Local DEF Stays

LEMMA RegisterFailsInv ==
    ASSUME Inv, NEW c \in Clients, RegisterFails(c)
    PROVE  Inv'
<1>1. TypeOK /\ client[c].phase = "awaiting" /\ Cut(c) /\ UNCHANGED <<server, evicted, missed>>
  BY DEF Inv, RegisterFails
<1>2. client[c] \in ClientState /\ client[c].user \in UserOf[c]
  BY <1>1 DEF TypeOK
<1> DEFINE new == IF client[c].first THEN Down
                  ELSE [client[c] EXCEPT !.phase = "joining", !.reply = "none"]
<1>3. client' = [client EXCEPT ![c] = new]
  BY <1>1 DEF RegisterFails, TypeOK
<1>4. /\ new \in ClientState /\ new.reply = "none" /\ new.phase \in {"down", "joining"}
      /\ new.phase # "down" => new.user = client[c].user
  <2>1. CASE client[c].first
    BY <2>1, DownState
  <2>2. CASE ~client[c].first
    BY <1>2, <2>2 DEF ClientState
  <2> QED BY <2>1, <2>2
<1> HIDE DEF new
<1>5. client'[c] = new /\ Stays(c)
  BY <1>1, <1>2, <1>3, <1>4 DEF Stays, TypeOK
<1> QED BY <1>1, <1>4, <1>5, CutInv

\* What the application and the restoration change of a client: subs and todo.
LEMMA ListsChange ==
    ASSUME TypeOK, NEW c \in Clients, UNCHANGED <<server, evicted>>,
           client[c].phase # "down",
           NEW S \in SUBSET Patterns, NEW T \in SUBSET Patterns,
           client' = [client EXCEPT ![c] = [@ EXCEPT !.subs = S, !.todo = T]],
           missed' \in [Clients -> SUBSET Patterns]
    PROVE  /\ Stays(c)
           /\ client'[c].reply = client[c].reply
           /\ client'[c].phase = client[c].phase
           /\ client'[c].user = client[c].user
<1>1. client[c] \in ClientState /\ client[c].user \in UserOf[c]
  BY DEF TypeOK
<1> DEFINE new == [client[c] EXCEPT !.subs = S, !.todo = T]
<1>2. /\ new \in ClientState /\ new.reply = client[c].reply
      /\ new.phase = client[c].phase /\ new.user = client[c].user
  BY <1>1 DEF ClientState
<1> HIDE DEF new
<1>3. client'[c] = new /\ client' = [client EXCEPT ![c] = new]
  BY DEF new, TypeOK
<1> QED BY <1>1, <1>2, <1>3 DEF Stays, TypeOK

LEMMA RestoreInv ==
    ASSUME Inv, NEW c \in Clients, NEW p \in Patterns, Restore(c, p)
    PROVE  Inv'
<1>1. TypeOK /\ client[c].phase = "restoring" /\ Send(c, Subscribe(p))
  BY DEF Inv, Restore
<1>2. client[c] \in ClientState
  BY <1>1 DEF TypeOK
<1>3. /\ client' = [client EXCEPT ![c] = [@ EXCEPT !.subs = client[c].subs,
                                                  !.todo = client[c].todo \ {p}]]
      /\ client[c].subs \in SUBSET Patterns /\ client[c].todo \ {p} \in SUBSET Patterns
      /\ UNCHANGED <<server, evicted>> /\ missed' \in [Clients -> SUBSET Patterns]
  BY <1>1, <1>2 DEF Restore, TypeOK, ClientState
<1>4. /\ Stays(c) /\ client'[c].reply = client[c].reply
      /\ client'[c].phase = client[c].phase /\ client'[c].user = client[c].user
  BY <1>1, <1>3, ListsChange
<1> QED BY <1>1, <1>4, TalkInv, Messages

LEMMA AppSubscribeInv ==
    ASSUME Inv, NEW c \in Clients, NEW p \in Patterns, AppSubscribe(c, p)
    PROVE  Inv'
<1>1. TypeOK /\ client[c].phase # "down"
  BY DEF Inv, AppSubscribe, Callable
<1>2. client[c] \in ClientState
  BY <1>1 DEF TypeOK
<1>3. missed' \in [Clients -> SUBSET Patterns]
  BY <1>1 DEF AppSubscribe, TypeOK
<1>4. /\ client' = [client EXCEPT ![c] = [@ EXCEPT !.subs = client[c].subs \cup {p},
                                                  !.todo = client[c].todo]]
      /\ client[c].subs \cup {p} \in SUBSET Patterns /\ client[c].todo \in SUBSET Patterns
      /\ UNCHANGED <<server, evicted>>
  BY <1>1, <1>2 DEF AppSubscribe, TypeOK, ClientState
<1>5. /\ Stays(c) /\ client'[c].reply = client[c].reply
      /\ client'[c].phase = client[c].phase /\ client'[c].user = client[c].user
  BY <1>1, <1>3, <1>4, ListsChange
<1>6. CASE client[c].phase = "up"
  <2>1. Send(c, Subscribe(p))
    BY <1>6 DEF AppSubscribe
  <2> QED BY <1>5, <1>6, <2>1, TalkInv, Messages
<1>7. CASE client[c].phase # "up"
  <2>1. chan' = chan
    BY <1>7 DEF AppSubscribe
  <2> QED BY <1>5, <2>1, KeepInv
<1> QED BY <1>6, <1>7

LEMMA AppUnsubscribeInv ==
    ASSUME Inv, NEW c \in Clients, NEW p \in Patterns, AppUnsubscribe(c, p)
    PROVE  Inv'
<1>1. TypeOK /\ client[c].phase # "down"
  BY DEF Inv, AppUnsubscribe, Callable
<1>2. client[c] \in ClientState
  BY <1>1 DEF TypeOK
<1>3. /\ client' = [client EXCEPT ![c] = [@ EXCEPT !.subs = client[c].subs \ {p},
                                                  !.todo = client[c].todo]]
      /\ client[c].subs \ {p} \in SUBSET Patterns /\ client[c].todo \in SUBSET Patterns
      /\ UNCHANGED <<server, evicted>> /\ missed' \in [Clients -> SUBSET Patterns]
  BY <1>1, <1>2 DEF AppUnsubscribe, TypeOK, ClientState
<1>4. /\ Stays(c) /\ client'[c].reply = client[c].reply
      /\ client'[c].phase = client[c].phase /\ client'[c].user = client[c].user
  BY <1>1, <1>3, ListsChange
<1>5. CASE client[c].phase = "up"
  <2>1. Send(c, Unsubscribe(p))
    BY <1>5 DEF AppUnsubscribe
  <2> QED BY <1>4, <1>5, <2>1, TalkInv, Messages
<1>6. CASE client[c].phase # "up"
  <2>1. chan' = chan
    BY <1>6 DEF AppUnsubscribe
  <2> QED BY <1>4, <2>1, KeepInv
<1> QED BY <1>5, <1>6

LEMMA BeatInv ==
    ASSUME Inv, NEW c \in Clients, Beat(c)
    PROVE  Inv'
<1> DEFINE m == Heartbeat(client[c].subs # {})
<1>1. TypeOK /\ client[c].phase = "up" /\ Send(c, m) /\ UNCHANGED <<server, client, evicted, missed>>
  BY DEF Inv, Beat
<1>2. m \in Message /\ m.cmd = "HEARTBEAT"
  BY DEF Heartbeat, Message
<1> HIDE DEF m
<1>3. Stays(c)
  BY <1>1 DEF Stays, TypeOK
<1> QED BY <1>1, <1>2, <1>3, TalkInv

\* What is left of the channel is what was there, with gaps.
LEMMA InterruptInv ==
    ASSUME Inv, NEW c \in Clients, Interrupt(c)
    PROVE  Inv'
<1>1. TypeOK /\ ChanOK(c) /\ ServedOK(c) /\ chan[c] \in Seq(Message)
  BY DEF Inv, TypeOK
<1>2. UNCHANGED <<server, client, evicted>> /\ Known' = Known
  BY DEF Interrupt, Known
<1>0. PICK i, j : Interrupted(c, i, j)
  BY <1>1, InterruptEffect
<1>3. /\ i \in 0 .. Len(chan[c]) /\ j \in 0 .. Len(chan[c]) /\ i <= j
      /\ chan' \in [Clients -> Seq(Message)]
      /\ \A d \in Clients \ {c} : chan'[d] = chan[d]
      /\ Len(chan'[c]) = Len(chan[c]) - (j - i)
      /\ \A k \in 1 .. Len(chan'[c]) :
           /\ Before(i, j, k) \in 1 .. Len(chan[c])
           /\ chan'[c][k] = IF k <= i THEN Unheard(chan[c][k]) ELSE chan[c][Before(i, j, k)]
      /\ missed' \in [Clients -> SUBSET Patterns]
  BY <1>0 DEF Interrupted
<1>4. Len(chan[c]) \in Nat /\ Len(chan'[c]) \in Nat
  BY <1>1, <1>3
<1>5. ASSUME NEW k \in 1 .. Len(chan'[c])
      PROVE  LET n == Before(i, j, k)
             IN /\ n \in 1 .. Len(chan[c])
                /\ chan'[c][k].cmd = chan[c][n].cmd
                /\ chan[c][n].cmd = "REGISTER" => chan'[c][k].user = chan[c][n].user
                /\ chan[c][n].cmd = "REGISTER" /\ chan'[c][k].req => chan[c][n].req /\ k > i
  <2> DEFINE n == Before(i, j, k)
  <2>1. n \in 1 .. Len(chan[c]) /\ chan[c][n] \in Message
    BY <1>1, <1>3
  <2>2. CASE k <= i
    <3>1. n = k /\ chan'[c][k] = Unheard(chan[c][n])
      BY <1>3, <2>2 DEF Before
    <3> QED BY <2>1, <3>1, UnheardMessage
  <2>3. CASE ~(k <= i)
    BY <1>3, <2>1, <2>3
  <2> QED BY <2>2, <2>3
<1>6. ASSUME NEW k \in 1 .. Len(chan'[c])
      PROVE  /\ \A m \in 1 .. k - 1 : /\ m \in 1 .. Len(chan'[c])
                                     /\ Before(i, j, m) \in 1 .. Before(i, j, k) - 1
             /\ k > i /\ Before(i, j, k) = Len(chan[c]) => k = Len(chan'[c])
  <2>1. i \in Nat /\ j \in Nat /\ i <= j /\ Len(chan'[c]) = Len(chan[c]) - (j - i)
    BY <1>3
  <2>2. ASSUME NEW m \in 1 .. k - 1
        PROVE  m \in 1 .. Len(chan'[c]) /\ Before(i, j, m) \in 1 .. Before(i, j, k) - 1
    BY <1>4, <2>1 DEF Before
  <2>3. k > i /\ Before(i, j, k) = Len(chan[c]) => k = Len(chan'[c])
    BY <1>4, <2>1 DEF Before
  <2> QED BY <2>2, <2>3
<1>7. ChanOK(c)'
  <2> SUFFICES ASSUME NEW k \in 1 .. Len(chan'[c])
               PROVE  /\ chan'[c][k].cmd = "REGISTER" =>
                           /\ chan'[c][k].user \in UserOf[c]
                           /\ client[c].reply = "none"
                           /\ client[c].phase \notin {"restoring", "up"}
                           /\ chan'[c][k].req =>
                                /\ client[c].phase = "awaiting"
                                /\ k = Len(chan'[c])
                                /\ chan'[c][k].user = client[c].user
                      /\ chan'[c][k].cmd \notin {"REGISTER", "DISCONNECT"} =>
                           /\ c \in Known
                           /\ \A m \in 1 .. k - 1 : chan'[c][m].cmd # "DISCONNECT"
    BY <1>2 DEF ChanOK
  <2>1. CASE chan'[c][k].cmd = "REGISTER"
    <3> DEFINE n == Before(i, j, k)
    <3>1. /\ n \in 1 .. Len(chan[c]) /\ chan[c][n].cmd = "REGISTER"
          /\ chan'[c][k].user = chan[c][n].user
          /\ chan'[c][k].req => chan[c][n].req /\ k > i
      BY <1>5, <2>1
    <3>2. n = Len(chan[c]) /\ k > i => k = Len(chan'[c])
      BY <1>6
    <3> HIDE DEF n
    <3> QED BY <1>1, <2>1, <3>1, <3>2 DEF ChanOK
  <2>2. CASE chan'[c][k].cmd \notin {"REGISTER", "DISCONNECT"}
    <3>1. /\ c \in Known
          /\ \A m \in 1 .. Before(i, j, k) - 1 : chan[c][m].cmd # "DISCONNECT"
      BY <1>1, <1>5, <2>2 DEF ChanOK
    <3> QED BY <1>5, <1>6, <2>2, <3>1
  <2>3. CASE chan'[c][k].cmd = "DISCONNECT"
    BY <2>3
  <2> QED BY <2>1, <2>2, <2>3
<1>8. ServedOK(c)'
  BY <1>1, <1>2, <1>5 DEF ServedOK, Served
<1> QED BY <1>1, <1>2, <1>3, <1>7, <1>8, Local DEF TypeOK

LEMMA BreakInv ==
    ASSUME Inv, NEW c \in Clients, Break(c)
    PROVE  Inv'
<1>1. /\ TypeOK /\ ServedOK(c) /\ client[c].phase = "up" /\ Cut(c)
      /\ client' = [client EXCEPT ![c].phase = "joining"]
      /\ UNCHANGED <<server, evicted, missed>>
  BY DEF Inv, Break
<1>2. client[c] \in ClientState /\ client[c].user \in UserOf[c] /\ client[c].reply = "none"
  BY <1>1 DEF TypeOK, ServedOK
<1>3. /\ client'[c].phase = "joining" /\ client'[c].reply = "none"
      /\ client'[c].user = client[c].user
      /\ client' \in [Clients -> ClientState]
      /\ \A d \in Clients \ {c} : client'[d] = client[d]
  BY <1>1, <1>2 DEF TypeOK, ClientState
<1>4. Stays(c)
  BY <1>1, <1>2, <1>3 DEF Stays, TypeOK
<1> QED BY <1>1, <1>3, <1>4, CutInv

LEMMA QuitInv ==
    ASSUME Inv, NEW c \in Clients, Quit(c)
    PROVE  Inv'
<1>1. /\ TypeOK /\ Cut(c)
      /\ client' = [client EXCEPT ![c] = Down]
      /\ missed' = [missed EXCEPT ![c] = {}]
      /\ UNCHANGED <<server, evicted>>
  BY DEF Inv, Quit
<1>2. client'[c] = Down /\ Stays(c)
  BY <1>1, DownState DEF Stays, TypeOK
<1> QED BY <1>1, <1>2, DownState, CutInv

\* DISCONNECT is the last message of a registered connection.
LEMMA StopInv ==
    ASSUME Inv, NEW c \in Clients, Stop(c)
    PROVE  Inv'
<1>1. /\ TypeOK /\ ChanOK(c) /\ ServedOK(c)
      /\ client[c].phase \in {"restoring", "up"} /\ Send(c, Disconnect)
      /\ client' = [client EXCEPT ![c] = Down]
      /\ missed' = [missed EXCEPT ![c] = {}]
      /\ UNCHANGED <<server, evicted>>
  BY DEF Inv, Stop
<1>2. client'[c] = Down /\ Stays(c)
  BY <1>1, DownState DEF Stays, TypeOK
<1>3. Disconnect \in Message /\ Disconnect.cmd = "DISCONNECT"
  BY DEF Disconnect, Message
<1>4. /\ chan' \in [Clients -> Seq(Message)]
      /\ \A d \in Clients \ {c} : chan'[d] = chan[d]
      /\ Len(chan'[c]) = Len(chan[c]) + 1
      /\ \A i \in 1 .. Len(chan[c]) : chan'[c][i] = chan[c][i]
      /\ chan'[c][Len(chan[c]) + 1] = Disconnect
  BY <1>1, <1>3, SendEffect
<1>5. Len(chan[c]) \in Nat /\ Known' = Known
  BY <1>1 DEF TypeOK, Known
<1>6. ChanOK(c)'
  <2> SUFFICES ASSUME NEW i \in 1 .. Len(chan'[c])
               PROVE  /\ chan'[c][i].cmd # "REGISTER"
                      /\ chan'[c][i].cmd \notin {"REGISTER", "DISCONNECT"} =>
                           /\ c \in Known
                           /\ \A j \in 1 .. i - 1 : chan'[c][j].cmd # "DISCONNECT"
    BY <1>5 DEF ChanOK
  <2>1. CASE i = Len(chan[c]) + 1
    BY <1>3, <1>4, <2>1
  <2>2. CASE i \in 1 .. Len(chan[c])
    <3>1. chan'[c][i] = chan[c][i] /\ \A j \in 1 .. i - 1 : chan'[c][j] = chan[c][j]
      BY <1>4, <1>5, <2>2
    <3>2. chan[c][i].cmd # "REGISTER"
      BY <1>1, <2>2 DEF ChanOK
    <3>3. chan[c][i].cmd \notin {"REGISTER", "DISCONNECT"} =>
            c \in Known /\ \A j \in 1 .. i - 1 : chan[c][j].cmd # "DISCONNECT"
      BY <1>1, <2>2 DEF ChanOK
    <3> QED BY <3>1, <3>2, <3>3
  <2>3. i = Len(chan[c]) + 1 \/ i \in 1 .. Len(chan[c])
    BY <1>4, <1>5
  <2> QED BY <2>1, <2>2, <2>3
<1>7. ServedOK(c)'
  BY <1>2, DownState DEF ServedOK, Served
<1> QED BY <1>2, <1>4, <1>6, <1>7, Local DEF Stays

-----------------------------------------------------------------------------
(* Steps of the server *)

\* Handling a message shortens the channel by its head; the client hears of it
\* only as the reply to the REGISTER it waits for.
LEMMA HandleEffect ==
    ASSUME Inv, NEW c \in Clients, Handle(c)
    PROVE  LET m == chan[c][1]
               heard == m.cmd = "REGISTER" /\ m.req /\ client[c].phase = "awaiting"
               ok == m.cmd = "REGISTER" /\ Accepts(server, m)
           IN /\ m \in Message /\ Len(chan[c]) \in Nat \ {0}
              /\ server' = Handled(server, c, m)
              /\ evicted' = IF ok \/ m.cmd = "DISCONNECT" THEN evicted \ {c} ELSE evicted
              /\ missed' = missed
              /\ chan' \in [Clients -> Seq(Message)]
              /\ Len(chan'[c]) = Len(chan[c]) - 1
              /\ \A i \in 1 .. Len(chan'[c]) : chan'[c][i] = chan[c][i + 1]
              /\ \A d \in Clients \ {c} : chan'[d] = chan[d] /\ client'[d] = client[d]
              /\ client' \in [Clients -> ClientState]
              /\ client'[c].phase = client[c].phase /\ client'[c].user = client[c].user
              /\ client'[c].reply = IF heard THEN (IF ok THEN "OK" ELSE "ALREADY_ONLINE")
                                    ELSE client[c].reply
<1> DEFINE m == chan[c][1]
           heard == m.cmd = "REGISTER" /\ m.req /\ client[c].phase = "awaiting"
           ok == m.cmd = "REGISTER" /\ Accepts(server, m)
           answer == IF ok THEN "OK" ELSE "ALREADY_ONLINE"
<1>1. TypeOK /\ chan \in [Clients -> Seq(Message)] /\ client[c] \in ClientState
  BY DEF Inv, TypeOK
<1>2. chan[c] \in Seq(Message) /\ chan[c] # <<>> /\ chan' = [chan EXCEPT ![c] = Tail(@)]
  BY <1>1 DEF Handle
<1>3. Len(chan[c]) \in Nat \ {0} /\ m \in Message /\ Head(chan[c]) = m
  BY <1>2
<1>4. /\ Tail(chan[c]) \in Seq(Message) /\ Len(Tail(chan[c])) = Len(chan[c]) - 1
      /\ \A i \in 1 .. Len(chan[c]) - 1 : Tail(chan[c])[i] = chan[c][i + 1]
  BY <1>2
<1>5. /\ chan' \in [Clients -> Seq(Message)] /\ chan'[c] = Tail(chan[c])
      /\ \A d \in Clients \ {c} : chan'[d] = chan[d]
  BY <1>1, <1>2, <1>4
<1>6. /\ server' = Handled(server, c, m)
      /\ client' = IF heard THEN [client EXCEPT ![c].reply = answer] ELSE client
      /\ evicted' = IF ok \/ m.cmd = "DISCONNECT" THEN evicted \ {c} ELSE evicted
      /\ missed' = missed
  BY <1>3 DEF Handle
<1>7. answer \in {"OK", "ALREADY_ONLINE"}
  OBVIOUS
<1> HIDE DEF m, heard, ok, answer
<1>8. /\ client' \in [Clients -> ClientState]
      /\ \A d \in Clients \ {c} : client'[d] = client[d]
      /\ client'[c].phase = client[c].phase /\ client'[c].user = client[c].user
      /\ client'[c].reply = IF heard THEN answer ELSE client[c].reply
  <2>1. CASE heard
    BY <1>1, <1>6, <1>7, <2>1 DEF TypeOK, ClientState
  <2>2. CASE ~heard
    BY <1>1, <1>6, <2>2 DEF TypeOK
  <2> QED BY <2>1, <2>2
<1> QED BY <1>3, <1>4, <1>5, <1>6, <1>8 DEF m, heard, ok, answer

\* The other clients' channels, states and registrations are as before.
LEMMA HandleLocal ==
    ASSUME Inv, NEW c \in Clients, Handle(c),
           Sound(server'),
           \A d \in Clients \ {c} : server'.online[d] = server.online[d],
           Owners(server') \subseteq Known',
           ChanOK(c)', ServedOK(c)'
    PROVE  Inv'
<1>1. /\ evicted' \in SUBSET Clients
      /\ \A d \in Clients \ {c} : d \in evicted' <=> d \in evicted
  BY HandleEffect DEF Inv, TypeOK
<1>2. TypeOK'
  <2>1. client' \in [Clients -> ClientState] /\ chan' \in [Clients -> Seq(Message)]
    BY HandleEffect
  <2>2. \A d \in Clients : client'[d].phase = client[d].phase /\ client'[d].user = client[d].user
    BY HandleEffect
  <2>3. missed' = missed
    BY HandleEffect
  <2> QED BY <1>1, <2>1, <2>2, <2>3 DEF Inv, TypeOK, Sound
<1>3. ASSUME NEW d \in Clients \ {c} PROVE ChanOK(d)' /\ ServedOK(d)'
  <2>1. chan'[d] = chan[d] /\ client'[d] = client[d]
    BY HandleEffect
  <2>2. d \in Known' <=> d \in Known
    BY <1>1 DEF Known, Online
  <2>3. ChanOK(d) /\ ServedOK(d)
    BY DEF Inv
  <2>4. ChanOK(d)'
    BY <2>1, <2>2, <2>3 DEF ChanOK
  <2>5. ServedOK(d)'
    BY <1>1, <2>1, <2>2, <2>3 DEF ServedOK, Served
  <2> QED BY <2>4, <2>5
<1>4. \A d \in Clients : (ChanOK(d) /\ ServedOK(d))'
  BY <1>3
<1> QED BY <1>2, <1>4 DEF Inv

LEMMA HandleInv ==
    ASSUME Inv, NEW c \in Clients, Handle(c)
    PROVE  Inv'
<1> DEFINE m == chan[c][1]
           ok == m.cmd = "REGISTER" /\ Accepts(server, m)
           heard == m.cmd = "REGISTER" /\ m.req /\ client[c].phase = "awaiting"
<1>1. /\ Sound(server) /\ Owners(server) \subseteq Known /\ ChanOK(c) /\ ServedOK(c)
      /\ m \in Message /\ evicted \in SUBSET Clients
  BY HandleEffect DEF Inv, TypeOK
<1>2. /\ Len(chan[c]) \in Nat \ {0} /\ Len(chan'[c]) = Len(chan[c]) - 1
      /\ \A i \in 1 .. Len(chan'[c]) : chan'[c][i] = chan[c][i + 1]
      /\ server' = Handled(server, c, m)
      /\ evicted' = IF ok \/ m.cmd = "DISCONNECT" THEN evicted \ {c} ELSE evicted
      /\ client'[c].phase = client[c].phase /\ client'[c].user = client[c].user
      /\ client'[c].reply = IF heard THEN (IF ok THEN "OK" ELSE "ALREADY_ONLINE")
                            ELSE client[c].reply
  BY HandleEffect
<1> HIDE DEF m, ok, heard
<1>3. /\ 1 \in 1 .. Len(chan[c])
      /\ \A i \in 1 .. Len(chan'[c]) :
           /\ i + 1 \in 1 .. Len(chan[c]) /\ i + 1 # 1
           /\ \A j \in 1 .. i - 1 : j + 1 \in 1 .. i /\ j \in 1 .. Len(chan'[c])
           /\ 1 \in 1 .. (i + 1) - 1
  BY <1>2
<1>4. CASE m.cmd = "REGISTER"
  <2>1. server' = Registered(server, c, m)
    BY <1>2, <1>4 DEF Handled
  <2>2. /\ m.user \in UserOf[c] /\ client[c].reply = "none"
        /\ client[c].phase \notin {"restoring", "up"}
        /\ m.req => 1 = Len(chan[c]) /\ m.user = client[c].user
    BY <1>1, <1>3, <1>4 DEF ChanOK, m
  <2>3. /\ Sound(server')
        /\ ~ok => server' = server
        /\ ok => Online(server') = Online(server) \cup {c} /\ server'.online[c] = m.user
        /\ \A d \in Clients \ {c} : server'.online[d] = server.online[d]
        /\ Owners(server') \subseteq Owners(server) \cup {c}
    BY <1>1, <1>4, <2>1, <2>2, RegisteredSound DEF ok
  <2>4. evicted' = IF ok THEN evicted \ {c} ELSE evicted
    BY <1>2, <1>4
  <2>5. Known' = IF ok THEN Known \cup {c} ELSE Known
    BY <2>3, <2>4 DEF Known
  <2>6. Owners(server') \subseteq Known'
    <3>1. CASE ok
      BY <1>1, <2>3, <2>5, <3>1
    <3>2. CASE ~ok
      BY <1>1, <2>3, <2>5, <3>2
    <3> QED BY <3>1, <3>2
  <2>7. ChanOK(c)'
    <3> SUFFICES ASSUME NEW i \in 1 .. Len(chan'[c])
                 PROVE  /\ chan'[c][i].cmd = "REGISTER" =>
                             /\ chan'[c][i].user \in UserOf[c]
                             /\ client'[c].reply = "none"
                             /\ client'[c].phase \notin {"restoring", "up"}
                             /\ chan'[c][i].req =>
                                  /\ client'[c].phase = "awaiting"
                                  /\ i = Len(chan'[c])
                                  /\ chan'[c][i].user = client'[c].user
                        /\ chan'[c][i].cmd \notin {"REGISTER", "DISCONNECT"} =>
                             /\ c \in Known'
                             /\ \A j \in 1 .. i - 1 : chan'[c][j].cmd # "DISCONNECT"
      BY DEF ChanOK
    <3>1. chan'[c][i] = chan[c][i + 1] /\ i + 1 \in 1 .. Len(chan[c]) /\ Len(chan[c]) # 1
      BY <1>2, <1>3
    <3>2. ~heard
      BY <2>2, <3>1 DEF heard
    <3>3. client'[c].reply = client[c].reply
      BY <1>2, <3>2
    <3>4. ASSUME chan'[c][i].cmd = "REGISTER"
          PROVE  /\ chan'[c][i].user \in UserOf[c]
                 /\ chan'[c][i].req => /\ client'[c].phase = "awaiting"
                                       /\ i = Len(chan'[c])
                                       /\ chan'[c][i].user = client'[c].user
      BY <1>1, <1>2, <3>1, <3>4 DEF ChanOK
    <3>5. ASSUME chan'[c][i].cmd \notin {"REGISTER", "DISCONNECT"}
          PROVE  c \in Known' /\ \A j \in 1 .. i - 1 : chan'[c][j].cmd # "DISCONNECT"
      <4>1. c \in Known /\ \A j \in 1 .. (i + 1) - 1 : chan[c][j].cmd # "DISCONNECT"
        BY <1>1, <3>1, <3>5 DEF ChanOK
      <4>2. i \in Nat /\ i <= Len(chan'[c]) /\ Len(chan'[c]) \in Nat
        BY <1>2
      <4>3. \A j \in 1 .. i - 1 : j \in 1 .. Len(chan'[c]) /\ j + 1 \in 1 .. (i + 1) - 1
        BY <4>2
      <4>4. \A j \in 1 .. i - 1 : chan'[c][j] = chan[c][j + 1]
        BY <1>2, <4>3
      <4> QED BY <2>5, <4>1, <4>3, <4>4
    <3> QED BY <1>2, <2>2, <3>3, <3>4, <3>5
  <2>8. ServedOK(c)'
    <3>1. client'[c].reply # "none" => client'[c].phase = "awaiting"
      BY <1>2, <2>2 DEF heard
    <3>2. ASSUME Served(c)'
          PROVE  /\ c \in Known'
                 /\ \A i \in 1 .. Len(chan'[c]) : chan'[c][i].cmd # "DISCONNECT"
                 /\ server'.online[c] = client'[c].user
      <4>1. heard /\ ok
        BY <1>2, <2>2, <3>2 DEF Served
      <4>2. Len(chan'[c]) = 0 /\ m.user = client[c].user
        BY <1>2, <2>2, <4>1 DEF heard
      <4> QED BY <1>2, <2>3, <2>5, <4>1, <4>2
    <3> QED BY <3>1, <3>2 DEF ServedOK
  <2> QED BY <2>3, <2>6, <2>7, <2>8, HandleLocal
<1>5. CASE m.cmd \in {"HEARTBEAT", "SUBSCRIBE", "UNSUBSCRIBE"}
  <2>1. /\ Sound(server') /\ server'.online = server.online
        /\ Owners(server') \subseteq Owners(server) \cup {c}
    <3>1. CASE m.cmd = "HEARTBEAT"
      <4>1. server' = HeartBeaten(server, c, m)
        BY <1>2, <3>1 DEF Handled
      <4> QED BY <1>1, <3>1, <4>1, HeartBeatenSound
    <3>2. CASE m.cmd = "SUBSCRIBE"
      <4>1. server' = Subscribed(server, c, m)
        BY <1>2, <3>2 DEF Handled
      <4> QED BY <1>1, <3>2, <4>1, SubscribedSound
    <3>3. CASE m.cmd = "UNSUBSCRIBE"
      <4>1. server' = Unsubscribed(server, c, m)
        BY <1>2, <3>3 DEF Handled
      <4>2. Owners(server') \subseteq Owners(server) /\ Sound(server') /\ server'.online = server.online
        BY <1>1, <3>3, <4>1, UnsubscribedSound
      <4> QED BY <4>2
    <3> QED BY <1>5, <3>1, <3>2, <3>3
  <2>2. ~ok /\ ~heard /\ evicted' = evicted /\ client'[c].reply = client[c].reply
    BY <1>2, <1>5 DEF ok, heard
  <2>3. Known' = Known
    BY <2>1, <2>2 DEF Known, Online
  <2>4. c \in Known
    BY <1>1, <1>3, <1>5 DEF ChanOK, m
  <2>5. Owners(server') \subseteq Known'
    BY <1>1, <2>1, <2>3, <2>4
  <2>6. ChanOK(c)'
    <3> SUFFICES ASSUME NEW i \in 1 .. Len(chan'[c])
                 PROVE  /\ chan'[c][i].cmd = "REGISTER" =>
                             /\ chan'[c][i].user \in UserOf[c]
                             /\ client[c].reply = "none"
                             /\ client[c].phase \notin {"restoring", "up"}
                             /\ chan'[c][i].req =>
                                  /\ client[c].phase = "awaiting"
                                  /\ i = Len(chan'[c])
                                  /\ chan'[c][i].user = client[c].user
                        /\ chan'[c][i].cmd \notin {"REGISTER", "DISCONNECT"} =>
                             \A j \in 1 .. i - 1 : chan'[c][j].cmd # "DISCONNECT"
      BY <1>2, <2>2, <2>3, <2>4 DEF ChanOK
    <3>1. chan'[c][i] = chan[c][i + 1] /\ i + 1 \in 1 .. Len(chan[c])
      BY <1>2, <1>3
    <3>2. ASSUME chan'[c][i].cmd = "REGISTER"
          PROVE  /\ chan'[c][i].user \in UserOf[c]
                 /\ client[c].reply = "none"
                 /\ client[c].phase \notin {"restoring", "up"}
                 /\ chan'[c][i].req => /\ client[c].phase = "awaiting"
                                       /\ i = Len(chan'[c])
                                       /\ chan'[c][i].user = client[c].user
      BY <1>1, <1>2, <3>1, <3>2 DEF ChanOK
    <3>3. ASSUME chan'[c][i].cmd \notin {"REGISTER", "DISCONNECT"}
          PROVE  \A j \in 1 .. i - 1 : chan'[c][j].cmd # "DISCONNECT"
      <4>1. \A j \in 1 .. (i + 1) - 1 : chan[c][j].cmd # "DISCONNECT"
        BY <1>1, <3>1, <3>3 DEF ChanOK
      <4>2. i \in Nat /\ i <= Len(chan'[c]) /\ Len(chan'[c]) \in Nat
        BY <1>2
      <4>3. \A j \in 1 .. i - 1 : j \in 1 .. Len(chan'[c]) /\ j + 1 \in 1 .. (i + 1) - 1
        BY <4>2
      <4>4. \A j \in 1 .. i - 1 : chan'[c][j] = chan[c][j + 1]
        BY <1>2, <4>3
      <4> QED BY <4>1, <4>3, <4>4
    <3> QED BY <3>2, <3>3
  <2>7. ServedOK(c)'
    <3>1. \A i \in 1 .. Len(chan'[c]) : chan'[c][i] = chan[c][i + 1] /\ i + 1 \in 1 .. Len(chan[c])
      BY <1>2, <1>3
    <3>2. Served(c) => \A i \in 1 .. Len(chan'[c]) : chan'[c][i].cmd # "DISCONNECT"
      BY <1>1, <3>1 DEF ServedOK
    <3> QED BY <1>1, <1>2, <2>1, <2>2, <2>3, <3>2 DEF ServedOK, Served
  <2> QED BY <2>1, <2>5, <2>6, <2>7, HandleLocal
<1>6. CASE m.cmd = "DISCONNECT"
  <2>1. server' = Disconnected(server, c)
    BY <1>2, <1>6 DEF Handled
  <2>2. Left(server, {c}, {c}, server')
    <3>1. /\ {c} \in SUBSET Clients /\ {c} \in SUBSET {c}
          /\ {c} \cap server.idents \subseteq {c}
      OBVIOUS
    <3>2. server' = Dropped(server, {c}, {c})
      BY <2>1 DEF Disconnected, Dropped
    <3> QED BY <1>1, <3>1, <3>2, GoneSound
  <2>3. Owners(server') \subseteq Owners(server) \ {c}
    BY <2>2 DEF Owners, Left
  <2>4. ~ok /\ ~heard /\ evicted' = evicted \ {c} /\ client'[c].reply = client[c].reply
    BY <1>2, <1>6 DEF ok, heard
  <2>5. Known' = Known \ {c}
    BY <2>2, <2>4 DEF Known, Left
  <2>6. Owners(server') \subseteq Known'
    BY <1>1, <2>3, <2>5
  <2>7. ~Served(c)
    BY <1>1, <1>3, <1>6 DEF ServedOK, m
  <2>8. ServedOK(c)'
    BY <1>1, <1>2, <2>4, <2>7 DEF ServedOK, Served
  <2>9. ChanOK(c)'
    <3> SUFFICES ASSUME NEW i \in 1 .. Len(chan'[c])
                 PROVE  /\ chan'[c][i].cmd = "REGISTER" =>
                             /\ chan'[c][i].user \in UserOf[c]
                             /\ client[c].reply = "none"
                             /\ client[c].phase \notin {"restoring", "up"}
                             /\ chan'[c][i].req =>
                                  /\ client[c].phase = "awaiting"
                                  /\ i = Len(chan'[c])
                                  /\ chan'[c][i].user = client[c].user
                        /\ chan'[c][i].cmd \in {"REGISTER", "DISCONNECT"}
      BY <1>2, <2>4 DEF ChanOK
    <3>1. chan'[c][i] = chan[c][i + 1] /\ i + 1 \in 1 .. Len(chan[c])
      BY <1>2, <1>3
    <3>2. ASSUME chan'[c][i].cmd = "REGISTER"
          PROVE  /\ chan'[c][i].user \in UserOf[c]
                 /\ client[c].reply = "none"
                 /\ client[c].phase \notin {"restoring", "up"}
                 /\ chan'[c][i].req => /\ client[c].phase = "awaiting"
                                       /\ i = Len(chan'[c])
                                       /\ chan'[c][i].user = client[c].user
      BY <1>1, <1>2, <3>1, <3>2 DEF ChanOK
    <3>3. chan'[c][i].cmd \in {"REGISTER", "DISCONNECT"}
      BY <1>1, <1>3, <1>6, <3>1 DEF ChanOK, m
    <3> QED BY <3>2, <3>3
  <2>10. Sound(server') /\ \A d \in Clients \ {c} : server'.online[d] = server.online[d]
    BY <2>2 DEF Left
  <2> QED BY <2>6, <2>8, <2>9, <2>10, HandleLocal
<1>7. m.cmd \in {"REGISTER", "HEARTBEAT", "SUBSCRIBE", "UNSUBSCRIBE", "DISCONNECT"}
  BY <1>1 DEF Message
<1> QED BY <1>4, <1>5, <1>6, <1>7

LEMMA ExpireInv ==
    ASSUME Inv, NEW c \in Clients, Expire(c)
    PROVE  Inv'
<1>1. /\ Sound(server) /\ server \in ServerState
      /\ server' = [server EXCEPT !.expired = @ \cup {c}]
      /\ UNCHANGED <<client, chan, evicted, missed>>
  BY DEF Inv, Sound, Expire
<1>2. /\ server' \in ServerState
      /\ server'.online = server.online /\ server'.holder = server.holder
      /\ server'.topics = server.topics /\ server'.routes = server.routes
      /\ server'.idents = server.idents /\ server'.buffers = server.buffers
      /\ server'.credits = server.credits /\ server'.beats = server.beats
  BY <1>1 DEF ServerState
<1>3. Online(server') = Online(server) /\ Owners(server') = Owners(server)
  BY <1>2 DEF Online, Owners
<1>7. MapsAgree(server')
  BY <1>1, <1>2, <1>3 DEF Sound, MapsAgree
<1>4. Sound(server') /\ Known' = Known
  BY <1>1, <1>2, <1>3, <1>7 DEF Sound, Known
<1>5. TypeOK'
  BY <1>1, <1>2 DEF Inv, TypeOK
<1>6. ASSUME NEW d \in Clients PROVE (ChanOK(d) /\ ServedOK(d))'
  BY <1>1, <1>2, <1>4 DEF Inv, ChanOK, ServedOK, Served
<1> QED BY <1>3, <1>4, <1>5, <1>6 DEF Inv

\* The sweep moves clients from the registry to evicted.
LEMMA SweepInv ==
    ASSUME Inv, Sweep
    PROVE  Inv'
<1> DEFINE gone == server.expired \cap Online(server)
<1>1. /\ Sound(server) /\ server' = Swept(server)
      /\ evicted' = evicted \cup gone /\ evicted \in SUBSET Clients
      /\ UNCHANGED <<client, chan, missed>>
  BY DEF Inv, TypeOK, Sweep
<1>2. server' = Dropped(server, gone \cap server.idents, gone)
  BY <1>1 DEF Swept, Dropped
<1>3. gone \in SUBSET Clients /\ gone \cap server.idents \in SUBSET gone
  BY DEF Online
<1> HIDE DEF gone
<1>4. Left(server, gone \cap server.idents, gone, server')
  <2>1. gone \cap server.idents \subseteq gone \cap server.idents
    OBVIOUS
  <2> QED BY <1>1, <1>2, <1>3, <2>1, GoneSound
<1>5. Owners(server') \subseteq Owners(server)
  BY <1>4 DEF Owners, Left
<1>6. Known' = Known
  <2>1. gone \subseteq Online(server)
    BY DEF gone
  <2> QED BY <1>1, <1>4, <2>1 DEF Known, Left
<1>7. TypeOK'
  BY <1>1, <1>3, <1>4 DEF Inv, TypeOK, Sound, Left
<1>8. ASSUME NEW d \in Clients PROVE (ChanOK(d) /\ ServedOK(d))'
  <2>1. ChanOK(d) /\ ServedOK(d)
    BY DEF Inv
  <2>2. d \notin evicted' => d \notin evicted /\ server'.online[d] = server.online[d]
    BY <1>1, <1>4 DEF Left
  <2>3. ChanOK(d)'
    BY <1>1, <1>6, <2>1 DEF ChanOK
  <2>4. ServedOK(d)'
    BY <1>1, <1>6, <2>1, <2>2 DEF ServedOK, Served
  <2> QED BY <2>3, <2>4
<1> QED BY <1>4, <1>5, <1>6, <1>7, <1>8 DEF Inv, Left

LEMMA EmptySound == Sound(EmptyServer) /\ Online(EmptyServer) = {} /\ Owners(EmptyServer) = {}
<1> DEFINE s == EmptyServer
<1>1. /\ s.online = [c \in Clients |-> NoUser] /\ s.holder = [u \in Users |-> NoClient]
      /\ s.topics = [c \in Clients |-> {}] /\ s.routes = [c \in Clients |-> {}]
      /\ s.idents = {} /\ s.credits = {} /\ s.buffers = {} /\ s.beats = {}
      /\ s \in ServerState
  BY DEF EmptyServer, ServerState
<1> HIDE DEF s
<1>2. Online(s) = {} /\ Owners(s) = {}
  BY <1>1 DEF Online, Owners
<1>3. MapsAgree(s)
  BY <1>1, <1>2, NamesAssumption DEF MapsAgree
<1> QED BY <1>1, <1>2, <1>3 DEF Sound, s

\* Everything the server kept was known, and everybody known stays so.
LEMMA RestartInv ==
    ASSUME Inv, Restart
    PROVE  Inv'
<1>1. /\ TypeOK /\ server' = EmptyServer
      /\ client' = [c \in Clients |-> IF client[c].phase = "up"
                                      THEN [client[c] EXCEPT !.phase = "joining"] ELSE client[c]]
      /\ chan' = chan
      /\ evicted' = evicted \cup Online(server) /\ missed' = missed
  BY DEF Inv, Restart
<1>2. Sound(server') /\ Online(server') = {} /\ Owners(server') = {}
  BY <1>1, EmptySound
<1>3. Known' = Known
  BY <1>1, <1>2 DEF Known
<1>4. ASSUME NEW c \in Clients
      PROVE  /\ client'[c] \in ClientState
             /\ client'[c].user = client[c].user /\ client'[c].reply = client[c].reply
             /\ client'[c].phase = IF client[c].phase = "up" THEN "joining" ELSE client[c].phase
  <2>1. client[c] \in ClientState
    BY <1>1 DEF TypeOK
  <2>2. CASE client[c].phase = "up"
    BY <1>1, <2>1, <2>2 DEF ClientState
  <2>3. CASE client[c].phase # "up"
    BY <1>1, <2>1, <2>3
  <2> QED BY <2>2, <2>3
<1>5. TypeOK'
  <2>1. client' \in [Clients -> ClientState] /\ chan' \in [Clients -> Seq(Message)]
    BY <1>1, <1>4 DEF TypeOK
  <2>2. \A c \in Clients : client'[c].phase # "down" => client'[c].user \in UserOf[c]
    BY <1>1, <1>4 DEF TypeOK
  <2>3. evicted' \in SUBSET Clients
    BY <1>1 DEF TypeOK, Online
  <2> QED BY <1>1, <1>2, <2>1, <2>2, <2>3 DEF TypeOK, Sound
<1>6. ASSUME NEW c \in Clients PROVE (ChanOK(c) /\ ServedOK(c))'
  <2>1. chan' = chan
    BY <1>1
  <2>2. ChanOK(c) /\ ServedOK(c)
    BY DEF Inv
  <2>3. c \in Known' /\ c \notin Online(server') => c \in evicted'
    BY DEF Known
  <2>4. ChanOK(c)'
    BY <1>3, <1>4, <2>1, <2>2 DEF ChanOK
  <2>5. ServedOK(c)'
    <3>1. client'[c].reply # "none" => client'[c].phase = "awaiting"
      BY <1>4, <2>2 DEF ServedOK
    <3>2. Served(c)' => Served(c)
      BY <1>4 DEF Served
    <3> QED BY <1>2, <1>3, <2>1, <2>2, <2>3, <3>1, <3>2 DEF ServedOK
  <2> QED BY <2>4, <2>5
<1> QED BY <1>2, <1>3, <1>5, <1>6 DEF Inv

-----------------------------------------------------------------------------
(* The invariant, and what follows from it *)

LEMMA InitInv == Init => Inv
<1> SUFFICES ASSUME Init PROVE Inv
  OBVIOUS
<1>1. /\ server = EmptyServer /\ evicted = {}
      /\ client = [c \in Clients |-> Down] /\ chan = [c \in Clients |-> <<>>]
      /\ missed = [c \in Clients |-> {}]
  BY DEF Init
<1>2. Sound(server) /\ Owners(server) = {}
  BY <1>1, EmptySound
<1>3. TypeOK
  BY <1>1, <1>2, DownState DEF TypeOK, Sound
<1>4. ASSUME NEW c \in Clients PROVE ChanOK(c) /\ ServedOK(c)
  <2>1. Len(chan[c]) = 0 /\ client[c] = Down
    BY <1>1
  <2> QED BY <2>1, DownState DEF ChanOK, ServedOK, Served
<1> QED BY <1>2, <1>3, <1>4 DEF Inv

LEMMA StutterInv == Inv /\ UNCHANGED vars => Inv'
BY DEF vars, Inv, TypeOK, ChanOK, ServedOK, Served, Known

LEMMA ClientStepInv ==
    ASSUME Inv, NEW c \in Clients, ClientStep(c)
    PROVE  Inv'
<1>1. CASE \E u \in Users : Start(c, u)
  BY <1>1, StartInv
<1>2. CASE \E p \in Patterns : Restore(c, p) \/ AppSubscribe(c, p) \/ AppUnsubscribe(c, p)
  BY <1>2, RestoreInv, AppSubscribeInv, AppUnsubscribeInv
<1>3. CASE SendRegister(c) \/ Registering(c) \/ RegisterFails(c) \/ Restored(c)
  BY <1>3, SendRegisterInv, RegisteringInv, RegisterFailsInv, RestoredInv
<1>4. CASE Beat(c) \/ Interrupt(c) \/ Break(c) \/ Stop(c) \/ Quit(c)
  BY <1>4, BeatInv, InterruptInv, BreakInv, StopInv, QuitInv
<1> QED BY <1>1, <1>2, <1>3, <1>4 DEF ClientStep

LEMMA NextInv == Inv /\ [Next]_vars => Inv'
<1>1. ASSUME Inv, ServerStep PROVE Inv'
  BY <1>1, SweepInv, RestartInv, HandleInv, ExpireInv DEF ServerStep
<1>2. ASSUME Inv, NEW c \in Clients, ClientStep(c) PROVE Inv'
  BY <1>2, ClientStepInv
<1> QED BY <1>1, <1>2, StutterInv DEF Next

\* The invariant holds in every reachable state.
THEOREM ControlInvariance == Spec => []Inv
BY InitInv, NextInv, PTL DEF Spec

\* Every variable keeps its type.
THEOREM ControlTypes == Spec => []TypeOK
<1>1. Inv => TypeOK
  BY DEF Inv
<1> QED BY <1>1, ControlInvariance, PTL

\* Over any order of REGISTER, DISCONNECT, sweeps and restarts no two clients
\* are online under one user, and a client whose id has one user holds no name
\* that it is not online under.
THEOREM RegistryAlwaysAgrees == Spec => []RegistryAgrees
<1>1. Inv => RegistryAgrees
  BY DEF Inv, Sound, MapsAgree, RegistryAgrees
<1> QED BY <1>1, ControlInvariance, PTL

\* Whatever the server keeps for an identity belongs to a registered client or
\* to one it discarded while that client kept talking; buffers to a registered
\* one; whatever is lost, late or handled after a restart.
THEOREM NothingForNobody == Spec => []OwnersAccounted
<1>1. Inv => OwnersAccounted
  BY DEF Inv, Sound, Known, OwnersAccounted
<1> QED BY <1>1, ControlInvariance, PTL

\* The online view never lists a subscription that is not routed.
THEOREM ListedIsAlwaysRouted == Spec => []ListedIsRouted
<1>1. Inv => ListedIsRouted
  BY DEF Inv, Sound, ListedIsRouted
<1> QED BY <1>1, ControlInvariance, PTL

\* A client that takes itself for registered is online under its own user,
\* unless the server discarded it after answering OK.
THEOREM BelieversAreOnline == Spec => []BelievesOnline
<1>1. Inv => BelievesOnline
  BY DEF Inv, ServedOK, Served, BelievesOnline
<1> QED BY <1>1, ControlInvariance, PTL

-----------------------------------------------------------------------------
(* What a connected client subscribes to is, or will be, routed *)

\* RoutesToBe, pattern by pattern, for messages q and routes R.
Asked(q, R, p) ==
    \/ p \in R /\ \A j \in 1 .. Len(q) : q[j] # Unsubscribe(p)
    \/ \E i \in 1 .. Len(q) :
          q[i] = Subscribe(p) /\ \A j \in i + 1 .. Len(q) : q[j] # Unsubscribe(p)

\* What is subscribed and not yet asked for is still to be restored, or was
\* subscribed too late for that; nothing is left to restore when the client is up.
RoutedOK(c) ==
    /\ client[c].phase = "up" => client[c].todo = {}
    /\ client[c].phase \in {"restoring", "up"} /\ c \notin evicted
         => client[c].subs \subseteq missed[c] \cup client[c].todo \cup RoutesToBe(c)

AllRouted == \A c \in Clients : RoutedOK(c)

LEMMA RoutesAsked ==
    ASSUME TypeOK, NEW c \in Clients
    PROVE  \A p \in Patterns : p \in RoutesToBe(c) <=> Asked(chan[c], server.routes[c], p)
<1>1. Len(chan[c]) \in Nat
  BY DEF TypeOK
<1> QED BY <1>1 DEF RoutesToBe, Asked

LEMMA RoutesWillBeAsked ==
    ASSUME TypeOK', NEW c \in Clients
    PROVE  \A p \in Patterns : p \in RoutesToBe(c)' <=> Asked(chan'[c], server'.routes[c], p)
<1>1. Len(chan'[c]) \in Nat
  BY DEF TypeOK
<1> QED BY <1>1 DEF RoutesToBe, Asked

\* A message takes a pattern away only if it is its UNSUBSCRIBE.
LEMMA AskedAppend ==
    ASSUME NEW q, NEW r, NEW R, NEW p, Len(q) \in Nat, Len(r) = Len(q) + 1,
           \A i \in 1 .. Len(q) : r[i] = q[i],
           \/ r[Len(q) + 1] = Subscribe(p)
           \/ Asked(q, R, p) /\ r[Len(q) + 1] # Unsubscribe(p)
    PROVE  Asked(r, R, p)
<1> DEFINE k == Len(q) + 1
<1>1. k \in 1 .. Len(r) /\ \A j \in 1 .. Len(r) : j = k \/ j \in 1 .. Len(q)
  OBVIOUS
<1>2. CASE r[k] = Subscribe(p)
  <2>1. \A j \in k + 1 .. Len(r) : FALSE
    OBVIOUS
  <2> QED BY <1>1, <1>2, <2>1 DEF Asked
<1>3. CASE Asked(q, R, p) /\ r[k] # Unsubscribe(p)
  <2>1. CASE p \in R /\ \A j \in 1 .. Len(q) : q[j] # Unsubscribe(p)
    BY <1>1, <1>3, <2>1 DEF Asked
  <2>2. CASE \E i \in 1 .. Len(q) :
               q[i] = Subscribe(p) /\ \A j \in i + 1 .. Len(q) : q[j] # Unsubscribe(p)
    <3>1. PICK i \in 1 .. Len(q) :
            q[i] = Subscribe(p) /\ \A j \in i + 1 .. Len(q) : q[j] # Unsubscribe(p)
      BY <2>2
    <3>2. i \in 1 .. Len(r) /\ r[i] = Subscribe(p)
      BY <3>1
    <3>3. \A j \in i + 1 .. Len(r) : j = k \/ (j \in 1 .. Len(q) /\ j \in i + 1 .. Len(q))
      OBVIOUS
    <3>4. \A j \in i + 1 .. Len(r) : r[j] # Unsubscribe(p)
      BY <1>3, <3>1, <3>3
    <3> QED BY <3>2, <3>4 DEF Asked
  <2> QED BY <1>3, <2>1, <2>2 DEF Asked
<1> QED BY <1>2, <1>3

\* Handling the first message, which adds and takes away what it says.
LEMMA AskedTail ==
    ASSUME NEW q, NEW r, NEW R, NEW S, NEW p, Len(r) \in Nat, Len(q) = Len(r) + 1,
           \A i \in 1 .. Len(r) : r[i] = q[i + 1],
           p \in R /\ q[1] # Unsubscribe(p) => p \in S,
           q[1] = Subscribe(p) => p \in S,
           Asked(q, R, p)
    PROVE  Asked(r, S, p)
<1>1. ASSUME NEW i \in 1 .. Len(q), \A j \in i + 1 .. Len(q) : q[j] # Unsubscribe(p)
      PROVE  \A j \in (i - 1) + 1 .. Len(r) : r[j] # Unsubscribe(p)
  <2>1. \A j \in (i - 1) + 1 .. Len(r) : j \in 1 .. Len(r) /\ j + 1 \in i + 1 .. Len(q)
    OBVIOUS
  <2> QED BY <1>1, <2>1
<1>2. CASE p \in R /\ \A j \in 1 .. Len(q) : q[j] # Unsubscribe(p)
  <2>1. 1 \in 1 .. Len(q) /\ \A j \in 1 .. Len(r) : j + 1 \in 1 .. Len(q)
    OBVIOUS
  <2> QED BY <1>2, <2>1 DEF Asked
<1>3. CASE \E i \in 1 .. Len(q) :
             q[i] = Subscribe(p) /\ \A j \in i + 1 .. Len(q) : q[j] # Unsubscribe(p)
  <2>1. PICK i \in 1 .. Len(q) :
          q[i] = Subscribe(p) /\ \A j \in i + 1 .. Len(q) : q[j] # Unsubscribe(p)
    BY <1>3
  <2>2. \A j \in (i - 1) + 1 .. Len(r) : r[j] # Unsubscribe(p)
    BY <1>1, <2>1
  <2>3. CASE i = 1
    <3>1. \A j \in 1 .. Len(r) : r[j] # Unsubscribe(p)
      BY <2>2, <2>3
    <3> QED BY <2>1, <2>3, <3>1 DEF Asked
  <2>4. CASE i # 1
    <3>1. i - 1 \in 1 .. Len(r) /\ r[i - 1] = q[i]
      BY <2>4
    <3> QED BY <2>1, <2>2, <3>1 DEF Asked
  <2> QED BY <2>3, <2>4
<1> QED BY <1>2, <1>3 DEF Asked

\* A step of client c changes nothing for the others.
LEMMA RoutedLocal ==
    ASSUME AllRouted, NEW c \in Clients, UNCHANGED <<server, evicted>>,
           \A d \in Clients \ {c} :
             client'[d] = client[d] /\ chan'[d] = chan[d] /\ missed'[d] = missed[d],
           RoutedOK(c)'
    PROVE  AllRouted'
<1>1. ASSUME NEW d \in Clients \ {c} PROVE RoutedOK(d)'
  <2>1. RoutesToBe(d)' = RoutesToBe(d)
    BY DEF RoutesToBe
  <2> QED BY <2>1 DEF AllRouted, RoutedOK
<1> QED BY <1>1 DEF AllRouted

\* Nothing is said of a client that is not connected.
LEMMA OffRouted ==
    ASSUME NEW c \in Clients, client'[c].phase \notin {"restoring", "up"}
    PROVE  RoutedOK(c)'
BY DEF RoutedOK

\* What is sent takes no pattern away that the client still subscribes to.
LEMMA SendRouted ==
    ASSUME Inv, Inv', NEW c \in Clients, NEW m \in Message, Send(c, m), RoutedOK(c),
           UNCHANGED <<server, evicted>>,
           \A p \in missed[c] : p \in missed'[c] \/ m = Subscribe(p),
           client'[c].phase = client[c].phase,
           client[c].phase \in {"restoring", "up"},
           client'[c].todo \subseteq client[c].todo,
           \A p \in Patterns :
             p \in client'[c].subs =>
               \/ m = Subscribe(p)
               \/ m # Unsubscribe(p) /\ p \in client[c].subs
                    /\ (p \in client[c].todo => p \in client'[c].todo)
    PROVE  RoutedOK(c)'
<1>1. TypeOK /\ TypeOK' /\ client'[c].subs \in SUBSET Patterns /\ Len(chan[c]) \in Nat
  BY DEF Inv, TypeOK, ClientState
<1>2. /\ Len(chan'[c]) = Len(chan[c]) + 1
      /\ \A i \in 1 .. Len(chan[c]) : chan'[c][i] = chan[c][i]
      /\ chan'[c][Len(chan[c]) + 1] = m
  BY <1>1, SendEffect
<1>3. client'[c].phase = "up" => client'[c].todo = {}
  BY DEF RoutedOK
<1>4. ASSUME c \notin evicted, NEW p \in client'[c].subs
      PROVE  p \in missed'[c] \cup client'[c].todo \cup RoutesToBe(c)'
  <2>1. p \in Patterns
    BY <1>1
  <2>2. CASE m = Subscribe(p)
    <3>1. Asked(chan'[c], server.routes[c], p)
      BY <1>1, <1>2, <2>2, AskedAppend
    <3> QED BY <1>1, <2>1, <3>1, RoutesWillBeAsked
  <2>3. CASE /\ m # Subscribe(p) /\ m # Unsubscribe(p) /\ p \in client[c].subs
             /\ p \in client[c].todo => p \in client'[c].todo
    <3>1. p \in missed[c] \cup client[c].todo \cup RoutesToBe(c)
      BY <1>4, <2>3 DEF RoutedOK
    <3>2. CASE p \in RoutesToBe(c)
      <4>1. Asked(chan[c], server.routes[c], p)
        BY <1>1, <2>1, <3>2, RoutesAsked
      <4>2. Asked(chan'[c], server.routes[c], p)
        BY <1>1, <1>2, <2>3, <4>1, AskedAppend
      <4> QED BY <1>1, <2>1, <4>2, RoutesWillBeAsked
    <3> QED BY <2>3, <3>1, <3>2
  <2> QED BY <2>1, <2>2, <2>3
<1> QED BY <1>3, <1>4 DEF RoutedOK

\* SUBSCRIBE asks for its own pattern only, and HEARTBEAT takes none away.
LEMMA MessagesDiffer ==
    ASSUME NEW p, NEW q, NEW b
    PROVE  /\ Subscribe(p) # Unsubscribe(q) /\ Heartbeat(b) # Unsubscribe(q)
           /\ p # q => Unsubscribe(p) # Unsubscribe(q)
<1>1. /\ Subscribe(p).cmd = "SUBSCRIBE" /\ Unsubscribe(q).cmd = "UNSUBSCRIBE"
      /\ Heartbeat(b).cmd = "HEARTBEAT"
      /\ Unsubscribe(p).topic = p /\ Unsubscribe(q).topic = q
  BY DEF Subscribe, Unsubscribe, Heartbeat
<1> QED BY <1>1

\* Steps after which the client is not connected.
LEMMA OffSteps ==
    ASSUME Inv, AllRouted, NEW c \in Clients,
           \/ \E u \in Users : Start(c, u)
           \/ SendRegister(c) \/ RegisterFails(c) \/ Break(c) \/ Quit(c) \/ Stop(c)
    PROVE  AllRouted'
<1>1. TypeOK /\ client[c] \in ClientState
  BY DEF Inv, TypeOK
<1>2. UNCHANGED <<server, evicted>>
  BY DEF Start, SendRegister, RegisterFails, Break, Quit, Stop
<1>3. client'[c].phase \notin {"restoring", "up"}
  <2>1. Down.phase = "down" /\ [Down EXCEPT !.phase = "joining"].phase = "joining"
    BY DEF Down
  <2>2. CASE \E u \in Users : Start(c, u)
    BY <1>1, <2>2 DEF Start, Down, TypeOK
  <2>3. CASE SendRegister(c) \/ Break(c)
    BY <1>1, <2>3 DEF SendRegister, Break, TypeOK, ClientState
  <2>4. CASE Quit(c) \/ Stop(c)
    BY <1>1, <2>1, <2>4 DEF Quit, Stop, TypeOK
  <2>5. CASE RegisterFails(c)
    <3>1. CASE client[c].first
      BY <1>1, <2>1, <2>5, <3>1 DEF RegisterFails, TypeOK
    <3>2. CASE ~client[c].first
      BY <1>1, <2>5, <3>2 DEF RegisterFails, TypeOK, ClientState
    <3> QED BY <3>1, <3>2
  <2> QED BY <2>2, <2>3, <2>4, <2>5
<1>4. \A d \in Clients \ {c} : client'[d] = client[d] /\ missed'[d] = missed[d]
  BY <1>1 DEF Start, SendRegister, RegisterFails, Break, Quit, Stop, TypeOK
<1>5. \A d \in Clients \ {c} : chan'[d] = chan[d]
  <2>1. CASE \E u \in Users : Start(c, u)
    BY <2>1 DEF Start
  <2>2. CASE SendRegister(c) \/ Stop(c)
    BY <1>1, <2>2 DEF SendRegister, Stop, Send, TypeOK
  <2>3. CASE Cut(c)
    BY <1>1, <2>3, CutEffect
  <2> QED BY <2>1, <2>2, <2>3 DEF RegisterFails, Break, Quit
<1> QED BY <1>2, <1>3, <1>4, <1>5, OffRouted, RoutedLocal

\* The list to restore is all the client subscribes to.
LEMMA RegisteringRouted ==
    ASSUME Inv, AllRouted, NEW c \in Clients, Registering(c)
    PROVE  AllRouted'
<1>1. TypeOK /\ client[c] \in ClientState
  BY DEF Inv, TypeOK
<1>2. UNCHANGED <<server, chan, evicted, missed>>
  BY DEF Registering
<1>3. /\ client'[c].phase = "restoring" /\ client'[c].subs = client'[c].todo
      /\ \A d \in Clients \ {c} : client'[d] = client[d]
  BY <1>1 DEF Registering, TypeOK, ClientState
<1>4. RoutedOK(c)'
  BY <1>3 DEF RoutedOK
<1> QED BY <1>2, <1>3, <1>4, RoutedLocal

LEMMA RestoredRouted ==
    ASSUME Inv, AllRouted, NEW c \in Clients, Restored(c)
    PROVE  AllRouted'
<1>1. TypeOK /\ client[c] \in ClientState /\ RoutedOK(c)
  BY DEF Inv, TypeOK, AllRouted
<1>2. UNCHANGED <<server, chan, evicted, missed>>
  BY DEF Restored
<1>3. /\ client[c].phase = "restoring" /\ client[c].todo = {}
      /\ client'[c].subs = client[c].subs /\ client'[c].todo = client[c].todo
      /\ \A d \in Clients \ {c} : client'[d] = client[d]
  BY <1>1 DEF Restored, TypeOK, ClientState
<1>4. RoutesToBe(c)' = RoutesToBe(c)
  BY <1>2 DEF RoutesToBe
<1>5. RoutedOK(c)'
  BY <1>1, <1>2, <1>3, <1>4 DEF RoutedOK
<1> QED BY <1>2, <1>3, <1>5, RoutedLocal

LEMMA RestoreRouted ==
    ASSUME Inv, Inv', AllRouted, NEW c \in Clients, NEW p \in Patterns, Restore(c, p)
    PROVE  AllRouted'
<1>1. TypeOK /\ client[c] \in ClientState /\ RoutedOK(c)
  BY DEF Inv, TypeOK, AllRouted
<1>2. /\ Send(c, Subscribe(p)) /\ client[c].phase = "restoring"
      /\ UNCHANGED <<server, evicted, missed>>
  BY DEF Restore
<1>3. /\ client'[c].phase = client[c].phase /\ client'[c].subs = client[c].subs
      /\ client'[c].todo = client[c].todo \ {p}
      /\ \A d \in Clients \ {c} : client'[d] = client[d]
  BY <1>1 DEF Restore, TypeOK, ClientState
<1>4. Subscribe(p) \in Message /\ \A d \in Clients \ {c} : chan'[d] = chan[d]
  BY <1>1, <1>2, Messages, SendEffect
<1>5. RoutedOK(c)'
  <2>1. \A q \in Patterns : Subscribe(p) # Unsubscribe(q)
    BY MessagesDiffer
  <2>2. \A q \in Patterns :
          q \in client'[c].subs =>
            \/ Subscribe(p) = Subscribe(q)
            \/ Subscribe(p) # Unsubscribe(q) /\ q \in client[c].subs
                 /\ (q \in client[c].todo => q \in client'[c].todo)
    BY <1>3, <2>1
  <2> QED BY <1>1, <1>2, <1>3, <1>4, <2>2, SendRouted
<1> QED BY <1>2, <1>3, <1>4, <1>5, RoutedLocal

\* Sent when the client is up, else noted: for the list that is being restored
\* it comes too late.
LEMMA AppSubscribeRouted ==
    ASSUME Inv, Inv', AllRouted, NEW c \in Clients, NEW p \in Patterns, AppSubscribe(c, p)
    PROVE  AllRouted'
<1>1. TypeOK /\ client[c] \in ClientState /\ RoutedOK(c)
  BY DEF Inv, TypeOK, AllRouted
<1>2. UNCHANGED <<server, evicted>>
  BY DEF AppSubscribe
<1>3. /\ client'[c].phase = client[c].phase /\ client'[c].subs = client[c].subs \cup {p}
      /\ client'[c].todo = client[c].todo
      /\ \A d \in Clients \ {c} : client'[d] = client[d]
  BY <1>1 DEF AppSubscribe, TypeOK, ClientState
<1>4. \A d \in Clients \ {c} : missed'[d] = missed[d]
  BY <1>1 DEF AppSubscribe, TypeOK
<1>5. CASE client[c].phase = "up"
  <2>1. /\ Send(c, Subscribe(p))
        /\ \A q \in missed[c] : q \in missed'[c] \/ Subscribe(p) = Subscribe(q)
    BY <1>1, <1>5 DEF AppSubscribe, TypeOK
  <2>2. Subscribe(p) \in Message /\ \A d \in Clients \ {c} : chan'[d] = chan[d]
    BY <1>1, <2>1, Messages, SendEffect
  <2>3. \A q \in Patterns : Subscribe(p) # Unsubscribe(q)
    BY MessagesDiffer
  <2>4. \A q \in Patterns :
          q \in client'[c].subs =>
            \/ Subscribe(p) = Subscribe(q)
            \/ Subscribe(p) # Unsubscribe(q) /\ q \in client[c].subs
                 /\ (q \in client[c].todo => q \in client'[c].todo)
    BY <1>3, <2>3
  <2>5. RoutedOK(c)'
    BY <1>1, <1>2, <1>3, <1>5, <2>1, <2>2, <2>4, SendRouted
  <2> QED BY <1>2, <1>3, <1>4, <2>2, <2>5, RoutedLocal
<1>6. CASE client[c].phase = "restoring"
  <2>1. chan' = chan /\ missed'[c] = missed[c] \cup {p}
    BY <1>1, <1>6 DEF AppSubscribe, TypeOK
  <2>2. RoutesToBe(c)' = RoutesToBe(c)
    BY <1>2, <2>1 DEF RoutesToBe
  <2>3. RoutedOK(c)'
    BY <1>1, <1>2, <1>3, <1>6, <2>1, <2>2 DEF RoutedOK
  <2> QED BY <1>2, <1>3, <1>4, <2>1, <2>3, RoutedLocal
<1>7. CASE client[c].phase \notin {"restoring", "up"}
  <2>1. chan' = chan
    BY <1>7 DEF AppSubscribe
  <2> QED BY <1>2, <1>3, <1>4, <1>7, <2>1, OffRouted, RoutedLocal
<1> QED BY <1>5, <1>6, <1>7

LEMMA AppUnsubscribeRouted ==
    ASSUME Inv, Inv', AllRouted, NEW c \in Clients, NEW p \in Patterns, AppUnsubscribe(c, p)
    PROVE  AllRouted'
<1>1. TypeOK /\ client[c] \in ClientState /\ RoutedOK(c)
  BY DEF Inv, TypeOK, AllRouted
<1>2. UNCHANGED <<server, evicted, missed>>
  BY DEF AppUnsubscribe
<1>3. /\ client'[c].phase = client[c].phase /\ client'[c].subs = client[c].subs \ {p}
      /\ client'[c].todo = client[c].todo
      /\ \A d \in Clients \ {c} : client'[d] = client[d]
  BY <1>1 DEF AppUnsubscribe, TypeOK, ClientState
<1>4. CASE client[c].phase = "up"
  <2>1. Send(c, Unsubscribe(p))
    BY <1>4 DEF AppUnsubscribe
  <2>2. Unsubscribe(p) \in Message /\ \A d \in Clients \ {c} : chan'[d] = chan[d]
    BY <1>1, <2>1, Messages, SendEffect
  <2>3. \A q \in Patterns : p # q => Unsubscribe(p) # Unsubscribe(q)
    BY MessagesDiffer
  <2>4. \A q \in Patterns :
          q \in client'[c].subs =>
            \/ Unsubscribe(p) = Subscribe(q)
            \/ Unsubscribe(p) # Unsubscribe(q) /\ q \in client[c].subs
                 /\ (q \in client[c].todo => q \in client'[c].todo)
    BY <1>3, <2>3
  <2>5. RoutedOK(c)'
    BY <1>1, <1>2, <1>3, <1>4, <2>1, <2>2, <2>4, SendRouted
  <2> QED BY <1>2, <1>3, <2>2, <2>5, RoutedLocal
<1>5. CASE client[c].phase # "up"
  <2>1. chan' = chan
    BY <1>5 DEF AppUnsubscribe
  <2>2. RoutesToBe(c)' = RoutesToBe(c)
    BY <1>2, <2>1 DEF RoutesToBe
  <2>3. RoutedOK(c)'
    BY <1>1, <1>2, <1>3, <1>5, <2>2 DEF RoutedOK
  <2> QED BY <1>2, <1>3, <2>1, <2>3, RoutedLocal
<1> QED BY <1>4, <1>5

LEMMA BeatRouted ==
    ASSUME Inv, Inv', AllRouted, NEW c \in Clients, Beat(c)
    PROVE  AllRouted'
<1> DEFINE m == Heartbeat(client[c].subs # {})
<1>1. TypeOK /\ RoutedOK(c)
  BY DEF Inv, AllRouted
<1>2. Send(c, m) /\ client[c].phase = "up" /\ UNCHANGED <<server, client, evicted, missed>>
  BY DEF Beat
<1>3. m \in Message /\ \A q \in Patterns : m # Unsubscribe(q)
  BY MessagesDiffer DEF Heartbeat, Message
<1> HIDE DEF m
<1>4. \A d \in Clients \ {c} : chan'[d] = chan[d]
  BY <1>1, <1>2, <1>3, SendEffect
<1>5. \A q \in Patterns :
        q \in client'[c].subs =>
          \/ m = Subscribe(q)
          \/ m # Unsubscribe(q) /\ q \in client[c].subs
               /\ (q \in client[c].todo => q \in client'[c].todo)
  BY <1>2, <1>3
<1>6. RoutedOK(c)'
  BY <1>1, <1>2, <1>3, <1>5, SendRouted
<1> QED BY <1>2, <1>4, <1>6, RoutedLocal

\* A pattern no longer asked for is one whose SUBSCRIBE was lost.
LEMMA InterruptRouted ==
    ASSUME Inv, Inv', AllRouted, NEW c \in Clients, Interrupt(c)
    PROVE  AllRouted'
<1>1. TypeOK /\ TypeOK' /\ ChanOK(c) /\ RoutedOK(c) /\ chan[c] \in Seq(Message)
  BY DEF Inv, TypeOK, AllRouted
<1>2. UNCHANGED <<server, client, evicted>>
  BY DEF Interrupt
<1>0. PICK i, j : Interrupted(c, i, j)
  BY <1>1, InterruptEffect
<1>3. /\ i \in 0 .. Len(chan[c]) /\ j \in 0 .. Len(chan[c]) /\ i <= j
      /\ \A d \in Clients \ {c} : chan'[d] = chan[d] /\ missed'[d] = missed[d]
      /\ Len(chan'[c]) = Len(chan[c]) - (j - i)
      /\ \A k \in 1 .. Len(chan'[c]) :
           /\ Before(i, j, k) \in 1 .. Len(chan[c])
           /\ chan'[c][k] = IF k <= i THEN Unheard(chan[c][k]) ELSE chan[c][Before(i, j, k)]
      /\ missed[c] \subseteq missed'[c]
      /\ client[c].phase \in {"restoring", "up"} =>
           \A k \in i + 1 .. j, p \in Patterns : chan[c][k] = Subscribe(p) => p \in missed'[c]
  BY <1>0 DEF Interrupted
<1>4. Len(chan[c]) \in Nat /\ Len(chan'[c]) \in Nat
  BY <1>1, <1>3
<1>5. ASSUME client[c].phase \in {"restoring", "up"}, NEW p \in RoutesToBe(c)
      PROVE  p \in missed'[c] \/ p \in RoutesToBe(c)'
  <2>1. p \in Patterns /\ Asked(chan[c], server.routes[c], p)
    BY <1>1, RoutesAsked DEF RoutesToBe
  <2>2. \A k \in 1 .. Len(chan'[c]) : chan'[c][k] = chan[c][Before(i, j, k)]
    <3> TAKE k \in 1 .. Len(chan'[c])
    <3>1. CASE k <= i
      <4>1. k \in 1 .. Len(chan[c]) /\ Before(i, j, k) = k
        BY <1>3, <3>1 DEF Before
      <4>2. chan[c][k] \in Message /\ chan[c][k].cmd # "REGISTER"
        BY <1>1, <1>5, <4>1 DEF ChanOK
      <4> QED BY <1>3, <3>1, <4>1, <4>2, UnheardMessage
    <3>2. CASE ~(k <= i)
      BY <1>3, <3>2
    <3> QED BY <3>1, <3>2
  <2>3. CASE p \in server.routes[c] /\ \A k \in 1 .. Len(chan[c]) : chan[c][k] # Unsubscribe(p)
    <3>1. Asked(chan'[c], server'.routes[c], p)
      BY <1>2, <1>3, <2>2, <2>3 DEF Asked
    <3> QED BY <1>1, <2>1, <3>1, RoutesWillBeAsked
  <2>4. CASE \E n \in 1 .. Len(chan[c]) :
               chan[c][n] = Subscribe(p) /\ \A k \in n + 1 .. Len(chan[c]) : chan[c][k] # Unsubscribe(p)
    <3>1. PICK n \in 1 .. Len(chan[c]) :
            chan[c][n] = Subscribe(p) /\ \A k \in n + 1 .. Len(chan[c]) : chan[c][k] # Unsubscribe(p)
      BY <2>4
    <3>2. CASE n \in i + 1 .. j
      BY <1>3, <1>5, <2>1, <3>1, <3>2
    <3>3. CASE n \notin i + 1 .. j
      <4>1. PICK m \in 1 .. Len(chan'[c]) : Before(i, j, m) = n
        <5>1. CASE n <= i
          <6>1. n \in 1 .. Len(chan'[c]) /\ Before(i, j, n) = n
            BY <1>3, <1>4, <5>1 DEF Before
          <6> QED BY <6>1
        <5>2. CASE n > j
          <6>1. n - (j - i) \in 1 .. Len(chan'[c]) /\ Before(i, j, n - (j - i)) = n
            BY <1>3, <1>4, <5>2 DEF Before
          <6> QED BY <6>1
        <5> QED BY <1>3, <1>4, <3>3, <5>1, <5>2
      <4>2. \A k \in m + 1 .. Len(chan'[c]) :
              k \in 1 .. Len(chan'[c]) /\ Before(i, j, k) \in n + 1 .. Len(chan[c])
        BY <1>3, <1>4, <4>1 DEF Before
      <4>3. chan'[c][m] = Subscribe(p)
              /\ \A k \in m + 1 .. Len(chan'[c]) : chan'[c][k] # Unsubscribe(p)
        BY <2>2, <3>1, <4>1, <4>2
      <4>4. Asked(chan'[c], server'.routes[c], p)
        BY <4>3 DEF Asked
      <4> QED BY <1>1, <2>1, <4>4, RoutesWillBeAsked
    <3> QED BY <3>2, <3>3
  <2> QED BY <2>1, <2>3, <2>4 DEF Asked
<1>6. RoutedOK(c)'
  BY <1>1, <1>2, <1>3, <1>5 DEF RoutedOK
<1> QED BY <1>2, <1>3, <1>6, RoutedLocal

\* A handler takes from the routes of the sender what an UNSUBSCRIBE names and
\* what DISCONNECT leaves, and from nobody else's.
LEMMA HandledRoutes ==
    ASSUME NEW s, Sound(s), NEW c \in Clients, NEW m \in Message, m.cmd # "DISCONNECT"
    PROVE  /\ \A d \in Clients \ {c} : Handled(s, c, m).routes[d] = s.routes[d]
           /\ \A p \in Patterns : p \in s.routes[c] /\ m # Unsubscribe(p)
                                    => p \in Handled(s, c, m).routes[c]
           /\ \A p \in Patterns : m = Subscribe(p) => p \in Handled(s, c, m).routes[c]
<1> DEFINE t == Handled(s, c, m)
<1>1. s \in ServerState /\ s.routes \in [Clients -> SUBSET Patterns]
  BY DEF Sound, ServerState
<1>2. \A p : m = Subscribe(p) => m.cmd = "SUBSCRIBE" /\ m.topic = p
  BY DEF Subscribe
<1>3. CASE m.cmd = "REGISTER"
  <2>1. t = Registered(s, c, m)
    BY <1>3 DEF Handled
  <2>2. CASE ~Accepts(s, m)
    BY <1>2, <1>3, <2>1, <2>2 DEF Registered
  <2>3. CASE Accepts(s, m)
    <3>1. t.routes = [s.routes EXCEPT ![c] = @ \cup m.topics]
      BY <1>1, <2>1, <2>3 DEF Registered, ServerState
    <3> QED BY <1>1, <1>2, <1>3, <3>1
  <2> QED BY <2>2, <2>3
<1>4. CASE m.cmd = "HEARTBEAT"
  <2>1. t = HeartBeaten(s, c, m)
    BY <1>4 DEF Handled
  <2>2. t.routes = s.routes
    BY <1>1, <2>1 DEF HeartBeaten, ServerState
  <2> QED BY <1>2, <1>4, <2>2
<1>5. CASE m.cmd = "SUBSCRIBE"
  <2>1. t = Subscribed(s, c, m)
    BY <1>5 DEF Handled
  <2>2. t.routes = [s.routes EXCEPT ![c] = @ \cup {m.topic}]
    BY <1>1, <2>1 DEF Subscribed, ServerState
  <2> QED BY <1>1, <1>2, <2>2
<1>6. CASE m.cmd = "UNSUBSCRIBE"
  <2>1. t = Unsubscribed(s, c, m)
    BY <1>6 DEF Handled
  <2>2. t.routes = [s.routes EXCEPT ![c] = @ \ {m.topic}]
    BY <1>1, <2>1 DEF Unsubscribed, ServerState
  <2>3. m = Unsubscribe(m.topic)
    BY <1>6 DEF Message, Unsubscribe
  <2> QED BY <1>1, <1>2, <1>6, <2>2, <2>3
<1>7. m.cmd \in {"REGISTER", "HEARTBEAT", "SUBSCRIBE", "UNSUBSCRIBE"}
  BY DEF Message
<1> QED BY <1>3, <1>4, <1>5, <1>6, <1>7

\* A connected client has no REGISTER and no DISCONNECT under way.
LEMMA HandleRouted ==
    ASSUME Inv, Inv', AllRouted, NEW c \in Clients, Handle(c)
    PROVE  AllRouted'
<1> DEFINE m == chan[c][1]
           ok == m.cmd = "REGISTER" /\ Accepts(server, m)
<1>1. /\ TypeOK /\ TypeOK' /\ Sound(server) /\ ChanOK(c) /\ ServedOK(c) /\ RoutedOK(c)
      /\ client[c] \in ClientState /\ m \in Message /\ evicted \in SUBSET Clients
  BY HandleEffect DEF Inv, TypeOK, AllRouted
<1>2. /\ Len(chan[c]) \in Nat \ {0} /\ Len(chan'[c]) = Len(chan[c]) - 1
      /\ \A i \in 1 .. Len(chan'[c]) : chan'[c][i] = chan[c][i + 1]
      /\ \A d \in Clients \ {c} : chan'[d] = chan[d] /\ client'[d] = client[d]
      /\ server' = Handled(server, c, m)
      /\ evicted' = IF ok \/ m.cmd = "DISCONNECT" THEN evicted \ {c} ELSE evicted
      /\ missed' = missed
  BY HandleEffect
<1>3. /\ client'[c].phase = client[c].phase /\ client'[c].subs = client[c].subs
      /\ client'[c].todo = client[c].todo
  BY <1>1 DEF Handle, TypeOK, ClientState
<1>4. client[c].phase \in {"restoring", "up"} => m.cmd \notin {"REGISTER", "DISCONNECT"}
  BY <1>1, <1>2 DEF ChanOK, ServedOK, Served
<1> HIDE DEF m
<1>5. \A d \in Clients \ {c} : server'.routes[d] = server.routes[d]
  <2>1. CASE m.cmd # "DISCONNECT"
    BY <1>1, <1>2, <2>1, HandledRoutes
  <2>2. CASE m.cmd = "DISCONNECT"
    <3>1. server' = Dropped(server, {c}, {c})
      BY <1>2, <2>2 DEF Handled, Disconnected, Dropped
    <3>2. {c} \in SUBSET Clients /\ {c} \in SUBSET {c} /\ {c} \cap server.idents \subseteq {c}
      OBVIOUS
    <3>3. Left(server, {c}, {c}, server')
      BY <1>1, <3>1, <3>2, GoneSound
    <3> QED BY <3>3 DEF Left
  <2> QED BY <2>1, <2>2
<1>6. ASSUME NEW d \in Clients \ {c} PROVE RoutedOK(d)'
  <2>1. RoutesToBe(d)' = RoutesToBe(d)
    BY <1>2, <1>5 DEF RoutesToBe
  <2>2. d \in evicted' <=> d \in evicted
    BY <1>2
  <2> QED BY <1>2, <2>1, <2>2 DEF AllRouted, RoutedOK
<1>7. RoutedOK(c)'
  <2>1. CASE client[c].phase \notin {"restoring", "up"}
    BY <1>3, <2>1, OffRouted
  <2>2. CASE client[c].phase \in {"restoring", "up"}
    <3>1. m.cmd \notin {"REGISTER", "DISCONNECT"} /\ evicted' = evicted
      BY <1>2, <1>4, <2>2
    <3>2. ASSUME NEW p \in Patterns, p \in RoutesToBe(c) PROVE p \in RoutesToBe(c)'
      <4>1. Asked(chan[c], server.routes[c], p)
        BY <1>1, <3>2, RoutesAsked
      <4>2. p \in server.routes[c] /\ m # Unsubscribe(p) => p \in server'.routes[c]
        BY <1>1, <1>2, <3>1, HandledRoutes
      <4>3. m = Subscribe(p) => p \in server'.routes[c]
        BY <1>1, <1>2, <3>1, HandledRoutes
      <4>4. Len(chan'[c]) \in Nat /\ Len(chan[c]) = Len(chan'[c]) + 1
        BY <1>2
      <4>5. Asked(chan'[c], server'.routes[c], p)
        BY <1>2, <4>1, <4>2, <4>3, <4>4, AskedTail DEF m
      <4> QED BY <1>1, <4>5, RoutesWillBeAsked
    <3>3. RoutesToBe(c) \subseteq RoutesToBe(c)'
      BY <3>2 DEF RoutesToBe
    <3> QED BY <1>1, <1>2, <1>3, <3>1, <3>3 DEF RoutedOK
  <2> QED BY <2>1, <2>2
<1> QED BY <1>6, <1>7 DEF AllRouted

\* The sweep takes routes only from clients that count as evicted from then on;
\* a restart evicts every client that was online.
LEMMA ServerRouted ==
    ASSUME Inv, Inv', AllRouted, ServerStep
    PROVE  AllRouted'
<1>1. ASSUME NEW c \in Clients, Expire(c) PROVE AllRouted'
  <2>1. Sound(server)
    BY DEF Inv
  <2>2. server'.routes = server.routes /\ UNCHANGED <<client, chan, evicted, missed>>
    BY <1>1, <2>1 DEF Expire, Sound, ServerState
  <2>3. \A d \in Clients : RoutesToBe(d)' = RoutesToBe(d)
    BY <2>2 DEF RoutesToBe
  <2> QED BY <2>2, <2>3 DEF AllRouted, RoutedOK
<1>2. CASE Sweep
  <2> DEFINE gone == server.expired \cap Online(server)
             known == gone \cap server.idents
  <2>1. /\ Sound(server) /\ server' = Dropped(server, known, gone)
        /\ evicted' = evicted \cup gone /\ UNCHANGED <<client, chan, missed>>
    BY <1>2 DEF Inv, Sweep, Swept, Dropped
  <2>2. /\ gone \in SUBSET Clients /\ known \in SUBSET gone
        /\ gone \cap server.idents \subseteq known
    BY DEF Online
  <2> HIDE DEF gone, known
  <2>3. Left(server, known, gone, server')
    BY <2>1, <2>2, GoneSound
  <2>4. ASSUME NEW d \in Clients, d \notin evicted'
        PROVE  d \notin evicted /\ RoutesToBe(d)' = RoutesToBe(d)
    <3>1. d \notin evicted /\ d \notin known
      BY <2>1, <2>2, <2>4
    <3>2. server'.routes[d] = server.routes[d]
      BY <2>3, <3>1 DEF Left
    <3> QED BY <2>1, <3>1, <3>2 DEF RoutesToBe
  <2> QED BY <2>1, <2>4 DEF AllRouted, RoutedOK
<1>3. CASE Restart
  <2>1. /\ TypeOK /\ evicted' = evicted \cup Online(server)
        /\ client' = [c \in Clients |-> IF client[c].phase = "up"
                                        THEN [client[c] EXCEPT !.phase = "joining"]
                                        ELSE client[c]]
    BY <1>3 DEF Inv, Restart
  <2>2. ASSUME NEW c \in Clients PROVE RoutedOK(c)'
    <3>1. client[c] \in ClientState /\ ServedOK(c)
      BY <2>1 DEF Inv, TypeOK
    <3>2. CASE client[c].phase = "up"
      <4>1. client'[c].phase = "joining"
        BY <2>1, <3>1, <3>2 DEF ClientState
      <4> QED BY <4>1, OffRouted
    <3>3. CASE client[c].phase # "up"
      <4>1. client'[c] = client[c]
        BY <2>1, <3>3
      <4>2. client[c].phase = "restoring" => c \in evicted'
        BY <2>1, <3>1 DEF ServedOK, Served, Known
      <4> QED BY <3>3, <4>1, <4>2 DEF RoutedOK
    <3> QED BY <3>2, <3>3
  <2> QED BY <2>2 DEF AllRouted
<1> QED BY <1>1, <1>2, <1>3, HandleRouted DEF ServerStep

LEMMA ClientRouted ==
    ASSUME Inv, Inv', AllRouted, NEW c \in Clients, ClientStep(c)
    PROVE  AllRouted'
<1>1. CASE \E p \in Patterns : Restore(c, p) \/ AppSubscribe(c, p) \/ AppUnsubscribe(c, p)
  BY <1>1, RestoreRouted, AppSubscribeRouted, AppUnsubscribeRouted
<1>2. CASE Registering(c) \/ Restored(c) \/ Beat(c) \/ Interrupt(c)
  BY <1>2, RegisteringRouted, RestoredRouted, BeatRouted, InterruptRouted
<1>3. CASE \/ \E u \in Users : Start(c, u)
           \/ SendRegister(c) \/ RegisterFails(c) \/ Break(c) \/ Quit(c) \/ Stop(c)
  BY <1>3, OffSteps
<1> QED BY <1>1, <1>2, <1>3 DEF ClientStep

\* The part of the invariant that SubscriptionsRouted needs is kept as well.
LEMMA RoutedAlways == Spec => []AllRouted
<1>1. Init => AllRouted
  <2> SUFFICES ASSUME Init, NEW c \in Clients PROVE RoutedOK(c)
    BY DEF AllRouted
  <2>1. client[c].phase = "down"
    BY DownState DEF Init
  <2> QED BY <2>1 DEF RoutedOK
<1>2. Inv /\ Inv' /\ AllRouted /\ [Next]_vars => AllRouted'
  <2>1. ASSUME AllRouted, UNCHANGED vars PROVE AllRouted'
    BY <2>1 DEF vars, AllRouted, RoutedOK, RoutesToBe
  <2>2. ASSUME Inv, Inv', AllRouted, Next PROVE AllRouted'
    BY <2>2, ServerRouted, ClientRouted DEF Next
  <2> QED BY <2>1, <2>2
<1> QED BY <1>1, <1>2, ControlInvariance, PTL DEF Spec

\* A connected client whose registration stands is routed, or will be once the
\* server has read what is under way, everything it subscribes to, after any
\* number of reconnects, lost connections and restarts; what was subscribed
\* while the list was being restored, and what a SUBSCRIBE lost with a control
\* connection that broke alone asked for, excepted.
THEOREM SubscribersAreRouted == Spec => []SubscriptionsRouted
<1>1. AllRouted => SubscriptionsRouted
  BY DEF AllRouted, RoutedOK, SubscriptionsRouted
<1> QED BY <1>1, RoutedAlways, PTL
=============================================================================
