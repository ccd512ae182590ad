---------------------------- MODULE ListenerProofs ----------------------------
(***************************************************************************)
(* An application that listens: it calls start() once, its callbacks may   *)
(* send or raise, and it may stop at any time.  For any number of sockets, *)
(* checkers and faults of the network it has one socket and one keep-alive *)
(* greenlet at a time; if it does not stop, Transport implements           *)
(* ConnectionLifecycle.                                                    *)
(***************************************************************************)
EXTENDS TransportProofs

\* One greenlet calls start(), and then nothing, or stop() as often as it
\* likes.  Its negotiation, and those of reconnections, succeed; a killed
\* greenlet ends within ten seconds.
Listening ==
  /\ \A u, v \in Users : u = v
  /\ UserOps \subseteq {"stop"}
  /\ "start" \notin FaultKinds
  /\ ~KillTimesOut

\* The application waits or stops once it has started; nothing reconnects
\* later on.
UserWaits ==
  /\ \A u \in Users :
       \/ pc[u] = "idle"
       \/ pc[u] = "start" /\ ws = None
       \/ pc[u] = "closing" /\ ws # None /\ UserOps # {}
  /\ \A d \in Deferreds : pc[d] = "dead"

Unused ==
  ws = None =>
    /\ \A p \in Apps \cup Checkers : pc[p] = "dead"
    /\ ~running /\ ~handshake_received /\ state = "disconnected"

SocketLabels ==
  {"token", "write", "notify", "closing", "reclosing", "kill", "spawned", "dialing", "upgrading",
   "greeting", "reading", "callback", "refused", "cberror", "error", "teardown", "ending",
   "enderror", "dead"}

CheckerLabels ==
  {"write", "notify", "reclosing", "kill", "join", "restart", "spawned", "sleep", "dead"}

\* A socket greenlet never gets beyond the kill of a reconnection: it kills
\* itself.  It writes to its own socket, the handshake request first, and runs
\* callbacks only for a hub that has answered.
SocketIsNewest ==
  \A g \in Apps :
    /\ pc[g] \in SocketLabels
    /\ Alive(g) => g = ws
    /\ pc[g] \in {"write", "greeting", "closing", "reclosing", "kill"} => victim[g] = g
    /\ pc[g] \in {"closing", "reclosing"} => link[g] \in {"closing", "closed"}
    /\ pc[g] \in {"spawned", "dialing", "upgrading", "greeting"} => peer[g] # "ready"
    /\ pc[g] \in {"refused", "callback", "token", "write"} => peer[g] # "silent"

\* What waits for nobody but its own end.
Dying(g) ==
  \/ pc[g] \in EndLabels \cup {"teardown", "dead"}
  \/ link[g] \in {"closing", "closed"}

\* A checker writes to the newest socket, and restarts only what is gone; told
\* to stop, it stays for as long as the socket that was closed then is the
\* newest.
CheckerWorks ==
  \A c \in Checkers :
    /\ pc[c] \in CheckerLabels
    /\ pc[c] \in {"write", "reclosing", "kill", "join"} => victim[c] = ws
    /\ pc[c] = "join" => Dying(ws)
    /\ pc[c] = "restart" => ~Alive(ws) /\ ~handshake_received
    /\ Alive(c) /\ ~running => link[ws] \in {"closing", "closed"}

StateIsOfNewest ==
  /\ state = "connecting" => ~handshake_received /\ peer[ws] # "ready"
  /\ state = "connected" => Serving(ws) /\ (handshake_received \/ HasOnOpen)

\* What handshake_received says of the newest socket.  A stop() that ends late
\* clears it for a connection that has been made meanwhile.
AcceptedOnce ==
  ws # None /\ Serving(ws) =>
    /\ handshake_received => peer[ws] = "ready"
    /\ peer[ws] = "ready" /\ link[ws] = "open" /\ UserOps = {} => handshake_received

ListenerInv ==
  /\ TypeOK /\ UserWaits /\ Unused
  /\ SocketIsNewest /\ OneChecker /\ CheckerWorks /\ StateIsOfNewest /\ AcceptedOnce
-----------------------------------------------------------------------------
(* A new socket begins when all others are gone, and then there is at most *)
(* the checker that makes it.                                              *)
LEMMA SpawnsOne ==
  ASSUME Listening, Backed, Backed', ListenerInv, NEW p \in Procs,
         pc[p] = "restart" \/ pc[p] = "start", Negotiated(p)
  PROVE  ListenerInv'
<1> USE Kinds
    DEF Listening, Backed, TypeOK, ListenerInv, UserWaits, Unused, SocketIsNewest, OneChecker,
        CheckerWorks, StateIsOfNewest, AcceptedOnce, Alive, Serving, EndLabels, Dying, Goto,
        SocketLabels, CheckerLabels,
        Procs
<1>1. /\ \A g \in Apps : pc[g] = "dead"
      /\ ~handshake_received /\ state # "connected"
      /\ p \in Checkers \/ (p \in Users /\ ws = None)
  OBVIOUS
<1>2. PICK g \in Apps :
        /\ state' = "connecting" /\ ws' = g
        /\ link' = [link EXCEPT ![g] = "none"] /\ peer' = [peer EXCEPT ![g] = "silent"]
        /\ pc' = [pc EXCEPT ![p] = After(p), ![g] = "spawned"]
        /\ UNCHANGED <<handshake_received, running, victim>>
  BY <1>1 DEF Negotiated, Spawn, Free
<1>3. After(p) = IF p \in Users THEN "idle" ELSE IF running THEN "sleep" ELSE "dead"
  BY <1>1 DEF After, KeepsChecking
<1>4. pc'[g] = "spawned" /\ pc'[p] = After(p) /\ \A q \in Procs \ {p, g} : pc'[q] = pc[q]
  BY <1>1, <1>2
<1>5. UserWaits' /\ Unused'
  <2>1. \A u \in Users : pc'[u] = "idle" \/ (pc'[u] = "closing" /\ UserOps # {})
    BY <1>1, <1>3, <1>4
  <2>2. Unused'
    BY <1>2, TransportAssumption
  <2> QED BY <1>1, <1>2, <1>4, <2>1, <2>2
<1>6. SocketIsNewest' /\ OneChecker'
  BY <1>1, <1>2, <1>3, <1>4
<1>7. CheckerWorks'
  BY <1>1, <1>2, <1>3, <1>4
<1>8. StateIsOfNewest' /\ AcceptedOnce'
  BY <1>1, <1>2, <1>4
<1> QED BY <1>5, <1>6, <1>7, <1>8

(* An accepted socket is the newest, and a checker is started for it only  *)
(* if there is none.                                                       *)
LEMMA AcceptsOnce ==
  ASSUME Listening, Backed, Backed', ListenerInv, NEW g \in Apps,
         pc[g] = "reading", link[g] = "open",
         peer' = [peer EXCEPT ![g] = "ready"], Accept(g)
  PROVE  ListenerInv'
<1> USE Kinds
    DEF Listening, Backed, TypeOK, ListenerInv, UserWaits, Unused, SocketIsNewest, OneChecker,
        CheckerWorks, StateIsOfNewest, AcceptedOnce, Alive, Serving, EndLabels, Dying, Goto,
        SocketLabels, CheckerLabels,
        Procs
<1>1. /\ ws = g /\ handshake_received' /\ state' = "connected" /\ peer'[g] = "ready"
      /\ UNCHANGED <<ws, link, victim>>
  BY DEF Accept, AcceptedState
<1>2. \/ /\ ~running /\ running'
         /\ \E c \in Checkers : /\ pc'[c] = "spawned" /\ pc'[g] \in {"callback", "reading"}
                                /\ \A q \in Procs \ {c, g} : pc'[q] = pc[q]
      \/ /\ running' = running
         /\ pc'[g] \in {"callback", "reading"}
         /\ \A q \in Procs \ {g} : pc'[q] = pc[q]
  BY DEF Accept, StartsChecker
<1>3. ~running => \A c \in Checkers : pc[c] = "dead"
  BY <1>1
<1>4. UserWaits' /\ Unused'
  BY <1>1, <1>2
<1>5. SocketIsNewest' /\ OneChecker'
  BY <1>1, <1>2, <1>3
<1>6. CheckerWorks'
  BY <1>1, <1>2, <1>3
<1>7. StateIsOfNewest' /\ AcceptedOnce'
  BY <1>1, <1>2
<1> QED BY <1>4, <1>5, <1>6, <1>7

(* After the on_reconnect callback: a connection made meanwhile is closed. *)
LEMMA NotifiedStep ==
  ASSUME Listening, Backed, Backed', ListenerInv, NEW p \in Procs, Notified(p)
  PROVE  ListenerInv'
<1> USE Kinds
    DEF Listening, Backed, TypeOK, ListenerInv, UserWaits, Unused, SocketIsNewest, OneChecker,
        CheckerWorks, StateIsOfNewest, AcceptedOnce, Alive, Serving, EndLabels, Dying, Goto,
        SocketLabels, CheckerLabels,
        Procs
<1>1. CASE BeginClose(p, "reclosing")
  BY <1>1 DEF Notified, BeginClose
<1>2. CASE state # "connected" /\ Kill(p) /\ UNCHANGED <<running, link>>
  <2>1. /\ p \in Apps \cup Checkers /\ ws # None /\ ws \in Apps /\ pc[p] = "notify"
        /\ UNCHANGED <<ws, running, link, peer, state>>
    BY <1>2 DEF Notified
  <2>2. CASE GoneAtOnce(ws)
    <3>0. /\ pc' = [pc EXCEPT ![ws] = "dead", ![p] = "restart"]
          /\ victim' = [victim EXCEPT ![p] = None]
      BY <1>2, <2>2 DEF Kill
    <3>1. p # ws /\ p \in Checkers /\ ~handshake_received'
      BY <2>1, <2>2, <3>0 DEF Notified, GoneAtOnce
    <3>2. UserWaits' /\ Unused' /\ SocketIsNewest' /\ OneChecker'
      BY <2>1, <3>0, <3>1
    <3>3. CheckerWorks' /\ StateIsOfNewest' /\ AcceptedOnce'
      BY <1>2, <2>1, <3>0, <3>1
    <3> QED BY <3>2, <3>3
  <2>3. CASE ~GoneAtOnce(ws)
    <3>1. /\ handshake_received' = handshake_received
          /\ pc' = [pc EXCEPT ![p] = "kill"]
          /\ victim' = [victim EXCEPT ![p] = ws]
      BY <1>2, <2>1, <2>3 DEF Notified, Kill
    <3> QED BY <1>2, <2>1, <3>1
  <2> QED BY <2>2, <2>3
<1> QED BY <1>1, <1>2 DEF Notified

\* Every other step of a greenlet keeps the parts that speak of it.
LEMMA ListenerStep ==
  ASSUME Listening, Backed, Backed', ListenerInv, [Next]_vars PROVE ListenerInv'
<1> USE Kinds
    DEF Listening, Backed, TypeOK, ListenerInv, UserWaits, Unused, SocketIsNewest, OneChecker,
        CheckerWorks, StateIsOfNewest, AcceptedOnce, Alive, Serving, EndLabels, Dying, Goto,
        SocketLabels, CheckerLabels,
        handlerVars, Procs
<1>1. ASSUME NEW p \in Procs, WriteOk(p) PROVE ListenerInv'
  BY <1>1 DEF WriteOk, Writes, After, KeepsChecking, reset
<1>2. ASSUME NEW p \in Procs, WriteFails(p) PROVE ListenerInv'
  BY <1>2 DEF WriteFails, Writes, Raised, Kill, GoneAtOnce
<1>3. ASSUME NEW p \in Procs, Notified(p) PROVE ListenerInv'
  BY <1>3, NotifiedStep
<1>4. ASSUME NEW p \in Procs, Closed(p) PROVE ListenerInv'
  BY <1>4 DEF Closed, After, KeepsChecking, Kill, GoneAtOnce
<1>5. ASSUME NEW p \in Procs, KillDelivered(p) PROVE ListenerInv'
  BY <1>5 DEF KillDelivered, Unwinds, Unwound
<1>6. ASSUME NEW p \in Procs, Joined(p) PROVE ListenerInv'
  BY <1>6 DEF Joined, JoinEnds, HeldUp, Survived
<1>7. ASSUME NEW p \in Procs, Restarted(p) PROVE ListenerInv'
  BY <1>7, SpawnsOne DEF Restarted
<1>8. ASSUME NEW p \in Procs, RestartDeferred(p) PROVE ListenerInv'
  BY <1>8 DEF RestartDeferred, Fault
<1>9. ASSUME NEW p \in Procs, RestartGivesUp(p) PROVE ListenerInv'
  BY <1>9 DEF RestartGivesUp, Fault
<1>10. ASSUME NEW u \in Users, UserStart(u) PROVE ListenerInv'
  BY <1>10 DEF UserStart
<1>11. ASSUME NEW u \in Users, UserStop(u) PROVE ListenerInv'
  BY <1>11 DEF UserStop, BeginClose
<1>12. ASSUME NEW u \in Users, UserSend(u) PROVE ListenerInv'
  BY <1>12 DEF UserSend
<1>13. ASSUME NEW u \in Users, UserStarted(u) PROVE ListenerInv'
  BY <1>13, SpawnsOne DEF UserStarted
<1>14. ASSUME NEW u \in Users, UserStartFails(u) PROVE ListenerInv'
  BY <1>14 DEF UserStartFails, Fault
<1>15. ASSUME NEW g \in Apps, Dial(g) PROVE ListenerInv'
  BY <1>15 DEF Dial
<1>16. ASSUME NEW g \in Apps, Connect(g) PROVE ListenerInv'
  BY <1>16 DEF Connect
<1>17. ASSUME NEW g \in Apps, ConnectFails(g) PROVE ListenerInv'
  BY <1>17 DEF ConnectFails
<1>18. ASSUME NEW g \in Apps, RecvHandshake(g) PROVE ListenerInv'
  BY <1>18, AcceptsOnce DEF RecvHandshake, Reads, Garbled
<1>19. ASSUME NEW g \in Apps, RecvHandshakeError(g) PROVE ListenerInv'
  BY <1>19 DEF RecvHandshakeError, Reads, Refuse, Garbled, Stopping
<1>20. ASSUME NEW g \in Apps, Refused(g) PROVE ListenerInv'
  BY <1>20 DEF Refused, RefusedState
<1>21. ASSUME NEW g \in Apps, CallbackReturns(g) PROVE ListenerInv'
  BY <1>21 DEF CallbackReturns
<1>22. ASSUME NEW g \in Apps, CallbackSends(g) PROVE ListenerInv'
  BY <1>22 DEF CallbackSends
<1>23. ASSUME NEW g \in Apps, CallbackRaises(g) PROVE ListenerInv'
  BY <1>23 DEF CallbackRaises
<1>24. ASSUME NEW g \in Apps, CallbackErrorHandled(g) PROVE ListenerInv'
  BY <1>24 DEF CallbackErrorHandled
<1>25. ASSUME NEW g \in Apps, ErrorHandled(g) PROVE ListenerInv'
  BY <1>25 DEF ErrorHandled
<1>26. ASSUME NEW g \in Apps, LinkLost(g) PROVE ListenerInv'
  BY <1>26 DEF LinkLost
<1>27. ASSUME NEW g \in Apps, HubHangsUp(g) PROVE ListenerInv'
  BY <1>27 DEF HubHangsUp, Reads
<1>28. ASSUME NEW g \in Apps, Teardown(g) PROVE ListenerInv'
  BY <1>28 DEF Teardown, ClosedState
<1>29. ASSUME NEW g \in Apps, RecvMessage(g) PROVE ListenerInv'
  <2>1. CASE ~handshake_received /\ Accept(g)
    <3>1. peer' = [peer EXCEPT ![g] = "ready"]
      BY <1>29 DEF RecvMessage
    <3> HIDE DEF ListenerInv, Listening, Backed
    <3> QED BY <1>29, <2>1, <3>1, AcceptsOnce DEF RecvMessage, Reads
  <2>2. CASE ~handshake_received /\ Refuse(g)
    BY <1>29, <2>2 DEF RecvMessage, Reads, Refuse
  <2>3. CASE handshake_received
    BY <1>29, <2>3 DEF RecvMessage, Reads
  <2>4. CASE Garbled(g)
    BY <1>29, <2>4 DEF RecvMessage, Reads, Garbled
  <2> QED BY <1>29, <2>1, <2>2, <2>3, <2>4 DEF RecvMessage
<1>30. ASSUME NEW g \in Apps, RecvClose(g) PROVE ListenerInv'
  BY <1>30 DEF RecvClose, Reads, Stopping, BeginClose
<1>31. ASSUME NEW g \in Apps, HubCloses(g) PROVE ListenerInv'
  BY <1>31 DEF HubCloses, Reads
<1>32. ASSUME NEW g \in Apps, Break(g) PROVE ListenerInv'
  BY <1>32 DEF Break
<1>33. ASSUME NEW c \in Checkers, CheckerBegins(c) PROVE ListenerInv'
  BY <1>33 DEF CheckerBegins, After, KeepsChecking
<1>34. ASSUME NEW c \in Checkers, CheckerWakes(c) PROVE ListenerInv'
  BY <1>34 DEF CheckerWakes, BeginWrite, After, KeepsChecking
<1>35. ASSUME NEW d \in Deferreds, DeferredWakes(d) PROVE ListenerInv'
  BY <1>35 DEF DeferredWakes
<1>36. CASE Age \/ UNCHANGED vars
  BY <1>36 DEF Age, vars
<1>37. ASSUME NEW p \in Procs, TokenFetched(p) PROVE ListenerInv'
  BY <1>37 DEF TokenFetched, BeginWrite
<1>38. ASSUME NEW p \in Procs, NotifyFails(p) PROVE ListenerInv'
  BY <1>38 DEF NotifyFails, Raised
<1>39. ASSUME NEW g \in Apps, Upgraded(g) PROVE ListenerInv'
  BY <1>39 DEF Upgraded, BeginWrite
<1>40. ASSUME NEW g \in Apps, EndReturns(g) PROVE ListenerInv'
  BY <1>40 DEF EndReturns
<1>41. ASSUME NEW g \in Apps, CloseRaises(g) PROVE ListenerInv'
  BY <1>41 DEF CloseRaises, OnCloseRaised
<1> HIDE DEF ListenerInv, Backed, Listening
<1> QED
  BY <1>1, <1>2, <1>3, <1>4, <1>5, <1>6, <1>7, <1>8, <1>9, <1>10, <1>11, <1>12, <1>13,
     <1>14, <1>15, <1>16, <1>17, <1>18, <1>19, <1>20, <1>21, <1>22, <1>23, <1>24, <1>25,
     <1>26, <1>27, <1>28, <1>29, <1>30, <1>31, <1>32, <1>33, <1>34, <1>35, <1>36, <1>37,
     <1>38, <1>39, <1>40, <1>41
  DEF Next, SendStep, UserCall, UserStep, SocketStep, UnowedStep, CheckerStep

\* Nothing has been started.
LEMMA ListenerInit == ASSUME Init PROVE ListenerInv
<1>1. TypeOK
  BY TypeInit
<1>2. \A p \in Apps \cup Checkers \cup Deferreds : pc[p] = "dead"
  BY Kinds DEF Init, Procs
<1>3. \A u \in Users : pc[u] = "idle"
  BY Kinds DEF Init
<1> QED
  BY <1>1, <1>2, <1>3
  DEF Init, ListenerInv, UserWaits, Unused, SocketIsNewest, SocketLabels, Alive, OneChecker,
      CheckerWorks, CheckerLabels, StateIsOfNewest, AcceptedOnce

LEMMA ListenerInvHolds == ASSUME Listening PROVE Spec => []ListenerInv
<1>1. Init => ListenerInv
  BY ListenerInit
<1>2. Backed /\ Backed' /\ ListenerInv /\ [Next]_vars => ListenerInv'
  BY ListenerStep
<1> QED BY <1>1, <1>2, AlwaysBacked, PTL DEF Spec

(* A lost connection is replaced, never doubled, however a checker, the    *)
(* socket greenlet that kills itself and the closing of the old connection *)
(* interleave.                                                             *)
THEOREM ListenerHasOneSocket == ASSUME Listening PROVE Spec => []OneSocket
<1>1. ListenerInv => OneSocket
  BY DEF ListenerInv, SocketIsNewest, OneSocket
<1> QED BY <1>1, ListenerInvHolds, PTL

(* However often connections are accepted, stopped and made anew, there is *)
(* one keep-alive greenlet.                                                *)
THEOREM ListenerHasOneChecker == ASSUME Listening PROVE Spec => []OneChecker
<1>1. ListenerInv => OneChecker
  BY DEF ListenerInv
<1> QED BY <1>1, ListenerInvHolds, PTL

(* No hub that has accepted the handshake finds the transport waiting for  *)
(* it: handshake_received is never left over from an earlier connection.   *)
THEOREM ListenerIsOpen == ASSUME Listening PROVE Spec => []AcceptedIsOpen
<1>1. ListenerInv => AcceptedIsOpen
  BY DEF ListenerInv, StateIsOfNewest, AcceptedIsOpen
<1> QED BY <1>1, ListenerInvHolds, PTL

(* "connected" means accepted, unless on_open reports a refused connection *)
(* as one.                                                                 *)
THEOREM ListenerIsAccepted == ASSUME Listening, ~HasOnOpen PROVE Spec => []OpenIsAccepted
<1>1. ListenerInv => OpenIsAccepted
  <2> SUFFICES ASSUME ListenerInv, state = "connected" PROVE \E g \in Apps : peer[g] = "ready"
    BY DEF OpenIsAccepted
  <2>1. ws \in Apps /\ Serving(ws) /\ handshake_received
    BY DEF ListenerInv, TypeOK, Unused, StateIsOfNewest
  <2> QED BY <2>1, TransportAssumption, Kinds DEF ListenerInv, AcceptedOnce
<1> QED BY <1>1, ListenerInvHolds, PTL

\* Only a write confuses a hub.
LEMMA ConfusedByWrite ==
  ASSUME TypeOK, [Next]_vars, NEW g \in Apps, peer[g] = "silent", peer'[g] = "confused"
  PROVE  \E p \in Procs : WriteOk(p)
<1> SUFFICES ASSUME \A p \in Procs : ~WriteOk(p) PROVE peer'[g] # "confused"
  OBVIOUS
<1> USE DEF TypeOK
<1>1. ASSUME NEW p \in Procs, SendStep(p) PROVE peer'[g] # "confused"
  <2>1. CASE Negotiated(p)
    BY <2>1 DEF Negotiated, Spawn
  <2> QED
    BY <1>1, <2>1
    DEF SendStep, TokenFetched, WriteFails, Notified, NotifyFails, Closed, KillDelivered, Joined,
        Restarted, RestartDeferred, RestartGivesUp
<1>2. ASSUME NEW u \in Users, UserCall(u) \/ UserStep(u) PROVE peer'[g] # "confused"
  <2>1. CASE Negotiated(u)
    BY <2>1 DEF Negotiated, Spawn
  <2> QED
    BY <1>2, <2>1 DEF UserCall, UserStep, UserStart, UserStop, UserSend, UserStarted, UserStartFails
<1>3. ASSUME NEW h \in Apps, SocketStep(h) \/ UnowedStep(h) PROVE peer'[g] # "confused"
  <2>1. CASE RecvHandshake(h) \/ RecvHandshakeError(h) \/ Teardown(h)
    BY <2>1 DEF RecvHandshake, RecvHandshakeError, Teardown
  <2> QED
    BY <1>3, <2>1
    DEF SocketStep, UnowedStep, Dial, Connect, Upgraded, EndReturns, CloseRaises, ConnectFails,
        Refused, CallbackReturns, CallbackSends, CallbackRaises, CallbackErrorHandled, ErrorHandled,
        LinkLost, HubHangsUp, RecvMessage, RecvClose, HubCloses, Break
<1>4. CASE \/ \E c \in Checkers : CheckerStep(c)
           \/ \E d \in Deferreds : DeferredWakes(d)
           \/ Age \/ UNCHANGED vars
  BY <1>4 DEF CheckerStep, CheckerBegins, CheckerWakes, DeferredWakes, Age, vars
<1> QED BY <1>1, <1>2, <1>3, <1>4 DEF Next

(* Only the ping of a checker gets to the hub before the handshake request.*)
THEOREM ListenerPingsOnly == ASSUME Listening PROVE Spec => OnlyPingsPrecede
<1>1. ListenerInv /\ [Next]_vars =>
        [\A g \in Apps :
           peer[g] = "silent" /\ peer'[g] = "confused" => \E c \in Checkers : WriteOk(c)]_vars
  <2> SUFFICES ASSUME ListenerInv, [Next]_vars,
                      NEW g \in Apps, peer[g] = "silent", peer'[g] = "confused"
               PROVE  \E c \in Checkers : WriteOk(c)
    OBVIOUS
  <2> USE DEF ListenerInv, TypeOK
  <2>1. PICK p \in Procs : WriteOk(p)
    BY ConfusedByWrite
  <2>2. g = victim[p] /\ pc[p] = "write"
    BY <2>1 DEF WriteOk, Writes
  <2>3. p \notin Users /\ p \notin Deferreds
    BY <2>2, Kinds DEF UserWaits
  <2>4. p \notin Apps
    BY <2>2 DEF SocketIsNewest
  <2> QED BY <2>1, <2>3, <2>4 DEF Procs
<1> QED BY <1>1, ListenerInvHolds, PTL DEF Spec, OnlyPingsPrecede
-----------------------------------------------------------------------------
(* The life of the connection.                                             *)

\* SocketPhase, of the newest socket.
SocketStands ==
  IF ws = None THEN "none"
  ELSE IF ~Serving(ws) THEN "none"
  ELSE IF handshake_received THEN "accepted"
  ELSE IF peer[ws] \in {"ready", "refused"} THEN "over" ELSE "fresh"

LEMMA StandsOf == ListenerInv => SocketPhase = SocketStands
<1> SUFFICES ASSUME TypeOK, SocketIsNewest PROVE SocketPhase = SocketStands
  BY DEF ListenerInv
<1>1. CASE ws = None
  <2>1. Up = {}
    BY <1>1, Kinds, TransportAssumption DEF Up, Serving, SocketIsNewest, Alive
  <2> QED BY <1>1, <2>1 DEF SocketPhase, SocketStands
<1>2. CASE ws # None
  <2>1. ws \in Apps
    BY <1>2 DEF TypeOK
  <2>2. Up = IF Serving(ws) THEN {ws} ELSE {}
    BY <2>1 DEF Up, Serving, Alive, SocketIsNewest
  <2> QED BY <1>2, <2>2 DEF SocketPhase, SocketStands, TypeOK
<1> QED BY <1>1, <1>2

\* Every step is one of the life of the connection, or hidden from it.
LEMMA LifecycleStep ==
  ASSUME Listening, UserOps = {}, ~HasOnOpen, Backed, ListenerInv, ListenerInv', [Next]_vars
  PROVE  [Lifecycle!Next]_(Lifecycle!vars)
<1>0. SocketPhase = SocketStands /\ SocketPhase' = SocketStands'
  <2>1. SocketPhase = SocketStands
    BY StandsOf
  <2>2. (SocketPhase = SocketStands)'
    BY StandsOf, PTL
  <2> QED BY <2>1, <2>2
<1> USE <1>0, Kinds, TransportAssumption
    DEF Listening, Backed, TypeOK, ListenerInv, UserWaits, Unused, SocketIsNewest, OneChecker,
        CheckerWorks, StateIsOfNewest, AcceptedOnce, Alive, Serving, EndLabels, Dying, Goto,
        SocketLabels, CheckerLabels,
        handlerVars, Procs, SocketStands, Lifecycle!Next, Lifecycle!vars, Lifecycle!Begin,
        Lifecycle!Accept, Lifecycle!Finish, Lifecycle!Leave, Lifecycle!Falter
<1>1. ASSUME NEW p \in Procs, WriteOk(p) PROVE [Lifecycle!Next]_(Lifecycle!vars)
  BY <1>1 DEF WriteOk, Writes, After, KeepsChecking, reset
<1>2. ASSUME NEW p \in Procs, WriteFails(p) PROVE [Lifecycle!Next]_(Lifecycle!vars)
  BY <1>2 DEF WriteFails, Writes, Raised, Kill, GoneAtOnce
<1>3. ASSUME NEW p \in Procs, Notified(p) PROVE [Lifecycle!Next]_(Lifecycle!vars)
  BY <1>3 DEF Notified, BeginClose, Kill, GoneAtOnce
<1>4. ASSUME NEW p \in Procs, Closed(p) PROVE [Lifecycle!Next]_(Lifecycle!vars)
  BY <1>4 DEF Closed, After, KeepsChecking, Kill, GoneAtOnce
<1>5. ASSUME NEW p \in Procs, KillDelivered(p) PROVE [Lifecycle!Next]_(Lifecycle!vars)
  BY <1>5 DEF KillDelivered, Unwinds, Unwound
<1>6. ASSUME NEW p \in Procs, Joined(p) PROVE [Lifecycle!Next]_(Lifecycle!vars)
  BY <1>6 DEF Joined, JoinEnds, HeldUp, Survived
<1>7. ASSUME NEW p \in Procs, Restarted(p) PROVE [Lifecycle!Next]_(Lifecycle!vars)
  BY <1>7 DEF Restarted, Negotiated, Spawn, Free, After, KeepsChecking
<1>8. ASSUME NEW p \in Procs, RestartDeferred(p) PROVE [Lifecycle!Next]_(Lifecycle!vars)
  BY <1>8 DEF RestartDeferred, Fault
<1>9. ASSUME NEW p \in Procs, RestartGivesUp(p) PROVE [Lifecycle!Next]_(Lifecycle!vars)
  BY <1>9 DEF RestartGivesUp, Fault
<1>10. ASSUME NEW u \in Users, UserStart(u) PROVE [Lifecycle!Next]_(Lifecycle!vars)
  BY <1>10 DEF UserStart
<1>11. ASSUME NEW u \in Users, UserStop(u) PROVE [Lifecycle!Next]_(Lifecycle!vars)
  BY <1>11 DEF UserStop
<1>12. ASSUME NEW u \in Users, UserSend(u) PROVE [Lifecycle!Next]_(Lifecycle!vars)
  BY <1>12 DEF UserSend
<1>13. ASSUME NEW u \in Users, UserStarted(u) PROVE [Lifecycle!Next]_(Lifecycle!vars)
  BY <1>13 DEF UserStarted, Negotiated, Spawn, Free, After
<1>14. ASSUME NEW u \in Users, UserStartFails(u) PROVE [Lifecycle!Next]_(Lifecycle!vars)
  BY <1>14 DEF UserStartFails, Fault
<1>15. ASSUME NEW g \in Apps, Dial(g) PROVE [Lifecycle!Next]_(Lifecycle!vars)
  BY <1>15 DEF Dial
<1>16. ASSUME NEW g \in Apps, Connect(g) PROVE [Lifecycle!Next]_(Lifecycle!vars)
  BY <1>16 DEF Connect
<1>17. ASSUME NEW g \in Apps, ConnectFails(g) PROVE [Lifecycle!Next]_(Lifecycle!vars)
  BY <1>17 DEF ConnectFails
<1>18. ASSUME NEW g \in Apps, RecvHandshake(g) PROVE [Lifecycle!Next]_(Lifecycle!vars)
  BY <1>18 DEF RecvHandshake, Reads, Accept, Garbled, AcceptedState, StartsChecker
<1>19. ASSUME NEW g \in Apps, RecvHandshakeError(g) PROVE [Lifecycle!Next]_(Lifecycle!vars)
  BY <1>19 DEF RecvHandshakeError, Reads, Refuse, Garbled, Stopping
<1>20. ASSUME NEW g \in Apps, Refused(g) PROVE [Lifecycle!Next]_(Lifecycle!vars)
  BY <1>20 DEF Refused, RefusedState
<1>21. ASSUME NEW g \in Apps, CallbackReturns(g) PROVE [Lifecycle!Next]_(Lifecycle!vars)
  BY <1>21 DEF CallbackReturns
<1>22. ASSUME NEW g \in Apps, CallbackSends(g) PROVE [Lifecycle!Next]_(Lifecycle!vars)
  BY <1>22 DEF CallbackSends
<1>23. ASSUME NEW g \in Apps, CallbackRaises(g) PROVE [Lifecycle!Next]_(Lifecycle!vars)
  BY <1>23 DEF CallbackRaises
<1>24. ASSUME NEW g \in Apps, CallbackErrorHandled(g) PROVE [Lifecycle!Next]_(Lifecycle!vars)
  BY <1>24 DEF CallbackErrorHandled
<1>25. ASSUME NEW g \in Apps, ErrorHandled(g) PROVE [Lifecycle!Next]_(Lifecycle!vars)
  BY <1>25 DEF ErrorHandled
<1>26. ASSUME NEW g \in Apps, LinkLost(g) PROVE [Lifecycle!Next]_(Lifecycle!vars)
  BY <1>26 DEF LinkLost
<1>27. ASSUME NEW g \in Apps, HubHangsUp(g) PROVE [Lifecycle!Next]_(Lifecycle!vars)
  BY <1>27 DEF HubHangsUp, Reads
<1>28. ASSUME NEW g \in Apps, Teardown(g) PROVE [Lifecycle!Next]_(Lifecycle!vars)
  BY <1>28 DEF Teardown, ClosedState
<1>29. ASSUME NEW g \in Apps, RecvMessage(g) PROVE [Lifecycle!Next]_(Lifecycle!vars)
  BY <1>29 DEF RecvMessage, Reads, Accept, AcceptedState, StartsChecker, Refuse, Garbled
<1>30. ASSUME NEW g \in Apps, RecvClose(g) PROVE [Lifecycle!Next]_(Lifecycle!vars)
  BY <1>30 DEF RecvClose, Reads, Stopping, BeginClose
<1>31. ASSUME NEW g \in Apps, HubCloses(g) PROVE [Lifecycle!Next]_(Lifecycle!vars)
  BY <1>31 DEF HubCloses, Reads
<1>32. ASSUME NEW g \in Apps, Break(g) PROVE [Lifecycle!Next]_(Lifecycle!vars)
  BY <1>32 DEF Break
<1>33. ASSUME NEW c \in Checkers, CheckerBegins(c) PROVE [Lifecycle!Next]_(Lifecycle!vars)
  BY <1>33 DEF CheckerBegins, After, KeepsChecking
<1>34. ASSUME NEW c \in Checkers, CheckerWakes(c) PROVE [Lifecycle!Next]_(Lifecycle!vars)
  BY <1>34 DEF CheckerWakes, BeginWrite, After, KeepsChecking
<1>35. ASSUME NEW d \in Deferreds, DeferredWakes(d) PROVE [Lifecycle!Next]_(Lifecycle!vars)
  BY <1>35 DEF DeferredWakes
<1>36. CASE Age \/ UNCHANGED vars
  BY <1>36 DEF Age, vars
<1>37. ASSUME NEW p \in Procs, TokenFetched(p) PROVE [Lifecycle!Next]_(Lifecycle!vars)
  BY <1>37 DEF TokenFetched, BeginWrite
<1>38. ASSUME NEW p \in Procs, NotifyFails(p) PROVE [Lifecycle!Next]_(Lifecycle!vars)
  BY <1>38 DEF NotifyFails, Raised
<1>39. ASSUME NEW g \in Apps, Upgraded(g) PROVE [Lifecycle!Next]_(Lifecycle!vars)
  BY <1>39 DEF Upgraded, BeginWrite
<1>40. ASSUME NEW g \in Apps, EndReturns(g) PROVE [Lifecycle!Next]_(Lifecycle!vars)
  BY <1>40 DEF EndReturns
<1>41. ASSUME NEW g \in Apps, CloseRaises(g) PROVE [Lifecycle!Next]_(Lifecycle!vars)
  BY <1>41 DEF CloseRaises, OnCloseRaised
<1> HIDE DEF ListenerInv, Backed, Listening, Lifecycle!Next, Lifecycle!vars
<1> QED
  BY <1>1, <1>2, <1>3, <1>4, <1>5, <1>6, <1>7, <1>8, <1>9, <1>10, <1>11, <1>12, <1>13,
     <1>14, <1>15, <1>16, <1>17, <1>18, <1>19, <1>20, <1>21, <1>22, <1>23, <1>24, <1>25,
     <1>26, <1>27, <1>28, <1>29, <1>30, <1>31, <1>32, <1>33, <1>34, <1>35, <1>36, <1>37,
     <1>38, <1>39, <1>40, <1>41
  DEF Next, SendStep, UserCall, UserStep, SocketStep, UnowedStep, CheckerStep

LEMMA LifecycleInit == Init => Lifecycle!Init
<1> SUFFICES ASSUME Init PROVE Lifecycle!Init
  OBVIOUS
<1>1. SocketPhase = SocketStands
  BY ListenerInit, StandsOf
<1> QED BY <1>1 DEF Init, SocketStands, Lifecycle!Init

(* Sockets one after the other, each accepted once at most, and            *)
(* "connected" for an accepted one only, whatever faults, slow connects,   *)
(* pings and reconnections come between, for as long as nobody stops.      *)
THEOREM ListenerImplementsLifecycle ==
  ASSUME Listening, UserOps = {}, ~HasOnOpen PROVE Spec => ImplementsLifecycle
<1>1. Backed /\ ListenerInv /\ ListenerInv' /\ [Next]_vars => [Lifecycle!Next]_(Lifecycle!vars)
  BY LifecycleStep
<1> QED
  BY <1>1, LifecycleInit, ListenerInvHolds, AlwaysBacked, PTL
  DEF Spec, ImplementsLifecycle, Lifecycle!Spec
===============================================================================
