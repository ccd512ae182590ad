------------------------------ MODULE Transport ------------------------------
(***************************************************************************)
(* WebsocketTransport, its ConnectionStateChecker and the websocket-client *)
(* library underneath (transport/websocket.py, transport/__init__.py),     *)
(* with every greenlet that runs their code: callers of the Connection,    *)
(* one socket greenlet per WebSocketApp (run_forever), keep-alive checkers *)
(* and deferred reconnections.                                             *)
(*                                                                         *)
(* gevent switches greenlets only where the code waits: at the network, in *)
(* gevent.sleep, in Greenlet.kill and in callbacks of the application.  An *)
(* action is the code between two such points, and pc names the point a    *)
(* greenlet waits at.                                                      *)
(***************************************************************************)
EXTENDS ReconnectionHandler, FiniteSets

CONSTANTS
  Users,        \* greenlets of the application that call the Connection
  Apps,         \* WebSocketApp objects, each with its socket greenlet
  Checkers,     \* greenlets of ConnectionStateChecker.run
  Deferreds,    \* greenlets of deferred_reconnect
  None,         \* no WebSocketApp
  Protocol,     \* the hub protocol, "json" or "messagepack"
  HasOnOpen,    \* is an on_open callback registered?
  UserOps,      \* calls the application makes once it has called start()
  CallbackOps,  \* what callbacks for messages and on_open may do
  CloseOps,     \* what on_close may do: raise, or wait for whoever kills its
                \* greenlet, for a lock or for the semaphore of a Subject
  NotifyRaises, \* may on_reconnect raise?
  KillTimesOut, \* may kill(timeout=10) return with the greenlet alive?
  SlowConnect,  \* may connecting take longer than the sleep of a checker?
  FaultKinds,   \* what may go wrong: see Faults
  MaxFaults,    \* bound: how often, in all ...
  Endless       \* ... unless faults may go on for ever

\* The token factory or the negotiation raises, the socket is not connected or
\* not upgraded, the hub refuses the handshake, it closes the connection, the
\* connection is lost.
Faults == {"start", "connect", "refuse", "close", "lose"}

Procs == Users \cup Apps \cup Checkers \cup Deferreds

ASSUME TransportAssumption ==
  /\ None \notin Procs
  /\ Users \cap Apps = {} /\ Users \cap Checkers = {} /\ Users \cap Deferreds = {}
  /\ Apps \cap Checkers = {} /\ Apps \cap Deferreds = {}
  /\ Checkers \cap Deferreds = {}
  /\ Protocol \in {"json", "messagepack"}
  /\ HasOnOpen \in BOOLEAN /\ NotifyRaises \in BOOLEAN /\ KillTimesOut \in BOOLEAN
  /\ SlowConnect \in BOOLEAN /\ Endless \in BOOLEAN
  /\ UserOps \subseteq {"restart", "stop", "send", "stream"}
  /\ CallbackOps \subseteq {"send", "raise"} /\ CloseOps \subseteq {"raise", "wait"}
  /\ FaultKinds \subseteq Faults
  /\ MaxFaults \in Nat

VARIABLES
  state,               \* WebsocketTransport.state
  handshake_received,  \* WebsocketTransport.handshake_received
  ws,                  \* WebsocketTransport._ws; _greenlet is its greenlet
  running,             \* ConnectionStateChecker.running
  stale,               \* keep_alive_interval < time() - last_message
  link,                \* the socket of each WebSocketApp
  peer,                \* how far the hub behind that socket is
  pc,                  \* where each greenlet waits
  victim,              \* the WebSocketApp a greenlet writes to, closes or kills
  outcome,             \* how the last send of each user ended
  faults               \* faults left to the network and the server

vars == <<state, handshake_received, ws, running, stale, link, peer, pc,
          victim, outcome, faults, reconnecting, attempt_number>>

States == {"connecting", "connected", "disconnected"}

\* none: not connected yet, open: usable, broken: dead but nobody noticed,
\* closing: in the closing handshake, closed: gone for good.
Links == {"none", "open", "broken", "closing", "closed"}

\* silent: no frame arrived, greeted: the handshake request came first,
\* confused: another frame came first, ready / refused: has answered.
Peers == {"silent", "greeted", "confused", "ready", "refused"}

Labels == {"idle", "start", "token", "write", "notify", "closing", "reclosing",
           "kill", "join", "restart", "spawned", "dialing", "upgrading",
           "greeting", "reading", "callback", "refused", "cberror", "error",
           "teardown", "ending", "enderror", "sleep", "dead"}

\* The on_close callback at the end of run_forever, and once more after it
\* has raised: the transport has no more to do for this socket.
EndLabels == {"ending", "enderror"}

Outcomes == {"none", "sent", "dropped", "raised"}

Init ==
  /\ HandlerInit
  /\ state = "disconnected"
  /\ handshake_received = FALSE
  /\ ws = None
  /\ running = FALSE
  /\ stale = FALSE
  /\ link = [g \in Apps |-> "closed"]
  /\ peer = [g \in Apps |-> "silent"]
  /\ pc = [p \in Procs |-> IF p \in Users THEN "idle" ELSE "dead"]
  /\ victim = [p \in Procs |-> None]
  /\ outcome = [u \in Users |-> "none"]
  /\ faults = MaxFaults
-----------------------------------------------------------------------------
\* Faulty variant: the loop also ends while the transport is down.
KeepsChecking_WhileUp == running /\ state # "disconnected"

KeepsChecking == running

(* Where a greenlet goes when the transport call it made returns ...       *)
After(p) ==
  CASE p \in Users     -> "idle"
    [] p \in Apps      -> "reading"
    [] p \in Checkers  -> IF KeepsChecking THEN "sleep" ELSE "dead"
    [] p \in Deferreds -> "dead"

(* ... and when it raises: websocket-client catches what its callbacks     *)
(* raise and calls on_error; a checker or deferred greenlet ends.          *)
Raised(p) ==
  CASE p \in Users -> "idle"
    [] p \in Apps  -> "cberror"
    [] OTHER       -> "dead"

Goto(p, label) == pc' = [pc EXCEPT ![p] = label]

Ends(p, how) ==
  outcome' = IF p \in Users THEN [outcome EXCEPT ![p] = how] ELSE outcome

Fault(kind) ==
  /\ kind \in FaultKinds
  /\ faults > 0
  /\ faults' = IF Endless THEN faults ELSE faults - 1

\* A WebSocketApp and its greenlet that nothing refers to any more.
Free == {g \in Apps : pc[g] = "dead" /\ \A p \in Procs : victim[p] # g}

Alive(g) == pc[g] # "dead"

\* Its teardown is still to come.
Serving(g) == pc[g] \notin EndLabels \cup {"dead"}

Connecting == \E g \in Apps : pc[g] \in {"spawned", "dialing", "upgrading", "greeting"}

\* Nobody who sleeps wakes during an attempt to connect that is quicker.
MayWake == SlowConnect \/ ~Connecting
-----------------------------------------------------------------------------
(* start(): negotiation has succeeded.                                     *)
Spawn(p) ==
  \E g \in Free :
    /\ state' = "connecting"
    /\ ws' = g
    /\ link' = [link EXCEPT ![g] = "none"]
    /\ peer' = [peer EXCEPT ![g] = "silent"]
    /\ pc' = [pc EXCEPT ![p] = After(p), ![g] = "spawned"]

Negotiated(p) ==
  /\ \/ state = "connected" /\ Goto(p, After(p)) /\ UNCHANGED <<state, ws, link, peer>>
     \/ state # "connected" /\ Spawn(p)
  /\ UNCHANGED <<handshake_received, running, stale, victim, faults, handlerVars>>

\* A greenlet that is dead or never ran needs no switch to it to be killed.
GoneAtOnce(g) == pc[g] \in {"dead", "spawned"}

(* handle_reconnect from self._greenlet.kill on.                           *)
Kill(p) ==
  IF GoneAtOnce(ws)
  THEN /\ pc' = [pc EXCEPT ![ws] = "dead", ![p] = "restart"]
       /\ victim' = [victim EXCEPT ![p] = None]
  ELSE /\ Goto(p, "kill")
       /\ victim' = [victim EXCEPT ![p] = ws]

\* transport.send reads self.ws and then waits in the write.
BeginWrite(p, label) ==
  /\ victim' = [victim EXCEPT ![p] = ws]
  /\ Goto(p, label)

(* stop() while connected, up to the wait for the close frame.             *)
BeginClose(p, label) ==
  /\ running' = FALSE
  /\ link' = [link EXCEPT ![ws] = IF @ \in {"open", "broken"} THEN "closing" ELSE "closed"]
  /\ victim' = [victim EXCEPT ![p] = ws]
  /\ Goto(p, label)
-----------------------------------------------------------------------------
(* Calls of the application.                                               *)

\* Connection.start: the token and the negotiation are fetched first.
UserStart(u) ==
  /\ pc[u] = "idle"
  /\ ws = None \/ "restart" \in UserOps
  /\ Goto(u, "start")
  /\ UNCHANGED <<state, handshake_received, ws, running, stale, link, peer,
                 victim, outcome, faults, handlerVars>>

UserStarted(u) ==
  /\ pc[u] = "start"
  /\ Negotiated(u)
  /\ UNCHANGED outcome

\* The token factory or the negotiation raised; so does start().
UserStartFails(u) ==
  /\ pc[u] = "start"
  /\ Fault("start")
  /\ Goto(u, "idle")
  /\ UNCHANGED <<state, handshake_received, ws, running, stale, link, peer,
                 victim, outcome, handlerVars>>

UserStop(u) ==
  /\ pc[u] = "idle"
  /\ "stop" \in UserOps
  /\ state = "connected"
  /\ BeginClose(u, "closing")
  /\ UNCHANGED <<state, handshake_received, ws, stale, peer, outcome, faults, handlerVars>>

\* Connection.send looks at is_running() and then fetches a token;
\* Connection.stream and Subject.next go to the transport unchecked.
UserSend(u) ==
  /\ pc[u] = "idle"
  /\ \/ "send" \in UserOps /\ state # "disconnected" /\ Goto(u, "token") /\ UNCHANGED victim
     \/ "stream" \in UserOps /\ ws # None /\ BeginWrite(u, "write")
  /\ Ends(u, "none")
  /\ UNCHANGED <<state, handshake_received, ws, running, stale, link, peer,
                 faults, handlerVars>>

\* (If the factory raises, so does the send, as if it had not been called.)
TokenFetched(p) ==
  /\ pc[p] = "token"
  /\ BeginWrite(p, "write")
  /\ UNCHANGED <<state, handshake_received, ws, running, stale, link, peer,
                 outcome, faults, handlerVars>>
-----------------------------------------------------------------------------
(* WebsocketTransport.send, at the write to the socket: a message, or the  *)
(* handshake request of on_open.                                           *)

Writes(p) == pc[p] \in {"write", "greeting"} /\ victim[p] # None

WriteOk(p) ==
  /\ Writes(p)
  /\ LET g == victim[p]
     IN /\ link[g] \in {"open", "broken", "closing"}
        /\ peer' = IF link[g] = "open" /\ peer[g] = "silent"
                   THEN [peer EXCEPT ![g] = IF pc[p] = "greeting" THEN "greeted" ELSE "confused"]
                   ELSE peer
  /\ stale' = FALSE
  /\ IF HasHandler THEN reset ELSE UNCHANGED handlerVars
  /\ Goto(p, After(p))
  /\ victim' = [victim EXCEPT ![p] = None]
  /\ Ends(p, "sent")
  /\ UNCHANGED <<state, handshake_received, ws, running, link, faults>>

\* The socket may have been replaced while p waited; state and
\* handshake_received are then those of its successor.  (The on_close callback
\* without a handler is the last thing before the raise, and has no effect.)
WriteFails(p) ==
  /\ Writes(p)
  /\ link[victim[p]] # "open"
  /\ handshake_received' = FALSE
  /\ state' = "disconnected"
  /\ \/ /\ ~HasHandler
        /\ Goto(p, Raised(p))
        /\ Ends(p, "raised")
        /\ victim' = [victim EXCEPT ![p] = None]
     \/ /\ HasHandler /\ ~reconnecting
        /\ Goto(p, "notify")
        /\ victim' = [victim EXCEPT ![p] = None]
        /\ UNCHANGED outcome
     \/ /\ HasHandler /\ reconnecting
        /\ Kill(p)
        /\ UNCHANGED outcome
  /\ UNCHANGED <<ws, running, stale, link, peer, faults, handlerVars>>

\* The on_reconnect callback has returned; by now another greenlet may have
\* connected again, and then stop() closes that connection.
Notified(p) ==
  /\ pc[p] = "notify"
  /\ reconnecting' = TRUE
  /\ \/ state = "connected" /\ BeginClose(p, "reclosing")
     \/ state # "connected" /\ Kill(p) /\ UNCHANGED <<running, link>>
  /\ handshake_received' = (handshake_received /\ pc'[p] # "restart")
  /\ UNCHANGED <<state, ws, stale, peer, outcome, faults, attempt_number>>

\* on_reconnect raises out of send(), before anything of the reconnection is
\* done; deferred_reconnect catches it, and nothing catches it for a checker.
NotifyFails(p) ==
  /\ pc[p] = "notify"
  /\ NotifyRaises
  /\ reconnecting' = (reconnecting /\ p \notin Deferreds)
  /\ Goto(p, Raised(p))
  /\ Ends(p, "raised")
  /\ UNCHANGED <<state, handshake_received, ws, running, stale, link, peer,
                 victim, faults, attempt_number>>

\* WebSocketApp.close has returned, and stop() ends.
Closed(p) ==
  /\ pc[p] \in {"closing", "reclosing"}
  /\ link' = [link EXCEPT ![victim[p]] = "closed"]
  /\ state' = "disconnected"
  /\ handshake_received' = FALSE
  /\ \/ pc[p] = "closing" /\ Goto(p, After(p)) /\ victim' = [victim EXCEPT ![p] = None]
     \/ pc[p] = "reclosing" /\ Kill(p)
  /\ UNCHANGED <<ws, running, stale, peer, outcome, faults, handlerVars>>

\* Faulty variant: a bare except in a callback swallows the exception.
Unwinds_NotCallback(g) ==
  pc[g] \notin {"dead", "teardown", "closing", "reclosing", "callback"}

\* websocket-client drops GreenletExit in the waits of close() and teardown.
Unwinds(g) == pc[g] \notin {"dead", "teardown", "closing", "reclosing"}

\* From there it unwinds to its teardown, if that is not behind it.
Unwound(g) == IF pc[g] \in EndLabels THEN "dead" ELSE "teardown"

\* GreenletExit reaches the victim at its wait, also when it is the greenlet
\* that asked for it.
KillDelivered(p) ==
  /\ pc[p] = "kill"
  /\ LET g == victim[p]
     IN IF Unwinds(g)
        THEN /\ pc' = [pc EXCEPT ![p] = "join", ![g] = Unwound(g)]
             /\ victim' = [victim EXCEPT ![g] = None]
        ELSE Goto(p, "join") /\ UNCHANGED victim
  /\ UNCHANGED <<state, handshake_received, ws, running, stale, link, peer,
                 outcome, faults, handlerVars>>

\* The victim is in its on_close callback, which waits for p: for what the
\* application holds around a call, and a ping is not one.
HeldUp(p) ==
  /\ "wait" \in CloseOps
  /\ pc[p] = "join" /\ p \in Users \cup Apps
  /\ pc[victim[p]] \in EndLabels

\* The victim has dropped GreenletExit while it closed another socket than its
\* own, and reads on.
Survived(p) ==
  /\ pc[victim[p]] \notin EndLabels \cup {"teardown"}
  /\ link[victim[p]] \in {"open", "broken"}

\* Faulty variant: the join is left out.
JoinEnds_Early(p) == TRUE

\* Faulty variant: kill() without a timeout.
JoinEnds_Untimed(p) == ~Alive(victim[p])

\* The victim is dead, or ten seconds are over: in any case when it does not
\* end before p goes on.
JoinEnds(p) == ~Alive(victim[p]) \/ KillTimesOut \/ HeldUp(p) \/ Survived(p)

Joined(p) ==
  /\ pc[p] = "join"
  /\ JoinEnds(p)
  /\ handshake_received' = FALSE
  /\ Goto(p, "restart")
  /\ victim' = [victim EXCEPT ![p] = None]
  /\ UNCHANGED <<state, ws, running, stale, link, peer, outcome, faults, handlerVars>>

\* connection.start() inside handle_reconnect; the caller's message is gone.
Restarted(p) ==
  /\ pc[p] = "restart"
  /\ Negotiated(p)
  /\ Ends(p, "dropped")

Defer(p) ==
  \E d \in Deferreds :
    /\ pc[d] = "dead" \/ d = p
    /\ pc' = [[pc EXCEPT ![p] = After(p)] EXCEPT ![d] = "sleep"]

RestartDeferred(p) ==
  /\ pc[p] = "restart"
  /\ Fault("start")
  /\ BudgetLeft
  /\ next
  /\ Defer(p)
  /\ Ends(p, "dropped")
  /\ UNCHANGED <<state, handshake_received, ws, running, stale, link, peer, victim>>

\* next() raises out of send(); deferred_reconnect catches it.
RestartGivesUp(p) ==
  /\ pc[p] = "restart"
  /\ Fault("start")
  /\ ~BudgetLeft
  /\ CountAttempt
  /\ reconnecting' = (p \notin Deferreds)
  /\ Goto(p, Raised(p))
  /\ Ends(p, "raised")
  /\ UNCHANGED <<state, handshake_received, ws, running, stale, link, peer, victim>>
-----------------------------------------------------------------------------
(* The greenlets that ping: ConnectionStateChecker.run, deferred_reconnect.*)

\* keep_alive_interval has passed since the last successful send.
Age ==
  /\ ~stale
  /\ stale' = TRUE
  /\ UNCHANGED <<state, handshake_received, ws, running, link, peer, pc,
                 victim, outcome, faults, handlerVars>>

CheckerBegins(c) ==
  /\ pc[c] = "spawned"
  /\ Goto(c, After(c))
  /\ UNCHANGED <<state, handshake_received, ws, running, stale, link, peer,
                 victim, outcome, faults, handlerVars>>

CheckerWakes(c) ==
  /\ pc[c] = "sleep"
  /\ MayWake
  /\ \/ stale /\ BeginWrite(c, "write")
     \/ ~stale /\ Goto(c, After(c)) /\ UNCHANGED victim
  /\ UNCHANGED <<state, handshake_received, ws, running, stale, link, peer,
                 outcome, faults, handlerVars>>

DeferredWakes(d) ==
  /\ pc[d] = "sleep"
  /\ MayWake
  /\ BeginWrite(d, "write")
  /\ UNCHANGED <<state, handshake_received, ws, running, stale, link, peer,
                 outcome, faults, handlerVars>>
-----------------------------------------------------------------------------
(* The socket greenlet: WebSocketApp.run_forever and the callbacks of the  *)
(* transport it makes.                                                     *)

Dial(g) ==
  /\ pc[g] = "spawned"
  /\ Goto(g, "dialing")
  /\ UNCHANGED <<state, handshake_received, ws, running, stale, link, peer,
                 victim, outcome, faults, handlerVars>>

\* TCP and TLS are up: from here on the socket takes writes.
Connect(g) ==
  /\ pc[g] = "dialing"
  /\ link' = [link EXCEPT ![g] = IF @ = "none" THEN "open" ELSE @]
  /\ Goto(g, "upgrading")
  /\ UNCHANGED <<state, handshake_received, ws, running, stale, peer,
                 victim, outcome, faults, handlerVars>>

\* The upgrade is complete, and on_open sends the handshake request.
Upgraded(g) ==
  /\ pc[g] = "upgrading"
  /\ BeginWrite(g, "greeting")
  /\ UNCHANGED <<state, handshake_received, ws, running, stale, link, peer,
                 outcome, faults, handlerVars>>

\* Refused, unreachable or not upgraded.  on_socket_error calls on_close.
ConnectFails(g) ==
  /\ pc[g] \in {"dialing", "upgrading"}
  /\ Fault("connect")
  /\ link' = [link EXCEPT ![g] = "closed"]
  /\ Goto(g, "error")
  /\ UNCHANGED <<state, handshake_received, ws, running, stale, peer,
                 victim, outcome, handlerVars>>

\* Faulty variant: the checker is started whether it runs or not.
StartsChecker_Always == HasHandler

StartsChecker == HasHandler /\ ~running

\* Faulty variant: the state is set for an on_open callback only.
AcceptedState_OnOpen == IF HasOnOpen THEN "connected" ELSE state

AcceptedState == "connected"

\* on_message with handshake_received unset: the frame is taken for the
\* handshake response, whatever it is, and accepted if it names no error.
Accept(g) ==
  /\ handshake_received' = TRUE
  /\ state' = AcceptedState
  /\ reconnecting' = IF HasHandler THEN FALSE ELSE reconnecting
  /\ LET next_label == IF HasOnOpen THEN "callback" ELSE "reading"
     IN IF StartsChecker
        THEN /\ running' = TRUE
             /\ \E c \in Checkers :
                  /\ pc[c] = "dead"
                  /\ pc' = [pc EXCEPT ![g] = next_label, ![c] = "spawned"]
        ELSE /\ Goto(g, next_label)
             /\ UNCHANGED running
  /\ UNCHANGED <<ws, stale, link, victim, outcome, attempt_number>>

\* A handshake response that names an error is a message without a type for
\* parse_messages, and such a message is a Close: connection.stop().
Stopping(g) ==
  /\ \/ state = "connected" /\ BeginClose(g, "closing")
     \/ state # "connected" /\ UNCHANGED <<running, link, victim, pc>>
  /\ UNCHANGED <<state, handshake_received, ws, stale, outcome, handlerVars>>

\* on_socket_error calls on_close before anything else.
Refuse(g) ==
  /\ Goto(g, "refused")
  /\ UNCHANGED <<state, handshake_received, ws, running, stale, link, victim,
                 outcome, handlerVars>>

Reads(g) == pc[g] = "reading" /\ link[g] = "open"

\* MessagePack raises on a handshake response in the place of a message and on
\* a message in the place of a handshake response; JSON reads either.
Garbled(g) ==
  /\ Protocol = "messagepack"
  /\ Goto(g, "cberror")
  /\ UNCHANGED <<state, handshake_received, ws, running, stale, link, victim,
                 outcome, handlerVars>>

\* The hub accepts the handshake.  With handshake_received still set from an
\* earlier connection the response is parsed as a message: one without any
\* keys, which JSON skips.
RecvHandshake(g) ==
  /\ Reads(g)
  /\ peer[g] = "greeted"
  /\ peer' = [peer EXCEPT ![g] = "ready"]
  /\ \/ ~handshake_received /\ Accept(g)
     \/ handshake_received /\ Garbled(g)
     \/ /\ handshake_received /\ Protocol = "json"
        /\ UNCHANGED <<state, handshake_received, ws, running, stale, link, pc,
                       victim, outcome, handlerVars>>
  /\ UNCHANGED faults

RecvHandshakeError(g) ==
  /\ Reads(g)
  /\ peer[g] \in {"greeted", "confused"}
  /\ Fault("refuse") \/ (peer[g] = "confused" /\ UNCHANGED faults)
  /\ peer' = [peer EXCEPT ![g] = "refused"]
  /\ \/ ~handshake_received /\ Refuse(g)
     \/ handshake_received /\ Garbled(g)
     \/ handshake_received /\ Protocol = "json" /\ Stopping(g)

\* Faulty variant: the state is set whether on_open is registered or not.
RefusedState_Always == "connected"

RefusedState == IF HasOnOpen THEN "connected" ELSE "disconnected"

\* After the on_close callback for a refused handshake: stop() does nothing,
\* the state being disconnected, and on_open is called all the same.
Refused(g) ==
  /\ pc[g] = "refused"
  /\ state' = RefusedState
  /\ Goto(g, IF HasOnOpen THEN "callback" ELSE "reading")
  /\ UNCHANGED <<handshake_received, ws, running, stale, link, peer, victim,
                 outcome, faults, handlerVars>>

\* A message for the application: its handler runs, or, when the frame is
\* mistaken for a handshake response, it does not.
RecvMessage(g) ==
  /\ Reads(g)
  /\ peer[g] = "ready"
  /\ \/ /\ handshake_received
        /\ Goto(g, "callback")
        /\ UNCHANGED <<state, handshake_received, ws, running, stale, link,
                       victim, outcome, handlerVars>>
     \/ ~handshake_received /\ Protocol = "json" /\ (Accept(g) \/ Refuse(g))
     \/ ~handshake_received /\ Garbled(g)
  /\ UNCHANGED <<peer, faults>>

RecvClose(g) ==
  /\ Reads(g)
  /\ peer[g] = "ready"
  /\ handshake_received
  /\ Fault("close")
  /\ Stopping(g)
  /\ UNCHANGED peer

CallbackReturns(g) ==
  /\ pc[g] = "callback"
  /\ Goto(g, "reading")
  /\ UNCHANGED <<state, handshake_received, ws, running, stale, link, peer,
                 victim, outcome, faults, handlerVars>>

CallbackSends(g) ==
  /\ pc[g] = "callback"
  /\ "send" \in CallbackOps
  /\ Goto(g, IF state # "disconnected" THEN "token" ELSE "cberror")
  /\ UNCHANGED <<state, handshake_received, ws, running, stale, link, peer,
                 victim, outcome, faults, handlerVars>>

CallbackRaises(g) ==
  /\ pc[g] = "callback"
  /\ "raise" \in CallbackOps
  /\ Goto(g, "cberror")
  /\ UNCHANGED <<state, handshake_received, ws, running, stale, link, peer,
                 victim, outcome, faults, handlerVars>>

\* on_socket_error for an exception of a callback: the socket stays open.
CallbackErrorHandled(g) ==
  /\ pc[g] = "cberror"
  /\ state' = "disconnected"
  /\ Goto(g, "reading")
  /\ UNCHANGED <<handshake_received, ws, running, stale, link, peer, victim,
                 outcome, faults, handlerVars>>

\* on_socket_error for an exception of the socket: teardown follows.
ErrorHandled(g) ==
  /\ pc[g] = "error"
  /\ state' = "disconnected"
  /\ Goto(g, "teardown")
  /\ UNCHANGED <<handshake_received, ws, running, stale, link, peer, victim,
                 outcome, faults, handlerVars>>

\* The socket is lost, and the reader of it finds out.
LinkLost(g) ==
  /\ pc[g] = "reading"
  /\ \/ link[g] = "broken" /\ Goto(g, "error")
     \/ link[g] \in {"closing", "closed"} /\ \E l \in {"error", "teardown"} : Goto(g, l)
  /\ UNCHANGED <<state, handshake_received, ws, running, stale, link, peer,
                 victim, outcome, faults, handlerVars>>

\* A close frame of the hub: it ends the connection, or it has refused it.
HubCloses(g) ==
  /\ Reads(g)
  /\ Fault("close")
  /\ Goto(g, "teardown")
  /\ UNCHANGED <<state, handshake_received, ws, running, stale, link, peer,
                 victim, outcome, handlerVars>>

HubHangsUp(g) ==
  /\ Reads(g)
  /\ peer[g] \in {"refused", "confused"}
  /\ Goto(g, "teardown")
  /\ UNCHANGED <<state, handshake_received, ws, running, stale, link, peer,
                 victim, outcome, faults, handlerVars>>

\* Faulty variant: on_close leaves the state alone.
ClosedState_Kept == state

ClosedState == "disconnected"

\* teardown() closes the socket, and on_close sets the state and calls the
\* callback of the application.
Teardown(g) ==
  /\ pc[g] = "teardown"
  /\ link' = [link EXCEPT ![g] = "closed"]
  /\ peer' = [peer EXCEPT ![g] = "silent"]
  /\ state' = ClosedState
  /\ Goto(g, "ending")
  /\ UNCHANGED <<handshake_received, ws, running, stale, victim, outcome,
                 faults, handlerVars>>

\* The callback returns, if it does not wait for who waits for it.  After a
\* first one that raised it was on_socket_error that called it.
EndReturns(g) ==
  /\ pc[g] \in EndLabels
  /\ ~\E p \in Procs : victim[p] = g /\ HeldUp(p)
  /\ state' = IF pc[g] = "enderror" THEN "disconnected" ELSE state
  /\ Goto(g, "dead")
  /\ UNCHANGED <<handshake_received, ws, running, stale, link, peer, victim,
                 outcome, faults, handlerVars>>

\* Wherever on_close is called: websocket-client calls on_error for what its
\* callbacks raise, and ends run_forever for what on_error raises.
OnCloseRaised ==
  [refused |-> "cberror", cberror |-> "error", error |-> "teardown",
   ending |-> "enderror", enderror |-> "dead"]

CloseRaises(g) ==
  /\ "raise" \in CloseOps
  /\ pc[g] \in DOMAIN OnCloseRaised
  /\ Goto(g, OnCloseRaised[pc[g]])
  /\ UNCHANGED <<state, handshake_received, ws, running, stale, link, peer,
                 victim, outcome, faults, handlerVars>>

\* The network drops an open socket; nobody is told.
Break(g) ==
  /\ link[g] = "open"
  /\ Fault("lose")
  /\ link' = [link EXCEPT ![g] = "broken"]
  /\ UNCHANGED <<state, handshake_received, ws, running, stale, peer, pc,
                 victim, outcome, handlerVars>>
-----------------------------------------------------------------------------
SendStep(p) ==
  TokenFetched(p) \/ WriteOk(p) \/ WriteFails(p) \/ Notified(p) \/ NotifyFails(p)
    \/ Closed(p) \/ KillDelivered(p) \/ Joined(p) \/ Restarted(p)
    \/ RestartDeferred(p) \/ RestartGivesUp(p)

UserCall(u) == UserStart(u) \/ UserStop(u) \/ UserSend(u)

UserStep(u) == UserStarted(u) \/ UserStartFails(u)

SocketStep(g) ==
  Dial(g) \/ Connect(g) \/ Upgraded(g) \/ ConnectFails(g) \/ RecvHandshake(g)
    \/ RecvHandshakeError(g) \/ Refused(g) \/ CallbackReturns(g)
    \/ CallbackSends(g) \/ CallbackRaises(g) \/ CallbackErrorHandled(g)
    \/ ErrorHandled(g) \/ LinkLost(g) \/ HubHangsUp(g) \/ Teardown(g)
    \/ EndReturns(g)

\* What nobody owes.
UnowedStep(g) ==
  RecvMessage(g) \/ RecvClose(g) \/ HubCloses(g) \/ Break(g) \/ CloseRaises(g)

CheckerStep(c) == CheckerBegins(c) \/ CheckerWakes(c)

Next ==
  \/ \E p \in Procs : SendStep(p)
  \/ \E u \in Users : UserCall(u) \/ UserStep(u)
  \/ \E g \in Apps : SocketStep(g) \/ UnowedStep(g)
  \/ \E c \in Checkers : CheckerStep(c)
  \/ \E d \in Deferreds : DeferredWakes(d)
  \/ Age

Spec == Init /\ [][Next]_vars

(***************************************************************************)
(* gevent runs every greenlet that can run, so each takes its next step;   *)
(* time passes.  Calls of the application, messages, faults and exceptions *)
(* of on_close are not owed to anyone; an answer to a handshake, and the   *)
(* end of a refused connection, are.                                       *)
(***************************************************************************)
Fairness ==
  /\ \A p \in Procs : WF_vars(SendStep(p))
  /\ \A u \in Users : WF_vars(UserStep(u))
  /\ \A g \in Apps : WF_vars(SocketStep(g))
  /\ \A c \in Checkers : WF_vars(CheckerStep(c))
  /\ \A d \in Deferreds : WF_vars(DeferredWakes(d))
  /\ WF_vars(Age)

FairSpec == Spec /\ Fairness
-----------------------------------------------------------------------------
(* Properties. *)

\* Every variable keeps to the values its field can have; the counter of the
\* retry handler never passes the first number next() refuses.
TypeOK ==
  /\ state \in States
  /\ handshake_received \in BOOLEAN
  /\ ws \in Apps \cup {None}
  /\ running \in BOOLEAN
  /\ stale \in BOOLEAN
  /\ link \in [Apps -> Links]
  /\ peer \in [Apps -> Peers]
  /\ pc \in [Procs -> Labels]
  /\ victim \in [Procs -> Apps \cup {None}]
  /\ outcome \in [Users -> Outcomes]
  /\ faults \in 0..MaxFaults
  /\ reconnecting \in BOOLEAN
  /\ attempt_number \in 0..AttemptCap

RetryLabels == {"notify", "reclosing", "kill", "join", "restart"}

\* (Not while on_reconnect runs: it may raise, and nothing has been done yet.)
RetryUnderWay ==
  \/ \E p \in Procs : pc[p] \in RetryLabels \ {"notify"}
  \/ \E d \in Deferreds : pc[d] \notin {"dead", "notify"}

\* is_running() is true only while something can still end that: a socket
\* greenlet, whose teardown will run on_close, or a reconnection under way.
\* The exception is a handler that has given up.
RunningIsBacked ==
  state # "disconnected" =>
    (\E g \in Apps : Serving(g)) \/ RetryUnderWay \/ Exhausted

\* The state is "connected" only while a socket greenlet that has started is
\* there to notice the end: no kill and no teardown leaves it behind.
ConnectedIsBacked ==
  state = "connected" => \E g \in Apps : Serving(g) /\ pc[g] # "spawned"

\* ConnectionStateChecker.running is what keeps a second checker from being
\* started, so it must not outlive the greenlet it speaks of.  It does if an
\* exception of a handler that gives up, or of on_reconnect, ends the checker.
KeepAliveBacked == running => \E c \in Checkers : Alive(c)

\* A lost connection is replaced, never doubled: the greenlet of the old
\* socket is killed and joined before start() makes the next one.
OneSocket == \A g, h \in Apps : Alive(g) /\ Alive(h) => g = h

\* However often the connection is accepted, there is one keep-alive greenlet.
OneChecker == \A c, d \in Checkers : Alive(c) /\ Alive(d) => c = d

\* The first frame a hub gets on a connection is the handshake request.
HandshakeFirst == \A g \in Apps : peer[g] # "confused"

\* Without calls of the application before on_open, the only thing that can
\* get to the hub before the handshake request is the ping of a checker.
OnlyPingsPrecede ==
  [][\A g \in Apps :
       peer[g] = "silent" /\ peer'[g] = "confused" => \E c \in Checkers : WriteOk(c)]_vars

\* A hub that has accepted the handshake is not left waiting: once it can
\* send messages, the transport has left the state "connecting".
AcceptedIsOpen ==
  ws # None => ~(peer[ws] = "ready" /\ state = "connecting")

\* The state is "connected" only when a hub has accepted the handshake.
OpenIsAccepted == state = "connected" => \E g \in Apps : peer[g] = "ready"

\* send() transmits the message or raises.
NothingDropped == \A u \in Users : outcome[u] # "dropped"

\* JSON takes the answer to the handshake for a message without saying so.
Unnoticed == handshake_received /\ Protocol = "json"

\* start() comes to an end, also a second one: a connection attempt is accepted
\* or given up, unless handshake_received is left over from an earlier
\* connection in a JSON client.
Settles == state = "connecting" /\ ~Unnoticed ~> state # "connecting"

Accepted == \E g \in Apps : peer[g] = "ready"

\* on_open is called after a refused handshake as well, in the state "connected".
\* That does not last: the state changes, or a hub has accepted a connection.
RefusalShows == state = "connected" /\ ~Accepted ~> state # "connected" \/ Accepted

Healthy ==
  /\ state = "connected"
  /\ link[ws] = "open"
  /\ peer[ws] = "ready"

\* What the network or the hub may do to a connection.
NetworkFault ==
  \E g \in Apps :
    ConnectFails(g) \/ RecvClose(g) \/ HubCloses(g) \/ Break(g)
      \/ (peer[g] = "greeted" /\ RecvHandshakeError(g))

\* A keep-alive ping that starts while a connection is being made.
EarlyPing == stale /\ Connecting /\ \E c \in Checkers : CheckerWakes(c)

\* Automatic reconnection: as long as the keep-alive is not stopped and no
\* callback raises, the connection ends up accepted by the hub and stays so,
\* once the faults end and pings no longer hit connections being made.
Recovers ==
  \/ []<><<NetworkFault>>_vars \/ []<><<EarlyPing>>_vars
  \/ <>(\E g \in Apps : pc[g] = "cberror")
  \/ <>[]~running \/ <>[]Healthy

\* The join of a killed greenlet ends, and without its timeout of ten seconds
\* unless the on_close callback of that greenlet waits for the one who joins,
\* or the greenlet has dropped the exception that kills it.
KillsEnd == \A p \in Procs : pc[p] = "join" ~> pc[p] # "join"

\* The socket the application has, as the specification of its life sees it.
Up == {g \in Apps : Serving(g)}

SocketPhase ==
  CASE Up = {}                                      -> "none"
    [] Up # {} /\ handshake_received                -> "accepted"
    [] ~handshake_received /\ (\E g \in Up : peer[g] \in {"ready", "refused"}) -> "over"
    [] OTHER                                        -> "fresh"

Lifecycle == INSTANCE ConnectionLifecycle
  WITH phase <- SocketPhase, open <- (state = "connected")

\* What an application that only listens sees of its connection, whatever
\* faults, slow connects and pings come between: sockets one after the other,
\* each accepted once at most, and "connected" for an accepted one only.
ImplementsLifecycle == Lifecycle!Spec
===============================================================================
