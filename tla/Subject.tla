-------------------------------- MODULE Subject --------------------------------
(***************************************************************************)
(* Subject (messages/__init__.py), the stream of items a client sends to   *)
(* the hub: Connection.send(method, subject), next() and complete(), each  *)
(* of which holds the semaphore of the subject during transport.send.      *)
(*                                                                         *)
(* The greenlets are producers of the application, the socket greenlets,   *)
(* whose callbacks may use the subject too, and those that only ping.      *)
(* transport.send with automatic reconnection is reduced to what matters   *)
(* to a holder of the semaphore: where it waits, that it reconnects in the *)
(* greenlet that met the dead socket, that it kills the socket greenlet    *)
(* for that, and that it ends without having sent the message.  A socket   *)
(* is dialing until the hub has accepted its handshake.                    *)
(***************************************************************************)
EXTENDS Naturals, Sequences

CONSTANTS
  Producers,   \* greenlets of the application that use the subject
  Sockets,     \* WebSocketApp objects, each with its greenlet
  Pingers,     \* the keep-alive and deferred reconnections
  None,        \* no greenlet, no socket
  Callbacks,   \* which callbacks use the subject: see CallbackKinds
  MaxMessages, \* bound: once so many are numbered, no new call begins
  MaxLosses    \* bound: how often a connection is lost or not made

\* A callback of on() that calls next(), an on_close that calls complete().
CallbackKinds == {"message", "close"}

Procs == Producers \cup Sockets \cup Pingers

ASSUME SubjectAssumption ==
  /\ None \notin Procs /\ Sockets # {}
  /\ Producers \cap Sockets = {} /\ Producers \cap Pingers = {} /\ Sockets \cap Pingers = {}
  /\ Callbacks \subseteq CallbackKinds
  /\ MaxMessages \in Nat /\ MaxLosses \in Nat

VARIABLES
  attached,      \* has send() set the connection and the target?
  lock,          \* the greenlet that holds the semaphore
  pc,            \* where each greenlet waits
  job,           \* what each greenlet sends
  sock,          \* the socket a greenlet writes to, or kills
  ending,        \* the on_close callback that a socket greenlet is in
  ws,            \* WebsocketTransport._ws
  state,         \* WebsocketTransport.state
  link,          \* the socket of each WebSocketApp
  reconnecting,  \* ReconnectionHandler.reconnecting
  inbox,         \* what the hub behind each socket got of this stream
  issued,        \* items and completions numbered so far, sent or swallowed
  losses         \* connections that may still fail

subjectVars == <<attached, lock, issued>>
callVars == <<pc, job, sock, ending>>
wireVars == <<ws, state, link, reconnecting, losses>>
vars == <<subjectVars, callVars, wireVars, inbox>>

\* Waiting for the semaphore, in ws.send, in on_reconnect, in the join of
\* Greenlet.kill, in start();
CallLabels == {"wait", "write", "notify", "join", "restart"}

\* between calls, in the token factory of send();
CallerLabels == CallLabels \cup {"idle", "token"}

\* not started or finished, connecting, reading, in teardown before on_close.
SocketLabels == CallLabels \cup {"dead", "dialing", "reading", "teardown"}

\* The callback of on_socket_error, that of the teardown.
Endings == {"none", "error", "close"}

Links == {"new", "up", "broken", "closed"}

States == {"connecting", "connected", "disconnected"}

Kinds == {"none", "start", "item", "completion", "ping"}

Job(kind) == [kind |-> kind, n |-> 0]

\* A message, with its number in the order the semaphore was taken.
Jobs == [kind : Kinds, n : Nat]

\* start() has returned.
Init ==
  /\ attached = FALSE
  /\ lock = None
  /\ job = [p \in Procs |-> Job("none")]
  /\ sock = [p \in Procs |-> None]
  /\ ending = [g \in Sockets |-> "none"]
  /\ ws = CHOOSE g \in Sockets : TRUE
  /\ pc = [p \in Procs |-> IF p = ws THEN "dialing"
                           ELSE IF p \in Sockets THEN "dead" ELSE "idle"]
  /\ state = "connecting"
  /\ link = [g \in Sockets |-> IF g = ws THEN "new" ELSE "closed"]
  /\ reconnecting = FALSE
  /\ inbox = [g \in Sockets |-> <<>>]
  /\ issued = 0
  /\ losses = MaxLosses
-----------------------------------------------------------------------------
(* The semaphore.                                                          *)

\* Faulty variant: next() does not take the semaphore.
MayEnter_Always == TRUE

MayEnter == lock = None

\* p takes the semaphore for a message and calls transport.send; only now is
\* it settled which message of the stream it is.
Locks(p, kind) ==
  /\ MayEnter
  /\ lock' = p
  /\ issued' = IF kind = "start" THEN issued ELSE issued + 1
  /\ job' = [job EXCEPT ![p] = [kind |-> kind, n |-> issued']]
  /\ sock' = [sock EXCEPT ![p] = ws]
  /\ pc' = [pc EXCEPT ![p] = "write"]

Queues(p, kind) ==
  /\ ~MayEnter
  /\ job' = [job EXCEPT ![p] = Job(kind)]
  /\ pc' = [pc EXCEPT ![p] = "wait"]
  /\ UNCHANGED <<lock, issued, sock>>

\* A free semaphore is taken without a switch to another greenlet.
Enter(p, kind) == Locks(p, kind) \/ Queues(p, kind)

Acquire(p) ==
  /\ pc[p] = "wait"
  /\ Locks(p, job[p].kind)
  /\ UNCHANGED <<attached, ending, wireVars, inbox>>

\* Faulty variant: an exception leaves the semaphore taken.
Released_Kept(p) == lock

\* The with statement gives the semaphore back however p leaves it.
Released(p) == IF lock = p THEN None ELSE lock

\* Where a greenlet goes on when its call of transport.send is over.  (What a
\* call raises is caught by the callback that made it.)
After(p) ==
  IF p \notin Sockets THEN "idle"
  ELSE [none |-> "reading", error |-> "teardown", close |-> "dead"][ending[p]]

\* on_socket_error sets the state after its on_close callback.
StateAfter(p, s) ==
  IF p \in Sockets /\ ending[p] = "error" THEN "disconnected" ELSE s

Return(p) ==
  /\ lock' = Released(p)
  /\ job' = [job EXCEPT ![p] = Job("none")]
  /\ sock' = [sock EXCEPT ![p] = None]
-----------------------------------------------------------------------------
(* Calls.  A subject is sent once; next() and complete() before that raise *)
(* ValueError, and have no effect.                                         *)

\* Faulty variant: send() attaches the subject before it fetches a token.
AttachedEarly_Yes == TRUE

AttachedEarly == attached

BeginSend(u) ==
  /\ pc[u] = "idle"
  /\ ~attached /\ \A v \in Producers : pc[v] # "token"
  /\ state # "disconnected"
  /\ attached' = AttachedEarly
  /\ pc' = [pc EXCEPT ![u] = "token"]
  /\ UNCHANGED <<lock, issued, job, sock, ending, wireVars, inbox>>

\* The token is there: connection and target are set, and Subject.start
\* follows without a wait.
SendSubject(u) ==
  /\ pc[u] = "token"
  /\ attached' = TRUE
  /\ Enter(u, "start")
  /\ UNCHANGED <<ending, wireVars, inbox>>

\* The token factory raises, and so does send().
SendFails(u) ==
  /\ pc[u] = "token"
  /\ pc' = [pc EXCEPT ![u] = "idle"]
  /\ UNCHANGED <<subjectVars, job, sock, ending, wireVars, inbox>>

\* next() or complete(): nothing keeps a caller from going on after complete().
Message(u) ==
  /\ pc[u] = "idle"
  /\ attached
  /\ issued < MaxMessages
  /\ \E kind \in {"item", "completion"} : Enter(u, kind)
  /\ UNCHANGED <<attached, ending, wireVars, inbox>>

\* A message of the hub, and a callback that answers it with an item.
CallbackNext(g) ==
  /\ pc[g] = "reading"
  /\ link[g] = "up"
  /\ "message" \in Callbacks
  /\ attached
  /\ issued < MaxMessages
  /\ Enter(g, "item")
  /\ UNCHANGED <<attached, ending, wireVars, inbox>>

\* A ping does not take the semaphore.  What it does to a connection that is
\* being made is a matter of Transport.
Ping(q) ==
  /\ pc[q] = "idle"
  /\ \A g \in Sockets : pc[g] # "dialing"
  /\ pc' = [pc EXCEPT ![q] = "write"]
  /\ job' = [job EXCEPT ![q] = Job("ping")]
  /\ sock' = [sock EXCEPT ![q] = ws]
  /\ UNCHANGED <<subjectVars, ending, wireVars, inbox>>
-----------------------------------------------------------------------------
(* transport.send.                                                         *)

\* The bytes of a broken socket go nowhere.
WriteOk(p) ==
  /\ pc[p] = "write"
  /\ link[sock[p]] \in {"up", "broken"}
  /\ inbox' = IF link[sock[p]] = "up" /\ job[p].kind # "ping"
              THEN [inbox EXCEPT ![sock[p]] = Append(@, job[p])]
              ELSE inbox
  /\ reconnecting' = FALSE
  /\ pc' = [pc EXCEPT ![p] = After(p)]
  /\ Return(p)
  /\ state' = StateAfter(p, state)
  /\ UNCHANGED <<attached, issued, ending, ws, link, losses>>

\* Faulty variant: a callback swallows the GreenletExit that kills it.
Unwound_Stays(g) == pc[g]

\* GreenletExit reaches the socket greenlet g at its wait.
Unwound(g) ==
  IF pc[g] \in {"dead", "teardown"} THEN pc[g]
  ELSE IF ending[g] = "close" THEN "dead" ELSE "teardown"

\* handle_reconnect from stop() on: the greenlet of the present socket is
\* killed; p may be that greenlet itself.
Kill(p) ==
  /\ pc' = [[pc EXCEPT ![p] = "join"] EXCEPT ![ws] = Unwound(ws)]
  /\ lock' = Released(ws)
  /\ job' = [job EXCEPT ![ws] = Job("none")]
  /\ sock' = [[sock EXCEPT ![p] = ws] EXCEPT ![ws] = None]

WriteFails(p) ==
  /\ pc[p] = "write"
  /\ link[sock[p]] # "up"
  /\ state' = "disconnected"
  /\ \/ /\ ~reconnecting
        /\ pc' = [pc EXCEPT ![p] = "notify"]
        /\ UNCHANGED <<lock, job, sock>>
     \/ /\ reconnecting
        /\ Kill(p)
  /\ UNCHANGED <<attached, issued, ending, ws, link, reconnecting, losses, inbox>>

\* on_reconnect has returned.  stop() closes a connection that another
\* greenlet has made in the meantime.
Notified(p) ==
  /\ pc[p] = "notify"
  /\ reconnecting' = TRUE
  /\ link' = IF state = "connected" THEN [link EXCEPT ![ws] = "closed"] ELSE link
  /\ state' = "disconnected"
  /\ Kill(p)
  /\ UNCHANGED <<attached, issued, ending, ws, losses, inbox>>

\* Faulty variant: kill() without a timeout.
JoinEnds_Dead(p) == pc[sock[p]] = "dead"

\* kill() returns once the greenlet is dead, and after ten seconds anyway.
JoinEnds(p) == TRUE

Joined(p) ==
  /\ pc[p] = "join"
  /\ JoinEnds(p)
  /\ pc' = [pc EXCEPT ![p] = "restart"]
  /\ sock' = [sock EXCEPT ![p] = None]
  /\ UNCHANGED <<subjectVars, job, ending, wireVars, inbox>>

\* A WebSocketApp and its greenlet that nothing refers to any more.
Free == {g \in Sockets : pc[g] = "dead" /\ \A q \in Procs : sock[q] # g}

\* start() has made a new socket, or finds another one connected.  Either way
\* send() returns, and the message it was called with is forgotten.
Restarted(p) ==
  /\ pc[p] = "restart"
  /\ \/ /\ state = "connected"
        /\ state' = StateAfter(p, state)
        /\ pc' = [pc EXCEPT ![p] = After(p)]
        /\ UNCHANGED <<ws, link, inbox, ending>>
     \/ /\ state # "connected"
        /\ \E g \in Free :
             /\ ws' = g
             /\ link' = [link EXCEPT ![g] = "new"]
             /\ inbox' = [inbox EXCEPT ![g] = <<>>]
             /\ ending' = [ending EXCEPT ![g] = "none"]
             /\ pc' = [pc EXCEPT ![p] = After(p), ![g] = "dialing"]
        /\ state' = StateAfter(p, "connecting")
  /\ Return(p)
  /\ UNCHANGED <<attached, issued, reconnecting, losses>>

\* Token factory or negotiation raise: a deferred reconnection will ping, or
\* the handler gives up and send() raises.  (So it is also when this bounded
\* model has run out of sockets.)
RestartFails(p) ==
  /\ pc[p] = "restart"
  /\ \/ losses > 0 /\ losses' = losses - 1
     \/ Free = {} /\ UNCHANGED losses
  /\ pc' = [pc EXCEPT ![p] = After(p)]
  /\ Return(p)
  /\ reconnecting' = TRUE
  /\ state' = StateAfter(p, state)
  /\ UNCHANGED <<attached, issued, ending, ws, link, inbox>>
-----------------------------------------------------------------------------
(* Socket greenlets and the network.                                       *)

Connected(g) ==
  /\ pc[g] = "dialing"
  /\ pc' = [pc EXCEPT ![g] = "reading"]
  /\ link' = [link EXCEPT ![g] = "up"]
  /\ state' = "connected"
  /\ reconnecting' = FALSE
  /\ UNCHANGED <<subjectVars, job, sock, ending, ws, losses, inbox>>

\* Does on_close complete the stream?
Completes == "close" \in Callbacks /\ attached /\ issued < MaxMessages

OnClose(g, phase) ==
  /\ Completes
  /\ ending' = [ending EXCEPT ![g] = phase]
  /\ Enter(g, "completion")

WithoutOnClose(g, label) ==
  /\ pc' = [pc EXCEPT ![g] = label]
  /\ UNCHANGED <<lock, issued, job, sock, ending>>

\* on_socket_error calls on_close, sets the state, and teardown follows.
OnSocketError(g) ==
  \/ OnClose(g, "error") /\ UNCHANGED state
  \/ ~Completes /\ WithoutOnClose(g, "teardown") /\ state' = "disconnected"

ConnectFails(g) ==
  /\ pc[g] = "dialing"
  /\ losses > 0
  /\ losses' = losses - 1
  /\ OnSocketError(g)
  /\ UNCHANGED <<attached, ws, link, reconnecting, inbox>>

Break(g) ==
  /\ link[g] = "up"
  /\ losses > 0
  /\ losses' = losses - 1
  /\ link' = [link EXCEPT ![g] = "broken"]
  /\ UNCHANGED <<subjectVars, callVars, ws, state, reconnecting, inbox>>

\* The reader finds out that its socket is lost, or has been closed.
LinkLost(g) ==
  /\ pc[g] = "reading"
  /\ link[g] # "up"
  /\ \/ OnSocketError(g)
     \/ link[g] = "closed" /\ WithoutOnClose(g, "teardown") /\ UNCHANGED state
  /\ UNCHANGED <<attached, ws, link, reconnecting, losses, inbox>>

\* The end of run_forever: on_close is called, after an error once more.
Teardown(g) ==
  /\ pc[g] = "teardown"
  /\ link' = [link EXCEPT ![g] = "closed"]
  /\ state' = "disconnected"
  /\ OnClose(g, "close") \/ (~Completes /\ WithoutOnClose(g, "dead"))
  /\ UNCHANGED <<attached, ws, reconnecting, losses, inbox>>
-----------------------------------------------------------------------------
CallStep(p) ==
  WriteOk(p) \/ WriteFails(p) \/ Notified(p) \/ Joined(p) \/ Restarted(p) \/ RestartFails(p)

SocketStep(g) == Connected(g) \/ ConnectFails(g) \/ LinkLost(g) \/ Teardown(g)

Next ==
  \/ \E u \in Producers : BeginSend(u) \/ SendSubject(u) \/ SendFails(u) \/ Message(u)
  \/ \E p \in Procs : Acquire(p) \/ CallStep(p)
  \/ \E g \in Sockets : CallbackNext(g) \/ SocketStep(g) \/ Break(g)
  \/ \E q \in Pingers : Ping(q)

Spec == Init /\ [][Next]_vars

\* gevent runs every greenlet that can run and wakes who waits for a free
\* semaphore; calls and faults are not owed to anyone.
Fairness ==
  /\ \A u \in Producers : WF_vars(SendSubject(u) \/ SendFails(u))
  /\ \A p \in Procs : WF_vars(Acquire(p)) /\ WF_vars(CallStep(p))
  /\ \A g \in Sockets : WF_vars(SocketStep(g))

FairSpec == Spec /\ Fairness
-----------------------------------------------------------------------------
(* Properties. *)

Holds(p) == pc[p] \in {"write", "notify", "join", "restart"} /\ job[p].kind # "ping"

\* Every variable keeps to its type; a greenlet has a socket in hand exactly
\* while it writes to it or reconnects from it.
TypeOK ==
  /\ attached \in BOOLEAN
  /\ lock \in Procs \cup {None}
  /\ pc \in [Procs -> CallerLabels \cup SocketLabels]
  /\ \A g \in Sockets : pc[g] \in SocketLabels
  /\ \A p \in Producers \cup Pingers : pc[p] \in CallerLabels
  /\ job \in [Procs -> Jobs]
  /\ sock \in [Procs -> Sockets \cup {None}]
  /\ \A p \in Procs : sock[p] # None <=> pc[p] \in {"write", "notify", "join"}
  /\ ending \in [Sockets -> Endings]
  /\ ws \in Sockets
  /\ state \in States
  /\ link \in [Sockets -> Links]
  /\ reconnecting \in BOOLEAN
  /\ inbox \in [Sockets -> Seq(Jobs)]
  /\ issued \in Nat
  /\ losses \in 0..MaxLosses

\* The semaphore is held by the one greenlet that sends for the subject, and
\* is free when none does: every reconnection, exception and kill inside
\* transport.send gives it back.
OneHolder == \A p \in Procs : Holds(p) <=> lock = p

\* The invocation that starts the stream is the first message of it a hub
\* gets, or is swallowed by a reconnection; it never comes late.
StartFirst ==
  \A g \in Sockets : \A i \in DOMAIN inbox[g] : inbox[g][i].kind = "start" => i = 1

\* Neither killed nor at its end.
Living(g) == pc[g] \notin {"dead", "teardown"} /\ ending[g] = "none"

\* What the hub of a living connection gets of the stream is a piece of it
\* without gaps: messages that a reconnection swallows are missing between two
\* connections only.  (A callback killed in next() leaves a gap behind on the
\* connection that dies with it.)
Gapless ==
  \A g \in Sockets : Living(g) =>
    \A i \in 2..Len(inbox[g]) : inbox[g][i].n = inbox[g][i - 1].n + 1

\* Every call of the application comes to its end, although the greenlet a
\* reconnection waits for may itself wait for the semaphore.
CallsReturn == \A u \in Producers : pc[u] # "idle" ~> pc[u] = "idle"
===============================================================================
