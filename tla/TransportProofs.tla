--------------------------- MODULE TransportProofs ---------------------------
(***************************************************************************)
(* Theorems of Transport, for every set of greenlets and every handler.    *)
(***************************************************************************)
EXTENDS Transport, TLAPS

\* Where a transport call returns to is a label.
LEMMA AfterLabel == ASSUME NEW p \in Procs PROVE After(p) \in Labels
BY DEF After, Procs, Labels, KeepsChecking

\* Where an exception of a transport call ends is a label.
LEMMA RaisedLabel == ASSUME NEW p \in Procs PROVE Raised(p) \in Labels
BY DEF Raised, Procs, Labels

\* A fault leaves no fewer than zero.
LEMMA FaultsLeft ==
  ASSUME NEW kind, faults \in 0..MaxFaults, Fault(kind)
  PROVE  faults' \in 0..MaxFaults
BY TransportAssumption DEF Fault

\* next() counts no further than the first attempt it refuses.
LEMMA CountStays ==
  ASSUME attempt_number \in 0..AttemptCap, CountAttempt
  PROVE  attempt_number' \in 0..AttemptCap
BY HandlerAssumption DEF CountAttempt, Counts, BudgetLeft, AttemptCap

\* start() keeps every variable it sets within its type.
LEMMA NegotiatedTyped ==
  ASSUME TypeOK, NEW p \in Procs, Negotiated(p), outcome' \in [Users -> Outcomes]
  PROVE  TypeOK'
<1>1. CASE state = "connected" /\ Goto(p, After(p))
  BY <1>1, AfterLabel DEF Negotiated, Goto, TypeOK, handlerVars
<1>2. CASE state # "connected" /\ Spawn(p)
  <2>1. PICK g \in Free : /\ state' = "connecting"
                         /\ ws' = g
                         /\ link' = [link EXCEPT ![g] = "none"]
                         /\ peer' = [peer EXCEPT ![g] = "silent"]
                         /\ pc' = [pc EXCEPT ![p] = After(p), ![g] = "spawned"]
    BY <1>2 DEF Spawn
  <2>2. g \in Apps
    BY DEF Free
  <2>3. pc' \in [Procs -> Labels]
    BY <2>1, AfterLabel DEF TypeOK, Labels
  <2>4. QED
    BY <1>2, <2>1, <2>2, <2>3
    DEF Negotiated, TypeOK, States, Links, Peers, handlerVars
<1>3. QED
  BY <1>1, <1>2 DEF Negotiated

\* So does stop().
LEMMA StoppingTyped ==
  ASSUME TypeOK, NEW g \in Apps, Stopping(g), peer' \in [Apps -> Peers],
         faults' \in 0..MaxFaults
  PROVE  TypeOK'
<1>1. CASE state = "connected" /\ BeginClose(g, "closing")
  <2>1. pc' \in [Procs -> Labels]
    BY <1>1 DEF BeginClose, Goto, TypeOK, Labels
  <2>2. link' \in [Apps -> Links]
    BY <1>1 DEF BeginClose, TypeOK, Links
  <2>3. victim' \in [Procs -> Apps \cup {None}] /\ running' \in BOOLEAN
    BY <1>1 DEF BeginClose, TypeOK
  <2>4. QED
    BY <2>1, <2>2, <2>3 DEF Stopping, TypeOK, handlerVars
<1>2. CASE UNCHANGED <<running, link, victim, pc>>
  BY <1>2 DEF Stopping, TypeOK, handlerVars
<1>3. QED
  BY <1>1, <1>2 DEF Stopping

\* Every step keeps every variable within its type.
LEMMA TypeStep == ASSUME TypeOK, [Next]_vars PROVE TypeOK'
<1> USE DEF TypeOK, EndLabels, States, Links, Peers, Labels, Outcomes, Procs, handlerVars
<1>1. ASSUME NEW p \in Procs, WriteOk(p) PROVE TypeOK'
  <2>1. attempt_number' \in 0..AttemptCap
    BY <1>1, HandlerAssumption DEF WriteOk, reset, AttemptCap
  <2>2. reconnecting' \in BOOLEAN
    BY <1>1 DEF WriteOk, reset
  <2>3. QED
    BY <1>1, <2>1, <2>2, AfterLabel DEF WriteOk, Writes, Goto, Ends
<1>2. ASSUME NEW p \in Procs, WriteFails(p) PROVE TypeOK'
  <2>1. CASE Goto(p, Raised(p)) /\ Ends(p, "raised") /\ victim' = [victim EXCEPT ![p] = None]
    BY <1>2, <2>1, RaisedLabel DEF WriteFails, Goto, Ends
  <2>2. CASE Goto(p, "notify") /\ victim' = [victim EXCEPT ![p] = None] /\ UNCHANGED outcome
    BY <1>2, <2>2 DEF WriteFails, Goto
  <2>3. CASE Kill(p) /\ UNCHANGED outcome
    BY <1>2, <2>3 DEF WriteFails, Kill, Goto
  <2> QED
    <3> HIDE DEF TypeOK
    <3> QED BY <1>2, <2>1, <2>2, <2>3 DEF WriteFails
<1>3. ASSUME NEW p \in Procs, Notified(p) PROVE TypeOK'
  BY <1>3 DEF Notified, BeginClose, Kill, Goto
<1>4. ASSUME NEW p \in Procs, Closed(p) PROVE TypeOK'
  <2>1. CASE pc[p] = "closing"
    <3>1. pc' \in [Procs -> Labels]
      BY <1>4, <2>1, AfterLabel DEF Closed, Goto
    <3>2. victim' \in [Procs -> Apps \cup {None}]
      BY <1>4, <2>1 DEF Closed
    <3>3. QED
      BY <1>4, <3>1, <3>2 DEF Closed
  <2>2. CASE pc[p] = "reclosing"
    BY <1>4, <2>2 DEF Closed, Goto, Kill
  <2>3. QED
    BY <1>4, <2>1, <2>2 DEF Closed
<1>5. ASSUME NEW p \in Procs, KillDelivered(p) PROVE TypeOK'
  BY <1>5 DEF KillDelivered, Unwound, Goto
<1>6. ASSUME NEW p \in Procs, Joined(p) PROVE TypeOK'
  BY <1>6 DEF Joined, Goto
<1>7. ASSUME NEW p \in Procs, Restarted(p) PROVE TypeOK'
  BY <1>7, NegotiatedTyped DEF Restarted, Ends
<1>8. ASSUME NEW p \in Procs, RestartDeferred(p) PROVE TypeOK'
  BY <1>8, AfterLabel, FaultsLeft, CountStays DEF RestartDeferred, Defer, next, Ends
<1>9. ASSUME NEW p \in Procs, RestartGivesUp(p) PROVE TypeOK'
  BY <1>9, RaisedLabel, FaultsLeft, CountStays DEF RestartGivesUp, Goto, Ends
<1>10. ASSUME NEW u \in Users, UserStart(u) PROVE TypeOK'
  BY <1>10 DEF UserStart, Goto
<1>11. ASSUME NEW u \in Users, UserStop(u) PROVE TypeOK'
  BY <1>11 DEF UserStop, BeginClose, Goto
<1>12. ASSUME NEW u \in Users, UserSend(u) PROVE TypeOK'
  BY <1>12 DEF UserSend, BeginWrite, Goto, Ends
<1>13. ASSUME NEW u \in Users, UserStarted(u) PROVE TypeOK'
  BY <1>13, NegotiatedTyped DEF UserStarted
<1>14. ASSUME NEW u \in Users, UserStartFails(u) PROVE TypeOK'
  BY <1>14, FaultsLeft DEF UserStartFails, Goto
<1>15. ASSUME NEW g \in Apps, Dial(g) PROVE TypeOK'
  BY <1>15 DEF Dial, Goto
<1>16. ASSUME NEW g \in Apps, Connect(g) PROVE TypeOK'
  BY <1>16 DEF Connect, Goto
<1>17. ASSUME NEW g \in Apps, ConnectFails(g) PROVE TypeOK'
  BY <1>17, FaultsLeft DEF ConnectFails, Goto
<1>18. ASSUME NEW g \in Apps, RecvHandshake(g) PROVE TypeOK'
  BY <1>18 DEF RecvHandshake, Reads, Accept, Garbled, Goto, AcceptedState
<1>19. ASSUME NEW g \in Apps, RecvHandshakeError(g) PROVE TypeOK'
  <2>1. faults' \in 0..MaxFaults /\ peer' \in [Apps -> Peers]
    BY <1>19, FaultsLeft DEF RecvHandshakeError
  <2>2. CASE Refuse(g) \/ Garbled(g)
    BY <2>1, <2>2 DEF Refuse, Garbled, Goto
  <2>3. CASE Stopping(g)
    BY <2>1, <2>3, StoppingTyped
  <2>4. QED
    BY <1>19, <2>2, <2>3 DEF RecvHandshakeError
<1>20. ASSUME NEW g \in Apps, Refused(g) PROVE TypeOK'
  BY <1>20 DEF Refused, RefusedState, Goto
<1>21. ASSUME NEW g \in Apps, CallbackReturns(g) PROVE TypeOK'
  BY <1>21 DEF CallbackReturns, Goto
<1>22. ASSUME NEW g \in Apps, CallbackSends(g) PROVE TypeOK'
  BY <1>22 DEF CallbackSends, Goto
<1>23. ASSUME NEW g \in Apps, CallbackRaises(g) PROVE TypeOK'
  BY <1>23 DEF CallbackRaises, Goto
<1>24. ASSUME NEW g \in Apps, CallbackErrorHandled(g) PROVE TypeOK'
  BY <1>24 DEF CallbackErrorHandled, Goto
<1>25. ASSUME NEW g \in Apps, ErrorHandled(g) PROVE TypeOK'
  BY <1>25 DEF ErrorHandled, Goto
<1>26. ASSUME NEW g \in Apps, LinkLost(g) PROVE TypeOK'
  BY <1>26 DEF LinkLost, Goto
<1>27. ASSUME NEW g \in Apps, HubHangsUp(g) PROVE TypeOK'
  BY <1>27 DEF HubHangsUp, Goto, Reads
<1>28. ASSUME NEW g \in Apps, Teardown(g) PROVE TypeOK'
  BY <1>28 DEF Teardown, ClosedState, Goto
<1>29. ASSUME NEW g \in Apps, RecvMessage(g) PROVE TypeOK'
  BY <1>29 DEF RecvMessage, Reads, Goto, Accept, Refuse, Garbled, AcceptedState
<1>30. ASSUME NEW g \in Apps, RecvClose(g) PROVE TypeOK'
  BY <1>30, FaultsLeft, StoppingTyped DEF RecvClose
<1>31. ASSUME NEW g \in Apps, HubCloses(g) PROVE TypeOK'
  BY <1>31, FaultsLeft DEF HubCloses, Reads, Goto
<1>32. ASSUME NEW g \in Apps, Break(g) PROVE TypeOK'
  BY <1>32, FaultsLeft DEF Break
<1>33. ASSUME NEW c \in Checkers, CheckerBegins(c) PROVE TypeOK'
  BY <1>33, AfterLabel DEF CheckerBegins, Goto
<1>34. ASSUME NEW c \in Checkers, CheckerWakes(c) PROVE TypeOK'
  BY <1>34, AfterLabel DEF CheckerWakes, BeginWrite, Goto
<1>35. ASSUME NEW d \in Deferreds, DeferredWakes(d) PROVE TypeOK'
  BY <1>35 DEF DeferredWakes, BeginWrite, Goto
<1>36. CASE Age
  BY <1>36 DEF Age
<1>37. CASE UNCHANGED vars
  BY <1>37 DEF vars, AttemptCap
<1>38. ASSUME NEW p \in Procs, TokenFetched(p) PROVE TypeOK'
  BY <1>38 DEF TokenFetched, BeginWrite, Goto
<1>39. ASSUME NEW p \in Procs, NotifyFails(p) PROVE TypeOK'
  BY <1>39, RaisedLabel DEF NotifyFails, Goto, Ends
<1>40. ASSUME NEW g \in Apps, Upgraded(g) PROVE TypeOK'
  BY <1>40 DEF Upgraded, BeginWrite, Goto
<1>41. ASSUME NEW g \in Apps, EndReturns(g) PROVE TypeOK'
  BY <1>41 DEF EndReturns, Goto
<1>42. ASSUME NEW g \in Apps, CloseRaises(g) PROVE TypeOK'
  BY <1>42 DEF CloseRaises, OnCloseRaised, Goto
<1> HIDE DEF TypeOK, Procs
<1> QED
  BY <1>1, <1>2, <1>3, <1>4, <1>5, <1>6, <1>7, <1>8, <1>9, <1>10, <1>11,
     <1>12, <1>13, <1>14, <1>15, <1>16, <1>17, <1>18, <1>19, <1>20, <1>21, <1>22,
     <1>23, <1>24, <1>25, <1>26, <1>27, <1>28, <1>29, <1>30, <1>31, <1>32, <1>33,
     <1>34, <1>35, <1>36, <1>37, <1>38, <1>39, <1>40, <1>41, <1>42
  DEF Next, SendStep, UserCall, UserStep, SocketStep, UnowedStep, CheckerStep

\* Every variable starts within its type.
LEMMA TypeInit == ASSUME Init PROVE TypeOK
<1>1. pc \in [Procs -> Labels] /\ victim \in [Procs -> Apps \cup {None}]
  BY DEF Init, Labels
<1>2. faults \in 0..MaxFaults /\ attempt_number \in 0..AttemptCap
  BY TransportAssumption, HandlerAssumption DEF Init, HandlerInit, AttemptCap
<1>3. QED
  BY <1>1, <1>2 DEF Init, HandlerInit, TypeOK, States, Links, Peers, Outcomes

\* Every reachable state is type-correct, and the attempts stay in budget.
THEOREM TypeCorrect == Spec => []TypeOK
<1>1. Init => TypeOK
  BY TypeInit
<1>2. TypeOK /\ [Next]_vars => TypeOK'
  BY TypeStep
<1>3. QED
  BY <1>1, <1>2, PTL DEF Spec
-----------------------------------------------------------------------------
\* Not started, or past the teardown.
Off == EndLabels \cup {"dead", "spawned"}

\* A socket that takes writes belongs to a greenlet that runs, and whose
\* teardown is still to come.
SocketsLive ==
  \A g \in Apps : link[g] \in {"open", "broken", "closing"} => pc[g] \notin Off

\* Only a connection with a handler reconnects.
RetryHasHandler == (\E p \in Procs : pc[p] \in RetryLabels) => HasHandler

\* RunningIsBacked made inductive.  A reconnection may end at a connection it
\* finds connected, hence ConnectedIsBacked; it may end with a write that
\* works, hence SocketsLive; and a handler that gives up has to exist.
Backed == TypeOK /\ SocketsLive /\ RetryHasHandler /\ ConnectedIsBacked /\ RunningIsBacked

\* The kinds of greenlets are apart.
LEMMA Kinds ==
  /\ \A g \in Apps : g \in Procs /\ g \notin Users /\ g \notin Checkers /\ g \notin Deferreds
  /\ \A d \in Deferreds : d \in Procs /\ d \notin Users /\ d \notin Apps /\ d \notin Checkers
  /\ \A u \in Users : u \in Procs /\ u \notin Apps /\ u \notin Deferreds
  /\ \A c \in Checkers : c \in Procs /\ c \notin Apps /\ c \notin Deferreds /\ c \notin Users
BY TransportAssumption DEF Procs

\* Where the transport returns to is no step of a reconnection, and it is
\* the end of the greenlet of a checker or a deferred reconnection only.
LEMMA AfterQuiet ==
  ASSUME NEW p \in Procs
  PROVE  /\ After(p) \notin RetryLabels
         /\ Raised(p) \notin RetryLabels
         /\ p \in Apps => After(p) = "reading" /\ Raised(p) = "cberror"
BY Kinds DEF After, Raised, KeepsChecking, RetryLabels, Procs

\* A step of one greenlet that has nothing to do with a reconnection, ends no
\* socket greenlet before its teardown and no deferred reconnection, and
\* reports no connection preserves Backed.
LEMMA QuietStep ==
  ASSUME Backed, TypeOK', NEW p \in Procs, NEW l,
         pc' = [pc EXCEPT ![p] = l],
         state' \in {state, "disconnected"},
         link' = link, attempt_number' = attempt_number,
         pc[p] \notin RetryLabels \ {"notify"}, l \notin RetryLabels,
         p \in Apps => l # "spawned" /\ (l \in Off => pc[p] \in EndLabels),
         p \in Deferreds => (l = "dead" => pc[p] = "notify")
  PROVE  Backed'
<1> USE DEF Backed, Off, EndLabels, Serving
<1>1. SocketsLive'
  BY DEF SocketsLive, TypeOK
<1>2. RetryHasHandler'
  BY DEF RetryHasHandler, HasHandler, TypeOK
<1>3. ConnectedIsBacked'
  BY DEF ConnectedIsBacked, TypeOK
<1>4. RunningIsBacked'
  <2> SUFFICES ASSUME state # "disconnected" PROVE RunningIsBacked'
    BY DEF RunningIsBacked
  <2>1. CASE \E g \in Apps : Serving(g)
    BY <2>1, Kinds DEF RunningIsBacked, TypeOK
  <2>2. CASE RetryUnderWay
    BY <2>2, Kinds DEF RunningIsBacked, RetryUnderWay, RetryLabels, TypeOK
  <2>3. CASE Exhausted
    BY <2>3 DEF RunningIsBacked, Exhausted, BudgetLeft, HasHandler
  <2>4. QED
    BY <2>1, <2>2, <2>3 DEF RunningIsBacked
<1>5. QED
  BY <1>1, <1>2, <1>3, <1>4

\* A step that leaves the transport disconnected owes nothing to anybody.
LEMMA DownStep ==
  ASSUME TypeOK', SocketsLive', RetryHasHandler', state' = "disconnected"
  PROVE  Backed'
BY DEF Backed, ConnectedIsBacked, RunningIsBacked

\* handle_reconnect goes on with the kill, or past it at once.
LEMMA KillStep ==
  ASSUME Backed, NEW p \in Procs, pc[p] \notin {"dead", "spawned"}, Kill(p), pc' \in [Procs -> Labels]
  PROVE  /\ pc'[p] \in {"kill", "restart"}
         /\ \A q \in Procs \ {p} : pc'[q] = pc[q] \/ (q = ws /\ pc[q] = "spawned" /\ pc'[q] = "dead")
BY DEF Kill, Goto, GoneAtOnce, Backed, TypeOK

\* A reconnection under way is all the backing the other parts leave to show.
LEMMA RetryStep ==
  ASSUME TypeOK', SocketsLive', ConnectedIsBacked', HasHandler,
         NEW p \in Procs, pc'[p] \in RetryLabels \ {"notify"}
  PROVE  Backed'
BY DEF Backed, RetryHasHandler, RunningIsBacked, RetryUnderWay, HasHandler

\* stop() on a connected transport: its socket stays one that is live.
LEMMA CloseStep ==
  ASSUME Backed, NEW p \in Procs, NEW label \in {"closing", "reclosing"}, BeginClose(p, label)
  PROVE  SocketsLive' /\ (\A g \in Apps : pc[g] \notin Off => pc'[g] \notin Off)
BY DEF BeginClose, Goto, Backed, TypeOK, SocketsLive, Off, EndLabels

\* start() finds a connection, which is backed, or makes one.
LEMMA NegotiatedBacked ==
  ASSUME Backed, TypeOK', NEW p \in Procs, Negotiated(p), pc[p] \in {"start", "restart"}
  PROVE  Backed'
<1> USE DEF Backed, Off, EndLabels, Serving
<1>1. CASE state = "connected" /\ Goto(p, After(p))
  <2>1. state' = "connected" /\ link' = link /\ pc' = [pc EXCEPT ![p] = After(p)]
    BY <1>1 DEF Negotiated, Goto
  <2>2. SocketsLive' /\ ConnectedIsBacked'
    BY <2>1, <1>1, AfterQuiet DEF SocketsLive, ConnectedIsBacked, TypeOK
  <2>3. RetryHasHandler'
    BY <2>1, AfterQuiet DEF RetryHasHandler, HasHandler, TypeOK
  <2>4. RunningIsBacked'
    BY <2>1, <2>2 DEF RunningIsBacked, ConnectedIsBacked
  <2>5. QED
    BY <2>2, <2>3, <2>4
<1>2. CASE Spawn(p)
  <2>1. PICK g \in Free : /\ state' = "connecting"
                         /\ link' = [link EXCEPT ![g] = "none"]
                         /\ pc' = [pc EXCEPT ![p] = After(p), ![g] = "spawned"]
    BY <1>2 DEF Spawn
  <2>2. g \in Apps /\ g \in Procs /\ g # p
    BY Kinds DEF Free
  <2>3. SocketsLive'
    <3>1. link'[g] = "none"
      BY <2>1, <2>2 DEF TypeOK
    <3>2. \A h \in Apps \ {g} : link'[h] = link[h] /\ pc'[h] \in {pc[h], "reading"}
      BY <2>1, <2>2, AfterQuiet, Kinds DEF TypeOK
    <3>3. QED
      BY <3>1, <3>2 DEF SocketsLive
  <2>4. RetryHasHandler'
    BY <2>1, <2>2, AfterQuiet DEF RetryHasHandler, RetryLabels, HasHandler, TypeOK
  <2>5. ConnectedIsBacked' /\ RunningIsBacked'
    BY <2>1, <2>2 DEF ConnectedIsBacked, RunningIsBacked, TypeOK
  <2>6. QED
    BY <2>3, <2>4, <2>5
<1>3. QED
  BY <1>1, <1>2 DEF Negotiated

\* A frame taken for a handshake response is read by a live socket greenlet,
\* and that greenlet backs the state it sets.
LEMMA AcceptStep ==
  ASSUME Backed, TypeOK', NEW g \in Apps, Accept(g), pc[g] = "reading"
  PROVE  Backed'
<1> USE DEF Backed, Off, EndLabels, Serving
<1>1. /\ pc'[g] \in {"callback", "reading"}
      /\ \A q \in Procs \ {g} : pc'[q] = pc[q] \/ (q \in Checkers /\ pc'[q] = "spawned")
      /\ link' = link
  BY Kinds DEF Accept, Goto, TypeOK
<1>2. SocketsLive'
  BY <1>1, Kinds DEF SocketsLive
<1>3. RetryHasHandler'
  BY <1>1, Kinds DEF RetryHasHandler, RetryLabels, HasHandler
<1>4. ConnectedIsBacked' /\ RunningIsBacked'
  BY <1>1 DEF ConnectedIsBacked, RunningIsBacked
<1>5. QED
  BY <1>2, <1>3, <1>4

\* A Close message stops a connected transport, and does nothing otherwise.
LEMMA StoppingStep ==
  ASSUME Backed, TypeOK', NEW g \in Apps, Stopping(g), pc[g] = "reading"
  PROVE  Backed'
<1> USE DEF Backed, Off, EndLabels, Serving
<1>1. CASE BeginClose(g, "closing")
  <2>1. pc' = [pc EXCEPT ![g] = "closing"]
    BY <1>1 DEF BeginClose, Goto
  <2>2. SocketsLive'
    BY <1>1, Kinds, CloseStep
  <2>3. RetryHasHandler'
    BY <2>1 DEF RetryHasHandler, RetryLabels, HasHandler, TypeOK
  <2>4. ConnectedIsBacked' /\ RunningIsBacked'
    BY <2>1, Kinds DEF ConnectedIsBacked, RunningIsBacked, TypeOK
  <2>5. QED
    BY <2>2, <2>3, <2>4
<1>2. CASE UNCHANGED <<link, pc>>
  <2>1. state' = state /\ attempt_number' = attempt_number
    BY DEF Stopping, handlerVars
  <2>2. QED
    BY <1>2, <2>1 DEF SocketsLive, RetryHasHandler, ConnectedIsBacked, RunningIsBacked,
       RetryUnderWay, Exhausted, BudgetLeft, HasHandler
<1>3. QED
  BY <1>1, <1>2 DEF Stopping

\* A frame that cannot be decoded raises out of its callback.
LEMMA GarbledStep ==
  ASSUME Backed, TypeOK', NEW g \in Apps, Garbled(g), pc[g] = "reading"
  PROVE  Backed'
<1>1. PICK l \in {"cberror"} : pc' = [pc EXCEPT ![g] = l]
  BY DEF Garbled, Goto
<1>2. QED
  BY <1>1, QuietStep, Kinds DEF Garbled, RetryLabels, Off, EndLabels, handlerVars

\* Every step of every greenlet preserves Backed.
LEMMA BackedStep == ASSUME Backed, [Next]_vars PROVE Backed'
<1> USE DEF Backed, Off, EndLabels, Serving
<1>0. TypeOK'
  BY TypeStep
<1>1. ASSUME NEW p \in Procs, WriteOk(p) PROVE Backed'
  <2>1. /\ pc' = [pc EXCEPT ![p] = After(p)]
        /\ state' = state /\ link' = link
        /\ victim[p] \in Apps /\ pc[victim[p]] \notin Off
    BY <1>1 DEF WriteOk, Writes, Goto, TypeOK, SocketsLive
  <2>2. \A g \in Apps : pc[g] \notin Off => pc'[g] \notin Off
    BY <2>1, AfterQuiet DEF TypeOK
  <2>3. RetryHasHandler'
    BY <2>1, AfterQuiet DEF RetryHasHandler, HasHandler, TypeOK
  <2>4. QED
    BY <1>0, <2>1, <2>2, <2>3 DEF SocketsLive, ConnectedIsBacked, RunningIsBacked
<1>2. ASSUME NEW p \in Procs, WriteFails(p) PROVE Backed'
  <2>1. state' = "disconnected" /\ link' = link /\ pc[p] \in {"write", "greeting"}
    BY <1>2 DEF WriteFails, Writes
  <2>2. CASE Goto(p, Raised(p))
    BY <1>0, <2>1, <2>2, AfterQuiet, DownStep
    DEF Goto, SocketsLive, RetryHasHandler, HasHandler, TypeOK
  <2>3. CASE HasHandler /\ Goto(p, "notify")
    BY <1>0, <2>1, <2>3, DownStep DEF Goto, SocketsLive, RetryHasHandler, HasHandler, TypeOK
  <2>4. CASE HasHandler /\ Kill(p)
    <3>1. /\ pc'[p] \in {"kill", "restart"}
          /\ \A q \in Procs \ {p} : pc'[q] = pc[q] \/ (q = ws /\ pc[q] = "spawned" /\ pc'[q] = "dead")
      BY <1>0, <2>1, <2>4, KillStep DEF TypeOK
    <3>2. SocketsLive'
      BY <2>1, <3>1, Kinds DEF SocketsLive
    <3>3. QED
      BY <1>0, <2>1, <2>4, <3>2, DownStep DEF RetryHasHandler, HasHandler
  <2>5. QED
    BY <1>2, <2>2, <2>3, <2>4 DEF WriteFails
<1>3. ASSUME NEW p \in Procs, Notified(p) PROVE Backed'
  <2>1. HasHandler /\ pc[p] = "notify" /\ state' = state
    BY <1>3 DEF Notified, RetryHasHandler, RetryLabels
  <2>2. CASE BeginClose(p, "reclosing")
    <3>1. SocketsLive' /\ ConnectedIsBacked'
      BY <2>1, <2>2, CloseStep DEF ConnectedIsBacked
    <3>2. pc'[p] \in RetryLabels \ {"notify"}
      BY <2>2 DEF BeginClose, Goto, TypeOK, RetryLabels
    <3>3. QED
      BY <1>0, <2>1, <3>1, <3>2, RetryStep
  <2>3. CASE Kill(p) /\ link' = link
    <3>1. /\ pc'[p] \in {"kill", "restart"}
          /\ \A q \in Procs \ {p} : pc'[q] = pc[q] \/ (q = ws /\ pc[q] = "spawned" /\ pc'[q] = "dead")
      BY <1>0, <2>1, <2>3, KillStep DEF TypeOK
    <3>2. SocketsLive' /\ ConnectedIsBacked'
      BY <2>1, <2>3, <3>1, Kinds DEF SocketsLive, ConnectedIsBacked
    <3>3. QED
      BY <1>0, <2>1, <3>1, <3>2, RetryStep DEF RetryLabels
  <2>4. QED
    BY <1>3, <2>2, <2>3 DEF Notified
<1>4. ASSUME NEW p \in Procs, Closed(p) PROVE Backed'
  <2>1. /\ state' = "disconnected" /\ pc[p] \in {"closing", "reclosing"}
        /\ \A g \in Apps : link'[g] \in {link[g], "closed"}
    BY <1>4 DEF Closed, TypeOK
  <2>2. CASE pc[p] = "closing" /\ Goto(p, After(p))
    <3>1. SocketsLive'
      BY <2>1, <2>2, AfterQuiet DEF Goto, SocketsLive, TypeOK
    <3>2. RetryHasHandler'
      BY <2>2, AfterQuiet DEF Goto, RetryHasHandler, HasHandler, TypeOK
    <3>3. QED
      BY <1>0, <2>1, <3>1, <3>2, DownStep
  <2>3. CASE pc[p] = "reclosing" /\ Kill(p)
    <3>1. /\ pc'[p] \in {"kill", "restart"}
          /\ \A q \in Procs \ {p} : pc'[q] = pc[q] \/ (q = ws /\ pc[q] = "spawned" /\ pc'[q] = "dead")
      BY <1>0, <2>1, <2>3, KillStep DEF TypeOK
    <3>2. SocketsLive'
      BY <2>1, <3>1, Kinds DEF SocketsLive
    <3>3. HasHandler
      BY <2>3 DEF RetryHasHandler, RetryLabels
    <3>4. QED
      BY <1>0, <2>1, <3>2, <3>3, DownStep DEF RetryHasHandler, HasHandler
  <2>4. QED
    BY <1>4, <2>2, <2>3 DEF Closed
<1>5. ASSUME NEW p \in Procs, KillDelivered(p) PROVE Backed'
  <2>1. /\ pc[p] = "kill" /\ HasHandler
        /\ state' = state /\ link' = link
    BY <1>5 DEF KillDelivered, RetryHasHandler, RetryLabels
  <2>2. CASE Goto(p, "join")
    <3>1. SocketsLive' /\ ConnectedIsBacked'
      BY <2>1, <2>2 DEF Goto, SocketsLive, ConnectedIsBacked, TypeOK
    <3>2. QED
      BY <1>0, <2>1, <2>2, <3>1, RetryStep DEF Goto, RetryLabels, TypeOK
  <2>3. CASE pc' = [pc EXCEPT ![p] = "join", ![victim[p]] = Unwound(victim[p])]
    <3>1. \A g \in Apps : /\ pc'[g] \in {pc[g], "join", "teardown", Unwound(g)}
                          /\ pc[g] \notin Off => pc'[g] \notin Off
                          /\ Serving(g) => Serving(g)'
      BY <2>1, <2>3, Kinds DEF TypeOK, Unwound
    <3>2. SocketsLive' /\ ConnectedIsBacked'
      BY <2>1, <3>1 DEF SocketsLive, ConnectedIsBacked
    <3>3. CASE victim[p] = p
      <4>1. p \in Apps /\ pc'[p] = "teardown"
        BY <2>1, <2>3, <3>3, TransportAssumption DEF TypeOK, Unwound
      <4>2. RetryHasHandler' /\ RunningIsBacked'
        BY <2>1, <4>1 DEF RetryHasHandler, HasHandler, RunningIsBacked
      <4>3. QED
        BY <1>0, <3>2, <4>2
    <3>4. CASE victim[p] # p
      BY <1>0, <2>1, <2>3, <3>2, <3>4, RetryStep DEF RetryLabels, TypeOK
    <3>5. QED
      BY <3>3, <3>4
  <2>4. QED
    BY <1>5, <2>2, <2>3 DEF KillDelivered
<1>6. ASSUME NEW p \in Procs, Joined(p) PROVE Backed'
  <2>1. /\ pc[p] = "join" /\ HasHandler
        /\ state' = state /\ link' = link /\ pc' = [pc EXCEPT ![p] = "restart"]
    BY <1>6 DEF Joined, Goto, RetryHasHandler, RetryLabels
  <2>2. SocketsLive' /\ ConnectedIsBacked'
    BY <2>1 DEF SocketsLive, ConnectedIsBacked, TypeOK
  <2>3. QED
    BY <1>0, <2>1, <2>2, RetryStep DEF RetryLabels, TypeOK
<1>7. ASSUME NEW p \in Procs, Restarted(p) PROVE Backed'
  BY <1>0, <1>7, NegotiatedBacked DEF Restarted
<1>8. ASSUME NEW p \in Procs, RestartDeferred(p) PROVE Backed'
  <2>1. PICK d \in Deferreds : pc' = [[pc EXCEPT ![p] = After(p)] EXCEPT ![d] = "sleep"]
    BY <1>8 DEF RestartDeferred, Defer
  <2>2. state' = state /\ link' = link /\ pc[p] = "restart"
    BY <1>8 DEF RestartDeferred
  <2>3. SocketsLive' /\ ConnectedIsBacked'
    BY <2>1, <2>2, AfterQuiet, Kinds DEF SocketsLive, ConnectedIsBacked, TypeOK
  <2>4. RetryHasHandler'
    BY <2>2 DEF RetryHasHandler, RetryLabels, HasHandler
  <2>5. RunningIsBacked'
    BY <2>1, Kinds DEF RunningIsBacked, RetryUnderWay, TypeOK
  <2>6. QED
    BY <1>0, <2>3, <2>4, <2>5
<1>9. ASSUME NEW p \in Procs, RestartGivesUp(p) PROVE Backed'
  <2>1. /\ state' = state /\ link' = link /\ pc[p] = "restart"
        /\ pc' = [pc EXCEPT ![p] = Raised(p)]
    BY <1>9 DEF RestartGivesUp, Goto
  <2>2. SocketsLive' /\ ConnectedIsBacked'
    BY <2>1, AfterQuiet DEF SocketsLive, ConnectedIsBacked, TypeOK
  <2>3. HasHandler /\ RetryHasHandler'
    BY <2>1 DEF RetryHasHandler, RetryLabels, HasHandler
  <2>4. ~BudgetLeft'
    BY <1>9, HandlerAssumption DEF RestartGivesUp, CountAttempt, Counts, BudgetLeft, TypeOK, AttemptCap
  <2>5. QED
    BY <1>0, <2>2, <2>3, <2>4 DEF RunningIsBacked, Exhausted, HasHandler
<1>10. ASSUME NEW u \in Users, UserStart(u) PROVE Backed'
  <2>1. PICK l \in {"start"} : pc' = [pc EXCEPT ![u] = l]
    BY <1>10 DEF UserStart, Goto
  <2>2. QED
    BY <1>0, <1>10, <2>1, QuietStep, Kinds DEF UserStart, RetryLabels, handlerVars
<1>11. ASSUME NEW u \in Users, UserSend(u) PROVE Backed'
  <2>1. PICK l \in {"token", "write"} : pc' = [pc EXCEPT ![u] = l]
    BY <1>11 DEF UserSend, BeginWrite, Goto
  <2>2. QED
    BY <1>0, <1>11, <2>1, QuietStep, Kinds DEF UserSend, RetryLabels, handlerVars
<1>12. ASSUME NEW u \in Users, UserStartFails(u) PROVE Backed'
  <2>1. PICK l \in {"idle"} : pc' = [pc EXCEPT ![u] = l]
    BY <1>12 DEF UserStartFails, Goto
  <2>2. QED
    BY <1>0, <1>12, <2>1, QuietStep, Kinds DEF UserStartFails, RetryLabels, handlerVars
<1>13. ASSUME NEW g \in Apps, Dial(g) PROVE Backed'
  <2>1. PICK l \in {"dialing"} : pc' = [pc EXCEPT ![g] = l]
    BY <1>13 DEF Dial, Goto
  <2>2. QED
    BY <1>0, <1>13, <2>1, QuietStep, Kinds DEF Dial, RetryLabels, handlerVars
<1>14. ASSUME NEW g \in Apps, CallbackReturns(g) PROVE Backed'
  <2>1. PICK l \in {"reading"} : pc' = [pc EXCEPT ![g] = l]
    BY <1>14 DEF CallbackReturns, Goto
  <2>2. QED
    BY <1>0, <1>14, <2>1, QuietStep, Kinds DEF CallbackReturns, RetryLabels, handlerVars
<1>15. ASSUME NEW g \in Apps, CallbackSends(g) PROVE Backed'
  <2>1. PICK l \in {"token", "cberror"} : pc' = [pc EXCEPT ![g] = l]
    BY <1>15 DEF CallbackSends, Goto
  <2>2. QED
    BY <1>0, <1>15, <2>1, QuietStep, Kinds DEF CallbackSends, RetryLabels, handlerVars
<1>16. ASSUME NEW g \in Apps, CallbackRaises(g) PROVE Backed'
  <2>1. PICK l \in {"cberror"} : pc' = [pc EXCEPT ![g] = l]
    BY <1>16 DEF CallbackRaises, Goto
  <2>2. QED
    BY <1>0, <1>16, <2>1, QuietStep, Kinds DEF CallbackRaises, RetryLabels, handlerVars
<1>17. ASSUME NEW g \in Apps, CallbackErrorHandled(g) PROVE Backed'
  <2>1. PICK l \in {"reading"} : pc' = [pc EXCEPT ![g] = l]
    BY <1>17 DEF CallbackErrorHandled, Goto
  <2>2. QED
    BY <1>0, <1>17, <2>1, QuietStep, Kinds DEF CallbackErrorHandled, RetryLabels, handlerVars
<1>18. ASSUME NEW g \in Apps, ErrorHandled(g) PROVE Backed'
  <2>1. PICK l \in {"teardown"} : pc' = [pc EXCEPT ![g] = l]
    BY <1>18 DEF ErrorHandled, Goto
  <2>2. QED
    BY <1>0, <1>18, <2>1, QuietStep, Kinds DEF ErrorHandled, RetryLabels, handlerVars
<1>19. ASSUME NEW g \in Apps, LinkLost(g) PROVE Backed'
  <2>1. PICK l \in {"error", "teardown"} : pc' = [pc EXCEPT ![g] = l]
    BY <1>19 DEF LinkLost, Goto
  <2>2. QED
    BY <1>0, <1>19, <2>1, QuietStep, Kinds DEF LinkLost, RetryLabels, handlerVars
<1>20. ASSUME NEW g \in Apps, HubHangsUp(g) PROVE Backed'
  <2>1. PICK l \in {"teardown"} : pc' = [pc EXCEPT ![g] = l]
    BY <1>20 DEF HubHangsUp, Goto
  <2>2. QED
    BY <1>0, <1>20, <2>1, QuietStep, Kinds DEF HubHangsUp, Reads, RetryLabels, handlerVars
<1>21. ASSUME NEW g \in Apps, HubCloses(g) PROVE Backed'
  <2>1. PICK l \in {"teardown"} : pc' = [pc EXCEPT ![g] = l]
    BY <1>21 DEF HubCloses, Goto
  <2>2. QED
    BY <1>0, <1>21, <2>1, QuietStep, Kinds DEF HubCloses, Reads, RetryLabels, handlerVars
<1>22. ASSUME NEW c \in Checkers, CheckerBegins(c) PROVE Backed'
  <2>1. PICK l \in {After(c)} : pc' = [pc EXCEPT ![c] = l]
    BY <1>22 DEF CheckerBegins, Goto
  <2>2. QED
    BY <1>0, <1>22, <2>1, QuietStep, Kinds, AfterQuiet DEF CheckerBegins, RetryLabels, handlerVars
<1>23. ASSUME NEW c \in Checkers, CheckerWakes(c) PROVE Backed'
  <2>1. PICK l \in {"write", After(c)} : pc' = [pc EXCEPT ![c] = l]
    BY <1>23 DEF CheckerWakes, BeginWrite, Goto
  <2>2. QED
    BY <1>0, <1>23, <2>1, QuietStep, Kinds, AfterQuiet DEF CheckerWakes, RetryLabels, handlerVars
<1>24. ASSUME NEW d \in Deferreds, DeferredWakes(d) PROVE Backed'
  <2>1. PICK l \in {"write"} : pc' = [pc EXCEPT ![d] = l]
    BY <1>24 DEF DeferredWakes, BeginWrite, Goto
  <2>2. QED
    BY <1>0, <1>24, <2>1, QuietStep, Kinds DEF DeferredWakes, RetryLabels, handlerVars
<1>25. ASSUME NEW u \in Users, UserStop(u) PROVE Backed'
  <2>1. pc' = [pc EXCEPT ![u] = "closing"] /\ BeginClose(u, "closing") /\ state' = state
    BY <1>25 DEF UserStop, BeginClose, Goto
  <2>2. SocketsLive' /\ ConnectedIsBacked'
    BY <2>1, CloseStep, Kinds DEF ConnectedIsBacked
  <2>3. RetryHasHandler'
    BY <2>1 DEF RetryHasHandler, RetryLabels, HasHandler, TypeOK
  <2>4. RunningIsBacked'
    BY <1>25, <2>1, Kinds DEF UserStop, ConnectedIsBacked, RunningIsBacked, TypeOK
  <2>5. QED
    BY <1>0, <2>2, <2>3, <2>4
<1>26. ASSUME NEW u \in Users, UserStarted(u) PROVE Backed'
  BY <1>0, <1>26, NegotiatedBacked, Kinds DEF UserStarted
<1>27. ASSUME NEW g \in Apps, Connect(g) PROVE Backed'
  <2>1. /\ state' = state /\ pc[g] = "dialing" /\ pc' = [pc EXCEPT ![g] = "upgrading"]
        /\ \A h \in Apps \ {g} : link'[h] = link[h]
    BY <1>27 DEF Connect, Goto, TypeOK
  <2>2. SocketsLive'
    BY <2>1, Kinds DEF SocketsLive, TypeOK
  <2>3. RetryHasHandler'
    BY <2>1 DEF RetryHasHandler, RetryLabels, HasHandler, TypeOK
  <2>4. ConnectedIsBacked' /\ RunningIsBacked'
    BY <2>1, Kinds DEF ConnectedIsBacked, RunningIsBacked, TypeOK
  <2>5. QED
    BY <1>0, <2>2, <2>3, <2>4
<1>28. ASSUME NEW g \in Apps, ConnectFails(g) PROVE Backed'
  <2>1. /\ state' = state /\ pc[g] \in {"dialing", "upgrading"}
        /\ pc' = [pc EXCEPT ![g] = "error"]
        /\ \A h \in Apps : link'[h] \in {link[h], "closed"}
    BY <1>28 DEF ConnectFails, Goto, TypeOK
  <2>2. SocketsLive'
    BY <2>1, Kinds DEF SocketsLive, TypeOK
  <2>3. RetryHasHandler'
    BY <2>1 DEF RetryHasHandler, RetryLabels, HasHandler, TypeOK
  <2>4. ConnectedIsBacked' /\ RunningIsBacked'
    BY <2>1, Kinds DEF ConnectedIsBacked, RunningIsBacked, TypeOK
  <2>5. QED
    BY <1>0, <2>2, <2>3, <2>4
<1>29. ASSUME NEW g \in Apps, RecvHandshake(g) PROVE Backed'
  <2>1. CASE Accept(g)
    BY <1>0, <1>29, <2>1, AcceptStep DEF RecvHandshake, Reads
  <2>2. CASE UNCHANGED <<state, link, pc, attempt_number>>
    BY <1>0, <2>2 DEF SocketsLive, RetryHasHandler, HasHandler, ConnectedIsBacked,
       RunningIsBacked, RetryUnderWay, Exhausted, BudgetLeft
  <2>3. CASE Garbled(g)
    BY <1>0, <1>29, <2>3, GarbledStep DEF RecvHandshake, Reads
  <2>4. QED
    BY <1>29, <2>1, <2>2, <2>3 DEF RecvHandshake, handlerVars
<1>30. ASSUME NEW g \in Apps, RecvHandshakeError(g) PROVE Backed'
  <2>1. CASE Refuse(g)
    BY <1>0, <1>30, <2>1, QuietStep, Kinds
    DEF RecvHandshakeError, Reads, Refuse, Goto, RetryLabels, handlerVars
  <2>2. CASE Stopping(g)
    BY <1>0, <1>30, <2>2, StoppingStep DEF RecvHandshakeError, Reads
  <2>3. CASE Garbled(g)
    BY <1>0, <1>30, <2>3, GarbledStep DEF RecvHandshakeError, Reads
  <2>4. QED
    BY <1>30, <2>1, <2>2, <2>3 DEF RecvHandshakeError
<1>31. ASSUME NEW g \in Apps, Refused(g) PROVE Backed'
  <2>1. /\ pc[g] = "refused" /\ link' = link
        /\ \E l \in {"callback", "reading"} : pc' = [pc EXCEPT ![g] = l]
    BY <1>31 DEF Refused, Goto
  <2>2. SocketsLive'
    BY <2>1, Kinds DEF SocketsLive, TypeOK
  <2>3. RetryHasHandler'
    BY <2>1 DEF RetryHasHandler, RetryLabels, HasHandler, TypeOK
  <2>4. ConnectedIsBacked' /\ RunningIsBacked'
    BY <2>1, Kinds DEF ConnectedIsBacked, RunningIsBacked, TypeOK
  <2>5. QED
    BY <1>0, <2>2, <2>3, <2>4
<1>32. ASSUME NEW g \in Apps, Teardown(g) PROVE Backed'
  <2>1. /\ state' = "disconnected" /\ pc' = [pc EXCEPT ![g] = "ending"]
        /\ link' = [link EXCEPT ![g] = "closed"]
    BY <1>32 DEF Teardown, ClosedState, Goto
  <2>2. SocketsLive'
    BY <2>1, Kinds DEF SocketsLive, TypeOK
  <2>3. RetryHasHandler'
    BY <2>1 DEF RetryHasHandler, RetryLabels, HasHandler, TypeOK
  <2>4. QED
    BY <1>0, <2>1, <2>2, <2>3, DownStep
<1>33. ASSUME NEW g \in Apps, RecvMessage(g) PROVE Backed'
  <2>1. CASE Goto(g, "callback") /\ UNCHANGED <<state, link, handlerVars>>
    BY <1>0, <1>33, <2>1, QuietStep, Kinds DEF RecvMessage, Reads, Goto, RetryLabels, handlerVars
  <2>2. CASE Accept(g)
    BY <1>0, <1>33, <2>2, AcceptStep DEF RecvMessage, Reads
  <2>3. CASE Refuse(g)
    BY <1>0, <1>33, <2>3, QuietStep, Kinds
    DEF RecvMessage, Reads, Refuse, Goto, RetryLabels, handlerVars
  <2>4. CASE Garbled(g)
    BY <1>0, <1>33, <2>4, GarbledStep DEF RecvMessage, Reads
  <2>5. QED
    BY <1>33, <2>1, <2>2, <2>3, <2>4 DEF RecvMessage
<1>34. ASSUME NEW g \in Apps, RecvClose(g) PROVE Backed'
  BY <1>0, <1>34, StoppingStep DEF RecvClose, Reads
<1>35. ASSUME NEW g \in Apps, Break(g) PROVE Backed'
  <2>1. /\ UNCHANGED <<state, pc, attempt_number>> /\ link[g] = "open"
        /\ \A h \in Apps : link'[h] = link[h] \/ (h = g /\ link'[h] = "broken")
    BY <1>35 DEF Break, handlerVars, TypeOK
  <2>2. QED
    BY <1>0, <2>1 DEF SocketsLive, RetryHasHandler, HasHandler, ConnectedIsBacked,
       RunningIsBacked, RetryUnderWay, Exhausted, BudgetLeft
<1>36. CASE Age \/ UNCHANGED vars
  <2>1. UNCHANGED <<state, link, pc, attempt_number>>
    BY <1>36 DEF Age, vars, handlerVars
  <2>2. QED
    BY <1>0, <2>1 DEF SocketsLive, RetryHasHandler, HasHandler, ConnectedIsBacked,
       RunningIsBacked, RetryUnderWay, Exhausted, BudgetLeft
<1>37. ASSUME NEW p \in Procs, TokenFetched(p) PROVE Backed'
  <2>1. PICK l \in {"write"} : pc' = [pc EXCEPT ![p] = l]
    BY <1>37 DEF TokenFetched, BeginWrite, Goto
  <2>2. QED
    BY <1>0, <1>37, <2>1, QuietStep, Kinds DEF TokenFetched, RetryLabels, handlerVars
<1>38. ASSUME NEW p \in Procs, NotifyFails(p) PROVE Backed'
  <2>1. PICK l \in {Raised(p)} : pc' = [pc EXCEPT ![p] = l]
    BY <1>38 DEF NotifyFails, Goto
  <2>2. QED
    BY <1>0, <1>38, <2>1, QuietStep, Kinds, AfterQuiet DEF NotifyFails, RetryLabels
<1>39. ASSUME NEW g \in Apps, Upgraded(g) PROVE Backed'
  <2>1. PICK l \in {"greeting"} : pc' = [pc EXCEPT ![g] = l]
    BY <1>39 DEF Upgraded, BeginWrite, Goto
  <2>2. QED
    BY <1>0, <1>39, <2>1, QuietStep, Kinds DEF Upgraded, RetryLabels, handlerVars
<1>40. ASSUME NEW g \in Apps, EndReturns(g) PROVE Backed'
  <2>1. PICK l \in {"dead"} : pc' = [pc EXCEPT ![g] = l]
    BY <1>40 DEF EndReturns, Goto
  <2>2. QED
    BY <1>0, <1>40, <2>1, QuietStep, Kinds DEF EndReturns, RetryLabels, handlerVars
<1>41. ASSUME NEW g \in Apps, CloseRaises(g) PROVE Backed'
  <2>1. PICK l \in {"cberror", "error", "teardown", "enderror", "dead"} :
          /\ pc' = [pc EXCEPT ![g] = l]
          /\ l \in Off => pc[g] \in EndLabels
    <3>1. \A x \in DOMAIN OnCloseRaised :
            /\ OnCloseRaised[x] \in {"cberror", "error", "teardown", "enderror", "dead"}
            /\ OnCloseRaised[x] \in Off => x \in EndLabels
      BY DEF OnCloseRaised, Off, EndLabels
    <3> QED BY <1>41, <3>1 DEF CloseRaises, Goto
  <2>2. pc[g] \notin RetryLabels
    BY <1>41 DEF CloseRaises, OnCloseRaised, RetryLabels
  <2>3. QED
    BY <1>0, <1>41, <2>1, <2>2, QuietStep, Kinds DEF CloseRaises, RetryLabels, handlerVars
<1> HIDE DEF Backed
<1> QED
  BY <1>1, <1>2, <1>3, <1>4, <1>5, <1>6, <1>7, <1>8, <1>9, <1>10, <1>11, <1>12,
     <1>13, <1>14, <1>15, <1>16, <1>17, <1>18, <1>19, <1>20, <1>21, <1>22, <1>23,
     <1>24, <1>25, <1>26, <1>27, <1>28, <1>29, <1>30, <1>31, <1>32, <1>33, <1>34,
     <1>35, <1>36, <1>37, <1>38, <1>39, <1>40, <1>41
  DEF Next, SendStep, UserCall, UserStep, SocketStep, UnowedStep, CheckerStep

\* Backed holds in every reachable state.
LEMMA AlwaysBacked == Spec => []Backed
<1>1. Init => Backed
  <2> SUFFICES ASSUME Init PROVE Backed
    OBVIOUS
  <2>1. TypeOK
    BY TypeInit
  <2>2. SocketsLive /\ RetryHasHandler
    BY DEF Init, SocketsLive, RetryHasHandler, RetryLabels
  <2>3. ConnectedIsBacked /\ RunningIsBacked
    BY DEF Init, ConnectedIsBacked, RunningIsBacked
  <2>4. QED
    BY <2>1, <2>2, <2>3 DEF Backed
<1>2. Backed /\ [Next]_vars => Backed'
  BY BackedStep
<1>3. QED
  BY <1>1, <1>2, PTL DEF Spec

\* is_running() never stays true on a transport that nothing drives any more,
\* unless its handler has given up.
THEOREM AlwaysRunningIsBacked == Spec => []RunningIsBacked
<1>1. Backed => RunningIsBacked
  BY DEF Backed
<1>2. QED
  BY AlwaysBacked, <1>1, PTL

\* Whoever finds the state "connected" finds a started socket greenlet too.
THEOREM AlwaysConnectedIsBacked == Spec => []ConnectedIsBacked
<1>1. Backed => ConnectedIsBacked
  BY DEF Backed
<1>2. QED
  BY AlwaysBacked, <1>1, PTL
-----------------------------------------------------------------------------
\* A ping never raises: the handler does not give up, because no attempt of a
\* reconnection fails before the socket is made or the attempts are not
\* counted, and on_reconnect does not raise.
PingsReturn ==
  /\ "start" \notin FaultKinds \/ Handler = "raw_unlimited"
  /\ ~NotifyRaises

\* Only a connection with a handler has a checker.
KeptAlive == TypeOK /\ (running => HasHandler) /\ KeepAliveBacked

\* A checker that no exception ends ends only once it is told to stop.
LEMMA KeptAliveStep ==
  ASSUME PingsReturn, KeptAlive, TypeOK', [Next]_vars PROVE KeptAlive'
<1>0. ~running' => KeptAlive'
  BY DEF KeptAlive, KeepAliveBacked
<1> USE Kinds
    DEF PingsReturn, KeptAlive, TypeOK, KeepAliveBacked, Alive, HasHandler, Goto, After, Raised,
        KeepsChecking, Procs
<1>1. ASSUME NEW p \in Procs, WriteOk(p) PROVE KeptAlive'
  BY <1>1 DEF WriteOk, reset
<1>2. ASSUME NEW p \in Procs, WriteFails(p) PROVE KeptAlive'
  <2>1. running => \A c \in Checkers : pc[c] # "dead" => pc'[c] # "dead"
    <3>1. CASE ~HasHandler
      BY <3>1
    <3>2. CASE Goto(p, "notify")
      BY <3>2
    <3>3. CASE Kill(p)
      BY <3>3, TransportAssumption DEF Kill
    <3> QED BY <1>2, <3>1, <3>2, <3>3 DEF WriteFails
  <2> QED BY <1>2, <2>1 DEF WriteFails
<1>3. ASSUME NEW p \in Procs, Notified(p) PROVE KeptAlive'
  <2>1. CASE BeginClose(p, "reclosing")
    BY <1>0, <2>1 DEF BeginClose
  <2>2. CASE Kill(p) /\ UNCHANGED running
    <3>1. \A c \in Checkers : pc[c] # "dead" => pc'[c] # "dead"
      BY <2>2, TransportAssumption DEF Kill
    <3> QED BY <2>2, <3>1
  <2> QED BY <1>3, <2>1, <2>2 DEF Notified
<1>4. ASSUME NEW p \in Procs, Closed(p) PROVE KeptAlive'
  <2>1. running => \A c \in Checkers : pc[c] # "dead" => pc'[c] # "dead"
    <3>1. CASE Goto(p, After(p))
      BY <3>1
    <3>2. CASE Kill(p)
      BY <3>2, TransportAssumption DEF Kill
    <3> QED BY <1>4, <3>1, <3>2 DEF Closed
  <2> QED BY <1>4, <2>1 DEF Closed
<1>5. ASSUME NEW p \in Procs, KillDelivered(p) PROVE KeptAlive'
  BY <1>5, TransportAssumption DEF KillDelivered, Unwinds, Unwound
<1>6. ASSUME NEW p \in Procs, Joined(p) PROVE KeptAlive'
  BY <1>6 DEF Joined, JoinEnds
<1>7. ASSUME NEW p \in Procs, Restarted(p) PROVE KeptAlive'
  BY <1>7 DEF Restarted, Negotiated, Spawn, Free
<1>8. ASSUME NEW p \in Procs, RestartDeferred(p) PROVE KeptAlive'
  BY <1>8 DEF RestartDeferred, Fault, Defer
<1>9. ASSUME NEW p \in Procs, RestartGivesUp(p) PROVE KeptAlive'
  BY <1>9 DEF RestartGivesUp, Fault, BudgetLeft
<1>10. ASSUME NEW u \in Users, UserStart(u) PROVE KeptAlive'
  BY <1>10 DEF UserStart
<1>11. ASSUME NEW u \in Users, UserStop(u) PROVE KeptAlive'
  BY <1>0, <1>11 DEF UserStop, BeginClose
<1>12. ASSUME NEW u \in Users, UserSend(u) PROVE KeptAlive'
  BY <1>12 DEF UserSend, BeginWrite
<1>13. ASSUME NEW u \in Users, UserStarted(u) PROVE KeptAlive'
  BY <1>13 DEF UserStarted, Negotiated, Spawn, Free
<1>14. ASSUME NEW u \in Users, UserStartFails(u) PROVE KeptAlive'
  BY <1>14 DEF UserStartFails, Fault
<1>15. ASSUME NEW g \in Apps, Dial(g) PROVE KeptAlive'
  BY <1>15 DEF Dial
<1>16. ASSUME NEW g \in Apps, Connect(g) PROVE KeptAlive'
  BY <1>16 DEF Connect
<1>17. ASSUME NEW g \in Apps, ConnectFails(g) PROVE KeptAlive'
  BY <1>17 DEF ConnectFails
<1>18. ASSUME NEW g \in Apps, RecvHandshake(g) PROVE KeptAlive'
  BY <1>18 DEF RecvHandshake, Reads, Accept, Garbled, AcceptedState, StartsChecker
<1>19. ASSUME NEW g \in Apps, RecvHandshakeError(g) PROVE KeptAlive'
  <2>1. CASE BeginClose(g, "closing")
    BY <1>0, <2>1 DEF BeginClose
  <2>2. CASE UNCHANGED <<running, pc>> \/ Refuse(g) \/ Garbled(g)
    BY <2>2 DEF Refuse, Garbled
  <2> QED BY <1>19, <2>1, <2>2 DEF RecvHandshakeError, Stopping
<1>20. ASSUME NEW g \in Apps, Refused(g) PROVE KeptAlive'
  BY <1>20 DEF Refused, RefusedState
<1>21. ASSUME NEW g \in Apps, CallbackReturns(g) PROVE KeptAlive'
  BY <1>21 DEF CallbackReturns
<1>22. ASSUME NEW g \in Apps, CallbackSends(g) PROVE KeptAlive'
  BY <1>22 DEF CallbackSends
<1>23. ASSUME NEW g \in Apps, CallbackRaises(g) PROVE KeptAlive'
  BY <1>23 DEF CallbackRaises
<1>24. ASSUME NEW g \in Apps, CallbackErrorHandled(g) PROVE KeptAlive'
  BY <1>24 DEF CallbackErrorHandled
<1>25. ASSUME NEW g \in Apps, ErrorHandled(g) PROVE KeptAlive'
  BY <1>25 DEF ErrorHandled
<1>26. ASSUME NEW g \in Apps, LinkLost(g) PROVE KeptAlive'
  BY <1>26 DEF LinkLost
<1>27. ASSUME NEW g \in Apps, HubHangsUp(g) PROVE KeptAlive'
  BY <1>27 DEF HubHangsUp, Reads
<1>28. ASSUME NEW g \in Apps, Teardown(g) PROVE KeptAlive'
  BY <1>28 DEF Teardown, ClosedState
<1>29. ASSUME NEW g \in Apps, RecvMessage(g) PROVE KeptAlive'
  BY <1>29 DEF RecvMessage, Reads, Accept, AcceptedState, StartsChecker, Refuse, Garbled
<1>30. ASSUME NEW g \in Apps, RecvClose(g) PROVE KeptAlive'
  BY <1>30 DEF RecvClose, Reads, Stopping, BeginClose
<1>31. ASSUME NEW g \in Apps, HubCloses(g) PROVE KeptAlive'
  BY <1>31 DEF HubCloses, Reads
<1>32. ASSUME NEW g \in Apps, Break(g) PROVE KeptAlive'
  BY <1>32 DEF Break
<1>33. ASSUME NEW c \in Checkers, CheckerBegins(c) PROVE KeptAlive'
  BY <1>33 DEF CheckerBegins
<1>34. ASSUME NEW c \in Checkers, CheckerWakes(c) PROVE KeptAlive'
  BY <1>34 DEF CheckerWakes, BeginWrite
<1>35. ASSUME NEW d \in Deferreds, DeferredWakes(d) PROVE KeptAlive'
  BY <1>35 DEF DeferredWakes, BeginWrite
<1>36. CASE Age \/ UNCHANGED vars
  BY <1>36 DEF Age, vars
<1>37. ASSUME NEW p \in Procs, TokenFetched(p) PROVE KeptAlive'
  BY <1>37 DEF TokenFetched, BeginWrite
<1>38. ASSUME NEW p \in Procs, NotifyFails(p) PROVE KeptAlive'
  BY <1>38 DEF NotifyFails
<1>39. ASSUME NEW g \in Apps, Upgraded(g) PROVE KeptAlive'
  BY <1>39 DEF Upgraded, BeginWrite
<1>40. ASSUME NEW g \in Apps, EndReturns(g) PROVE KeptAlive'
  BY <1>40 DEF EndReturns
<1>41. ASSUME NEW g \in Apps, CloseRaises(g) PROVE KeptAlive'
  BY <1>41 DEF CloseRaises
<1> HIDE DEF KeptAlive, PingsReturn
<1> QED
  BY <1>1, <1>2, <1>3, <1>4, <1>5, <1>6, <1>7, <1>8, <1>9, <1>10, <1>11, <1>12, <1>13,
     <1>14, <1>15, <1>16, <1>17, <1>18, <1>19, <1>20, <1>21, <1>22, <1>23, <1>24, <1>25,
     <1>26, <1>27, <1>28, <1>29, <1>30, <1>31, <1>32, <1>33, <1>34, <1>35, <1>36, <1>37,
     <1>38, <1>39, <1>40, <1>41
  DEF Next, SendStep, UserCall, UserStep, SocketStep, UnowedStep, CheckerStep

(* ConnectionStateChecker.running does not outlive the greenlet it speaks  *)
(* of, so that a connection accepted anew starts a checker if there is     *)
(* none.  Restricted to applications and faults with which a ping returns: *)
(* an exception of on_reconnect (websocket.py:303), or of a handler that   *)
(* gives up, leaves send() and ends the checker with running set.          *)
THEOREM KeepAliveIsBacked == ASSUME PingsReturn PROVE Spec => []KeepAliveBacked
<1>1. Init => KeptAlive
  BY TypeInit DEF Init, KeptAlive, KeepAliveBacked
<1>2. KeptAlive /\ TypeOK' /\ [Next]_vars => KeptAlive'
  BY KeptAliveStep
<1>3. KeptAlive => KeepAliveBacked
  BY DEF KeptAlive
<1> QED BY <1>1, <1>2, <1>3, TypeCorrect, PTL DEF Spec
===============================================================================
