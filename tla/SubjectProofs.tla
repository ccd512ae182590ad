----------------------------- MODULE SubjectProofs -----------------------------
(***************************************************************************)
(* Subject holds its semaphore as it should, and the hub of a living       *)
(* connection gets the stream without gaps: proofs for any number of       *)
(* producers, sockets, pings, messages and losses.                         *)
(***************************************************************************)
EXTENDS Subject, TLAPS

StreamKinds == {"item", "completion"}

\* Before send() has attached the subject, nothing of the stream exists.
Unattached ==
  ~attached =>
    /\ lock = None
    /\ \A g \in Sockets : inbox[g] = <<>>
    /\ \A p \in Procs : pc[p] # "wait"

\* There is one send() with the subject.
OneSend ==
  \A u, v \in Procs :
    pc[u] = "token" => ~attached /\ u \in Producers /\ (pc[v] = "token" => u = v)

\* Who waits for the semaphore wants to send an item or a completion.
Waiters == \A p \in Procs : pc[p] = "wait" => job[p].kind \in StreamKinds

\* While the start message is on its way, no hub has got anything.
StartAlone ==
  \A p \in Procs :
    lock = p /\ job[p].kind = "start" => \A g \in Sockets : inbox[g] = <<>>

\* A socket that is connecting has not carried anything.
Dialing ==
  \A g \in Sockets : pc[g] = "dialing" => inbox[g] = <<>> /\ link[g] = "new"

\* The hub behind g can still get messages, and has got some.
Carries(g) == Living(g) /\ link[g] = "up" /\ inbox[g] # <<>>

LastNumber(g) == inbox[g][Len(inbox[g])].n

\* How the numbers of the holder, of the semaphore and of the hubs agree: what
\* is about to be written follows what the hub has got, and whoever cannot
\* write it leaves no connection behind that has got something before.
Numbers ==
  /\ lock = None => (Carries(ws) => LastNumber(ws) = issued)
  /\ \A p \in Procs : lock = p =>
       /\ job[p].n = issued
       /\ pc[p] = "write" =>
            /\ Carries(sock[p]) => LastNumber(sock[p]) + 1 = issued
            /\ sock[p] # ws => ~Carries(ws)
       /\ pc[p] # "write" => ~Carries(ws)

IInv ==
  /\ TypeOK
  /\ OneHolder
  /\ Unattached
  /\ OneSend
  /\ Waiters
  /\ StartAlone
  /\ Dialing
  /\ StartFirst
  /\ Numbers
  /\ Gapless

-----------------------------------------------------------------------------
LEMMA InitTyped == Init => TypeOK
  <1> SUFFICES ASSUME Init PROVE TypeOK
    OBVIOUS
  <1>1. ws \in Sockets
    BY SubjectAssumption DEF Init
  <1>2. inbox \in [Sockets -> Seq(Jobs)]
    BY DEF Init
  <1>3. job \in [Procs -> Jobs]
    BY DEF Init, Job, Jobs, Kinds
  <1>4. /\ pc \in [Procs -> CallerLabels \cup SocketLabels]
        /\ \A g \in Sockets : pc[g] \in SocketLabels
        /\ \A p \in Producers \cup Pingers : pc[p] \in CallerLabels
    BY <1>1, SubjectAssumption DEF Init, CallerLabels, SocketLabels, Procs
  <1>5. \A p \in Procs : sock[p] # None <=> pc[p] \in {"write", "notify", "join"}
    BY DEF Init
  <1>6. losses \in 0..MaxLosses
    BY SubjectAssumption DEF Init
  <1>7. link \in [Sockets -> Links]
    BY DEF Init, Links
  <1>8. QED
    BY <1>1, <1>2, <1>3, <1>4, <1>5, <1>6, <1>7 DEF Init, States, Endings, TypeOK

\* A greenlet that takes the semaphore or queues for it keeps to the types,
\* whatever its action does to the socket it comes from.
LEMMA LocksTyped ==
  ASSUME TypeOK, NEW p \in Procs, NEW kind \in {"start", "item", "completion"},
         Locks(p, kind)
  PROVE  /\ lock' \in Procs \cup {None} /\ issued' \in Nat
         /\ pc' = [pc EXCEPT ![p] = "write"]
         /\ job' \in [Procs -> Jobs]
         /\ sock' = [sock EXCEPT ![p] = ws]
  <1>1. issued' \in Nat
    BY DEF Locks, TypeOK
  <1>2. job' \in [Procs -> Jobs]
    BY <1>1 DEF Locks, TypeOK, Jobs, Kinds
  <1>3. QED
    BY <1>1, <1>2 DEF Locks, TypeOK

LEMMA EnterTyped ==
  ASSUME TypeOK, NEW p \in Procs, NEW kind \in {"start", "item", "completion"},
         pc[p] \notin {"write", "notify", "join"}, Enter(p, kind)
  PROVE  /\ lock' \in Procs \cup {None} /\ issued' \in Nat
         /\ job' \in [Procs -> Jobs]
         /\ pc' \in [Procs -> CallerLabels \cup SocketLabels]
         /\ \A g \in Sockets : pc'[g] \in SocketLabels
         /\ \A q \in Producers \cup Pingers : pc'[q] \in CallerLabels
         /\ sock' \in [Procs -> Sockets \cup {None}]
         /\ \A q \in Procs : sock'[q] # None <=> pc'[q] \in {"write", "notify", "join"}
  <1>1. CASE Locks(p, kind)
    <2>1. /\ lock' \in Procs \cup {None} /\ issued' \in Nat
          /\ job' \in [Procs -> Jobs]
          /\ pc' = [pc EXCEPT ![p] = "write"]
          /\ sock' = [sock EXCEPT ![p] = ws]
      BY <1>1, LocksTyped
    <2>2. QED
      BY <2>1, SubjectAssumption
         DEF TypeOK, CallerLabels, SocketLabels, CallLabels, Procs
  <1>2. CASE Queues(p, kind)
    <2>1. job' \in [Procs -> Jobs]
      BY <1>2 DEF Queues, TypeOK, Job, Jobs, Kinds
    <2>2. QED
      BY <1>2, <2>1, SubjectAssumption
         DEF Queues, TypeOK, CallerLabels, SocketLabels, CallLabels, Procs
  <1>3. QED
    BY <1>1, <1>2 DEF Enter

\* Where a call of transport.send may lead.
LEMMA AfterLabels ==
  ASSUME TypeOK, NEW p \in Procs
  PROVE  /\ p \notin Sockets => After(p) = "idle"
         /\ p \in Sockets => After(p) \in {"reading", "teardown", "dead"}
  BY DEF After, TypeOK, Endings

\* A call of transport.send that is over.
LEMMA ReturnTyped ==
  ASSUME TypeOK, NEW p \in Procs, Return(p)
  PROVE  /\ lock' \in Procs \cup {None}
         /\ job' \in [Procs -> Jobs]
         /\ sock' = [sock EXCEPT ![p] = None]
         /\ After(p) \notin {"write", "notify", "join"}
         /\ p \in Sockets => After(p) \in SocketLabels
         /\ p \notin Sockets => After(p) \in CallerLabels
         /\ \A s \in States : StateAfter(p, s) \in States
  <1>1. job' \in [Procs -> Jobs]
    BY DEF Return, TypeOK, Job, Jobs, Kinds
  <1>2. QED
    BY <1>1, AfterLabels
       DEF Return, Released, StateAfter, States, TypeOK, CallerLabels, SocketLabels

\* A greenlet that goes on to a label of its kind, with or without a socket.
LEMMA GoesOn ==
  ASSUME TypeOK, NEW p \in Procs, NEW label, NEW g,
         pc' = [pc EXCEPT ![p] = label], sock' = [sock EXCEPT ![p] = g],
         p \in Sockets => label \in SocketLabels,
         p \notin Sockets => label \in CallerLabels,
         g \in Sockets \cup {None},
         g # None <=> label \in {"write", "notify", "join"}
  PROVE  /\ pc' \in [Procs -> CallerLabels \cup SocketLabels]
         /\ \A h \in Sockets : pc'[h] \in SocketLabels
         /\ \A q \in Producers \cup Pingers : pc'[q] \in CallerLabels
         /\ sock' \in [Procs -> Sockets \cup {None}]
         /\ \A q \in Procs : sock'[q] # None <=> pc'[q] \in {"write", "notify", "join"}
  <1>1. \A q \in Producers \cup Pingers : q \notin Sockets
    BY SubjectAssumption
  <1>2. pc \in [Procs -> CallerLabels \cup SocketLabels] /\ sock \in [Procs -> Sockets \cup {None}]
    BY DEF TypeOK
  <1>3. pc' \in [Procs -> CallerLabels \cup SocketLabels]
    BY <1>2
  <1>4. \A h \in Sockets : pc'[h] \in SocketLabels
    BY <1>2 DEF TypeOK, Procs
  <1>5. \A q \in Producers \cup Pingers : pc'[q] \in CallerLabels
    BY <1>1, <1>2 DEF TypeOK, Procs
  <1>6. sock' \in [Procs -> Sockets \cup {None}]
    BY <1>2
  <1>7. \A q \in Procs : sock'[q] # None <=> pc'[q] \in {"write", "notify", "join"}
    <2> TAKE q \in Procs
    <2>1. CASE q = p
      BY <1>2, <2>1
    <2>2. CASE q # p
      BY <1>2, <2>2 DEF TypeOK
    <2>3. QED
      BY <2>1, <2>2
  <1>8. QED
    BY <1>3, <1>4, <1>5, <1>6, <1>7

LEMMA KillTyped ==
  ASSUME TypeOK, NEW p \in Procs, Kill(p)
  PROVE  /\ lock' \in Procs \cup {None}
         /\ job' \in [Procs -> Jobs]
         /\ pc' \in [Procs -> CallerLabels \cup SocketLabels]
         /\ \A g \in Sockets : pc'[g] \in SocketLabels
         /\ \A q \in Producers \cup Pingers : pc'[q] \in CallerLabels
         /\ sock' \in [Procs -> Sockets \cup {None}]
         /\ \A q \in Procs : sock'[q] # None <=> pc'[q] \in {"write", "notify", "join"}
  <1>1. job' \in [Procs -> Jobs]
    BY DEF Kill, TypeOK, Job, Jobs, Kinds
  <1>2. Unwound(ws) \in {"dead", "teardown"} /\ ws \in Sockets /\ ws \in Procs
    BY DEF Unwound, TypeOK, Procs
  <1>3. lock' \in Procs \cup {None}
    BY DEF Kill, Released, TypeOK
  <1>4. /\ pc' \in [Procs -> CallerLabels \cup SocketLabels]
        /\ \A q \in Procs : q \notin {p, ws} => pc'[q] = pc[q] /\ sock'[q] = sock[q]
        /\ pc'[ws] = Unwound(ws) /\ sock'[ws] = None
        /\ p # ws => pc'[p] = "join" /\ sock'[p] = ws
        /\ sock' \in [Procs -> Sockets \cup {None}]
    BY <1>2 DEF Kill, TypeOK, CallerLabels, SocketLabels, CallLabels
  <1>5. ws # None /\ ws \notin Producers \cup Pingers
    BY <1>2, SubjectAssumption DEF Procs
  <1>6. /\ "join" \in CallerLabels /\ "join" \in SocketLabels
        /\ Unwound(ws) \in SocketLabels /\ Unwound(ws) \notin {"write", "notify", "join"}
    BY <1>2 DEF CallerLabels, SocketLabels, CallLabels
  <1>7. /\ \A g \in Sockets : pc'[g] \in SocketLabels
        /\ \A q \in Producers \cup Pingers : pc'[q] \in CallerLabels
    BY <1>4, <1>5, <1>6 DEF TypeOK, Procs
  <1>8. \A q \in Procs : sock'[q] # None <=> pc'[q] \in {"write", "notify", "join"}
    BY <1>4, <1>5, <1>6 DEF TypeOK
  <1>9. QED
    BY <1>1, <1>3, <1>4, <1>7, <1>8

\* What the end of a socket greenlet does to the types: an on_close callback that
\* sends, or none.
LEMMA EndTyped ==
  ASSUME TypeOK, NEW g \in Sockets, pc[g] \notin {"write", "notify", "join"},
         NEW phase \in Endings, NEW label \in {"teardown", "dead"},
         OnClose(g, phase) \/ WithoutOnClose(g, label)
  PROVE  /\ lock' \in Procs \cup {None} /\ issued' \in Nat
         /\ job' \in [Procs -> Jobs]
         /\ pc' \in [Procs -> CallerLabels \cup SocketLabels]
         /\ \A h \in Sockets : pc'[h] \in SocketLabels
         /\ \A q \in Producers \cup Pingers : pc'[q] \in CallerLabels
         /\ sock' \in [Procs -> Sockets \cup {None}]
         /\ \A q \in Procs : sock'[q] # None <=> pc'[q] \in {"write", "notify", "join"}
         /\ ending' \in [Sockets -> Endings]
  <1>1. g \in Procs
    BY DEF Procs
  <1>2. CASE OnClose(g, phase)
    BY <1>1, <1>2, EnterTyped DEF OnClose, TypeOK
  <1>3. CASE WithoutOnClose(g, label)
    BY <1>1, <1>3, SubjectAssumption
       DEF WithoutOnClose, TypeOK, CallerLabels, SocketLabels, CallLabels, Procs
  <1>4. QED
    BY <1>2, <1>3

LEMMA StepTyped == TypeOK /\ Waiters /\ [Next]_vars => TypeOK'
  <1> SUFFICES ASSUME TypeOK, Waiters, [Next]_vars PROVE TypeOK'
    OBVIOUS
  <1> USE SubjectAssumption
  <1>1. ASSUME NEW u \in Producers, BeginSend(u) PROVE TypeOK'
    BY <1>1 DEF BeginSend, AttachedEarly, TypeOK, wireVars, CallerLabels, SocketLabels,
                CallLabels, Procs
  <1>2. ASSUME NEW u \in Producers, SendSubject(u) PROVE TypeOK'
    <2>1. u \in Procs /\ pc[u] \notin {"write", "notify", "join"} /\ Enter(u, "start")
      BY <1>2 DEF SendSubject, Procs
    <2>2. QED
      BY <1>2, <2>1, EnterTyped DEF SendSubject, TypeOK, wireVars
  <1>3. ASSUME NEW u \in Producers, SendFails(u) PROVE TypeOK'
    BY <1>3 DEF SendFails, TypeOK, subjectVars, wireVars, CallerLabels, SocketLabels,
                CallLabels, Procs
  <1>4. ASSUME NEW u \in Producers, Message(u) PROVE TypeOK'
    <2>1. PICK kind \in {"item", "completion"} : Enter(u, kind)
      BY <1>4 DEF Message
    <2>2. u \in Procs /\ pc[u] \notin {"write", "notify", "join"}
      BY <1>4 DEF Message, Procs
    <2>3. QED
      BY <1>4, <2>1, <2>2, EnterTyped DEF Message, TypeOK, wireVars
  <1>5. ASSUME NEW p \in Procs, Acquire(p) PROVE TypeOK'
    <2>1. /\ Enter(p, job[p].kind) /\ pc[p] \notin {"write", "notify", "join"}
          /\ job[p].kind \in {"start", "item", "completion"}
      BY <1>5 DEF Acquire, Enter, Waiters, StreamKinds
    <2>2. QED
      BY <1>5, <2>1, EnterTyped DEF Acquire, TypeOK, wireVars
  <1>6. ASSUME NEW p \in Procs, WriteOk(p) PROVE TypeOK'
    <2>1. Return(p) /\ pc' = [pc EXCEPT ![p] = After(p)]
      BY <1>6 DEF WriteOk
    <2>2. inbox' \in [Sockets -> Seq(Jobs)]
      BY <1>6 DEF WriteOk, TypeOK
    <2>3. /\ lock' \in Procs \cup {None} /\ job' \in [Procs -> Jobs]
          /\ sock' = [sock EXCEPT ![p] = None]
          /\ After(p) \notin {"write", "notify", "join"}
          /\ p \in Sockets => After(p) \in SocketLabels
          /\ p \notin Sockets => After(p) \in CallerLabels
          /\ \A s \in States : StateAfter(p, s) \in States
      BY <2>1, ReturnTyped
    <2>4. QED
      BY <1>6, <2>1, <2>2, <2>3, GoesOn DEF WriteOk, TypeOK
  <1>7. ASSUME NEW p \in Procs, WriteFails(p) PROVE TypeOK'
    <2>1. CASE Kill(p)
      BY <1>7, <2>1, KillTyped DEF WriteFails, States, TypeOK
    <2>2. CASE pc' = [pc EXCEPT ![p] = "notify"] /\ UNCHANGED <<lock, job, sock>>
      BY <1>7, <2>2
         DEF WriteFails, States, TypeOK, CallerLabels, SocketLabels, CallLabels, Procs
    <2>3. QED
      BY <1>7, <2>1, <2>2 DEF WriteFails
  <1>8. ASSUME NEW p \in Procs, Notified(p) PROVE TypeOK'
    <2>1. Kill(p) /\ link' \in [Sockets -> Links]
      BY <1>8 DEF Notified, TypeOK, Links
    <2>2. QED
      BY <1>8, <2>1, KillTyped DEF Notified, States, TypeOK
  <1>9. ASSUME NEW p \in Procs, Joined(p) PROVE TypeOK'
    BY <1>9 DEF Joined, TypeOK, subjectVars, wireVars, CallerLabels, SocketLabels,
                CallLabels, Procs
  <1>10. ASSUME NEW p \in Procs, Restarted(p) PROVE TypeOK'
    <2>1. Return(p) /\ pc[p] = "restart"
      BY <1>10 DEF Restarted
    <2>2. /\ lock' \in Procs \cup {None} /\ job' \in [Procs -> Jobs]
          /\ sock' = [sock EXCEPT ![p] = None]
          /\ After(p) \notin {"write", "notify", "join"}
          /\ p \in Sockets => After(p) \in SocketLabels
          /\ p \notin Sockets => After(p) \in CallerLabels
          /\ \A s \in States : StateAfter(p, s) \in States
      BY <2>1, ReturnTyped
    <2>3. CASE state = "connected"
      <3>1. /\ pc' = [pc EXCEPT ![p] = After(p)] /\ state' = StateAfter(p, state)
            /\ UNCHANGED <<ws, link, inbox, ending>>
        BY <1>10, <2>3 DEF Restarted
      <3>2. state' \in States
        BY <2>2, <3>1 DEF TypeOK
      <3>3. QED
        BY <1>10, <2>2, <3>1, <3>2, GoesOn DEF Restarted, TypeOK
    <2>4. CASE state # "connected"
      <3>1. PICK g \in Free :
              /\ ws' = g
              /\ link' = [link EXCEPT ![g] = "new"]
              /\ inbox' = [inbox EXCEPT ![g] = <<>>]
              /\ ending' = [ending EXCEPT ![g] = "none"]
              /\ pc' = [pc EXCEPT ![p] = After(p), ![g] = "dialing"]
        BY <1>10, <2>4 DEF Restarted
      <3>2. g \in Sockets /\ pc[g] = "dead" /\ sock[g] = None /\ g # p
        BY <2>1 DEF Free, TypeOK, Procs
      <3>3. inbox' \in [Sockets -> Seq(Jobs)]
        BY <3>1, <3>2 DEF TypeOK
      <3>4. /\ link' \in [Sockets -> Links] /\ ending' \in [Sockets -> Endings]
            /\ "dialing" \in SocketLabels /\ g \in Procs
        BY <3>1, <3>2 DEF TypeOK, Links, Endings, SocketLabels, Procs
      <3>5. /\ pc' \in [Procs -> CallerLabels \cup SocketLabels]
            /\ sock' \in [Procs -> Sockets \cup {None}]
        BY <2>2, <3>1, <3>4 DEF TypeOK
      <3>6. \A h \in Sockets : pc'[h] \in SocketLabels
        BY <2>2, <3>1, <3>2, <3>4 DEF TypeOK, Procs
      <3>7. \A q \in Producers \cup Pingers : q \notin Sockets
        BY SubjectAssumption
      <3>8. \A q \in Producers \cup Pingers : pc'[q] \in CallerLabels
        BY <2>2, <3>1, <3>2, <3>7 DEF TypeOK, Procs
      <3>9. \A q \in Procs : sock'[q] # None <=> pc'[q] \in {"write", "notify", "join"}
        BY <2>2, <3>1, <3>2, <3>4 DEF TypeOK
      <3>10. QED
        BY <1>10, <2>2, <2>4, <3>1, <3>2, <3>3, <3>4, <3>5, <3>6, <3>8, <3>9
           DEF Restarted, States, TypeOK
    <2>5. QED
      BY <2>3, <2>4
  <1>11. ASSUME NEW p \in Procs, RestartFails(p) PROVE TypeOK'
    <2>1. Return(p) /\ pc[p] = "restart" /\ pc' = [pc EXCEPT ![p] = After(p)]
      BY <1>11 DEF RestartFails
    <2>2. losses' \in 0..MaxLosses
      BY <1>11 DEF RestartFails, TypeOK
    <2>3. QED
      BY <1>11, <2>1, <2>2, ReturnTyped, GoesOn DEF RestartFails, TypeOK
  <1>12. ASSUME NEW g \in Sockets, CallbackNext(g) PROVE TypeOK'
    <2>1. g \in Procs /\ pc[g] \notin {"write", "notify", "join"} /\ Enter(g, "item")
      BY <1>12 DEF CallbackNext, Procs
    <2>2. QED
      BY <1>12, <2>1, EnterTyped DEF CallbackNext, TypeOK, wireVars
  <1>13. ASSUME NEW g \in Sockets, Connected(g) PROVE TypeOK'
    BY <1>13 DEF Connected, States, TypeOK, subjectVars, CallerLabels, SocketLabels,
                 CallLabels, Links, Procs
  <1>14. ASSUME NEW g \in Sockets, ConnectFails(g) PROVE TypeOK'
    <2>1. losses' \in 0..MaxLosses
      BY <1>14 DEF ConnectFails, TypeOK
    <2>2. /\ pc[g] \notin {"write", "notify", "join"} /\ state' \in States
          /\ OnClose(g, "error") \/ WithoutOnClose(g, "teardown")
      BY <1>14 DEF ConnectFails, OnSocketError, States, TypeOK
    <2>3. QED
      BY <1>14, <2>1, <2>2, EndTyped DEF ConnectFails, Endings, TypeOK
  <1>15. ASSUME NEW g \in Sockets, LinkLost(g) PROVE TypeOK'
    <2>1. /\ pc[g] \notin {"write", "notify", "join"} /\ state' \in States
          /\ OnClose(g, "error") \/ WithoutOnClose(g, "teardown")
      BY <1>15 DEF LinkLost, OnSocketError, States, TypeOK
    <2>2. QED
      BY <1>15, <2>1, EndTyped DEF LinkLost, Endings, TypeOK
  <1>16. ASSUME NEW g \in Sockets, Teardown(g) PROVE TypeOK'
    <2>1. /\ pc[g] \notin {"write", "notify", "join"} /\ state' \in States
          /\ OnClose(g, "close") \/ WithoutOnClose(g, "dead")
      BY <1>16 DEF Teardown, States
    <2>2. link' \in [Sockets -> Links]
      BY <1>16 DEF Teardown, TypeOK, Links
    <2>3. QED
      BY <1>16, <2>1, <2>2, EndTyped DEF Teardown, Endings, TypeOK
  <1>17. ASSUME NEW g \in Sockets, Break(g) PROVE TypeOK'
    BY <1>17 DEF Break, TypeOK, subjectVars, callVars, Links
  <1>18. ASSUME NEW q \in Pingers, Ping(q) PROVE TypeOK'
    <2>1. q \in Procs /\ job' \in [Procs -> Jobs]
      BY <1>18 DEF Ping, TypeOK, Job, Jobs, Kinds, Procs
    <2>2. QED
      BY <1>18, <2>1 DEF Ping, TypeOK, subjectVars, wireVars, CallerLabels, SocketLabels,
                         CallLabels, Procs
  <1>19. CASE UNCHANGED vars
    BY <1>19 DEF vars, subjectVars, callVars, wireVars, TypeOK
  <1>20. QED
    BY <1>1, <1>2, <1>3, <1>4, <1>5, <1>6, <1>7, <1>8, <1>9, <1>10, <1>11, <1>12,
       <1>13, <1>14, <1>15, <1>16, <1>17, <1>18, <1>19
       DEF Next, CallStep, SocketStep
-----------------------------------------------------------------------------
\* The labels at which a greenlet may hold the semaphore.
Sending == {"write", "notify", "join", "restart"}

LEMMA EnterHolder ==
  ASSUME TypeOK, OneHolder, NEW p \in Procs,
         NEW kind \in {"start", "item", "completion"},
         pc[p] \notin Sending, Enter(p, kind)
  PROVE  OneHolder'
  <1>1. lock # p
    BY DEF OneHolder, Holds, Sending
  <1>2. CASE Locks(p, kind)
    <2>1. \A q \in Procs : ~Holds(q)
      BY <1>2, SubjectAssumption DEF Locks, MayEnter, OneHolder
    <2>2. pc'[p] = "write" /\ job'[p].kind = kind /\ lock' = p
      BY <1>2 DEF Locks, TypeOK
    <2>3. \A q \in Procs \ {p} : pc'[q] = pc[q] /\ job'[q] = job[q]
      BY <1>2 DEF Locks, TypeOK
    <2>4. QED
      BY <2>1, <2>2, <2>3 DEF OneHolder, Holds
  <1>3. CASE Queues(p, kind)
    BY <1>1, <1>3 DEF Queues, OneHolder, Holds, TypeOK
  <1>4. QED
    BY <1>2, <1>3 DEF Enter

\* p is done; other greenlets stay where they are, or do not send before or
\* after the step.
LEMMA ReturnHolder ==
  ASSUME TypeOK, OneHolder, NEW p \in Procs, Return(p), pc'[p] = After(p),
         \A q \in Procs \ {p} :
           pc'[q] = pc[q] \/ (pc[q] \notin Sending /\ pc'[q] \notin Sending)
  PROVE  OneHolder'
  <1>1. \A q \in Procs \ {p} : job'[q] = job[q] /\ (lock' = q <=> lock = q)
    BY SubjectAssumption DEF Return, Released, TypeOK
  <1>2. lock' # p /\ pc'[p] \notin Sending
    BY SubjectAssumption, AfterLabels DEF Return, Released, Sending
  <1>3. QED
    BY <1>1, <1>2 DEF OneHolder, Holds, Sending

LEMMA KillHolder ==
  ASSUME TypeOK, OneHolder, NEW p \in Procs, Kill(p), pc[p] \in Sending
  PROVE  OneHolder'
  <1>1. ws \in Procs /\ Unwound(ws) \in {"dead", "teardown"}
    BY DEF Unwound, TypeOK, Procs
  <1>2. \A q \in Procs \ {ws} : job'[q] = job[q] /\ (lock' = q <=> lock = q)
    BY SubjectAssumption DEF Kill, Released, TypeOK
  <1>3. lock' # ws /\ pc'[ws] \notin Sending
    BY <1>1, SubjectAssumption DEF Kill, Released, Sending, TypeOK
  <1>4. \A q \in Procs \ {ws} : pc'[q] = pc[q] \/ (q = p /\ pc'[q] = "join")
    <2>1. pc \in [Procs -> CallerLabels \cup SocketLabels]
      BY DEF TypeOK
    <2>2. QED
      BY <1>1, <2>1 DEF Kill
  <1>5. QED
    BY <1>1, <1>2, <1>3, <1>4 DEF OneHolder, Holds, Sending

\* A step of p that takes no part in the semaphore.
LEMMA AsideHolder ==
  ASSUME TypeOK, OneHolder, NEW p \in Procs, NEW label,
         pc' = [pc EXCEPT ![p] = label], lock' = lock,
         \/ job' = job /\ (pc[p] \in Sending <=> label \in Sending)
         \/ pc[p] \notin Sending /\ job' = [job EXCEPT ![p] = Job("ping")]
  PROVE  OneHolder'
  <1>1. \A q \in Procs \ {p} : pc'[q] = pc[q] /\ job'[q] = job[q]
    BY DEF TypeOK
  <1>2. Holds(p)' <=> Holds(p)
    BY DEF Holds, Sending, Job, TypeOK
  <1>3. QED
    BY <1>1, <1>2 DEF OneHolder, Holds

LEMMA EndHolder ==
  ASSUME TypeOK, OneHolder, NEW g \in Sockets, pc[g] \notin Sending,
         NEW phase, NEW label \in {"teardown", "dead"},
         OnClose(g, phase) \/ WithoutOnClose(g, label)
  PROVE  OneHolder'
  BY EnterHolder, AsideHolder DEF OnClose, WithoutOnClose, Sending, Procs

LEMMA StepHolder == TypeOK /\ Waiters /\ OneHolder /\ [Next]_vars => OneHolder'
  <1> SUFFICES ASSUME TypeOK, Waiters, OneHolder, [Next]_vars PROVE OneHolder'
    OBVIOUS
  <1>1. ASSUME NEW u \in Producers, BeginSend(u) PROVE OneHolder'
    BY <1>1, AsideHolder DEF BeginSend, Sending, Procs
  <1>2. ASSUME NEW u \in Producers, SendSubject(u) PROVE OneHolder'
    BY <1>2, EnterHolder DEF SendSubject, Sending, Procs
  <1>3. ASSUME NEW u \in Producers, SendFails(u) PROVE OneHolder'
    BY <1>3, AsideHolder DEF SendFails, subjectVars, Sending, Procs
  <1>4. ASSUME NEW u \in Producers, Message(u) PROVE OneHolder'
    BY <1>4, EnterHolder DEF Message, Sending, Procs
  <1>5. ASSUME NEW p \in Procs, Acquire(p) PROVE OneHolder'
    BY <1>5, EnterHolder DEF Acquire, Enter, Waiters, StreamKinds, Sending
  <1>6. ASSUME NEW p \in Procs, WriteOk(p) PROVE OneHolder'
    BY <1>6, ReturnHolder DEF WriteOk, TypeOK
  <1>7. ASSUME NEW p \in Procs, WriteFails(p) PROVE OneHolder'
    BY <1>7, KillHolder, AsideHolder DEF WriteFails, Sending
  <1>8. ASSUME NEW p \in Procs, Notified(p) PROVE OneHolder'
    BY <1>8, KillHolder DEF Notified, Sending
  <1>9. ASSUME NEW p \in Procs, Joined(p) PROVE OneHolder'
    BY <1>9, AsideHolder DEF Joined, subjectVars, Sending
  <1>10. ASSUME NEW p \in Procs, Restarted(p) PROVE OneHolder'
    <2>1. Return(p) /\ pc[p] = "restart"
      BY <1>10 DEF Restarted
    <2>2. CASE state = "connected"
      BY <1>10, <2>1, <2>2, ReturnHolder DEF Restarted, TypeOK
    <2>3. CASE state # "connected"
      <3>1. PICK g \in Free : pc' = [pc EXCEPT ![p] = After(p), ![g] = "dialing"]
        BY <1>10, <2>3 DEF Restarted
      <3>2. g \in Procs /\ pc[g] = "dead" /\ g # p
        BY <2>1 DEF Free, Procs
      <3>3. QED
        BY <2>1, <3>1, <3>2, ReturnHolder DEF TypeOK, Sending
    <2>4. QED
      BY <2>2, <2>3
  <1>11. ASSUME NEW p \in Procs, RestartFails(p) PROVE OneHolder'
    BY <1>11, ReturnHolder DEF RestartFails, TypeOK
  <1>12. ASSUME NEW g \in Sockets, CallbackNext(g) PROVE OneHolder'
    BY <1>12, EnterHolder DEF CallbackNext, Sending, Procs
  <1>13. ASSUME NEW g \in Sockets, Connected(g) PROVE OneHolder'
    BY <1>13, AsideHolder DEF Connected, subjectVars, Sending, Procs
  <1>14. ASSUME NEW g \in Sockets, ConnectFails(g) PROVE OneHolder'
    BY <1>14, EndHolder DEF ConnectFails, OnSocketError, Sending
  <1>15. ASSUME NEW g \in Sockets, LinkLost(g) PROVE OneHolder'
    BY <1>15, EndHolder DEF LinkLost, OnSocketError, Sending
  <1>16. ASSUME NEW g \in Sockets, Teardown(g) PROVE OneHolder'
    BY <1>16, EndHolder DEF Teardown, Sending
  <1>17. ASSUME NEW g \in Sockets, Break(g) PROVE OneHolder'
    BY <1>17 DEF Break, subjectVars, callVars, OneHolder, Holds
  <1>18. ASSUME NEW q \in Pingers, Ping(q) PROVE OneHolder'
    BY <1>18, AsideHolder DEF Ping, subjectVars, Sending, Procs
  <1>19. CASE UNCHANGED vars
    BY <1>19 DEF vars, subjectVars, callVars, OneHolder, Holds
  <1>20. QED
    BY <1>1, <1>2, <1>3, <1>4, <1>5, <1>6, <1>7, <1>8, <1>9, <1>10, <1>11, <1>12,
       <1>13, <1>14, <1>15, <1>16, <1>17, <1>18, <1>19
       DEF Next, CallStep, SocketStep
-----------------------------------------------------------------------------
\* The start message is sent by the one send() there is, before any other.
LEMMA EnterWaiters ==
  ASSUME TypeOK, Waiters, NEW p \in Procs, NEW kind, Enter(p, kind),
         kind \in StreamKinds \/ lock = None
  PROVE  Waiters'
  <1>1. CASE Locks(p, kind)
    BY <1>1 DEF Locks, Waiters, TypeOK
  <1>2. CASE Queues(p, kind)
    BY <1>2 DEF Queues, MayEnter, Waiters, Job, TypeOK
  <1>3. QED
    BY <1>1, <1>2 DEF Enter

LEMMA EndWaiters ==
  ASSUME TypeOK, Waiters, NEW g \in Sockets, NEW phase, NEW label \in {"teardown", "dead"},
         OnClose(g, phase) \/ WithoutOnClose(g, label)
  PROVE  Waiters'
  <1>1. g \in Procs /\ "completion" \in StreamKinds
    BY DEF StreamKinds, Procs
  <1>2. CASE OnClose(g, phase)
    BY <1>1, <1>2, EnterWaiters DEF OnClose
  <1>3. CASE WithoutOnClose(g, label)
    BY <1>1, <1>3 DEF WithoutOnClose, Waiters, TypeOK
  <1>4. QED
    BY <1>2, <1>3

LEMMA StepWaiters ==
  TypeOK /\ Unattached /\ OneSend /\ Waiters /\ [Next]_vars => Waiters'
  <1> SUFFICES ASSUME TypeOK, Unattached, OneSend, Waiters, [Next]_vars PROVE Waiters'
    OBVIOUS
  <1>1. ASSUME NEW u \in Producers, BeginSend(u) PROVE Waiters'
    BY <1>1 DEF BeginSend, AttachedEarly, wireVars, Waiters, TypeOK
  <1>2. ASSUME NEW u \in Producers, SendSubject(u) PROVE Waiters'
    <2>1. u \in Procs /\ Enter(u, "start") /\ lock = None
      BY <1>2 DEF SendSubject, OneSend, Unattached, Procs
    <2>2. QED
      BY <2>1, EnterWaiters
  <1>3. ASSUME NEW u \in Producers, SendFails(u) PROVE Waiters'
    BY <1>3 DEF SendFails, subjectVars, wireVars, Waiters, TypeOK
  <1>4. ASSUME NEW u \in Producers, Message(u) PROVE Waiters'
    <2>1. u \in Procs /\ \E kind \in StreamKinds : Enter(u, kind)
      BY <1>4 DEF Message, StreamKinds, Procs
    <2>2. QED
      BY <2>1, EnterWaiters
  <1>5. ASSUME NEW p \in Procs, Acquire(p) PROVE Waiters'
    BY <1>5 DEF Acquire, Locks, wireVars, Waiters, TypeOK
  <1>6. ASSUME NEW p \in Procs, WriteOk(p) PROVE Waiters'
    BY <1>6, AfterLabels DEF WriteOk, Return, Waiters, TypeOK
  <1>7. ASSUME NEW p \in Procs, WriteFails(p) PROVE Waiters'
    BY <1>7 DEF WriteFails, Kill, Unwound, Waiters, TypeOK
  <1>8. ASSUME NEW p \in Procs, Notified(p) PROVE Waiters'
    BY <1>8 DEF Notified, Kill, Unwound, Waiters, TypeOK
  <1>9. ASSUME NEW p \in Procs, Joined(p) PROVE Waiters'
    BY <1>9 DEF Joined, subjectVars, wireVars, Waiters, TypeOK
  <1>10. ASSUME NEW p \in Procs, Restarted(p) PROVE Waiters'
    BY <1>10, AfterLabels DEF Restarted, Return, Free, Waiters, TypeOK
  <1>11. ASSUME NEW p \in Procs, RestartFails(p) PROVE Waiters'
    BY <1>11, AfterLabels DEF RestartFails, Return, Waiters, TypeOK
  <1>12. ASSUME NEW g \in Sockets, CallbackNext(g) PROVE Waiters'
    <2>1. g \in Procs /\ Enter(g, "item") /\ "item" \in StreamKinds
      BY <1>12 DEF CallbackNext, StreamKinds, Procs
    <2>2. QED
      BY <2>1, EnterWaiters
  <1>13. ASSUME NEW g \in Sockets, Connected(g) PROVE Waiters'
    BY <1>13 DEF Connected, subjectVars, Waiters, TypeOK
  <1>14. ASSUME NEW g \in Sockets, ConnectFails(g) PROVE Waiters'
    BY <1>14, EndWaiters DEF ConnectFails, OnSocketError
  <1>15. ASSUME NEW g \in Sockets, LinkLost(g) PROVE Waiters'
    BY <1>15, EndWaiters DEF LinkLost, OnSocketError
  <1>16. ASSUME NEW g \in Sockets, Teardown(g) PROVE Waiters'
    BY <1>16, EndWaiters DEF Teardown
  <1>17. ASSUME NEW g \in Sockets, Break(g) PROVE Waiters'
    BY <1>17 DEF Break, subjectVars, callVars, Waiters, TypeOK
  <1>18. ASSUME NEW q \in Pingers, Ping(q) PROVE Waiters'
    BY <1>18 DEF Ping, Job, subjectVars, wireVars, Procs, Waiters, TypeOK
  <1>19. CASE UNCHANGED vars
    BY <1>19 DEF vars, subjectVars, callVars, wireVars, Waiters
  <1>20. QED
    BY <1>1, <1>2, <1>3, <1>4, <1>5, <1>6, <1>7, <1>8, <1>9, <1>10, <1>11, <1>12,
       <1>13, <1>14, <1>15, <1>16, <1>17, <1>18, <1>19
       DEF Next, CallStep, SocketStep

LEMMA StepUnattached ==
  TypeOK /\ OneHolder /\ Unattached /\ [Next]_vars => Unattached'
  <1> SUFFICES ASSUME TypeOK, OneHolder, Unattached, [Next]_vars PROVE Unattached'
    OBVIOUS
  <1>1. ASSUME NEW u \in Producers, BeginSend(u) PROVE Unattached'
    BY <1>1 DEF BeginSend, AttachedEarly, wireVars, Unattached, TypeOK
  <1>2. ASSUME NEW u \in Producers, SendSubject(u) PROVE Unattached'
    BY <1>2 DEF SendSubject, wireVars, Enter, Locks, Queues, MayEnter,
       Unattached, TypeOK
  <1>3. ASSUME NEW u \in Producers, SendFails(u) PROVE Unattached'
    BY <1>3 DEF SendFails, subjectVars, wireVars, Unattached, TypeOK
  <1>4. ASSUME NEW u \in Producers, Message(u) PROVE Unattached'
    BY <1>4 DEF Message, wireVars, Enter, Locks, Queues, MayEnter,
       Unattached, TypeOK
  <1>5. ASSUME NEW p \in Procs, Acquire(p) PROVE Unattached'
    BY <1>5 DEF Acquire, Locks, wireVars, Unattached, TypeOK
  <1>6. ASSUME NEW p \in Procs, WriteOk(p) PROVE Unattached'
    BY <1>6, SubjectAssumption, AfterLabels DEF WriteOk, Return, Released,
       OneHolder, Holds, Unattached, TypeOK
  <1>7. ASSUME NEW p \in Procs, WriteFails(p) PROVE Unattached'
    BY <1>7 DEF WriteFails, Kill, Unwound, Released, Unattached, TypeOK
  <1>8. ASSUME NEW p \in Procs, Notified(p) PROVE Unattached'
    BY <1>8 DEF Notified, Kill, Unwound, Released, Unattached, TypeOK
  <1>9. ASSUME NEW p \in Procs, Joined(p) PROVE Unattached'
    BY <1>9 DEF Joined, subjectVars, wireVars, Unattached, TypeOK
  <1>10. ASSUME NEW p \in Procs, Restarted(p) PROVE Unattached'
    BY <1>10, AfterLabels DEF Restarted, Return, Free, Released, Unattached, TypeOK
  <1>11. ASSUME NEW p \in Procs, RestartFails(p) PROVE Unattached'
    BY <1>11, AfterLabels DEF RestartFails, Return, Released, Unattached, TypeOK
  <1>12. ASSUME NEW g \in Sockets, CallbackNext(g) PROVE Unattached'
    BY <1>12 DEF CallbackNext, wireVars, Enter, Locks, Queues, MayEnter,
       Unattached, TypeOK
  <1>13. ASSUME NEW g \in Sockets, Connected(g) PROVE Unattached'
    BY <1>13 DEF Connected, subjectVars, Unattached, TypeOK
  <1>14. ASSUME NEW g \in Sockets, ConnectFails(g) PROVE Unattached'
    BY <1>14 DEF ConnectFails, OnSocketError, OnClose, WithoutOnClose, Completes,
       Enter, Locks, Queues, MayEnter, Unattached, TypeOK
  <1>15. ASSUME NEW g \in Sockets, LinkLost(g) PROVE Unattached'
    BY <1>15 DEF LinkLost, OnSocketError, OnClose, WithoutOnClose, Completes,
       Enter, Locks, Queues, MayEnter, Unattached, TypeOK
  <1>16. ASSUME NEW g \in Sockets, Teardown(g) PROVE Unattached'
    BY <1>16 DEF Teardown, OnClose, WithoutOnClose, Completes,
       Enter, Locks, Queues, MayEnter, Unattached, TypeOK
  <1>17. ASSUME NEW g \in Sockets, Break(g) PROVE Unattached'
    BY <1>17 DEF Break, subjectVars, callVars, Unattached, TypeOK
  <1>18. ASSUME NEW q \in Pingers, Ping(q) PROVE Unattached'
    BY <1>18 DEF Ping, Job, subjectVars, wireVars, Procs, Unattached, TypeOK
  <1>19. CASE UNCHANGED vars
    BY <1>19 DEF vars, subjectVars, callVars, wireVars, Unattached
  <1>20. QED
    BY <1>1, <1>2, <1>3, <1>4, <1>5, <1>6, <1>7, <1>8, <1>9, <1>10, <1>11, <1>12,
       <1>13, <1>14, <1>15, <1>16, <1>17, <1>18, <1>19
       DEF Next, CallStep, SocketStep

LEMMA StepOneSend ==
  TypeOK /\ OneSend /\ [Next]_vars => OneSend'
  <1> SUFFICES ASSUME TypeOK, OneSend, [Next]_vars PROVE OneSend'
    OBVIOUS
  <1>1. ASSUME NEW u \in Producers, BeginSend(u) PROVE OneSend'
    BY <1>1, SubjectAssumption DEF BeginSend, AttachedEarly, wireVars,
       Procs, OneSend, TypeOK
  <1>2. ASSUME NEW u \in Producers, SendSubject(u) PROVE OneSend'
    BY <1>2 DEF SendSubject, wireVars, Enter, Locks, Queues, Procs, OneSend,
       TypeOK
  <1>3. ASSUME NEW u \in Producers, SendFails(u) PROVE OneSend'
    BY <1>3 DEF SendFails, subjectVars, wireVars, Procs, OneSend, TypeOK
  <1>4. ASSUME NEW u \in Producers, Message(u) PROVE OneSend'
    BY <1>4 DEF Message, wireVars, Enter, Locks, Queues, Procs, OneSend, TypeOK
  <1>5. ASSUME NEW p \in Procs, Acquire(p) PROVE OneSend'
    BY <1>5 DEF Acquire, Locks, wireVars, OneSend, TypeOK
  <1>6. ASSUME NEW p \in Procs, WriteOk(p) PROVE OneSend'
    BY <1>6, AfterLabels DEF WriteOk, Return, OneSend, TypeOK
  <1>7. ASSUME NEW p \in Procs, WriteFails(p) PROVE OneSend'
    BY <1>7 DEF WriteFails, Kill, Unwound, OneSend, TypeOK
  <1>8. ASSUME NEW p \in Procs, Notified(p) PROVE OneSend'
    BY <1>8 DEF Notified, Kill, Unwound, OneSend, TypeOK
  <1>9. ASSUME NEW p \in Procs, Joined(p) PROVE OneSend'
    BY <1>9 DEF Joined, subjectVars, wireVars, OneSend, TypeOK
  <1>10. ASSUME NEW p \in Procs, Restarted(p) PROVE OneSend'
    <2>1. After(p) # "token"
      BY AfterLabels
    <2>2. QED
      BY <1>10, <2>1 DEF Restarted, Free, OneSend, TypeOK
  <1>11. ASSUME NEW p \in Procs, RestartFails(p) PROVE OneSend'
    BY <1>11, AfterLabels DEF RestartFails, Return, OneSend, TypeOK
  <1>12. ASSUME NEW g \in Sockets, CallbackNext(g) PROVE OneSend'
    BY <1>12 DEF CallbackNext, wireVars, Enter, Locks, Queues, Procs,
       OneSend, TypeOK
  <1>13. ASSUME NEW g \in Sockets, Connected(g) PROVE OneSend'
    BY <1>13 DEF Connected, subjectVars, Procs, OneSend, TypeOK
  <1>14. ASSUME NEW g \in Sockets, ConnectFails(g) PROVE OneSend'
    BY <1>14 DEF ConnectFails, OnSocketError, OnClose, WithoutOnClose,
       Enter, Locks, Queues, Procs, OneSend, TypeOK
  <1>15. ASSUME NEW g \in Sockets, LinkLost(g) PROVE OneSend'
    BY <1>15 DEF LinkLost, OnSocketError, OnClose, WithoutOnClose,
       Enter, Locks, Queues, Procs, OneSend, TypeOK
  <1>16. ASSUME NEW g \in Sockets, Teardown(g) PROVE OneSend'
    BY <1>16 DEF Teardown, OnClose, WithoutOnClose,
       Enter, Locks, Queues, Procs, OneSend, TypeOK
  <1>17. ASSUME NEW g \in Sockets, Break(g) PROVE OneSend'
    BY <1>17 DEF Break, subjectVars, callVars, OneSend, TypeOK
  <1>18. ASSUME NEW q \in Pingers, Ping(q) PROVE OneSend'
    BY <1>18 DEF Ping, Job, subjectVars, wireVars, Procs, OneSend, TypeOK
  <1>19. CASE UNCHANGED vars
    BY <1>19 DEF vars, subjectVars, callVars, wireVars, OneSend
  <1>20. QED
    BY <1>1, <1>2, <1>3, <1>4, <1>5, <1>6, <1>7, <1>8, <1>9, <1>10, <1>11, <1>12,
       <1>13, <1>14, <1>15, <1>16, <1>17, <1>18, <1>19
       DEF Next, CallStep, SocketStep
-----------------------------------------------------------------------------
\* What a kill leaves of the greenlets.
LEMMA KillEffect ==
  ASSUME TypeOK, NEW p \in Procs, Kill(p)
  PROVE  /\ ws \in Sockets /\ ws \in Procs
         /\ pc'[ws] \in {"dead", "teardown"}
         /\ \A q \in Procs \ {ws} :
              pc'[q] = (IF q = p THEN "join" ELSE pc[q]) /\ job'[q] = job[q]
         /\ \A q \in Procs \ {p, ws} : sock'[q] = sock[q]
         /\ lock' = IF lock = ws THEN None ELSE lock
  <1>1. ws \in Sockets /\ ws \in Procs /\ Unwound(ws) \in {"dead", "teardown"}
    BY DEF Unwound, TypeOK, Procs
  <1>2. pc \in [Procs -> CallerLabels \cup SocketLabels] /\ job \in [Procs -> Jobs]
    BY DEF TypeOK
  <1>3. sock \in [Procs -> Sockets \cup {None}]
    BY DEF TypeOK
  <1>4. QED
    BY <1>1, <1>2, <1>3 DEF Kill, Released

\* What a start that makes a socket changes.
LEMMA RestartEffect ==
  ASSUME TypeOK, NEW p \in Procs, Restarted(p), state # "connected"
  PROVE  \E g \in Sockets :
           /\ g \in Procs /\ g # p /\ pc[g] = "dead" /\ ws' = g
           /\ \A q \in Procs : sock[q] # g
           /\ pc' = [pc EXCEPT ![p] = After(p), ![g] = "dialing"]
           /\ link' = [link EXCEPT ![g] = "new"]
           /\ inbox' = [inbox EXCEPT ![g] = <<>>]
           /\ ending' = [ending EXCEPT ![g] = "none"]
  BY DEF Restarted, Free, Procs

LEMMA EnterStartAlone ==
  ASSUME TypeOK, StartAlone, NEW p \in Procs, NEW kind \in StreamKinds,
         Enter(p, kind), inbox' = inbox
  PROVE  StartAlone'
  <1>1. CASE Locks(p, kind)
    BY <1>1 DEF Locks, StartAlone, StreamKinds, TypeOK
  <1>2. CASE Queues(p, kind)
    BY <1>2 DEF Queues, StartAlone, StreamKinds, Job, TypeOK
  <1>3. QED
    BY <1>1, <1>2 DEF Enter

LEMMA EndStartAlone ==
  ASSUME TypeOK, StartAlone, NEW g \in Sockets, NEW phase, NEW label \in {"teardown", "dead"},
         OnClose(g, phase) \/ WithoutOnClose(g, label), inbox' = inbox
  PROVE  StartAlone'
  <1>1. g \in Procs /\ "completion" \in StreamKinds
    BY DEF StreamKinds, Procs
  <1>2. CASE OnClose(g, phase)
    BY <1>1, <1>2, EnterStartAlone DEF OnClose
  <1>3. CASE WithoutOnClose(g, label)
    BY <1>3 DEF WithoutOnClose, StartAlone
  <1>4. QED
    BY <1>2, <1>3

\* The start message is taken up while no hub has got anything.
LEMMA StepStartAlone ==
  TypeOK /\ OneHolder /\ Unattached /\ OneSend /\ Waiters /\ StartAlone /\ [Next]_vars => StartAlone'
  <1> SUFFICES ASSUME TypeOK, OneHolder, Unattached, OneSend, Waiters, StartAlone, [Next]_vars PROVE StartAlone'
    OBVIOUS
  <1>1. ASSUME NEW u \in Producers, BeginSend(u) PROVE StartAlone'
    BY <1>1 DEF BeginSend, AttachedEarly, wireVars, StartAlone, TypeOK
  <1>2. ASSUME NEW u \in Producers, SendSubject(u) PROVE StartAlone'
    BY <1>2 DEF SendSubject, wireVars, Enter, Locks, Queues, OneSend,
       Unattached, Procs, StartAlone, TypeOK
  <1>3. ASSUME NEW u \in Producers, SendFails(u) PROVE StartAlone'
    BY <1>3 DEF SendFails, subjectVars, wireVars, StartAlone, TypeOK
  <1>4. ASSUME NEW u \in Producers, Message(u) PROVE StartAlone'
    <2>1. u \in Procs /\ \E kind \in StreamKinds : Enter(u, kind)
      BY <1>4 DEF Message, StreamKinds, Procs
    <2>2. QED
      BY <1>4, <2>1, EnterStartAlone DEF Message
  <1>5. ASSUME NEW p \in Procs, Acquire(p) PROVE StartAlone'
    BY <1>5 DEF Acquire, Locks, wireVars, Waiters, StreamKinds, StartAlone,
       TypeOK
  <1>6. ASSUME NEW p \in Procs, WriteOk(p) PROVE StartAlone'
    BY <1>6, SubjectAssumption, AfterLabels DEF WriteOk, Return, Released,
       OneHolder, Holds, StartAlone, TypeOK
  <1>7. ASSUME NEW p \in Procs, WriteFails(p) PROVE StartAlone'
    BY <1>7, SubjectAssumption DEF WriteFails, Kill, Unwound, Released,
       StartAlone, TypeOK
  <1>8. ASSUME NEW p \in Procs, Notified(p) PROVE StartAlone'
    BY <1>8, SubjectAssumption DEF Notified, Kill, Unwound, Released,
       StartAlone, TypeOK
  <1>9. ASSUME NEW p \in Procs, Joined(p) PROVE StartAlone'
    BY <1>9 DEF Joined, subjectVars, wireVars, StartAlone, TypeOK
  <1>10. ASSUME NEW p \in Procs, Restarted(p) PROVE StartAlone'
    BY <1>10, SubjectAssumption, AfterLabels DEF Restarted, Return, Free,
       Released, StartAlone, TypeOK
  <1>11. ASSUME NEW p \in Procs, RestartFails(p) PROVE StartAlone'
    BY <1>11, SubjectAssumption, AfterLabels DEF RestartFails, Return, Released,
       StartAlone, TypeOK
  <1>12. ASSUME NEW g \in Sockets, CallbackNext(g) PROVE StartAlone'
    <2>1. g \in Procs /\ Enter(g, "item") /\ "item" \in StreamKinds
      BY <1>12 DEF CallbackNext, StreamKinds, Procs
    <2>2. QED
      BY <1>12, <2>1, EnterStartAlone DEF CallbackNext
  <1>13. ASSUME NEW g \in Sockets, Connected(g) PROVE StartAlone'
    BY <1>13 DEF Connected, subjectVars, StartAlone, TypeOK
  <1>14. ASSUME NEW g \in Sockets, ConnectFails(g) PROVE StartAlone'
    BY <1>14, EndStartAlone DEF ConnectFails, OnSocketError
  <1>15. ASSUME NEW g \in Sockets, LinkLost(g) PROVE StartAlone'
    BY <1>15, EndStartAlone DEF LinkLost, OnSocketError
  <1>16. ASSUME NEW g \in Sockets, Teardown(g) PROVE StartAlone'
    BY <1>16, EndStartAlone DEF Teardown
  <1>17. ASSUME NEW g \in Sockets, Break(g) PROVE StartAlone'
    BY <1>17 DEF Break, subjectVars, callVars, StartAlone, TypeOK
  <1>18. ASSUME NEW q \in Pingers, Ping(q) PROVE StartAlone'
    BY <1>18 DEF Ping, Job, subjectVars, wireVars, Procs, StartAlone, TypeOK
  <1>19. CASE UNCHANGED vars
    BY <1>19 DEF vars, subjectVars, callVars, wireVars, StartAlone
  <1>20. QED
    BY <1>1, <1>2, <1>3, <1>4, <1>5, <1>6, <1>7, <1>8, <1>9, <1>10, <1>11, <1>12,
       <1>13, <1>14, <1>15, <1>16, <1>17, <1>18, <1>19
       DEF Next, CallStep, SocketStep

LEMMA StepDialing ==
  TypeOK /\ Dialing /\ [Next]_vars => Dialing'
  <1> SUFFICES ASSUME TypeOK, Dialing, [Next]_vars PROVE Dialing'
    OBVIOUS
  <1>1. ASSUME NEW u \in Producers, BeginSend(u) PROVE Dialing'
    BY <1>1, SubjectAssumption DEF BeginSend, AttachedEarly, wireVars,
       Procs, Dialing, TypeOK
  <1>2. ASSUME NEW u \in Producers, SendSubject(u) PROVE Dialing'
    BY <1>2 DEF SendSubject, wireVars, Enter, Locks, Queues, Procs, Dialing,
       TypeOK
  <1>3. ASSUME NEW u \in Producers, SendFails(u) PROVE Dialing'
    BY <1>3, SubjectAssumption DEF SendFails, subjectVars, wireVars, Procs,
       Dialing, TypeOK
  <1>4. ASSUME NEW u \in Producers, Message(u) PROVE Dialing'
    BY <1>4 DEF Message, wireVars, Enter, Locks, Queues, Procs, Dialing, TypeOK
  <1>5. ASSUME NEW p \in Procs, Acquire(p) PROVE Dialing'
    BY <1>5 DEF Acquire, Locks, wireVars, Dialing, TypeOK
  <1>6. ASSUME NEW p \in Procs, WriteOk(p) PROVE Dialing'
    <2>1. After(p) # "dialing"
      BY AfterLabels
    <2>2. QED
      BY <1>6, <2>1 DEF WriteOk, Dialing, TypeOK
  <1>7. ASSUME NEW p \in Procs, WriteFails(p) PROVE Dialing'
    <2>1. CASE Kill(p)
      BY <1>7, <2>1, KillEffect DEF WriteFails, Dialing, Procs
    <2>2. CASE pc' = [pc EXCEPT ![p] = "notify"]
      BY <1>7, <2>2 DEF WriteFails, Dialing, TypeOK
    <2>3. QED
      BY <1>7, <2>1, <2>2 DEF WriteFails
  <1>8. ASSUME NEW p \in Procs, Notified(p) PROVE Dialing'
    <2>1. \A g \in Sockets \ {ws} : link'[g] = link[g]
      BY <1>8 DEF Notified, TypeOK
    <2>2. QED
      BY <1>8, <2>1, KillEffect DEF Notified, Dialing, Procs
  <1>9. ASSUME NEW p \in Procs, Joined(p) PROVE Dialing'
    BY <1>9 DEF Joined, subjectVars, wireVars, Dialing, TypeOK
  <1>10. ASSUME NEW p \in Procs, Restarted(p) PROVE Dialing'
    <2>1. After(p) # "dialing" /\ pc[p] = "restart"
      BY <1>10, AfterLabels DEF Restarted
    <2>2. CASE state = "connected"
      BY <1>10, <2>1, <2>2 DEF Restarted, Dialing, TypeOK, Procs
    <2>3. CASE state # "connected"
      <3>1. PICK g \in Sockets :
              /\ g \in Procs
              /\ pc' = [pc EXCEPT ![p] = After(p), ![g] = "dialing"]
              /\ link' = [link EXCEPT ![g] = "new"]
              /\ inbox' = [inbox EXCEPT ![g] = <<>>]
        BY <1>10, <2>3, RestartEffect
      <3>2. inbox'[g] = <<>> /\ link'[g] = "new"
        BY <3>1 DEF TypeOK
      <3>3. \A h \in Sockets \ {g} :
              inbox'[h] = inbox[h] /\ link'[h] = link[h] /\ (pc'[h] = "dialing" => pc[h] = "dialing")
        BY <2>1, <3>1 DEF TypeOK, Procs
      <3>4. QED
        BY <3>2, <3>3 DEF Dialing
    <2>4. QED
      BY <2>2, <2>3
  <1>11. ASSUME NEW p \in Procs, RestartFails(p) PROVE Dialing'
    <2>1. After(p) # "dialing"
      BY AfterLabels
    <2>2. QED
      BY <1>11, <2>1 DEF RestartFails, Dialing, TypeOK
  <1>12. ASSUME NEW g \in Sockets, CallbackNext(g) PROVE Dialing'
    BY <1>12 DEF CallbackNext, wireVars, Enter, Locks, Queues, Procs,
       Dialing, TypeOK
  <1>13. ASSUME NEW g \in Sockets, Connected(g) PROVE Dialing'
    BY <1>13 DEF Connected, subjectVars, Procs, Dialing, TypeOK
  <1>14. ASSUME NEW g \in Sockets, ConnectFails(g) PROVE Dialing'
    BY <1>14 DEF ConnectFails, OnSocketError, OnClose, WithoutOnClose,
       Enter, Locks, Queues, Procs, Dialing, TypeOK
  <1>15. ASSUME NEW g \in Sockets, LinkLost(g) PROVE Dialing'
    BY <1>15 DEF LinkLost, OnSocketError, OnClose, WithoutOnClose,
       Enter, Locks, Queues, Procs, Dialing, TypeOK
  <1>16. ASSUME NEW g \in Sockets, Teardown(g) PROVE Dialing'
    BY <1>16 DEF Teardown, OnClose, WithoutOnClose,
       Enter, Locks, Queues, Procs, Dialing, TypeOK
  <1>17. ASSUME NEW g \in Sockets, Break(g) PROVE Dialing'
    BY <1>17 DEF Break, subjectVars, callVars, Dialing, TypeOK
  <1>18. ASSUME NEW q \in Pingers, Ping(q) PROVE Dialing'
    BY <1>18, SubjectAssumption DEF Ping, Job, subjectVars, wireVars, Procs,
       Dialing, TypeOK
  <1>19. CASE UNCHANGED vars
    BY <1>19 DEF vars, subjectVars, callVars, wireVars, Dialing
  <1>20. QED
    BY <1>1, <1>2, <1>3, <1>4, <1>5, <1>6, <1>7, <1>8, <1>9, <1>10, <1>11, <1>12,
       <1>13, <1>14, <1>15, <1>16, <1>17, <1>18, <1>19
       DEF Next, CallStep, SocketStep
-----------------------------------------------------------------------------
LEMMA WriteEffect ==
  ASSUME TypeOK, OneHolder, NEW p \in Procs, WriteOk(p), inbox' # inbox
  PROVE  /\ lock = p /\ lock' = None
         /\ sock[p] \in Sockets /\ link[sock[p]] = "up"
         /\ inbox[sock[p]] \in Seq(Jobs) /\ job[p] \in Jobs
         /\ inbox' = [inbox EXCEPT ![sock[p]] = Append(@, job[p])]
  <1>1. /\ pc[p] = "write" /\ job[p].kind # "ping" /\ link[sock[p]] = "up"
        /\ inbox' = [inbox EXCEPT ![sock[p]] = Append(@, job[p])]
    BY DEF WriteOk
  <1>2. lock = p
    BY <1>1 DEF OneHolder, Holds
  <1>3. sock[p] \in Sockets
    BY <1>1 DEF TypeOK
  <1>4. QED
    BY <1>1, <1>2, <1>3 DEF WriteOk, Return, Released, TypeOK

LEMMA StepStartFirst ==
  TypeOK /\ OneHolder /\ StartAlone /\ StartFirst /\ [Next]_vars => StartFirst'
  <1> SUFFICES ASSUME TypeOK, OneHolder, StartAlone, StartFirst, [Next]_vars
               PROVE  StartFirst'
    OBVIOUS
  <1>1. ASSUME NEW p \in Procs, WriteOk(p) PROVE StartFirst'
    <2>1. CASE inbox' = inbox
      BY <2>1 DEF StartFirst
    <2>2. CASE inbox' # inbox
      <3>1. /\ lock = p /\ sock[p] \in Sockets
            /\ inbox[sock[p]] \in Seq(Jobs) /\ job[p] \in Jobs
            /\ inbox' = [inbox EXCEPT ![sock[p]] = Append(@, job[p])]
        BY <1>1, <2>2, WriteEffect
      <3>2. job[p].kind = "start" => Len(inbox[sock[p]]) = 0
        BY <3>1 DEF StartAlone
      <3>3. inbox'[sock[p]] = Append(inbox[sock[p]], job[p])
        BY <3>1 DEF TypeOK
      <3>4. \A i \in DOMAIN inbox'[sock[p]] : inbox'[sock[p]][i].kind = "start" => i = 1
        BY <3>1, <3>2, <3>3 DEF StartFirst
      <3>5. \A g \in Sockets \ {sock[p]} : inbox'[g] = inbox[g]
        BY <3>1 DEF TypeOK
      <3>6. QED
        BY <3>4, <3>5 DEF StartFirst
    <2>3. QED
      BY <2>1, <2>2
  <1>2. ASSUME NEW p \in Procs, Restarted(p) PROVE StartFirst'
    <2>1. CASE state = "connected"
      BY <1>2, <2>1 DEF Restarted, StartFirst
    <2>2. CASE state # "connected"
      <3>1. PICK g \in Sockets : inbox' = [inbox EXCEPT ![g] = <<>>]
        BY <1>2, <2>2, RestartEffect
      <3>2. inbox'[g] = <<>> /\ \A h \in Sockets \ {g} : inbox'[h] = inbox[h]
        BY <3>1 DEF TypeOK
      <3>3. QED
        BY <3>2 DEF StartFirst
    <2>3. QED
      BY <2>1, <2>2
  <1>3. CASE inbox' = inbox
    BY <1>3 DEF StartFirst
  <1>4. QED
    BY <1>1, <1>2, <1>3
       DEF Next, CallStep, SocketStep, vars, subjectVars, callVars, wireVars,
           BeginSend, SendSubject, SendFails, Message, Acquire, WriteFails, Notified,
           Joined, RestartFails, CallbackNext, Connected, ConnectFails, LinkLost,
           OnSocketError, Teardown, Break, Ping
-----------------------------------------------------------------------------
\* A step of p that leaves the semaphore and what was sent alone, makes no
\* socket carry on, and does not end a write of the holder.
LEMMA Stays ==
  ASSUME TypeOK, Numbers, Gapless, NEW p \in Procs,
         UNCHANGED <<lock, issued, ws, inbox>>,
         \A q \in Procs \ {p} : pc'[q] = pc[q] /\ sock'[q] = sock[q] /\ job'[q] = job[q],
         \/ lock # p
         \/ job'[p] = job[p] /\ pc[p] # "write" /\ pc'[p] # "write"
         \/ UNCHANGED callVars,
         pc[p] \in {"dead", "teardown"} => pc'[p] \in {"dead", "teardown"} \/ ending'[p] # "none",
         \A g \in Sockets : ending'[g] = "none" => ending[g] = "none",
         \A g \in Sockets : link'[g] = "up" => link[g] = "up" \/ inbox[g] = <<>>
  PROVE  Numbers' /\ Gapless'
  <1>1. \A g \in Sockets : Living(g)' => Living(g)
    BY DEF Living, Procs, TypeOK
  <1>2. \A g \in Sockets : Carries(g)' => Carries(g)
    BY <1>1 DEF Carries
  <1>3. \A q \in Procs : pc[q] = "write" => sock[q] \in Sockets
    BY DEF TypeOK
  <1>4. ws \in Sockets
    BY DEF TypeOK
  <1>5. Gapless'
    BY <1>1 DEF Gapless
  <1>6. Numbers'
    BY <1>2, <1>3, <1>4 DEF Numbers, LastNumber, callVars
  <1>7. QED
    BY <1>5, <1>6

\* A message follows the ones before: its number is the next.
LEMMA LocksNumbers ==
  ASSUME TypeOK, Unattached, Numbers, Gapless, NEW p \in Procs,
         NEW kind, Locks(p, kind), UNCHANGED <<ws, inbox>>,
         kind = "start" => ~attached,
         pc[p] \in {"dead", "teardown"} => ending'[p] # "none",
         \A g \in Sockets : ending'[g] = "none" => ending[g] = "none",
         \A g \in Sockets : link'[g] = "up" => link[g] = "up"
  PROVE  Numbers' /\ Gapless'
  <1>1. \A g \in Sockets : Living(g)' => Living(g)
    BY DEF Locks, Living, Procs, TypeOK
  <1>2. \A g \in Sockets : Carries(g)' => Carries(g)
    BY <1>1 DEF Carries
  <1>3. /\ lock = None /\ lock' = p /\ p # None /\ ws \in Sockets
        /\ pc'[p] = "write" /\ sock'[p] = ws /\ job'[p].n = issued'
    BY SubjectAssumption DEF Locks, MayEnter, TypeOK
  <1>4. Carries(ws)' => LastNumber(ws) + 1 = issued'
    <2>1. CASE kind = "start"
      BY <1>2, <1>3, <2>1 DEF Unattached, Carries
    <2>2. CASE kind # "start"
      BY <1>2, <1>3, <2>2 DEF Locks, Numbers
    <2>3. QED
      BY <2>1, <2>2
  <1>5. Gapless'
    BY <1>1 DEF Gapless
  <1>6. Numbers'
    BY <1>3, <1>4 DEF Numbers, LastNumber
  <1>7. QED
    BY <1>5, <1>6

LEMMA EnterNumbers ==
  ASSUME TypeOK, OneHolder, Unattached, Numbers, Gapless, NEW p \in Procs,
         NEW kind, Enter(p, kind), UNCHANGED <<ws, inbox>>, pc[p] \notin Sending,
         kind = "start" => ~attached,
         pc[p] \in {"dead", "teardown"} => ending'[p] # "none",
         \A g \in Sockets : ending'[g] = "none" => ending[g] = "none",
         \A g \in Sockets : link'[g] = "up" => link[g] = "up"
  PROVE  Numbers' /\ Gapless'
  <1>1. CASE Locks(p, kind)
    BY <1>1, LocksNumbers
  <1>2. CASE Queues(p, kind)
    <2>1. lock # p
      BY DEF OneHolder, Holds, Sending
    <2>2. \A q \in Procs \ {p} : pc'[q] = pc[q] /\ sock'[q] = sock[q] /\ job'[q] = job[q]
      BY <1>2 DEF Queues, TypeOK
    <2>3. QED
      BY <1>2, <2>1, <2>2, Stays DEF Queues
  <1>3. QED
    BY <1>1, <1>2 DEF Enter

\* The end of a socket greenlet: what its on_close callback sends follows the
\* messages before.
LEMMA EndNumbers ==
  ASSUME TypeOK, OneHolder, Unattached, Numbers, Gapless, NEW g \in Sockets,
         NEW phase \in {"error", "close"}, NEW label \in {"teardown", "dead"},
         OnClose(g, phase) \/ WithoutOnClose(g, label),
         pc[g] \notin Sending, UNCHANGED <<ws, inbox>>,
         \A h \in Sockets : link'[h] = "up" => link[h] = "up"
  PROVE  Numbers' /\ Gapless'
  <1>1. g \in Procs
    BY DEF Procs
  <1>2. CASE OnClose(g, phase)
    <2>1. /\ ending'[g] # "none"
          /\ \A h \in Sockets : ending'[h] = "none" => ending[h] = "none"
      BY <1>2 DEF OnClose, TypeOK
    <2>2. QED
      BY <1>1, <1>2, <2>1, EnterNumbers DEF OnClose
  <1>3. CASE WithoutOnClose(g, label)
    <2>1. /\ pc'[g] \in {"teardown", "dead"} /\ lock # g
          /\ \A q \in Procs \ {g} : pc'[q] = pc[q]
      BY <1>1, <1>3 DEF WithoutOnClose, OneHolder, Holds, Sending, TypeOK
    <2>2. QED
      BY <1>1, <1>3, <2>1, Stays DEF WithoutOnClose
  <1>4. QED
    BY <1>2, <1>3

\* The socket that is killed carries nothing from then on, and it is the one
\* that the next message would have gone to.
LEMMA KillNumbers ==
  ASSUME TypeOK, OneHolder, Numbers, Gapless, NEW p \in Procs, Kill(p),
         UNCHANGED <<issued, ws, inbox, ending>>, pc[p] \in {"write", "notify"},
         \A g \in Sockets : link'[g] = "up" => link[g] = "up"
  PROVE  Numbers' /\ Gapless'
  <1>1. /\ ws \in Sockets /\ ws \in Procs /\ pc'[ws] \in {"dead", "teardown"}
        /\ \A q \in Procs \ {ws} :
             pc'[q] = (IF q = p THEN "join" ELSE pc[q]) /\ job'[q] = job[q]
        /\ \A q \in Procs \ {p, ws} : sock'[q] = sock[q]
        /\ lock' = IF lock = ws THEN None ELSE lock
    BY KillEffect
  <1>2. \A g \in Sockets : Living(g)' => Living(g) /\ g # ws
    BY <1>1 DEF Living, Procs
  <1>3. \A g \in Sockets : Carries(g)' => Carries(g) /\ g # ws
    BY <1>2 DEF Carries
  <1>4. Gapless'
    BY <1>2 DEF Gapless
  <1>5. \A q \in Procs : pc[q] = "write" => sock[q] \in Sockets
    BY DEF TypeOK
  <1>6. ~Carries(ws)'
    BY <1>1, <1>3
  <1>7. ASSUME NEW q \in Procs, lock' = q
        PROVE  /\ job'[q].n = issued
               /\ pc'[q] = "write" =>
                    (Carries(sock[q])' => LastNumber(sock[q])' + 1 = issued)
    <2>1. lock = q /\ q # ws
      BY <1>1, <1>7, SubjectAssumption
    <2>2. job'[q] = job[q] /\ (pc'[q] = "write" => pc[q] = "write" /\ sock'[q] = sock[q])
      BY <1>1, <2>1
    <2>3. pc[q] = "write" /\ Carries(sock[q]) => LastNumber(sock[q]) + 1 = issued
      BY <2>1 DEF Numbers
    <2>4. ASSUME pc'[q] = "write", Carries(sock[q])'
          PROVE  LastNumber(sock[q])' + 1 = issued
      <3>1. sock[q] \in Sockets /\ Carries(sock[q])
        BY <1>3, <1>5, <2>2, <2>4
      <3>2. QED
        BY <2>2, <2>3, <2>4, <3>1 DEF LastNumber
    <2>5. QED
      BY <2>1, <2>2, <2>4 DEF Numbers
  <1>8. Numbers'
    BY <1>6, <1>7 DEF Numbers
  <1>9. QED
    BY <1>4, <1>8

\* What the holder has written is the last message of the stream so far.
LEMMA WriteNumbers ==
  ASSUME TypeOK, OneHolder, Numbers, Gapless, NEW p \in Procs, WriteOk(p)
  PROVE  Numbers' /\ Gapless'
  <1>1. /\ pc[p] = "write" /\ sock[p] \in Sockets /\ ws \in Sockets
        /\ pc' = [pc EXCEPT ![p] = After(p)] /\ After(p) # "write"
        /\ UNCHANGED <<issued, ending, ws, link>>
    BY AfterLabels DEF WriteOk, TypeOK
  <1>2. \A g \in Sockets : Living(g)' => Living(g)
    <2> SUFFICES ASSUME NEW g \in Sockets, Living(g)' PROVE Living(g)
      OBVIOUS
    <2>1. CASE g = p
      BY <1>1, <2>1 DEF Living
    <2>2. CASE g # p
      BY <1>1, <2>2 DEF Living, TypeOK, Procs
    <2>3. QED
      BY <2>1, <2>2
  <1>3. CASE lock # p
    <2>1. inbox' = inbox /\ lock' = lock
      BY <1>3, WriteEffect DEF WriteOk, Return, Released
    <2>2. \A q \in Procs \ {p} : pc'[q] = pc[q] /\ sock'[q] = sock[q] /\ job'[q] = job[q]
      BY DEF WriteOk, Return, TypeOK
    <2>3. QED
      BY <1>1, <1>3, <2>1, <2>2, Stays
  <1>4. CASE lock = p /\ inbox' = inbox
    <2>1. lock' = None /\ ~Carries(sock[p])
      <3>1. lock' = None
        BY <1>4 DEF WriteOk, Return, Released
      <3>2. job[p].kind # "ping"
        BY <1>4 DEF OneHolder, Holds
      <3>3. ASSUME link[sock[p]] = "up" PROVE FALSE
        <4>1. inbox'[sock[p]] = Append(inbox[sock[p]], job[p])
          BY <1>1, <3>2, <3>3 DEF WriteOk, TypeOK
        <4>2. inbox[sock[p]] \in Seq(Jobs) /\ job[p] \in Jobs
          BY <1>1 DEF TypeOK
        <4>3. Len(inbox'[sock[p]]) = Len(inbox[sock[p]]) + 1
          BY <4>1, <4>2
        <4>4. QED
          BY <1>4, <4>2, <4>3
      <3>4. QED
        BY <3>1, <3>3 DEF Carries
    <2>2. ~Carries(ws)
      BY <1>1, <1>4, <2>1 DEF Numbers
    <2>3. ~Carries(ws)'
      BY <1>1, <1>2, <1>4, <2>2 DEF Carries
    <2>4. Gapless'
      BY <1>2, <1>4 DEF Gapless
    <2>5. QED
      BY <2>1, <2>3, <2>4, SubjectAssumption DEF Numbers
  <1>5. CASE lock = p /\ inbox' # inbox
    <2>1. PICK g \in Sockets :
            /\ g = sock[p] /\ lock' = None /\ link[g] = "up"
            /\ inbox[g] \in Seq(Jobs) /\ job[p] \in Jobs
            /\ inbox' = [inbox EXCEPT ![g] = Append(@, job[p])]
      BY <1>5, WriteEffect
    <2>2. /\ inbox'[g] = Append(inbox[g], job[p])
          /\ \A h \in Sockets \ {g} : inbox'[h] = inbox[h]
      BY <2>1 DEF TypeOK
    <2>3. LastNumber(g)' = issued /\ job[p].n = issued
      <3>1. job[p].n = issued
        BY <1>5 DEF Numbers
      <3>2. Len(inbox'[g]) = Len(inbox[g]) + 1 /\ inbox'[g][Len(inbox[g]) + 1] = job[p]
        BY <2>1, <2>2
      <3>3. QED
        BY <2>1, <3>1, <3>2 DEF LastNumber
    <2>4. g # ws => ~Carries(ws)'
      BY <1>1, <1>2, <1>5, <2>1, <2>2 DEF Carries, Numbers
    <2>5. Numbers'
      BY <1>1, <2>1, <2>3, <2>4, SubjectAssumption DEF Numbers
    <2>6. ASSUME NEW h \in Sockets, Living(h)', NEW i \in 2..Len(inbox'[h])
          PROVE  inbox'[h][i].n = inbox'[h][i - 1].n + 1
      <3>1. Living(h)
        BY <1>2, <2>6
      <3>2. CASE h # g
        BY <2>2, <2>6, <3>1, <3>2 DEF Gapless
      <3>3. CASE h = g /\ i \in 2..Len(inbox[g])
        <4>1. inbox'[g][i] = inbox[g][i] /\ inbox'[g][i - 1] = inbox[g][i - 1]
          BY <2>1, <2>2, <3>3
        <4>2. QED
          BY <3>1, <3>3, <4>1 DEF Gapless
      <3>4. CASE h = g /\ i = Len(inbox[g]) + 1
        <4>1. inbox[g] # <<>> /\ Len(inbox[g]) \in Nat /\ i - 1 = Len(inbox[g])
              /\ Len(inbox[g]) >= 1
          BY <2>1, <2>6, <3>4
        <4>2. LastNumber(g) + 1 = issued
          BY <1>1, <1>5, <2>1, <3>1, <3>4, <4>1 DEF Numbers, Carries
        <4>3. inbox'[g][i] = job[p] /\ inbox'[g][i - 1] = inbox[g][Len(inbox[g])]
          BY <2>1, <2>2, <3>4, <4>1
        <4>4. QED
          BY <2>3, <3>4, <4>2, <4>3 DEF LastNumber
      <3>5. QED
        BY <2>1, <2>2, <2>6, <3>2, <3>3, <3>4
    <2>7. QED
      BY <2>5, <2>6 DEF Gapless
  <1>6. QED
    BY <1>3, <1>4, <1>5

\* A greenlet whose write failed: its socket carries nothing, nor does another
\* one that it does not know of.
LEMMA NotifyNumbers ==
  ASSUME TypeOK, Numbers, Gapless, NEW p \in Procs, WriteFails(p),
         pc' = [pc EXCEPT ![p] = "notify"], UNCHANGED <<lock, job, sock>>
  PROVE  Numbers' /\ Gapless'
  <1>1. /\ pc[p] = "write" /\ sock[p] \in Sockets /\ link[sock[p]] # "up"
        /\ UNCHANGED <<issued, ending, ws, link, inbox>> /\ ws \in Sockets
    BY DEF WriteFails, TypeOK
  <1>2. \A q \in Procs \ {p} : pc'[q] = pc[q]
    BY DEF TypeOK
  <1>3. CASE lock # p
    BY <1>1, <1>2, <1>3, Stays
  <1>4. CASE lock = p
    <2>1. pc'[p] = "notify"
      BY DEF TypeOK
    <2>2. \A g \in Sockets : Living(g)' => Living(g)
      BY <1>1, <1>2, <2>1 DEF Living, Procs
    <2>3. ~Carries(ws)
      BY <1>1, <1>4 DEF Numbers, Carries
    <2>4. ~Carries(ws)'
      BY <1>1, <2>2, <2>3 DEF Carries
    <2>5. Gapless'
      BY <1>1, <2>2 DEF Gapless
    <2>6. Numbers'
      BY <1>1, <1>4, <2>1, <2>4, SubjectAssumption DEF Numbers
    <2>7. QED
      BY <2>5, <2>6
  <1>5. QED
    BY <1>3, <1>4

\* A greenlet at the end of its reconnection, whether it has made a socket or
\* not: the message it was called with is lost between two connections.
LEMMA RestartNumbers ==
  ASSUME TypeOK, OneHolder, Numbers, Gapless, NEW p \in Procs,
         Restarted(p) \/ RestartFails(p)
  PROVE  Numbers' /\ Gapless'
  <1>1. /\ pc[p] = "restart" /\ After(p) # "write"
        /\ UNCHANGED issued /\ Return(p) /\ ws \in Sockets
    BY AfterLabels DEF Restarted, RestartFails, TypeOK
  <1>2. /\ lock' = IF lock = p THEN None ELSE lock
        /\ lock' # p
        /\ \A q \in Procs \ {p} : sock'[q] = sock[q] /\ job'[q] = job[q]
    BY <1>1, SubjectAssumption DEF Return, Released, TypeOK
  <1>3. lock = p => ~Carries(ws)
    BY <1>1 DEF Numbers
  <1>4. CASE pc' = [pc EXCEPT ![p] = After(p)] /\ UNCHANGED <<ws, link, inbox, ending>>
    <2>1. /\ pc'[p] = After(p)
          /\ \A q \in Procs \ {p} : pc'[q] = pc[q]
      BY <1>4 DEF TypeOK
    <2>2. \A g \in Sockets : Living(g)' => Living(g)
      BY <1>1, <1>4, <2>1 DEF Living, Procs
    <2>3. CASE lock # p
      BY <1>1, <1>2, <1>4, <2>1, <2>3, Stays
    <2>4. CASE lock = p
      <3>1. ~Carries(ws)'
        BY <1>3, <1>4, <2>2, <2>4, <1>1 DEF Carries
      <3>2. Gapless'
        BY <1>4, <2>2 DEF Gapless
      <3>3. Numbers'
        BY <1>2, <2>4, <3>1, SubjectAssumption DEF Numbers
      <3>4. QED
        BY <3>2, <3>3
    <2>5. QED
      BY <2>3, <2>4
  <1>5. CASE Restarted(p) /\ state # "connected"
    <2>1. PICK g \in Sockets :
            /\ g \in Procs /\ g # p /\ pc[g] = "dead" /\ ws' = g
            /\ \A q \in Procs : sock[q] # g
            /\ pc' = [pc EXCEPT ![p] = After(p), ![g] = "dialing"]
            /\ link' = [link EXCEPT ![g] = "new"]
            /\ inbox' = [inbox EXCEPT ![g] = <<>>]
            /\ ending' = [ending EXCEPT ![g] = "none"]
      BY <1>5, RestartEffect
    <2>2. /\ inbox'[g] = <<>> /\ pc'[p] = After(p)
          /\ \A h \in Sockets \ {g} : /\ inbox'[h] = inbox[h] /\ link'[h] = link[h]
                                      /\ ending'[h] = ending[h]
          /\ \A q \in Procs \ {p, g} : pc'[q] = pc[q]
      BY <2>1 DEF TypeOK
    <2>3. \A h \in Sockets \ {g} : Living(h)' => Living(h)
      BY <1>1, <2>2 DEF Living, Procs
    <2>4. ~Carries(g)' /\ \A h \in Sockets \ {g} : Carries(h)' => Carries(h)
      BY <2>2, <2>3 DEF Carries
    <2>5. Gapless'
      <3>1. Len(<<>>) = 0
        OBVIOUS
      <3>2. QED
        BY <2>2, <2>3, <3>1 DEF Gapless
    <2>6. ASSUME NEW q \in Procs, lock' = q
          PROVE  /\ job'[q].n = issued
                 /\ pc'[q] = "write" =>
                      (Carries(sock[q])' => LastNumber(sock[q])' + 1 = issued)
      <3>1. q # p /\ lock = q /\ q # g
        <4>1. q # p /\ lock = q
          BY <1>2, <2>6, SubjectAssumption
        <4>2. lock # g
          BY <2>1 DEF OneHolder, Holds
        <4>3. QED
          BY <4>1, <4>2
      <3>2. pc'[q] = pc[q] /\ sock'[q] = sock[q] /\ job'[q] = job[q] /\ sock[q] # g
        BY <1>2, <2>1, <2>2, <3>1
      <3>3. ASSUME pc[q] = "write", Carries(sock[q])'
            PROVE  LastNumber(sock[q])' + 1 = issued
        <4>1. sock[q] \in Sockets \ {g}
          BY <3>2, <3>3 DEF TypeOK
        <4>2. Carries(sock[q]) /\ LastNumber(sock[q])' = LastNumber(sock[q])
          BY <2>2, <2>4, <3>2, <3>3, <4>1 DEF LastNumber
        <4>3. QED
          BY <3>1, <3>3, <4>2 DEF Numbers
      <3>4. QED
        BY <3>1, <3>2, <3>3 DEF Numbers
    <2>7. Numbers'
      BY <1>1, <2>1, <2>4, <2>6 DEF Numbers
    <2>8. QED
      BY <2>5, <2>7
  <1>6. QED
    BY <1>4, <1>5 DEF Restarted, RestartFails

LEMMA StepNumbers ==
  /\ TypeOK /\ OneHolder /\ Unattached /\ OneSend /\ Waiters /\ Dialing
  /\ Numbers /\ Gapless /\ [Next]_vars
  => Numbers' /\ Gapless'
  <1> SUFFICES ASSUME TypeOK, OneHolder, Unattached, OneSend, Waiters, Dialing,
                      Numbers, Gapless, [Next]_vars
               PROVE  Numbers' /\ Gapless'
    OBVIOUS
  <1>1. ASSUME NEW u \in Producers, BeginSend(u) PROVE Numbers' /\ Gapless'
    <2>1. u \in Procs /\ lock # u
      BY <1>1 DEF BeginSend, OneHolder, Holds, Procs
    <2>2. \A q \in Procs \ {u} : pc'[q] = pc[q]
      BY <1>1 DEF BeginSend, TypeOK
    <2>3. QED
      BY <1>1, <2>1, <2>2, Stays DEF BeginSend, wireVars
  <1>2. ASSUME NEW u \in Producers, SendSubject(u) PROVE Numbers' /\ Gapless'
    <2>1. u \in Procs /\ ~attached /\ pc[u] = "token"
      BY <1>2 DEF SendSubject, OneSend, Procs
    <2>2. QED
      BY <1>2, <2>1, EnterNumbers DEF SendSubject, wireVars, Sending
  <1>3. ASSUME NEW u \in Producers, SendFails(u) PROVE Numbers' /\ Gapless'
    <2>1. u \in Procs /\ lock # u
      BY <1>3 DEF SendFails, OneHolder, Holds, Procs
    <2>2. \A q \in Procs \ {u} : pc'[q] = pc[q]
      BY <1>3 DEF SendFails, TypeOK
    <2>3. QED
      BY <1>3, <2>1, <2>2, Stays DEF SendFails, subjectVars, wireVars
  <1>4. ASSUME NEW u \in Producers, Message(u) PROVE Numbers' /\ Gapless'
    <2>1. PICK kind \in {"item", "completion"} : Enter(u, kind)
      BY <1>4 DEF Message
    <2>2. QED
      BY <1>4, <2>1, EnterNumbers DEF Message, wireVars, Sending, Procs
  <1>5. ASSUME NEW p \in Procs, Acquire(p) PROVE Numbers' /\ Gapless'
    <2>1. pc[p] = "wait" /\ job[p].kind # "start" /\ Locks(p, job[p].kind)
      BY <1>5 DEF Acquire, Waiters, StreamKinds
    <2>2. QED
      BY <1>5, <2>1, LocksNumbers DEF Acquire, wireVars
  <1>6. ASSUME NEW p \in Procs, WriteOk(p) PROVE Numbers' /\ Gapless'
    BY <1>6, WriteNumbers
  <1>7. ASSUME NEW p \in Procs, WriteFails(p) PROVE Numbers' /\ Gapless'
    <2>1. CASE Kill(p)
      BY <1>7, <2>1, KillNumbers DEF WriteFails
    <2>2. CASE pc' = [pc EXCEPT ![p] = "notify"] /\ UNCHANGED <<lock, job, sock>>
      BY <1>7, <2>2, NotifyNumbers
    <2>3. QED
      BY <1>7, <2>1, <2>2 DEF WriteFails
  <1>8. ASSUME NEW p \in Procs, Notified(p) PROVE Numbers' /\ Gapless'
    <2>1. \A g \in Sockets : link'[g] = "up" => link[g] = "up"
      BY <1>8 DEF Notified, TypeOK
    <2>2. QED
      BY <1>8, <2>1, KillNumbers DEF Notified
  <1>9. ASSUME NEW p \in Procs, Joined(p) PROVE Numbers' /\ Gapless'
    <2>1. /\ \A q \in Procs \ {p} : pc'[q] = pc[q] /\ sock'[q] = sock[q]
          /\ pc[p] = "join" /\ pc'[p] = "restart" /\ job' = job
      BY <1>9 DEF Joined, TypeOK
    <2>2. QED
      BY <1>9, <2>1, Stays DEF Joined, subjectVars, wireVars
  <1>10. ASSUME NEW p \in Procs, Restarted(p) \/ RestartFails(p) PROVE Numbers' /\ Gapless'
    BY <1>10, RestartNumbers
  <1>11. ASSUME NEW g \in Sockets, CallbackNext(g) PROVE Numbers' /\ Gapless'
    BY <1>11, EnterNumbers DEF CallbackNext, wireVars, Sending, Procs
  <1>12. ASSUME NEW g \in Sockets, Connected(g) PROVE Numbers' /\ Gapless'
    <2>1. /\ g \in Procs /\ lock # g /\ pc[g] = "dialing"
          /\ \A q \in Procs \ {g} : pc'[q] = pc[q]
      BY <1>12 DEF Connected, OneHolder, Holds, Procs, TypeOK
    <2>2. \A h \in Sockets : link'[h] = "up" => link[h] = "up" \/ inbox[h] = <<>>
      BY <1>12 DEF Connected, Dialing, TypeOK
    <2>3. QED
      BY <1>12, <2>1, <2>2, Stays DEF Connected, subjectVars
  <1>13. ASSUME NEW g \in Sockets, ConnectFails(g) \/ LinkLost(g) PROVE Numbers' /\ Gapless'
    <2>1. /\ pc[g] \notin Sending /\ UNCHANGED <<ws, link, inbox>>
          /\ OnClose(g, "error") \/ WithoutOnClose(g, "teardown")
      BY <1>13 DEF ConnectFails, LinkLost, OnSocketError, Sending
    <2>2. QED
      BY <2>1, EndNumbers
  <1>14. ASSUME NEW g \in Sockets, Teardown(g) PROVE Numbers' /\ Gapless'
    <2>1. /\ pc[g] \notin Sending /\ UNCHANGED <<ws, inbox>>
          /\ \A h \in Sockets : link'[h] = "up" => link[h] = "up"
          /\ OnClose(g, "close") \/ WithoutOnClose(g, "dead")
      BY <1>14 DEF Teardown, Sending, TypeOK
    <2>2. QED
      BY <2>1, EndNumbers
  <1>15. ASSUME NEW g \in Sockets, Break(g) PROVE Numbers' /\ Gapless'
    <2>1. g \in Procs /\ \A h \in Sockets : link'[h] = "up" => link[h] = "up"
      BY <1>15 DEF Break, Procs, TypeOK
    <2>2. QED
      BY <1>15, <2>1, Stays DEF Break, subjectVars, callVars
  <1>16. ASSUME NEW q \in Pingers, Ping(q) PROVE Numbers' /\ Gapless'
    <2>1. /\ q \in Procs /\ lock # q /\ pc[q] = "idle"
          /\ \A r \in Procs \ {q} : pc'[r] = pc[r] /\ sock'[r] = sock[r] /\ job'[r] = job[r]
      BY <1>16 DEF Ping, OneHolder, Holds, Procs, TypeOK
    <2>2. QED
      BY <1>16, <2>1, Stays DEF Ping, subjectVars, wireVars
  <1>17. CASE UNCHANGED vars
    BY <1>17 DEF vars, subjectVars, callVars, wireVars, Numbers, Carries, LastNumber,
                 Living, Gapless
  <1>18. QED
    BY <1>1, <1>2, <1>3, <1>4, <1>5, <1>6, <1>7, <1>8, <1>9, <1>10, <1>11, <1>12,
       <1>13, <1>14, <1>15, <1>16, <1>17
       DEF Next, CallStep, SocketStep
-----------------------------------------------------------------------------
LEMMA InitIInv == Init => IInv
  <1> SUFFICES ASSUME Init PROVE IInv
    OBVIOUS
  <1>1. TypeOK
    BY InitTyped
  <1>2. /\ attached = FALSE /\ lock = None /\ None \notin Procs
        /\ \A g \in Sockets : inbox[g] = <<>> /\ g \in Procs
        /\ \A p \in Procs : pc[p] \in {"dialing", "dead", "idle"}
        /\ ws \in Sockets
    BY <1>1, SubjectAssumption DEF Init, TypeOK, Procs
  <1>3. OneHolder /\ Unattached /\ OneSend /\ Waiters /\ StartAlone
    BY <1>2 DEF OneHolder, Holds, Unattached, OneSend, Waiters, StartAlone
  <1>4. Dialing
    BY <1>2, SubjectAssumption DEF Init, Dialing, Procs
  <1>5. StartFirst /\ Numbers /\ Gapless
    <2>1. Len(<<>>) = 0 /\ DOMAIN <<>> = {}
      OBVIOUS
    <2>2. QED
      BY <1>2, <2>1 DEF StartFirst, Numbers, Gapless, Carries
  <1>6. QED
    BY <1>1, <1>3, <1>4, <1>5 DEF IInv

LEMMA StepIInv == IInv /\ [Next]_vars => IInv'
  BY StepTyped, StepHolder, StepUnattached, StepOneSend, StepWaiters, StepStartAlone,
     StepDialing, StepStartFirst, StepNumbers
     DEF IInv

LEMMA Invariance == Spec => []IInv
  BY InitIInv, StepIInv, PTL DEF Spec

\* Every variable of a subject and of the greenlets that use it keeps its type,
\* for any number of greenlets, sockets, messages and losses.
THEOREM SubjectTypes == Spec => []TypeOK
  BY Invariance, PTL DEF IInv

\* Subject.next, complete and start hold the semaphore as long as their message
\* is on its way, and leave it free whatever a reconnection does to them.
THEOREM SemaphoreIsGivenBack == Spec => []OneHolder
  BY Invariance, PTL DEF IInv

\* No item or completion reaches a hub before the invocation that starts the
\* stream, if that one reaches it at all.
THEOREM StreamStartsFirst == Spec => []StartFirst
  BY Invariance, PTL DEF IInv

\* On a connection that lives, the hub gets the items without a gap and in the
\* order in which their senders took the semaphore.
THEOREM StreamIsGapless == Spec => []Gapless
  BY Invariance, PTL DEF IInv
=============================================================================
