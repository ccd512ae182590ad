--------------------------- MODULE ConnectionProofs ---------------------------
(***************************************************************************)
(* No handler is lost: KeptUntilEnd, for any number of calls, any frames   *)
(* and any losses.  The invariant says what the dispatcher knows while it  *)
(* waits in a callback: the message it returns to is the head of batch,    *)
(* and when that message ends a call, the end has been given to the call.  *)
(*                                                                         *)
(* Then, from the type invariant and from where messages can come from:    *)
(* none is left behind (Released), and who subscribes at once misses       *)
(* nothing (MissesNothing).                                                *)
(***************************************************************************)
EXTENDS Connection, TLAPS

Entered ==
  /\ at # "reading" => batch # <<>>
  /\ at \in {"complete", "error"} => Head(batch).id \in Calls /\ Ended(Head(batch).id)
  /\ at = "on_error" => Head(batch).type = "failure"

\* What is handed to the callbacks has the type of a message.
Typed ==
  /\ stream_handlers \subseteq Calls
  /\ wire \in Seq(Message)
  /\ batch \in Seq(Message)
  /\ answers \in [Calls -> Seq(Message)]
  /\ seen \in [Calls -> Seq(Message)]

DispatchInv == Typed /\ Entered

(* A message entered as an end of a call is an end the call has been given.*)
LEMMA EnterEnds ==
  ASSUME Typed,
         NEW m \in Message, m.id \in Calls, IsEnd(m),
         seen' = [seen EXCEPT ![m.id] = Append(@, m)]
  PROVE  /\ seen' \in [Calls -> Seq(Message)]
         /\ Ended(m.id)'
<1>1. seen[m.id] \in Seq(Message)
  BY DEF Typed
<1>2. seen'[m.id] = Append(seen[m.id], m)
  BY DEF Typed
<1>3. seen' \in [Calls -> Seq(Message)]
  BY <1>1 DEF Typed
<1>4. /\ Len(seen[m.id]) + 1 \in DOMAIN seen'[m.id]
      /\ seen'[m.id][Len(seen[m.id]) + 1] = m
  BY <1>1, <1>2
<1> QED
  BY <1>3, <1>4 DEF Ended, IsEnd

(* Wherever the dispatcher stops next, it knows what Entered says of it.   *)
LEMMA DispatchEnters ==
  ASSUME Typed,
         NEW messages \in Seq(Message), NEW handlers \in SUBSET Calls,
         Dispatch(messages, handlers)
  PROVE  /\ batch' \in Seq(Message)
         /\ seen' \in [Calls -> Seq(Message)]
         /\ Entered'
<1> DEFINE fires == {i \in DOMAIN messages : Callback(messages[i], handlers) # "reading"}
<1>1. CASE fires = {}
  <2>1. batch' = <<>> /\ at' = "reading" /\ UNCHANGED seen
    BY <1>1 DEF Dispatch, givenVars
  <2> QED BY <2>1 DEF Entered, Typed
<1>2. CASE fires # {}
  <2>1. PICK i \in DOMAIN messages :
          /\ batch' = SubSeq(messages, i, Len(messages))
          /\ Enter(messages[i], Callback(messages[i], handlers))
    BY <1>2 DEF Dispatch
  <2> DEFINE m == messages[i]
             label == Callback(m, handlers)
  <2>2. m \in Message
    OBVIOUS
  <2>3. batch' \in Seq(Message) /\ batch' # <<>> /\ Head(batch') = m
    BY <2>1
  <2>4. label \in {"complete", "error"} => m.id \in Calls /\ IsEnd(m)
    BY DEF Callback, Completes, IsEnd, Ends
  <2>5. label = "on_error" => m.type = "failure"
    BY DEF Callback
  <2>6. CASE label \in {"complete", "error"}
    <3>1. seen' = [seen EXCEPT ![m.id] = Append(@, m)] /\ at' = label
      BY <2>1, <2>6 DEF Enter, ToCall
    <3> HIDE DEF m, label
    <3>2. seen' \in [Calls -> Seq(Message)] /\ Ended(m.id)'
      BY <2>2, <2>4, <2>6, <3>1, EnterEnds
    <3>3. Ended(Head(batch).id)'
      BY <3>2, <2>3 DEF Ended
    <3> QED BY <3>1, <3>2, <3>3, <2>3, <2>4, <2>6 DEF Entered
  <2>7. CASE label = "next"
    <3>1. m.id \in Calls
      BY <2>7 DEF Callback
    <3>2. seen' = [seen EXCEPT ![m.id] = Append(@, m)] /\ at' = label
      BY <2>1, <2>7 DEF Enter, ToCall
    <3> HIDE DEF m, label
    <3>3. Append(seen[m.id], m) \in Seq(Message)
      BY <2>2, <3>1 DEF Typed
    <3>4. seen' \in [Calls -> Seq(Message)]
      BY <3>2, <3>3 DEF Typed
    <3> QED BY <2>3, <2>7, <3>2, <3>4 DEF Entered
  <2>8. CASE label \notin {"complete", "error", "next"}
    <3>1. seen' = seen /\ at' = label
      BY <2>1, <2>8 DEF Enter, ToCall
    <3> HIDE DEF m, label
    <3> QED BY <2>3, <2>5, <2>8, <3>1 DEF Entered, Typed
  <2> QED BY <2>6, <2>7, <2>8
<1> QED BY <1>1, <1>2

LEMMA DispatchInit == Init => DispatchInv
BY DEF Init, DispatchInv, Typed, Entered

(* Callers and the hub do not touch what the dispatcher works on.          *)
LEMMA OutsideStep ==
  ASSUME DispatchInv,
         \/ \E c \in Calls : BeginSend(c) \/ CallStep(c) \/ Subscribe(c) \/ HubItem(c) \/ HubEnd(c)
         \/ HubInvokes \/ HubClose
  PROVE  DispatchInv' /\ stream_handlers \subseteq stream_handlers'
<1> USE DEF DispatchInv, Typed
<1>1. stream_handlers \subseteq stream_handlers' /\ stream_handlers' \subseteq Calls
  BY DEF BeginSend, CallStep, Subscribe, Register, Written, NotWritten, HubItem, HubEnd,
         HubInvokes, HubClose, Answer, callVars
<1>2. UNCHANGED <<batch, at, seen>>
  BY DEF BeginSend, CallStep, Subscribe, Register, Written, NotWritten, HubItem, HubEnd,
         HubInvokes, HubClose, Answer, dispatchVars, givenVars
<1>3. wire' \in Seq(Message) /\ answers' \in [Calls -> Seq(Message)]
  <2>1. ASSUME NEW c \in Calls, NEW m \in Message, Answer(c, m)
        PROVE  wire' \in Seq(Message) /\ answers' \in [Calls -> Seq(Message)]
    <3>1. Append(wire, m) \in Seq(Message) /\ Append(answers[c], m) \in Seq(Message)
      OBVIOUS
    <3> QED BY <2>1, <3>1 DEF Answer
  <2>2. CASE \E c \in Calls : HubItem(c) \/ HubEnd(c)
    <3>1. PICK c \in Calls : HubItem(c) \/ HubEnd(c)
      BY <2>2
    <3>2. CASE HubItem(c)
      <4> DEFINE m == [type |-> "item", id |-> c, item |-> Len(answers[c]) + 1]
      <4>1. m \in Message
        <5>1. Len(answers[c]) \in Nat /\ Len(answers[c]) < MaxItems
          BY <3>2 DEF HubItem
        <5> QED BY <5>1, ConnectionAssumption DEF Message, Messages
      <4> HIDE DEF m
      <4> QED BY <2>1, <3>2, <4>1 DEF HubItem, m
    <3>3. CASE HubEnd(c)
      <4>1. PICK k \in EndKinds : Answer(c, [type |-> k, id |-> c, item |-> 0])
        BY <3>3 DEF HubEnd
      <4>2. [type |-> k, id |-> c, item |-> 0] \in Message
        BY ConnectionAssumption DEF Message, Messages
      <4> QED BY <2>1, <4>1, <4>2
    <3> QED BY <3>1, <3>2, <3>3
  <2>3. CASE HubInvokes \/ HubClose
    <3> DEFINE invocation == [type |-> "invocation", id |-> None, item |-> 0]
               close == [type |-> "close", id |-> None, item |-> 0]
    <3>1. invocation \in Message /\ close \in Message
      BY ConnectionAssumption DEF Message, Messages
    <3>2. wire' \in {Append(wire, invocation), Append(wire, close)} /\ answers' = answers
      BY <2>3 DEF HubInvokes, HubClose, hubVars
    <3> HIDE DEF invocation, close
    <3>3. {Append(wire, invocation), Append(wire, close)} \subseteq Seq(Message)
      BY <3>1
    <3> QED BY <3>2, <3>3
  <2>4. CASE \E c \in Calls : BeginSend(c) \/ CallStep(c) \/ Subscribe(c)
    BY <2>4 DEF BeginSend, CallStep, Subscribe, Register, Written, NotWritten, dispatchVars, hubVars
  <2> QED BY <2>2, <2>3, <2>4
<1> QED BY <1>1, <1>2, <1>3 DEF Entered, Ended

(* The frame being dispatched, and what is left of it.                     *)
LEMMA RestTyped ==
  ASSUME Typed, batch # <<>>
  PROVE  Head(batch) \in Message /\ Rest \in Seq(Message)
BY DEF Typed, Rest

(* A step of the dispatcher that only moves on.                            *)
LEMMA MovesOn ==
  ASSUME DispatchInv,
         Receive \/ Returns \/ Raises \/ StopReturns \/ Lose
  PROVE  DispatchInv' /\ stream_handlers' = stream_handlers
<1> USE DEF DispatchInv
<1>1. CASE Receive
  <2>1. PICK n \in DOMAIN wire :
          /\ Dispatch(SubSeq(wire, 1, n), stream_handlers)
          /\ wire' = SubSeq(wire, n + 1, Len(wire))
    BY <1>1 DEF Receive
  <2>2. SubSeq(wire, 1, n) \in Seq(Message) /\ wire' \in Seq(Message)
    BY <2>1 DEF Typed
  <2> QED BY <1>1, <2>1, <2>2, DispatchEnters DEF Receive, Typed, callVars, hubVars
<1>2. CASE Returns
  <2>1. Dispatch(Rest, stream_handlers) /\ UNCHANGED <<callVars, wire, hubVars>>
    BY <1>2 DEF Returns
  <2>2. Rest \in Seq(Message)
    BY <1>2, RestTyped DEF Returns, Entered
  <2> QED BY <2>1, <2>2, DispatchEnters DEF Typed, callVars, hubVars
<1>3. CASE Raises
  BY <1>3 DEF Raises, AfterRaise, Typed, Entered, callVars, hubVars, givenVars
<1>4. CASE StopReturns
  BY <1>4 DEF StopReturns, Typed, Entered, callVars, givenVars
<1>5. CASE Lose
  <2>1. UNCHANGED <<stream_handlers, answers, seen>> /\ wire' = <<>>
    BY <1>5 DEF Lose, callVars, givenVars
  <2>2. CASE batch' = <<>> /\ at' = "reading"
    BY <2>1, <2>2 DEF Typed, Entered
  <2>3. CASE UNCHANGED <<batch, at>>
    BY <2>1, <2>3 DEF Typed, Entered, Ended
  <2> QED BY <1>5, <2>2, <2>3 DEF Lose
<1> QED BY <1>1, <1>2, <1>3, <1>4, <1>5

(* on_error and the callback of an end return to the message they are for. *)
LEMMA EndStep ==
  ASSUME DispatchInv, ErrorReported \/ EndReturns
  PROVE  /\ DispatchInv'
         /\ \A c \in stream_handlers \ stream_handlers' : Ended(c)
<1> USE DEF DispatchInv
<1>1. CASE ErrorReported
  <2> PICK m : m = Head(batch)
    OBVIOUS
  <2>1. /\ batch # <<>> /\ m.type = "failure"
        /\ UNCHANGED <<callVars, wire, hubVars>>
    BY <1>1 DEF ErrorReported, Entered
  <2>2. m \in Message /\ Rest \in Seq(Message)
    BY <2>1, RestTyped
  <2>3. CASE Dispatch(Rest, stream_handlers)
    BY <2>1, <2>2, <2>3, DispatchEnters DEF Typed, callVars, hubVars
  <2>4. CASE Completes(m.id, stream_handlers) /\ Enter(m, "complete") /\ UNCHANGED batch
    <3>1. /\ m.id \in Calls /\ IsEnd(m) /\ at' = "complete"
          /\ seen' = [seen EXCEPT ![m.id] = Append(@, m)]
      BY <2>1, <2>4 DEF Completes, Enter, ToCall, Typed, IsEnd, Ends
    <3>2. seen' \in [Calls -> Seq(Message)] /\ Ended(m.id)'
      BY <2>2, <3>1, EnterEnds
    <3>3. Entered'
      BY <2>1, <2>4, <3>1, <3>2 DEF Entered, Ended
    <3> QED BY <2>1, <2>4, <3>2, <3>3 DEF Typed, callVars, hubVars
  <2> QED BY <1>1, <2>1, <2>3, <2>4 DEF ErrorReported, callVars
<1>2. CASE EndReturns
  <2> DEFINE c == Head(batch).id
  <2>1. batch # <<>> /\ c \in Calls /\ Ended(c)
    BY <1>2 DEF EndReturns, Entered
  <2>2. stream_handlers' = stream_handlers \ {c} /\ UNCHANGED <<wire, hubVars>>
    BY <1>2 DEF EndReturns, Unregister
  <2>3. Rest \in Seq(Message)
    BY <2>1, RestTyped
  <2>4. Dispatch(Rest, stream_handlers')
    BY <1>2 DEF EndReturns
  <2>5. DispatchInv'
    BY <2>2, <2>3, <2>4, DispatchEnters DEF Typed, hubVars
  <2> QED BY <2>1, <2>2, <2>5
<1> QED BY <1>1, <1>2

LEMMA DispatchInvStep ==
  ASSUME DispatchInv, [Next]_vars
  PROVE  /\ DispatchInv'
         /\ \A c \in stream_handlers \ stream_handlers' : Ended(c)
<1>1. CASE UNCHANGED vars
  BY <1>1 DEF vars, callVars, dispatchVars, hubVars, givenVars, DispatchInv, Typed, Entered, Ended
<1>2. CASE Next
  BY <1>2, OutsideStep, MovesOn, EndStep DEF Next, DispatchStep
<1> QED BY <1>1, <1>2

(* A handler leaves stream_handlers only when its call has ended, however  *)
(* callbacks, other calls, frames and losses interleave.                   *)
THEOREM HandlersAreKept == Spec => KeptUntilEnd
<1>1. Init => DispatchInv
  BY DispatchInit
<1>2. DispatchInv /\ [Next]_vars => DispatchInv'
  BY DispatchInvStep
<1>3. DispatchInv /\ [Next]_vars =>
        [\A c \in stream_handlers \ stream_handlers' : Ended(c)]_vars
  BY DispatchInvStep
<1> QED BY <1>1, <1>2, <1>3, PTL DEF Spec, KeptUntilEnd
-----------------------------------------------------------------------------
(* Types, releases and subscriptions.                                      *)

\* Calls whose transport.send has returned.
Back == {c \in Calls : phase[c] \in {"returned", "subscribed", "late"}}

AboutBack(messages) ==
  \A i \in DOMAIN messages : messages[i].id \in Calls => messages[i].id \in Back

\* The hub answers what it was asked, once the last byte was written; so only
\* the callers that are back have messages and are given them.
AnswersComeLate ==
  /\ asked \subseteq Back
  /\ AboutBack(wire)
  /\ AboutBack(batch)
  /\ \A c \in Calls : Ended(c) => c \in Back
  /\ missed \subseteq Back

CallInv == TypeOK /\ AnswersComeLate /\ MissesNothing /\ Released

(* What the dispatcher may do with messages: reach their end, or enter the *)
(* first callback that one of them leads to.                               *)
Stops ==
  /\ batch' = <<>> /\ at' = "reading" /\ UNCHANGED givenVars

Enters(messages, handlers, i, label) ==
  /\ i \in DOMAIN messages
  /\ label = Callback(messages[i], handlers) /\ label # "reading"
  /\ batch' = SubSeq(messages, i, Len(messages))
  /\ Enter(messages[i], label)

LEMMA DispatchOutcome ==
  ASSUME NEW messages, NEW handlers, Dispatch(messages, handlers)
  PROVE  Stops \/ \E i \in DOMAIN messages, label \in Labels : Enters(messages, handlers, i, label)
<1>1. CASE Stops
  BY <1>1
<1>2. ASSUME NEW i \in DOMAIN messages,
             Callback(messages[i], handlers) # "reading",
             batch' = SubSeq(messages, i, Len(messages)),
             Enter(messages[i], Callback(messages[i], handlers))
      PROVE  \E label \in Labels : Enters(messages, handlers, i, label)
  <2>1. Callback(messages[i], handlers) \in Labels
    BY DEF Callback, Labels
  <2> QED BY <1>2, <2>1 DEF Enters
<1> QED BY <1>1, <1>2 DEF Dispatch, Stops

(* A callback of a call is that of a registered handler, and an end of the *)
(* call exactly when it is complete or error.                              *)
LEMMA CallbackIsOwn ==
  ASSUME NEW m \in Message, NEW handlers \in SUBSET Calls
  PROVE  LET label == Callback(m, handlers)
         IN /\ label \in Labels
            /\ ToCall(label) => m.id \in handlers
            /\ label \in {"complete", "error"} => IsEnd(m)
            /\ label = "next" => ~IsEnd(m)
BY DEF Callback, Labels, ToCall, IsEnd, Ends, Completes, Message, Messages

(* Who has been given an end by the entry of a callback.                   *)
LEMMA EnterGives ==
  ASSUME TypeOK,
         NEW m \in Message, NEW label \in Labels,
         ToCall(label) => m.id \in Calls,
         Enter(m, label)
  PROVE  /\ at' = label
         /\ seen' \in [Calls -> Seq(Message)]
         /\ missed' \subseteq Streams
         /\ \A c \in Calls : Ended(c)' => Ended(c) \/ (ToCall(label) /\ c = m.id /\ IsEnd(m))
         /\ \A c \in missed' : c \in missed \/ (ToCall(label) /\ c = m.id /\ Default(c))
<1> USE DEF TypeOK
<1>1. at' = label /\ missed' \subseteq Streams
  BY DEF Enter, Default
<1>2. \A c \in missed' : c \in missed \/ (ToCall(label) /\ c = m.id /\ Default(c))
  BY DEF Enter
<1>3. CASE ToCall(label)
  <2>1. seen' = [seen EXCEPT ![m.id] = Append(@, m)] /\ m.id \in Calls
    BY <1>3 DEF Enter
  <2>2. seen[m.id] \in Seq(Message)
    BY <2>1
  <2>3. Append(seen[m.id], m) \in Seq(Message)
    BY <2>2
  <2>4. seen' \in [Calls -> Seq(Message)]
    BY <2>1, <2>3
  <2>5. ASSUME NEW c \in Calls, Ended(c)'
        PROVE  Ended(c) \/ (c = m.id /\ IsEnd(m))
    <3>1. CASE c # m.id
      <4>1. seen'[c] = seen[c]
        BY <2>1, <3>1
      <4> QED BY <2>5, <4>1 DEF Ended, IsEnd
    <3>2. CASE c = m.id
      <4>1. seen'[c] = Append(seen[c], m)
        BY <2>1, <3>2
      <4>2. PICK i \in DOMAIN seen'[c] : IsEnd(seen'[c][i])
        BY <2>5 DEF Ended, IsEnd
      <4>3. CASE i = Len(seen[c]) + 1
        <5>1. seen'[c][i] = m
          BY <2>2, <3>2, <4>1, <4>3
        <5> QED BY <3>2, <4>2, <5>1
      <4>4. CASE i # Len(seen[c]) + 1
        <5>1. i \in DOMAIN seen[c] /\ seen'[c][i] = seen[c][i]
          BY <2>2, <3>2, <4>1, <4>2, <4>4
        <5> QED BY <4>2, <5>1 DEF Ended
      <4> QED BY <4>3, <4>4
    <3> QED BY <3>1, <3>2
  <2> QED BY <1>1, <1>2, <1>3, <2>4, <2>5
<1>4. CASE ~ToCall(label)
  <2>1. seen' = seen
    BY <1>4 DEF Enter
  <2> QED BY <1>1, <1>2, <2>1 DEF Ended, IsEnd
<1> QED BY <1>3, <1>4

(* The dispatcher goes on with messages of its frame: handlers are those   *)
(* it finds, and no call but the one it enters next has an end to release. *)
LEMMA DispatchKeeps ==
  ASSUME TypeOK, AnswersComeLate, MissesNothing,
         NEW messages \in Seq(Message), NEW handlers \in SUBSET Calls,
         AboutBack(messages),
         handlers = stream_handlers',
         \A c \in handlers \ cut : ~Ended(c),
         Dispatch(messages, handlers),
         UNCHANGED <<phase, cut>>
  PROVE  /\ batch' \in Seq(Message)
         /\ at' \in Labels /\ (at' = "reading" <=> batch' = <<>>)
         /\ seen' \in [Calls -> Seq(Message)]
         /\ missed' \subseteq Streams
         /\ AboutBack(batch)'
         /\ \A c \in Calls : Ended(c)' => c \in Back'
         /\ missed' \subseteq Back'
         /\ MissesNothing'
         /\ Released'
<1> USE DEF TypeOK
<1>0. Back' = Back
  BY DEF Back
<1>1. CASE Stops
  <2>1. batch' = <<>> /\ at' = "reading" /\ seen' = seen /\ missed' = missed
    BY <1>1 DEF Stops, givenVars
  <2>2. AboutBack(batch)'
    BY <2>1 DEF AboutBack
  <2>3. at' \in Labels
    BY <2>1 DEF Labels
  <2> QED BY <1>0, <2>1, <2>2, <2>3 DEF AnswersComeLate, Ended, IsEnd, MissesNothing, Released
<1>2. CASE \E i \in DOMAIN messages, label \in Labels : Enters(messages, handlers, i, label)
  <2>1. PICK i \in DOMAIN messages, label \in Labels : Enters(messages, handlers, i, label)
    BY <1>2
  <2> DEFINE m == messages[i]
  <2>2. m \in Message
    OBVIOUS
  <2>3. /\ batch' = SubSeq(messages, i, Len(messages)) /\ Enter(m, label)
        /\ label = Callback(m, handlers) /\ label # "reading"
    BY <2>1 DEF Enters
  <2>4. /\ batch' \in Seq(Message) /\ batch' # <<>> /\ Head(batch') = m
        /\ \A j \in DOMAIN batch' : \E k \in DOMAIN messages : batch'[j] = messages[k]
    <3>1. i \in 1..Len(messages)
      OBVIOUS
    <3> HIDE DEF m
    <3>2. /\ batch' \in Seq(Message) /\ Len(batch') = Len(messages) - i + 1
          /\ \A j \in 1..Len(batch') : batch'[j] = messages[i + j - 1]
      BY <2>3, <3>1
    <3>3. \A j \in 1..Len(batch') : i + j - 1 \in 1..Len(messages)
      BY <3>1, <3>2
    <3>4. Head(batch') = m
      BY <3>1, <3>2 DEF m
    <3>5. DOMAIN batch' = 1..Len(batch') /\ DOMAIN messages = 1..Len(messages)
      BY <3>2
    <3>6. \A j \in DOMAIN batch' : \E k \in DOMAIN messages : batch'[j] = messages[k]
      BY <3>2, <3>3, <3>5
    <3> QED BY <3>1, <3>2, <3>4, <3>6
  <2>5. m.id \in Calls => m.id \in Back
    BY DEF AboutBack
  <2> HIDE DEF m
  <2>6. /\ ToCall(label) => m.id \in handlers
        /\ label \in {"complete", "error"} => IsEnd(m)
        /\ label = "next" => ~IsEnd(m)
    BY <2>2, <2>3, CallbackIsOwn
  <2>7. /\ at' = label
        /\ seen' \in [Calls -> Seq(Message)]
        /\ missed' \subseteq Streams
        /\ \A c \in Calls : Ended(c)' => Ended(c) \/ (ToCall(label) /\ c = m.id /\ IsEnd(m))
        /\ \A c \in missed' : c \in missed \/ (ToCall(label) /\ c = m.id /\ Default(c))
    BY <2>2, <2>3, <2>6, EnterGives
  <2>8. AboutBack(batch)'
    BY <1>0, <2>4 DEF AboutBack
  <2>9. /\ \A c \in Calls : Ended(c)' => c \in Back'
        /\ missed' \subseteq Back'
    BY <1>0, <2>5, <2>6, <2>7 DEF AnswersComeLate
  <2>10. MissesNothing'
    BY <2>7 DEF MissesNothing, Default
  <2>11. Released'
    <3> SUFFICES ASSUME NEW c \in stream_handlers' \ cut, Ended(c)'
                 PROVE  at' \in {"complete", "error"} /\ Head(batch').id = c
      BY DEF Released
    <3>1. ToCall(label) /\ c = m.id /\ IsEnd(m)
      BY <2>7
    <3> QED BY <2>4, <2>6, <2>7, <3>1 DEF ToCall
  <2> QED BY <2>3, <2>4, <2>7, <2>8, <2>9, <2>10, <2>11
<1> QED BY <1>1, <1>2, DispatchOutcome

LEMMA CallInit == Init => CallInv
BY ConnectionAssumption
   DEF Init, CallInv, TypeOK, AnswersComeLate, AboutBack, MissesNothing, Released, Ended, Back,
       Phases, Labels

(* What reaches the hub comes from a call that is back, and callers only   *)
(* move on.                                                                *)
LEMMA CallersKeep ==
  ASSUME CallInv, NEW c \in Calls,
         BeginSend(c) \/ CallStep(c) \/ Subscribe(c)
  PROVE  CallInv'
<1> USE DEF CallInv
<1>1. /\ UNCHANGED <<wire, batch, at, answers, events, losses, seen, missed, cut>>
      /\ stream_handlers' \in {stream_handlers, stream_handlers \cup {c}}
      /\ stream_handlers' # stream_handlers => phase[c] \in {"idle", "token"}
      /\ asked' \in {asked, asked \cup {c}}
      /\ \E p \in Phases : phase' = [phase EXCEPT ![c] = p]
  BY DEF BeginSend, CallStep, Subscribe, Register, MayRegister, Written, NotWritten, Outcomes,
         dispatchVars, hubVars, givenVars, Phases
<1>2. phase[c] \in Phases /\ phase \in [Calls -> Phases]
  BY DEF TypeOK
<1>3. /\ c \in asked' \/ c \in Back => phase'[c] \in {"returned", "subscribed", "late"}
      /\ c \in Back => phase'[c] # "subscribed" \/ phase[c] = "subscribed"
  BY <1>2 DEF BeginSend, CallStep, Subscribe, Register, MayRegister, Written, NotWritten, Outcomes,
         dispatchVars, hubVars, Back, Phases, AnswersComeLate, ConnectionAssumption, TypeOK
<1>4. Back \subseteq Back'
  BY <1>1, <1>2, <1>3 DEF Back
<1>5. TypeOK'
  BY <1>1, <1>2 DEF TypeOK
<1>6. AnswersComeLate'
  <2>1. asked' \subseteq Back'
    BY <1>1, <1>2, <1>3, <1>4 DEF AnswersComeLate, Back
  <2>2. AboutBack(wire)' /\ AboutBack(batch)'
    BY <1>1, <1>4 DEF AnswersComeLate, AboutBack
  <2>3. \A d \in Calls : Ended(d)' <=> Ended(d)
    BY <1>1 DEF Ended, IsEnd
  <2> QED BY <1>1, <1>4, <2>1, <2>2, <2>3 DEF AnswersComeLate
<1>7. MissesNothing'
  BY <1>1, <1>2, <1>3 DEF MissesNothing, AnswersComeLate
<1>8. Released'
  <2>1. ~Ended(c) \/ stream_handlers' = stream_handlers
    BY <1>1 DEF AnswersComeLate, Back
  <2> QED BY <1>1, <2>1 DEF Released, Ended, IsEnd
<1> QED BY <1>5, <1>6, <1>7, <1>8

(* The hub answers a call that is back.                                    *)
LEMMA HubKeeps ==
  ASSUME CallInv,
         (\E c \in Calls : HubItem(c) \/ HubEnd(c)) \/ HubInvokes \/ HubClose
  PROVE  CallInv'
<1> USE DEF CallInv
<1>1. ASSUME NEW m \in Message, m.id \in Calls => m.id \in Back,
             wire' = Append(wire, m),
             answers' \in [Calls -> Seq(Message)], events' \in 0..MaxEvents,
             UNCHANGED <<callVars, batch, at, asked, losses, givenVars, cut>>
      PROVE  CallInv'
  <2> USE DEF callVars, givenVars
  <2>1. wire' \in Seq(Message)
    BY <1>1 DEF TypeOK
  <2>2. Back' = Back /\ \A c \in Calls : Ended(c)' <=> Ended(c)
    BY <1>1 DEF Back, Ended, IsEnd
  <2>3. \A i \in DOMAIN wire' : wire'[i] = m \/ (i \in DOMAIN wire /\ wire'[i] = wire[i])
    BY <1>1 DEF TypeOK
  <2>4. AboutBack(wire)' /\ AboutBack(batch)'
    BY <1>1, <2>2, <2>3 DEF AboutBack, AnswersComeLate
  <2>5. TypeOK'
    BY <1>1, <2>1 DEF TypeOK
  <2>6. AnswersComeLate'
    BY <1>1, <2>2, <2>4 DEF AnswersComeLate
  <2>7. MissesNothing' /\ Released'
    BY <1>1, <2>2 DEF MissesNothing, Released, TypeOK
  <2> QED BY <2>5, <2>6, <2>7
<1>2. ASSUME NEW c \in Calls, NEW m \in Message, m.id = c, Answer(c, m)
      PROVE  CallInv'
  <2>1. Append(answers[c], m) \in Seq(Message)
    BY DEF TypeOK
  <2>2. c \in Back /\ answers' \in [Calls -> Seq(Message)]
    BY <1>2, <2>1 DEF Answer, AnswersComeLate, TypeOK
  <2> QED BY <1>1, <1>2, <2>2 DEF Answer, TypeOK
<1>3. CASE \E c \in Calls : HubItem(c) \/ HubEnd(c)
  <2>1. PICK c \in Calls : HubItem(c) \/ HubEnd(c)
    BY <1>3
  <2>2. CASE HubItem(c)
    <3> DEFINE m == [type |-> "item", id |-> c, item |-> Len(answers[c]) + 1]
    <3>1. Len(answers[c]) \in Nat /\ Len(answers[c]) < MaxItems
      BY <2>2 DEF HubItem, TypeOK
    <3>2. m \in Message
      BY <3>1, ConnectionAssumption DEF Message, Messages
    <3>3. Answer(c, m) /\ m.id = c
      BY <2>2 DEF HubItem
    <3> HIDE DEF m
    <3> QED BY <1>2, <3>2, <3>3
  <2>3. CASE HubEnd(c)
    <3>1. PICK k \in EndKinds : Answer(c, [type |-> k, id |-> c, item |-> 0])
      BY <2>3 DEF HubEnd
    <3> DEFINE m == [type |-> k, id |-> c, item |-> 0]
    <3>2. m \in Message /\ m.id = c
      BY ConnectionAssumption DEF Message, Messages
    <3> HIDE DEF m
    <3> QED BY <1>2, <3>1, <3>2 DEF m
  <2> QED BY <2>1, <2>2, <2>3
<1>4. CASE HubInvokes \/ HubClose
  <2>1. PICK k \in {"invocation", "close"} :
          /\ wire' = Append(wire, [type |-> k, id |-> None, item |-> 0])
          /\ events' \in {events} \cup (IF events < MaxEvents THEN {events + 1} ELSE {})
          /\ UNCHANGED <<callVars, batch, at, asked, answers, losses, givenVars, cut>>
    BY <1>4 DEF HubInvokes, HubClose, hubVars
  <2>2. events' \in 0..MaxEvents
    BY <2>1, ConnectionAssumption DEF TypeOK
  <2> DEFINE m == [type |-> k, id |-> None, item |-> 0]
  <2>3. m \in Message /\ m.id \notin Calls
    BY ConnectionAssumption DEF Message, Messages
  <2>4. wire' = Append(wire, m) /\ answers' \in [Calls -> Seq(Message)]
    BY <2>1 DEF TypeOK
  <2> HIDE DEF m
  <2> QED BY <1>1, <2>1, <2>2, <2>3, <2>4
<1> QED BY <1>3, <1>4

(* Parts of what is about calls that are back are about such calls.        *)
LEMMA PartsAreAboutBack ==
  ASSUME NEW messages \in Seq(Message), AboutBack(messages)
  PROVE  /\ \A n \in DOMAIN messages :
              /\ SubSeq(messages, 1, n) \in Seq(Message) /\ AboutBack(SubSeq(messages, 1, n))
              /\ SubSeq(messages, n + 1, Len(messages)) \in Seq(Message)
              /\ AboutBack(SubSeq(messages, n + 1, Len(messages)))
         /\ messages # <<>> => Tail(messages) \in Seq(Message) /\ AboutBack(Tail(messages))
<1>1. ASSUME NEW n \in DOMAIN messages
      PROVE  /\ SubSeq(messages, 1, n) \in Seq(Message) /\ AboutBack(SubSeq(messages, 1, n))
             /\ SubSeq(messages, n + 1, Len(messages)) \in Seq(Message)
             /\ AboutBack(SubSeq(messages, n + 1, Len(messages)))
  <2>1. n \in 1..Len(messages)
    OBVIOUS
  <2>2. /\ SubSeq(messages, 1, n) \in Seq(Message) /\ Len(SubSeq(messages, 1, n)) = n
        /\ \A j \in 1..n : SubSeq(messages, 1, n)[j] = messages[j]
    BY <2>1
  <2> DEFINE rest == SubSeq(messages, n + 1, Len(messages))
  <2>3. /\ rest \in Seq(Message) /\ Len(rest) = Len(messages) - n
        /\ \A j \in 1..(Len(messages) - n) : rest[j] = messages[n + j]
    BY <2>1
  <2>4. AboutBack(SubSeq(messages, 1, n))
    BY <2>1, <2>2 DEF AboutBack
  <2>5. AboutBack(rest)
    <3> HIDE DEF rest
    <3>1. \A j \in DOMAIN rest : n + j \in DOMAIN messages /\ rest[j] = messages[n + j]
      BY <2>1, <2>3
    <3> QED BY <3>1 DEF AboutBack
  <2> QED BY <2>2, <2>3, <2>4, <2>5
<1>2. ASSUME messages # <<>>
      PROVE  Tail(messages) \in Seq(Message) /\ AboutBack(Tail(messages))
  <2>1. /\ Tail(messages) \in Seq(Message)
        /\ \A j \in DOMAIN Tail(messages) :
             j + 1 \in DOMAIN messages /\ Tail(messages)[j] = messages[j + 1]
    BY <1>2
  <2> QED BY <2>1 DEF AboutBack
<1> QED BY <1>1, <1>2

(* The dispatcher: one case per step of it.                                *)
LEMMA DispatcherKeeps ==
  ASSUME CallInv, DispatchStep \/ Lose
  PROVE  CallInv'
<1> USE DEF CallInv
<1>0. Back' = Back \/ phase' # phase
  BY DEF Back
<1>1. CASE Receive
  <2>1. PICK n \in DOMAIN wire :
          /\ Dispatch(SubSeq(wire, 1, n), stream_handlers)
          /\ wire' = SubSeq(wire, n + 1, Len(wire))
    BY <1>1 DEF Receive
  <2>2. at = "reading" /\ UNCHANGED <<phase, stream_handlers, hubVars, cut>>
    BY <1>1 DEF Receive, callVars
  <2>3. /\ SubSeq(wire, 1, n) \in Seq(Message) /\ AboutBack(SubSeq(wire, 1, n))
        /\ wire' \in Seq(Message) /\ AboutBack(wire')
    BY <2>1, PartsAreAboutBack DEF TypeOK, AnswersComeLate
  <2>4. \A c \in stream_handlers \ cut : ~Ended(c)
    BY <2>2 DEF Released
  <2>5. AboutBack(wire)'
    BY <1>0, <2>2, <2>3 DEF AboutBack
  <2> QED BY <1>0, <2>1, <2>2, <2>3, <2>4, <2>5, DispatchKeeps DEF TypeOK, AnswersComeLate, hubVars
<1>2. CASE \/ /\ Returns \/ (ErrorReported /\ ~Completes(Head(batch).id, stream_handlers))
              /\ UNCHANGED stream_handlers
           \/ EndReturns
  <2>1. /\ Dispatch(Rest, stream_handlers')
        /\ at # "reading"
        /\ UNCHANGED <<phase, wire, hubVars, cut>>
    BY <1>2 DEF Returns, ErrorReported, EndReturns, callVars
  <2>2. /\ stream_handlers' \subseteq stream_handlers
        /\ at \in {"complete", "error"} => stream_handlers' = stream_handlers \ {Head(batch).id}
    BY <1>2 DEF Returns, ErrorReported, EndReturns, Unregister
  <2>3. Rest \in Seq(Message) /\ AboutBack(Rest)
    BY <2>1, PartsAreAboutBack DEF Rest, TypeOK, AnswersComeLate
  <2>4. \A c \in stream_handlers' \ cut : ~Ended(c)
    BY <2>2 DEF Released
  <2>5. AboutBack(wire)'
    BY <1>0, <2>1 DEF AboutBack, AnswersComeLate
  <2>6. stream_handlers' \in SUBSET Calls
    BY <2>2 DEF TypeOK
  <2> QED BY <1>0, <2>1, <2>3, <2>4, <2>5, <2>6, DispatchKeeps DEF TypeOK, AnswersComeLate, hubVars
<1>3. CASE ErrorReported /\ Completes(Head(batch).id, stream_handlers)
  <2> DEFINE m == Head(batch)
  <2>1. /\ at = "on_error" /\ m.id \in stream_handlers
        /\ Enter(m, "complete")
        /\ UNCHANGED <<batch, phase, stream_handlers, wire, hubVars, cut>>
    BY <1>3 DEF ErrorReported, Completes, callVars
  <2>2. batch # <<>> /\ m \in Message /\ m.id \in Calls /\ m = batch[1] /\ 1 \in DOMAIN batch
    BY <2>1 DEF TypeOK
  <2>3. m.id \in Back
    BY <2>2 DEF AnswersComeLate, AboutBack
  <2> HIDE DEF m
  <2>4. /\ at' = "complete"
        /\ seen' \in [Calls -> Seq(Message)]
        /\ missed' \subseteq Streams
        /\ \A c \in Calls : Ended(c)' => Ended(c) \/ c = m.id
        /\ \A c \in missed' : c \in missed \/ (c = m.id /\ Default(c))
    BY <2>1, <2>2, EnterGives DEF Labels
  <2>5. TypeOK'
    BY <2>1, <2>2, <2>4 DEF TypeOK, Labels, hubVars
  <2>6. AnswersComeLate'
    BY <1>0, <2>1, <2>3, <2>4 DEF AnswersComeLate, AboutBack, hubVars
  <2>7. MissesNothing'
    BY <2>1, <2>4 DEF MissesNothing, Default
  <2>8. Released'
    BY <2>1, <2>4 DEF Released, TypeOK, m
  <2> QED BY <2>5, <2>6, <2>7, <2>8
<1>4. CASE Raises \/ Lose \/ StopReturns
  <2>1. /\ UNCHANGED <<phase, stream_handlers, answers, seen, missed>>
        /\ asked' \in {asked, {}} /\ events' \in {events, 0}
        /\ losses' \in {losses, IF losses > 0 THEN losses - 1 ELSE 0}
        /\ wire' \in {wire, <<>>}
    BY <1>4 DEF Raises, Lose, StopReturns, callVars, givenVars, hubVars
  <2>2. \/ UNCHANGED <<batch, at, cut>>
        \/ batch' = <<>> /\ at' = "reading" /\ cut' = cut \cup InFrame
        \/ batch' = <<>> /\ at' = "reading" /\ cut' = cut /\ at = "stop"
    BY <1>4 DEF Raises, Lose, StopReturns, AfterRaise
  <2>3. \A c \in Calls : Ended(c)' <=> Ended(c)
    BY <2>1 DEF Ended, IsEnd
  <2>4. /\ asked' \subseteq Calls /\ events' \in 0..MaxEvents /\ losses' \in 0..MaxLosses
        /\ wire' \in Seq(Message)
    <3>1. events \in 0..MaxEvents /\ losses \in 0..MaxLosses /\ MaxEvents \in Nat /\ MaxLosses \in Nat
      BY ConnectionAssumption DEF TypeOK
    <3>2. events' \in 0..MaxEvents
      BY <2>1, <3>1
    <3>3. losses' \in 0..MaxLosses
      BY <2>1, <3>1
    <3>4. asked' \subseteq Calls
      BY <2>1 DEF TypeOK
    <3>5. wire' \in Seq(Message)
      <4>1. <<>> \in Seq(Message) /\ wire \in Seq(Message)
        BY DEF TypeOK
      <4> HIDE DEF CallInv
      <4> QED BY <2>1, <4>1
    <3> QED BY <3>2, <3>3, <3>4, <3>5
  <2>5. /\ batch' \in Seq(Message) /\ cut' \subseteq Calls
        /\ at' \in Labels /\ (at' = "reading" <=> batch' = <<>>)
    <3>1. InFrame \subseteq Calls /\ <<>> \in Seq(Message) /\ "reading" \in Labels
      BY DEF InFrame, Labels
    <3> QED BY <2>2, <3>1 DEF TypeOK
  <2>6. TypeOK'
    BY <2>1, <2>4, <2>5 DEF TypeOK
  <2>7. AnswersComeLate'
    BY <1>0, <2>1, <2>2, <2>3 DEF AnswersComeLate, AboutBack
  <2>8. MissesNothing'
    BY <2>1 DEF MissesNothing
  <2>9. Released'
    <3> SUFFICES ASSUME NEW c \in stream_handlers \ cut', Ended(c)
                 PROVE  at' \in {"complete", "error"} /\ Head(batch').id = c
      BY <2>1, <2>3 DEF Released, TypeOK
    <3>1. c \notin cut /\ c \in Calls
      BY <2>2 DEF TypeOK
    <3>2. at \in {"complete", "error"} /\ Head(batch).id = c
      BY <3>1 DEF Released
    <3>3. c \in InFrame
      <4>1. batch # <<>>
        BY <3>2 DEF TypeOK
      <4>2. Head(batch) = batch[1] /\ 1 \in DOMAIN batch
        BY <4>1 DEF TypeOK
      <4> QED BY <3>1, <3>2, <4>2 DEF InFrame, ToSet
    <3> QED BY <2>2, <3>2, <3>3
  <2> QED BY <2>6, <2>7, <2>8, <2>9
<1> QED BY <1>1, <1>2, <1>3, <1>4 DEF DispatchStep, Returns, ErrorReported, callVars

LEMMA CallInvStep == CallInv /\ [Next]_vars => CallInv'
<1> SUFFICES ASSUME CallInv, [Next]_vars PROVE CallInv'
  OBVIOUS
<1>1. CASE UNCHANGED vars
  BY <1>1 DEF vars, callVars, dispatchVars, hubVars, givenVars, CallInv, TypeOK, AnswersComeLate,
              AboutBack, Back, MissesNothing, Released, Ended, IsEnd
<1>2. CASE Next
  BY <1>2, CallersKeep, HubKeeps, DispatcherKeeps DEF Next
<1> QED BY <1>1, <1>2

LEMMA CallInvHolds == Spec => []CallInv
<1> QED BY CallInit, CallInvStep, PTL DEF Spec

(* Every variable keeps to its type, and the dispatcher of a frame is the  *)
(* only one to wait in a callback.                                         *)
THEOREM ConnectionTypes == Spec => []TypeOK
<1>1. CallInv => TypeOK
  BY DEF CallInv
<1> QED BY <1>1, CallInvHolds, PTL

(* The handler of a call that has ended is unregistered before the         *)
(* dispatcher turns to another message, for any number of calls whose      *)
(* callbacks wait, raise or are killed, in frames of any length.           *)
THEOREM EndedAreReleased == Spec => []Released
<1>1. CallInv => Released
  BY DEF CallInv
<1> QED BY <1>1, CallInvHolds, PTL

(* A caller that subscribes in the statement that calls stream() misses no *)
(* message of its stream.                                                  *)
THEOREM SubscribersMissNothing == Spec => []MissesNothing
<1>1. CallInv => MissesNothing
  BY DEF CallInv
<1> QED BY <1>1, CallInvHolds, PTL
===============================================================================
