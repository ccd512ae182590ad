------------------------------ MODULE Connection ------------------------------
(***************************************************************************)
(* Connection.send, Connection.stream and Connection.on_message            *)
(* (connection.py): the handlers that wait for answers of the hub, and the *)
(* dispatch of the messages of a frame to them.                            *)
(*                                                                         *)
(* The socket greenlet dispatches; it waits only inside a callback.  While *)
(* it does, other greenlets call send() and stream().  The transport is    *)
(* reduced to what a caller sees of it: send() writes the message, raises, *)
(* or swallows it; and a connection may be lost with all it carries.       *)
(***************************************************************************)
EXTENDS SequencesExt, Subsequences

CONSTANTS
  Sends,       \* calls of send() with an on_invocation callback
  Streams,     \* calls of stream()
  None,        \* no call
  HasOnError,  \* is an on_error callback registered?
  EndKinds,    \* how the hub ends what it was asked: see Ends
  HubCloses,   \* does the hub send Close messages?
  Repeats,     \* calls the hub may end twice
  CanRaise,    \* may a callback raise?
  CanFail,     \* may transport.send raise or swallow a message?
  MaxItems,    \* bound: the items of a stream
  MaxEvents,   \* bound: invocations by the hub on one connection
  MaxLosses    \* bound: how often the connection ends

Calls == Sends \cup Streams

\* Completion without and with an error, CancelInvocation.
Ends == {"completion", "failure", "cancel"}

ASSUME ConnectionAssumption ==
  /\ None \notin Calls
  /\ Sends \cap Streams = {}
  /\ {HasOnError, HubCloses, CanRaise, CanFail} \subseteq BOOLEAN
  /\ Repeats \subseteq Calls /\ EndKinds \subseteq Ends
  /\ MaxItems \in Nat /\ MaxEvents \in Nat /\ MaxLosses \in Nat

VARIABLES
  phase,            \* where each call is
  stream_handlers,  \* Connection.stream_handlers, by invocation_id
  wire,             \* messages of the hub on their way
  batch,            \* messages of the frame being dispatched, from this one on
  at,               \* the callback the dispatcher waits in
  asked,            \* calls the hub of this connection has received
  answers,          \* history: what the hub sent for each call
  seen,             \* history: what the callbacks of each call were given
  missed,           \* history: streams whose default callbacks were called
  cut,              \* history: calls with a message in a frame that was left
  events,           \* invocations the hub has sent on this connection
  losses            \* connections that may still end

dispatchVars == <<wire, batch, at>>
callVars == <<phase, stream_handlers>>
hubVars == <<asked, answers, events, losses>>
givenVars == <<seen, missed>>
vars == <<callVars, dispatchVars, hubVars, givenVars, cut>>

\* idle, in the token factory, in transport.send, returned from it, subscribed
\* to the stream in the statement that made it, or in a later one, raised.
Phases == {"idle", "token", "write", "returned", "subscribed", "late", "raised"}

Labels == {"reading", "handler", "next", "on_error", "complete", "error", "stop"}

Messages(types, ids) == [type : types, id : ids, item : 0..MaxItems]

Message == Messages(Ends \cup {"item", "invocation", "close"}, Calls \cup {None})

\* What the hub may answer to a call.
About(c) == Messages(Ends \cup {"item"}, {c})

Init ==
  /\ phase = [c \in Calls |-> "idle"]
  /\ stream_handlers = {}
  /\ wire = <<>>
  /\ batch = <<>>
  /\ at = "reading"
  /\ asked = {}
  /\ answers = [c \in Calls |-> <<>>]
  /\ seen = [c \in Calls |-> <<>>]
  /\ missed = {}
  /\ cut = {}
  /\ events = 0
  /\ losses = MaxLosses
-----------------------------------------------------------------------------
(* Callers.                                                                *)

\* send(): is_running() was true; the token factory may wait.
BeginSend(c) ==
  /\ c \in Sends
  /\ phase[c] = "idle"
  /\ phase' = [phase EXCEPT ![c] = "token"]
  /\ UNCHANGED <<stream_handlers, dispatchVars, hubVars, givenVars, cut>>

MayRegister(c) ==
  \/ c \in Sends /\ phase[c] = "token"
  \/ c \in Streams /\ phase[c] = "idle"

\* Faulty variant: transport.send waits once more after the last byte.
Register_WaitsOn(c) ==
  /\ MayRegister(c)
  /\ stream_handlers' = stream_handlers \cup {c}
  /\ phase' = [phase EXCEPT ![c] = "write"]
  /\ asked' = asked \cup {c}
  /\ UNCHANGED <<dispatchVars, answers, events, losses, givenVars, cut>>

\* The handler is registered before the message goes to the transport.
Register(c) ==
  /\ MayRegister(c)
  /\ stream_handlers' = stream_handlers \cup {c}
  /\ phase' = [phase EXCEPT ![c] = "write"]
  /\ UNCHANGED <<dispatchVars, hubVars, givenVars, cut>>

\* stream() hands out the handler; stream(...).subscribe(...) goes on with it
\* at once, as the tests do, while another caller keeps it for later.
Outcomes(c) == IF c \in Streams THEN {"subscribed", "returned"} ELSE {"returned"}

\* The last byte is written.  Nothing waits between that and the return of
\* send() or stream(), or a subscription in the same statement.
Written(c) ==
  /\ phase[c] = "write"
  /\ \E p \in Outcomes(c) : phase' = [phase EXCEPT ![c] = p]
  /\ asked' = asked \cup {c}
  /\ UNCHANGED <<stream_handlers, dispatchVars, answers, events, losses, givenVars, cut>>

\* transport.send raises, or reconnects and forgets the message.  The handler
\* stays where it is.
NotWritten(c) ==
  /\ CanFail
  /\ phase[c] = "write"
  /\ \E p \in Outcomes(c) \cup {"raised"} : phase' = [phase EXCEPT ![c] = p]
  /\ UNCHANGED <<stream_handlers, dispatchVars, hubVars, givenVars, cut>>

\* StreamHandler.subscribe replaces the callbacks, which only logged so far.
Subscribe(c) ==
  /\ c \in Streams
  /\ phase[c] = "returned"
  /\ phase' = [phase EXCEPT ![c] = "late"]
  /\ UNCHANGED <<stream_handlers, dispatchVars, hubVars, givenVars, cut>>
-----------------------------------------------------------------------------
(* The hub.  It sends nothing after a Close.                               *)

IsEnd(m) == m.type \in Ends

Ended(c) == \E i \in DOMAIN seen[c] : IsEnd(seen[c][i])

Answered(c) == \E i \in DOMAIN answers[c] : IsEnd(answers[c][i])

Closing == \E m \in ToSet(batch \o wire) : m.type = "close"

Answer(c, m) ==
  /\ c \in asked
  /\ ~Closing
  /\ wire' = Append(wire, m)
  /\ answers' = [answers EXCEPT ![c] = Append(@, m)]
  /\ UNCHANGED <<callVars, batch, at, asked, events, losses, givenVars, cut>>

HubItem(c) ==
  /\ c \in Streams
  /\ ~Answered(c)
  /\ Len(answers[c]) < MaxItems
  /\ Answer(c, [type |-> "item", id |-> c, item |-> Len(answers[c]) + 1])

\* Only streams are cancelled.
HubEnd(c) ==
  /\ ~Answered(c) \/ (c \in Repeats /\ Len(answers[c]) < MaxItems)
  /\ \E k \in EndKinds :
       /\ k = "cancel" => c \in Streams
       /\ Answer(c, [type |-> k, id |-> c, item |-> 0])

HubInvokes ==
  /\ events < MaxEvents
  /\ ~Closing
  /\ events' = events + 1
  /\ wire' = Append(wire, [type |-> "invocation", id |-> None, item |-> 0])
  /\ UNCHANGED <<callVars, batch, at, asked, answers, losses, givenVars, cut>>

HubClose ==
  /\ HubCloses
  /\ losses > 0
  /\ ~Closing
  /\ wire' = Append(wire, [type |-> "close", id |-> None, item |-> 0])
  /\ UNCHANGED <<callVars, batch, at, hubVars, givenVars, cut>>

\* Calls that messages of the frame are about.
InFrame == {m.id : m \in ToSet(batch)} \cap Calls

\* The hub and the frames on their way are gone.  The dispatcher finishes
\* its callback and its frame, or is killed in it by a reconnection.
Lose ==
  /\ losses > 0
  /\ losses' = losses - 1
  /\ asked' = {}
  /\ events' = 0
  /\ wire' = <<>>
  /\ \/ batch' = <<>> /\ at' = "reading" /\ cut' = cut \cup InFrame
     \/ UNCHANGED <<batch, at, cut>>
  /\ UNCHANGED <<callVars, answers, givenVars>>
-----------------------------------------------------------------------------
(* Connection.on_message.                                                  *)

\* Faulty variant: completions go to stream handlers, as items do.
Completes_StreamsOnly(c, handlers) == c \in handlers \cap Streams

Completes(c, handlers) == c \in handlers

\* The first callback a message leads to: InvocationHandlers get completions
\* only, and a message nobody waits for is skipped.
Callback(m, handlers) ==
  CASE m.type = "invocation"                                -> "handler"
    [] m.type = "close"                                     -> "stop"
    [] m.type = "item" /\ m.id \in handlers \cap Streams    -> "next"
    [] m.type = "cancel" /\ m.id \in handlers \cap Streams  -> "error"
    [] m.type = "failure" /\ HasOnError                     -> "on_error"
    [] IsEnd(m) /\ m.type # "cancel" /\ Completes(m.id, handlers) -> "complete"
    [] OTHER                                                -> "reading"

\* Nobody has subscribed to the stream: its callbacks are those of __init__.
\* They only log, but are given the freedom to wait all the same.
Default(c) == c \in Streams /\ phase[c] \notin {"subscribed", "late"}

ToCall(label) == label \in {"next", "complete", "error"}

Enter(m, label) ==
  /\ at' = label
  /\ seen' = IF ToCall(label) THEN [seen EXCEPT ![m.id] = Append(@, m)] ELSE seen
  /\ missed' = missed \cup {c \in Calls : ToCall(label) /\ c = m.id /\ Default(c)}

\* Go on with messages, up to the next callback.
Dispatch(messages, handlers) ==
  LET fires == {i \in DOMAIN messages : Callback(messages[i], handlers) # "reading"}
  IN \/ fires = {} /\ batch' = <<>> /\ at' = "reading" /\ UNCHANGED givenVars
     \/ \E i \in fires :
          /\ \A j \in fires : i <= j
          /\ batch' = SubSeq(messages, i, Len(messages))
          /\ Enter(messages[i], Callback(messages[i], handlers))

\* The next frame: it holds one message of the hub or several.
Receive ==
  /\ at = "reading"
  /\ \E n \in DOMAIN wire :
       /\ Dispatch(SubSeq(wire, 1, n), stream_handlers)
       /\ wire' = SubSeq(wire, n + 1, Len(wire))
  /\ UNCHANGED <<callVars, hubVars, cut>>

\* Faulty variant: return where the loop should continue.
Rest_Return == <<>>

Rest == Tail(batch)

\* A handler of on(), or the next callback of a stream, has returned.
Returns ==
  /\ at \in {"handler", "next"}
  /\ Dispatch(Rest, stream_handlers)
  /\ UNCHANGED <<callVars, wire, hubVars, cut>>

\* on_error has returned; only now are the handlers of the call looked up.
ErrorReported ==
  /\ at = "on_error"
  /\ \/ /\ Completes(Head(batch).id, stream_handlers)
        /\ Enter(Head(batch), "complete")
        /\ UNCHANGED batch
     \/ /\ ~Completes(Head(batch).id, stream_handlers)
        /\ Dispatch(Rest, stream_handlers)
  /\ UNCHANGED <<callVars, wire, hubVars, cut>>

\* Faulty variant: the handler is not unregistered.
Unregister_Never(c) == stream_handlers

\* Faulty variant: the comparison of the filter is the wrong way round.
Unregister_Others(c) == stream_handlers \cap {c}

\* The list is filtered as it is now, not as it was before the callback.
Unregister(c) == stream_handlers \ {c}

EndReturns ==
  /\ at \in {"complete", "error"}
  /\ stream_handlers' = Unregister(Head(batch).id)
  /\ Dispatch(Rest, stream_handlers')
  /\ UNCHANGED <<phase, wire, hubVars, cut>>

\* Faulty variant: the rest of the frame is left for later.
AfterRaise_Rest == Tail(batch)

AfterRaise == <<>>

\* The exception goes to the websocket library: the rest of the frame is
\* not dispatched, and the handler of an end stays registered.
Raises ==
  /\ CanRaise
  /\ at \in Labels \ {"reading", "stop"}
  /\ ~(ToCall(at) /\ Default(Head(batch).id))
  /\ batch' = AfterRaise
  /\ at' = "reading"
  /\ cut' = cut \cup InFrame
  /\ UNCHANGED <<callVars, wire, hubVars, givenVars>>

\* stop() has returned, and so does on_message; the connection has ended.
StopReturns ==
  /\ at = "stop"
  /\ losses' = IF losses > 0 THEN losses - 1 ELSE 0
  /\ asked' = {}
  /\ events' = 0
  /\ wire' = <<>>
  /\ batch' = <<>>
  /\ at' = "reading"
  /\ UNCHANGED <<callVars, answers, givenVars, cut>>
-----------------------------------------------------------------------------
CallStep(c) == Register(c) \/ Written(c) \/ NotWritten(c)

DispatchStep == Receive \/ Returns \/ ErrorReported \/ EndReturns \/ Raises \/ StopReturns

Next ==
  \/ \E c \in Calls : BeginSend(c) \/ CallStep(c) \/ Subscribe(c) \/ HubItem(c) \/ HubEnd(c)
  \/ HubInvokes \/ HubClose \/ Lose
  \/ DispatchStep

Spec == Init /\ [][Next]_vars

\* gevent runs the greenlets that can run, and the hub ends what it was asked.
Fairness ==
  /\ \A c \in Calls : WF_vars(CallStep(c)) /\ WF_vars(HubEnd(c))
  /\ WF_vars(DispatchStep)

FairSpec == Spec /\ Fairness
-----------------------------------------------------------------------------
(* Properties. *)

\* Every variable keeps to its type; only the dispatcher of a frame waits in
\* a callback.
TypeOK ==
  /\ phase \in [Calls -> Phases]
  /\ stream_handlers \subseteq Calls
  /\ wire \in Seq(Message) /\ batch \in Seq(Message)
  /\ at \in Labels /\ (at = "reading" <=> batch = <<>>)
  /\ asked \subseteq Calls
  /\ answers \in [Calls -> Seq(Message)]
  /\ seen \in [Calls -> Seq(Message)]
  /\ missed \subseteq Streams /\ cut \subseteq Calls
  /\ events \in 0..MaxEvents
  /\ losses \in 0..MaxLosses

\* Messages the dispatcher has not handed to the callbacks of a call yet.
Pending == (IF at \in {"reading", "on_error"} THEN batch ELSE Tail(batch)) \o wire

\* What the hub answers on a connection that lives is handed to the callbacks
\* of the call, all of it and in the order of the hub, up to the first end.
\* A callback that raises costs this only to the calls its frame is about.
InOrder ==
  \A c \in asked \ cut :
    \/ answers[c] = seen[c] \o Only(Pending, About(c))
    \/ Ended(c) /\ IsPrefix(seen[c], answers[c])

\* A handler leaves stream_handlers only after its call has ended, whatever
\* other calls end or are registered while callbacks wait.
KeptUntilEnd == [][\A c \in stream_handlers \ stream_handlers' : Ended(c)]_vars

\* The handler of a call that has ended is unregistered before the dispatcher
\* turns to another message, so that handlers do not pile up; except for the
\* calls of a frame that a raised exception or a kill has cut short.
Released ==
  \A c \in stream_handlers \ cut :
    Ended(c) => at \in {"complete", "error"} /\ Head(batch).id = c

\* A caller that subscribes in the statement that calls stream() gets every
\* message of its stream: the default callbacks are never given one.
MissesNothing == \A c \in missed : phase[c] # "subscribed"

\* A call that has reached the hub ends, unless its connection does or a
\* frame that is about it is cut short.
EventuallyEnds == \A c \in Calls : c \in asked ~> c \notin asked \/ Ended(c) \/ c \in cut

Registered == {c \in Calls : phase[c] \notin {"idle", "token"}}

LastItem ==
  [c \in Calls |-> LET items == Only(seen[c], Messages({"item"}, {c}))
                   IN IF items = <<>> THEN 0 ELSE Last(items).item]

EndsGiven == [c \in Calls |-> Len(Only(seen[c], Messages(Ends, {c})))]

Results == INSTANCE CallResults
  WITH registered <- Registered, got <- LastItem, ends <- EndsGiven, broken <- cut

\* Items in order, one end, and nothing after it, for every call, even if the
\* hub ends calls twice and connections are lost; only a call whose frame was
\* cut short, and whose handler may have stayed, can be given an end again.
ImplementsCallResults == Results!Spec
===============================================================================
