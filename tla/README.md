# Verification of gevent-signalrclient

TLA+ specifications of the SignalR client in `src/geventsignalrclient`, checked
with TLC and proved about with TLAPS.  Paths below are relative to that
directory; line numbers are those of the files as they are in `src/`.

## 1. The system

A `Connection` (connection.py) is a SignalR client: the application registers
callbacks, calls `start()`, and then sends invocations and starts streams.  A
`WebsocketTransport` (transport/websocket.py) keeps one `WebSocketApp` of the
websocket-client library under it, and with `with_automatic_reconnect` replaces
it when it is lost.  Everything runs in gevent greenlets: there is no parallelism,
but control may change hands at each wait: on the network (negotiation, token
factory, connecting, closing), in `gevent.sleep`, in `Greenlet.kill`, and inside
every callback of the application.  Between two waits code runs undisturbed.

| Component | State | Operations | Talks to |
|---|---|---|---|
| `WebsocketTransport` | `_state`, `handshake_received`, `_ws`, `_greenlet` | `start`, `stop`, `send`, `handle_reconnect`, `deferred_reconnect`; callbacks `on_open`, `on_message`, `on_close`, `on_socket_error` | called by users, by the socket greenlet, by the keep-alive; calls `Connection.start/stop/on_message`, the retry handler, the library |
| `ConnectionStateChecker` | `running`, `last_message` | `start`, `run`, `stop` | its greenlet pings through `transport.send` |
| retry handlers | `reconnecting`, `attempt_number` | `next`, `reset` | called by the transport |
| `Connection` | `stream_handlers`, `handlers`, `headers`, `_on_error` | `start`, `stop`, `send`, `stream`, `on`, `on_message` | transport below, callbacks above |
| `StreamHandler`, `InvocationHandler` | id and callbacks | `subscribe` | called by `on_message` |
| `Subject` | connection, target, semaphore | `start`, `next`, `complete` | `transport.send` under the semaphore |
| hub protocols | record separator | `parse_messages`, `encode`, `decode_handshake` | pure, except that the JSON encoder edits what it encodes |
| `ConnectionBuilder`, exceptions | options | `with_*`, `build` | sequential, before anything runs |

What is hard about it:

* a reconnection runs in whichever greenlet met the dead socket: a user in
  `send`, the keep-alive, a deferred reconnection, or the socket greenlet
  itself, which then kills itself; two of them may reconnect at the same time;
* the state is shared between the callbacks of the present `WebSocketApp` and
  those of an earlier one that has not finished its teardown;
* `handshake_received` decides what the next frame is taken for, and it is reset
  in some of the places where a connection ends and not in others;
* the keep-alive pings also while a connection is being established;
* callbacks of the application run inside the dispatch of a frame; they wait,
  they send, they raise;
* waits have a budget, kills have a timeout.

What makes the components correct:

* transport: `is_running()` and "connected" tell the truth about what is behind
  them; one socket at a time; the handshake comes first and its answer is
  recognised; `start()` settles; with reconnection the connection comes back;
* keep-alive: one greenlet, and `running` never outlives it;
* retry handlers: no wait beyond the budget;
* connection: each call is answered by its own messages, in order, with one end,
  and is not forgotten before that end;
* subject: start before items, no gap on a connection, the semaphore given back,
  and nobody waits for ever for a greenlet that waits for him;
* negotiation: a socket dials what its own negotiation named, with a token meant for
  it, although url and headers are shared;
* protocols: the parser keeps its place in a frame, and a frame is dispatched whole or
  not at all; what is sent has the documented layout.

## 2. Modules

| Module | What it is |
|---|---|
| `ReconnectionHandler` | the two retry handlers: `next`, `reset`, the budget |
| `Transport` | `WebsocketTransport`, `ConnectionStateChecker` and the library under them, with all greenlets; EXTENDS `ReconnectionHandler` |
| `ConnectionLifecycle` | abstract: the life of a connection as a listening application sees it; `Transport` implements it |
| `TransportProofs` | type correctness and the three "backed" invariants of `Transport` |
| `ListenerProofs` | an application that only listens: one socket, one keep-alive, the state tells the truth, and `Transport` implements `ConnectionLifecycle` |
| `CallResults` | abstract: what a caller of `send`/`stream` is promised |
| `Connection` | `send`, `stream`, `subscribe`, `on_message`: registration and dispatch; implements `CallResults` |
| `ConnectionProofs` | no handler is lost, none is left behind, no message missed; types |
| `CallResultsProofs` | answers come in order, and `Connection` implements `CallResults` |
| `Subsequences` | the elements of a sequence that are in a set, in their order |
| `SequenceFacts` | lemmas: induction and recursion over the naturals, sequences in parts, and `Subsequences` |
| `Subject` | `send(method, subject)`, `next` and `complete` under the semaphore, over reconnecting connections |
| `SubjectProofs` | all four invariants of `Subject` |
| `HubProtocol` | frames to messages in JSON and MessagePack, and the layout of what the client sends |
| `HubProtocolProofs` | all five invariants of `HubProtocol` |
| `Negotiation` | url, headers and tokens of a start |
| `NegotiationProofs` | all four invariants of `Negotiation` |
| `MCTransport`, `MCConnection`, `MCHubProtocol` | symmetry sets and the set of messages for TLC |

The modules share no variables: each describes its part of the code in full and what it
needs of the others by what they do to it.  `Transport` is the most detailed about
connections; `Subject` has the part of it that a holder of the semaphore meets, and
`Connection` only that messages are written or not and that connections end.

### Transport

`pc[p]` names the wait a greenlet is in; an action is the code from one wait to
the next.  Greenlets are `Users`, `Apps` (a `WebSocketApp` and the greenlet of its
`run_forever`), `Checkers` (keep-alive) and `Deferreds` (`deferred_reconnect`).

| Wait | Code |
|---|---|
| `start` | token factory and `negotiate` in `Connection.start` |
| `token` | the token factory of `Connection.send`, connection.py 387-391 |
| `write`, `greeting` | `ws.send` in `WebsocketTransport.send`, 279: of a message, and of the handshake request in `on_open`; `victim` is the socket that was read before the wait |
| `notify` | the `on_reconnect` callback, `handle_reconnect` 303-304, which may raise (`NotifyRaises`) |
| `closing`, `reclosing` | `WebSocketApp.close` in `stop()`, called by the application and by `handle_reconnect` |
| `kill`, `join` | `Greenlet.kill(block=True, timeout=10)`, 314: before and after the exception reaches the victim |
| `restart` | token factory and `negotiate` inside `handle_reconnect`, 318 |
| `spawned` | a greenlet that has not run yet |
| `dialing`, `upgrading` | `run_forever` up to TCP/TLS, and up to `on_open` |
| `reading` | the read loop of `run_forever` |
| `callback`, `refused` | a callback out of `on_message`; the `on_close` callback for a refused handshake |
| `cberror`, `error` | the `on_close` callback of `on_socket_error`, after an exception of a callback or of the socket |
| `teardown` | the end of `run_forever`, up to `on_close` |
| `ending`, `enderror` | the application's `on_close` callback at that end, 236-238, and once more from `on_socket_error` when the first one raised |
| `sleep` | `gevent.sleep` of the keep-alive or of `deferred_reconnect` |

`After(p)` and `Raised(p)` say where a transport call returns to in each kind of
greenlet, so that `send` and `handle_reconnect` are written once.  `CloseOps` says what an
`on_close` callback may do: raise (`CloseRaises`; `OnCloseRaised` is where websocket-client goes
on from there), or wait for something that the application holds around a call which is
killing this very greenlet (`HeldUp`), as the `on_close` of `Subject` does.  `stop()` is an
action where it does something (`connected`); otherwise it is an early return.
The hub and the network are external: `link` is the socket as the operating system
sees it (`broken` is a lost connection nobody noticed), `peer` how far the hub is with the
handshake.  `Protocol` decides what becomes of a handshake response in the place of a message, and
of a message in the place of a response: JSON reads either, MessagePack raises (`Garbled`).  Clearing `peer` at the end of a socket only makes equal states equal.

`ConnectionLifecycle` is refined with `phase` computed from the living socket
(`SocketPhase`) and `open` from the state: one socket after the other, each accepted
once at most, and "connected" reported for an accepted one only.

### Connection

A call goes idle, `token`, `write`, then `returned`, `raised`, or for a stream
`subscribed` when the statement that called `stream()` subscribes at once; `Subscribe` is the caller
that does it later (`late`).  The handler is registered before the write, after the
token was fetched.  `Receive` takes a frame of one or more messages off the wire;
`Dispatch` skips messages nobody waits for, up to the next callback, and `at` names
that callback; each return is an action, as other greenlets run during the callback.  The
default callbacks of a stream are given the freedom to wait, which they do not use.
`answers`, `seen`, `missed` and `cut` are history: what the hub sent for a call, what its
callbacks got, which streams' default callbacks were called, and which calls had a
message in a frame that an exception or a kill has cut short.  Two assumptions
simplify it: one dispatcher runs at a time, and one handler of `on()` is registered
before the start.  `Transport` shows where the first may fail (overlapping
reconnections).

### Subject

| Wait | Code |
|---|---|
| `token` | the token factory in `Connection.send`, before the subject is attached |
| `wait` | the semaphore, messages/\_\_init\_\_.py 399, 410, 422 |
| `write`, `notify`, `join`, `restart` | as in `Transport`, inside `transport.send` |
| `dialing`, `reading`, `teardown` | a socket greenlet; `ending` tells whether its call is made by the `on_close` callback of `on_socket_error`, which comes before the state is set, or by that of the teardown |

`issued` numbers items and completions in the order the semaphore was taken, also those
a reconnection swallows, and `inbox[g]` is what the hub behind a socket got.  `Kill`
releases what the killed greenlet holds, as the `with` statement does.  A reconnection
handler is installed: without one there is nothing to reconnect, and a failed write
raises out of the `with`.

### HubProtocol

A frame holds messages as a type, a number of elements and a length in bytes; `offset` is
where the parser stands, in bytes for MessagePack and in records for JSON.  `Parse` is one
round of the loop of `parse_messages`, `ParseRaises` any exception in it, which drops
the frame, and `Dispatch` hands the list to `Connection.on_message`.  The first frame begins with
the handshake response.  `Encode` is the layout of each class of message of the
client, from the attributes its objects have.

### Negotiation

Greenlets share `url` and the dictionary of headers.  `dicts` keeps every dictionary that
has been `Connection.headers`, because a `WebSocketApp` refers to the one it was made
with and reads it only when it connects (`Dial`).  A hub is of one kind: it takes
connections itself or redirects to Azure.  `posts` and `dials` are history.

## 3. Runs

All runs use deadlock checking off: an application that calls nothing more, a
connection that has ended without a retry handler and a finite supply of faults
or calls all stop the system rightfully.

Runs that pass:

| Run | Checks | What it shows |
|---|---|---|
| `raw_retries` | `TypeOK`, `RunningIsBacked`, `ConnectedIsBacked` | MessagePack; four faults: enough to lose a connection and exhaust a budget of two waits; deferred reconnections run beside the keep-alive, kills may time out, `on_close` and `on_reconnect` may raise |
| `user_sends` | `KeepAliveBacked`, `KillsEnd` | JSON; user, callbacks and keep-alive send over connections that are lost for ever, the user stops, `on_close` raises or waits for whoever kills its greenlet: while no ping raises, `running` still has its greenlet, and kills meet every wait of the victim |
| `listener` | `OneSocket`, `OneChecker`, `AcceptedIsOpen`, `OpenIsAccepted`, `OnlyPingsPrecede`, `Recovers`, `ImplementsLifecycle` | JSON; no user calls after `start()`, slow connects, faults for ever, room for three sockets; callbacks that send and raise |
| `start_settles` | `RunningIsBacked`, `Settles`, `RefusalShows` | JSON; no retry handler, all faults for ever, a user who starts again and stops, an `on_open` callback, callbacks that send and raise |
| `dispatch` | `TypeOK`, `InOrder`, `Released`, `MissesNothing`, `KeptUntilEnd`, `ImplementsCallResults`, `EventuallyEnds` | an invocation and a stream of two items that may be ended twice, an invocation by the hub, Close, failed writes, callbacks that raise, one lost connection, early and late subscription |
| `client_stream` | `TypeOK`, `OneHolder`, `StartFirst`, `Gapless`, `CallsReturn` | a producer, an `on` callback that calls `next()`, an `on_close` that calls `complete()` wherever it is called, pings, one loss, two sockets |
| `protocol` | `TypeOK`, `Aligned`, `AllOrNothing`, `NoneDropped`, `KeysAsDocumented` | all pairs of frames of up to two messages out of nine, well-formed and not, in both protocols |
| `negotiation` | `TypeOK`, `OwnAnswer`, `OwnToken`, `NegotiatesAsItself` | two starts and a send at once, both kinds of hub, all schemes, two sockets, four tokens |

Runs that find a disagreement between a comment or docstring and the code (section 6):
`send_before_handshake`, `send_dropped`, `second_start`, `msgpack_layout`.

Bounds and why they are enough:

* `Apps`: two suffice for an old and a new socket; `listener` has three, so that
  a doubled reconnection would have room.  A start waits for a socket greenlet to be
  finished when the bound is reached (`Free`), as do `Defer` and `Accept` for a
  deferred or keep-alive greenlet: these guards are bounds, not code.  In `user_sends` there
  is one socket, which is remade when it is gone: a kill concerns the greenlet of `_ws` and whoever
  kills it; what a second greenlet adds there is that the victim is no longer `_ws`, and that
  it may have dropped the exception (`Survived`), which `raw_retries` meets.
* `MaxFaults` with `Endless = FALSE` limits how much goes wrong in one
  behaviour, for state-space size.  Four faults cover a loss during the recovery from a
  loss.  With `Endless = TRUE` the number is without effect.
* `MaxAttempts = 1` reaches both limits of the budget; `AttemptCap` identifies the
  counts past it, which behave alike.
* `MayWake` is the timing assumption of `SlowConnect = FALSE`: no keep-alive or
  deferred greenlet wakes during a connection attempt.  `raw_retries` and `send_dropped` are
  smaller with it; the other runs of the transport do without it.
* `MaxItems`, `MaxEvents` and `MaxLosses` bound what the hub sends and how often
  connections end; two items show an order, one loss a change of connection.
* `MaxMessages = 2` in `client_stream`: two numbered messages on two sockets show a gap or
  a change of order; `Message` stops there, and calls under way go on.  When both
  sockets are in use a restart fails (`RestartFails`), as it may at any time.
* `MaxFrames = 2`, `MaxBatch = 2`: the frame of the handshake and one more; the parser
  has passed one message when it comes to the second.  Lengths 127 and 128 are the
  two sides of the limit of one byte.
* `MaxTokens = 4`: a token for each of two starts, and two more in between.

## 4. Fairness

gevent runs every greenlet that can run, and the network calls it waits in have an end, so each
greenlet is weakly fair in its own steps.  `Age` is fair: time passes.  An answer
to a handshake and the end of a refused connection are part of the fair
`SocketStep`; messages, faults, exceptions of `on_close` (`UnowedStep`) and calls of the
application are not owed to anybody.  In `Connection` callers, the dispatcher and the hub's ends are fair:
callbacks return or raise.  In `Subject` every greenlet in a call or on its way out is
fair, and a free semaphore wakes who waits for it; with two producers that go on for
ever weak fairness of `Acquire` would not do, as gevent wakes waiters in their order
and the model does not keep one, so `client_stream` has one producer, whose competitors
are callbacks that come to an end.  `Recovers` is stated for behaviours in which faults
(`NetworkFault`) and pings during connection attempts (`EarlyPing`) do not recur for
ever and no callback raises.  Liveness runs use no symmetry.

## 5. Proofs

Every proof is for any sets of greenlets, calls and messages, any budget and any number
of faults and frames.  The assumptions are `HandlerAssumption`, `TransportAssumption`,
`ConnectionAssumption`, `SubjectAssumption`, `HubProtocolAssumption` and
`NegotiationAssumption`: the kinds of greenlets and of calls are disjoint, messages have
the fields of a message, and parameters have their types.  Two hypotheses, `PingsReturn` and
`Listening`, restrict the parameters of some theorems; they are named there and explained
below.

### Transport, for every application

* `TypeCorrect`: `Spec => []TypeOK`.  The part that is not mere typing is that the
  attempt counter stays within `AttemptCap`: it counts only while there is budget or
  while it is below the cap.
* `AlwaysRunningIsBacked`, `AlwaysConnectedIsBacked`.  The inductive invariant is
  `Backed`: both properties with `TypeOK`, `SocketsLive` (a socket that takes writes
  has a greenlet that has run) and `RetryHasHandler`.  They lean on one another: a
  reconnection may end because it finds the state "connected", and then
  `ConnectedIsBacked` must provide the greenlet `RunningIsBacked` needs; it may end
  with a write that works, and then `SocketsLive` does; a handler that gives up
  excuses only if there is one.  Helper lemmas cover the shared shapes of
  steps: a greenlet moves on and ends nothing (`QuietStep`), the state becomes
  "disconnected" (`DownStep`), a kill, a close, a reconnection still under way;
  `BackedStep` then has one step per action.
* `KeepAliveIsBacked`, under `PingsReturn`: no exception leaves a ping of the keep-alive.  That
  takes two things.  Attempts of a reconnection do not fail before a socket is made, or they are not
  counted, so that the handler does not give up; and `on_reconnect` does not raise.  Both are
  needed: either exception leaves `handle_reconnect`, `send` and `ConnectionStateChecker.run`
  (websocket.py:303-304 and 322, transport/\_\_init\_\_.py:103-108), which ends the checker with
  `running` set (section 6); TLC finds the first with the constants of `raw_retries`, the second
  with those of `user_sends` and `NotifyRaises`.  Under `PingsReturn` kills that time out, users who
  stop and `on_close` callbacks that raise or wait leave a checker alive until `running` is cleared.

### Transport, for a listener (`ListenerProofs`)

`Listening` is an application of which one greenlet calls `start()` and then at most `stop()`, at any
time and any number of times; negotiations succeed, and a killed greenlet ends in time, unless its
`on_close` waits for the killer.  Its callbacks may send and raise, `on_open`, `on_close` and
`on_reconnect` included, the protocol is either, the network may fail in every other way, connects
may be slow, and there may be any number of sockets and checkers.  The run `listener` is an instance of it, without stops.
Each part is needed: TLC finds two sockets or two checkers with a second greenlet that starts, with
sends of the application (`OneChecker`), with failing negotiations and a deferred reconnection, and
with a kill that times out.

* `ListenerHasOneSocket`, `ListenerHasOneChecker`, `ListenerIsOpen`, `ListenerPingsOnly`; and
  without an `on_open` callback, which may be raised for a refused handshake,
  `ListenerIsAccepted`.
* The inductive invariant is `ListenerInv`.  One socket is not inductive by itself: it takes
  that every living socket greenlet is the one of `_ws` and can never get past the kill in
  its own reconnection (`SocketIsNewest`), that a checker that kills or joins has `_ws` for
  its victim and restarts only what is gone (`CheckerWorks`), so that there is never a
  second one to do the same (`OneChecker`), and what the state and `handshake_received` say of the
  newest socket (`StateIsOfNewest`, `AcceptedOnce`).
* `ListenerImplementsLifecycle`: `Spec => ImplementsLifecycle`.  `StandsOf` shows what the mapped
  phase is under `ListenerInv`, then `LifecycleStep` maps each action to a step of
  `ConnectionLifecycle` or a stutter.  This one is for applications that do not stop: a `stop()` that
  waits for the close frame while the keep-alive reconnects ends by setting "disconnected" and
  clearing `handshake_received` for the new connection (websocket.py:102), which is then
  accepted a second time.

### Connection

* `HandlersAreKept`: `Spec => KeptUntilEnd`.  The invariant `DispatchInv` says that
  while the dispatcher waits in a callback, the head of `batch` is the message it
  returns to, and that if that message ends a call, the call has been given its end.
  `DispatchEnters` shows it for wherever `Dispatch` stops.
* `ConnectionTypes`, `EndedAreReleased`, `SubscribersMissNothing`, from the invariant
  `CallInv`: the three properties with `AnswersComeLate`, which says that all messages on
  their way, and all ends given, are those of calls whose `transport.send` has returned.  So a call that is
  registered anew has not ended (`Released`), and a prompt subscriber has subscribed before
  the first message of his stream can be dispatched (`MissesNothing`).  `DispatchKeeps` is the
  common part of all steps of the dispatcher.
* `AnswersInOrder`: `Spec => []InOrder`, from `StoryInv` (`CallResultsProofs`).  The story of a call is
  what its callbacks were given followed by what is still on its way to them; for a call that was
  cut this is not what the hub sent, but it is still `Sound`: items grow, nothing comes after an
  end, all of it was sent.  Every step leaves a story as it is (a message moves
  from the frame to a callback), adds the hub's answer at its end, or leaves a part of it out
  (a frame that is cut, a connection that is lost).
* `ConnectionImplementsCallResults`: `Spec => ImplementsCallResults`.  `GivenIsSound` draws
  from `StoryInv` what `CallResults` demands of items and ends; `MovesMap`, `CallersMap`,
  `CutsMap` and `DispatcherMaps` map the steps.

### Subject and Negotiation

* `SubjectTypes`, `SemaphoreIsGivenBack`, `StreamStartsFirst`, `StreamIsGapless`, from one
  invariant `IInv` (SubjectProofs).  `Gapless` alone is not inductive: what a hub has got must be
  related to what the holder is about to write.  `Numbers` says that with the semaphore free the
  present connection, if it has carried anything, has got the last number; that a
  holder writes the next one; and that a holder who cannot write leaves no present connection
  behind that has carried something.  `StartAlone` and `OneSend` do the same for the start.
* `NegotiationTypes`, `OwnAnswerIsDialed`, `OwnTokenIsShown`, `HubIsAskedAsTheApplication`.
  `UrlFits` keeps host and security of the shared url through all starts, and `SocketsFit`
  says of a socket that has not connected yet what `OwnAnswer` and `OwnToken` say of
  one that has.

### Hub protocols

* `ProtocolTypes`, `ParserStaysAligned`, `FramesAreWhole`, `DocumentedFramesArrive`, from
  `ParserInv` (`HubProtocolProofs`), for frames and messages of every length.  The
  argument is in three layers.  `VarintDefined` shows that the recursion of `_to_varint` ends,
  and `VarintBytes` that a number below 128 is one byte and any other begins with a byte
  of 128 or more; so a message the parser reads at all is followed by the place it goes
  on at (`NextIsBehind`), whatever its size.  `StartsGrow` and `MadeGrows` say where messages of a body begin and what they
  make; as no two begin at the same place, the parser is at exactly one (`AtOne`).
  Then the invariant: `Aligned` needs that a frame in the parser is the one with the handshake
  or follows one that got through, hence `HandshakeFirst`, which follows the handshake's frame
  from the network to the log, and that `handshake_received` is set once that frame is through.
* `KeysAreDocumented`, class by class.

### Induction

The theorems of the library for induction and recursion take an operator as a parameter, which
the provers cannot instantiate.  `SequenceFacts` has them with a set in the place of the predicate
(`SetInduction`) and a function in the place of the operator (`Recursion`), from
`NatLessThanWellFounded` and `WFMin`.  Recursive definitions that proofs speak of are
therefore functions: `ToVarint`, `Sums` and `Joins` in `HubProtocol`, `Selected` in
`Subsequences`, where `Only(s, T)` is what `SelectSeq` would give, a definition the provers cannot
expand.

### Only model-checked

Everything that is liveness: `Recovers`, `KillsEnd`, `Settles`, `RefusalShows`, `EventuallyEnds`, `CallsReturn`.
They rest on fairness and on ENABLED, which the provers do not reach.  All invariants and
action properties of the passing runs, and both refinements, are theorems.  `LaidOutAsDocumented`,
`HandshakeFirst` of `Transport` and `NothingDropped` are false (section 6).

## 6. Where code and documentation disagree

1. `send_before_handshake`: `is_running()` is true while connecting
   (transport/websocket.py:95), so a send can be the first frame the hub gets.
2. `send_dropped`: a send on a dead connection reconnects and returns; the message is
   gone (websocket.py:298).
3. `second_start`: `on_close` does not reset `handshake_received` (websocket.py:236), so
   after a connection closed by the hub a JSON client takes the response to its next handshake,
   `{}`, for an ordinary frame and skips it as an object without keys (json.py:40): the hub has accepted,
   the state stays "connecting" and `on_open` is not called (docstring at connection.py:315).  A
   MessagePack client raises on that frame, and `on_socket_error` sets "disconnected".
4. `msgpack_layout`: `_encode_message` leaves out the attributes an object lacks instead of
   filling their places (msgpack.py:78), so the invocation that starts a client stream has no
   invocation id and its target stands in that place; msgpack.py:88 lists it as the third element.
   The completion of a client stream likewise ends before its result kind, and the
   invocation of `send` before its stream ids, where the decoder of this project would raise.

`dispatch` excepts one more, which is what the code does with exceptions:
a callback that raises takes the rest of its frame with it, so other calls in that frame are
never told that they ended (connection.py:466; docstring at 367); `cut` records it.
A handler that stays after its callback raised is called again if the hub ends the call again.

Two more belong to the model and have no run of their own:

* After a refused handshake `on_message` sets "connected" and calls `on_open` all the same
  (websocket.py:267, `RefusedState`; docstring at connection.py:315).  `OpenIsAccepted` is
  therefore false with `HasOnOpen = TRUE`; `RefusalShows` says that the state does not stay so.
* An exception of a callback for a message reaches `on_socket_error`, which calls `on_close` and sets
  "disconnected" while the socket stays open and messages go on to arrive (websocket.py:259,
  `CallbackErrorHandled`; docstring at connection.py:306).  In `listener` it is the step
  `Falter` of `ConnectionLifecycle`.

Restrictions that matter:

* `Settles` excepts a JSON client with `handshake_received` left over (`Unnoticed`), for the
  reason of item 3: such an attempt may stay "connecting" for good.  It is checked without a retry
  handler, and for attempts that are made with `start()`; a `stop()` during one of them has no effect.
* `KillsEnd` says that a join ends, not that it ends at once: it takes its ten seconds if the `on_close`
  callback in the victim's teardown waits for whoever joins (`HeldUp`), or if the victim was just
  closing another socket than its own, where websocket-client drops the exception (`Survived`).
  `JoinEnds_Untimed` shows that without the timeout it would be for ever.
* `KeepAliveBacked` needs pings that return: the keep-alive ends with `running` set, and no later
  connection starts another, when `on_reconnect` raises in a ping (websocket.py:304) or the
  handler gives up in one.  It is checked and proved without either.
* `Recovers` needs pings that do not hit every attempt: each ping of the keep-alive during
  an attempt to connect fails, and the reconnection it starts kills the attempt, for ever
  if connecting always takes longer than the second the keep-alive sleeps.  A ping
  that gets through before the handshake is the one frame that precedes it
  (`OnlyPingsPrecede`).
* `NoneDropped` is for messages below 128 bytes: a longer one makes `parse_messages` take the
  first byte of the prefix for the length, and the frame is lost.
* `Aligned`, `AllOrNothing` and `NoneDropped` are for connections whose first frame got through:
  a message that raises behind the handshake response leaves `handshake_received` false
  (websocket.py:213); JSON then swallows the first message of the next frame, and
  MessagePack drops every frame from there on.
* `Gapless` is for living connections: a callback killed inside `next()` has used its
  turn, and the connection that dies with it may get a later item.
* `OwnToken` excludes tokens of another redirect only: the token refresh of a concurrent `send()`
  changes the dictionary a socket is about to connect with (connection.py:391), so an
  Azure socket may show the application's token.

Seen while modelling, without a document that says otherwise: with a retry
handler and user sends or failing negotiation, two reconnections can overlap,
leave an orphaned socket whose teardown disturbs its successor, and keep `Recovers`,
`OneSocket` and `OneChecker` from holding, which is why those are claimed
for `listener` only.  A ping in flight during a user's `stop()` fails and reconnects, and so undoes
the stop; a stop that ends only then leaves the new connection unable to tell a message from a
handshake response.  When another greenlet replaces the socket during a write that then fails, the
exception clears the state and `handshake_received` of the new connection (websocket.py:290-292), whose
first message is then taken for a handshake response.  A raw handler hands out `max_attempts + 1` waits,
as test_raw_handler expects.  `allowReconnect` of a Close message is ignored: a Close ends
the connection and its keep-alive.  Handlers of calls that were never written, or whose
connection was lost, stay registered for ever.  When a reconnection swallows the start of a
client stream, its items still go out.  An answer to a negotiation with neither id nor url and
token leaves the old url and headers in use; a hub that redirected once and then answers
with an id is dialed at the redirect's host.  A redirect drops custom headers, and without a
token factory the next negotiation shows the application's hub the Azure token.
INVOCATION_BINDING_FAILURE raises in both decoders, so the branch for it in `on_message`
is never reached.  The JSON encoder changes the object it encodes, so
`InvocationResult.message` has no `invocation_id` and its `repr` raises.
`StreamHandler.subscribe` tests the "next" callback three times, so an "error" that cannot be called is
found out only when it is.

## 7. Not modelled

* In `Transport`, an `on_close` callback that sends (`Subject` has one); `on_close` without a retry
  handler before the exception of a failed write, which is the last thing before it; an `on_reconnect`
  that sends; a token factory that raises in `send()`, which has no effect.  An `on_close` callback
  of `Subject` catches what the calls it makes raise.
* An `on_reconnect` or, for a holder of the semaphore, `on_close` callback that uses the
  subject it was called under: it waits for itself, certainly and without a race.
* `Subject` without a reconnection handler, and writes between the upgrade of a connection and
  its handshake, which are a matter of `Transport`.
* A hub that mixes redirects and direct answers; `skip_negotiation`, with which nothing of
  `Negotiation` runs; query strings and fragments of urls beyond the id.
* A text frame as handshake in MessagePack, the extra element of a Close, and values of fields.
* Several dispatchers at a time in `Connection`, and `on()` during a dispatch.
* The builder's validation, exception classes, logging, `__repr__`, TLS options, and
  `WebsocketTransport.on_reconnect`, which nothing calls.

## 8. What is left

1. Composition of `Transport` with `Connection`, with several dispatchers.
2. A queue of waiters in `Subject`, for `CallsReturn` with several producers.
3. Proofs: the listener's theorems for an application that also sends, which need the overlap
   of two reconnections bounded instead of excluded.
