------------------------------ MODULE HubProtocol ------------------------------
(***************************************************************************)
(* JsonHubProtocol and MessagePackHubProtocol (protocol/): how the frames  *)
(* of the hub become messages for Connection.on_message, and how the       *)
(* client lays out its own.                                                *)
(*                                                                         *)
(* A message of the hub is its type, how many of the elements of its type  *)
(* it has, and its length in bytes.  In MessagePack the length goes before *)
(* the message, and the parser finds its way by it; in JSON every message  *)
(* ends with a separator.  An exception anywhere drops the whole frame.    *)
(***************************************************************************)
EXTENDS Integers, SequencesExt

CONSTANTS
  HubMessages,  \* messages a hub may send: see WireMessage
  Dropped,      \* what on_message gets of a frame that raises
  None,         \* nothing has been encoded
  MaxFrames,    \* bound: frames on a connection, with the handshake's
  MaxBatch      \* bound: messages in one frame

Protocols == {"json", "messagepack"}

\* The elements of each MessageType, as _decode_message has them in a comment;
\* the one of a Close that is optional is left out.
Documented ==
  << <<"type", "headers", "invocation_id", "target", "arguments", "stream_ids">>,
     <<"type", "headers", "invocation_id", "item">>,
     <<"type", "headers", "invocation_id", "result_kind", "result">>,
     <<"type", "headers", "invocation_id", "target", "arguments", "stream_ids">>,
     <<"type", "headers", "invocation_id">>,
     <<"type">>,
     <<"type", "error">> >>

MessageTypes == DOMAIN Documented

\* The first elements of a message of a type, the kind of a completion (error,
\* void, result, or another), whether it has stream ids, its length.
WireMessage ==
  [type : Int, elements : Nat, kind : Nat, streams : BOOLEAN, size : Nat \ {0}]

DecodedMessages == [type : MessageTypes, client_stream : BOOLEAN, of : HubMessages]

ASSUME HubProtocolAssumption ==
  /\ \A m \in HubMessages : m \in WireMessage
  /\ Dropped \notin Seq(DecodedMessages)
  /\ MaxFrames \in Nat /\ MaxBatch \in Nat

VARIABLES
  protocol,            \* Connection.protocol
  handshake_received,  \* WebsocketTransport.handshake_received
  network,             \* frames on their way
  frame,               \* the frame in the parser, if there is one
  offset,              \* bytes behind the parser; messages, in JSON
  messages,            \* the list that is being made of the frame
  log,                 \* history: each frame, and what on_message got of it
  encoded              \* what the client has encoded last

parserVars == <<frame, offset, messages>>
vars == <<protocol, handshake_received, network, parserVars, log, encoded>>

Init ==
  /\ protocol \in Protocols
  /\ handshake_received = FALSE
  /\ network = <<>>
  /\ frame = <<>> /\ offset = 0 /\ messages = <<>>
  /\ log = <<>>
  /\ encoded = None
-----------------------------------------------------------------------------
(* The hub: its first frame holds the handshake response, which messages   *)
(* may follow at once, and the others messages only.                       *)

FramesSent == Len(log) + Len(frame) + Len(network)

HubSends ==
  /\ FramesSent < MaxFrames
  /\ \E n \in 0..MaxBatch : \E body \in [1..n -> HubMessages] :
       /\ n = 0 => FramesSent = 0
       /\ network' = Append(network, [handshake |-> FramesSent = 0, body |-> body])
  /\ UNCHANGED <<protocol, handshake_received, parserVars, log, encoded>>
-----------------------------------------------------------------------------
(* The length of a message, as a variable number of bytes.                 *)

\* _to_varint: seven bits a byte, the lowest first; all but the last marked.
ToVarint[value \in Nat] ==
  IF value \div 128 = 0 THEN <<value % 128>>
  ELSE <<(value % 128) + 128>> \o ToVarint[value \div 128]

\* The bytes of a message with its length, or the message itself, in JSON.
Width(m) == IF protocol = "json" THEN 1 ELSE Len(ToVarint[m.size]) + m.size

\* The sums of the first numbers of a sequence.
Sums(s) ==
  LET sum[n \in 0..Len(s)] == IF n = 0 THEN 0 ELSE sum[n - 1] + s[n]
  IN sum

\* How far the first messages of a body reach.
Reach(body) == Sums([i \in DOMAIN body |-> Width(body[i])])

\* Where message i of a body begins.
Start(body, i) == Reach(body)[i - 1]

\* Faulty variant: the byte of the length itself is not counted.
NextOffset_Body(m) == offset + ToVarint[m.size][1]

\* The parser takes the first byte of the length for all of it.
NextOffset(m) ==
  IF protocol = "json" THEN offset + 1 ELSE offset + ToVarint[m.size][1] + 1

\* MessagePack has no number of 128 or more in one byte.
Unpacks(m) == protocol = "messagepack" => ToVarint[m.size][1] < 128
-----------------------------------------------------------------------------
(* One message.                                                            *)

\* Faulty variant: a completion always has a result.
ElementsRead_Result(m) ==
  CASE m.type = 1 -> 6 [] m.type \in {3, 4} -> 5 [] m.type = 2 -> 4
    [] m.type = 5 -> 3 [] m.type = 7 -> 2 [] OTHER -> 0

\* The elements that _decode_message and get_message index, and so need.
ElementsRead(m) ==
  IF protocol = "json"
  THEN CASE m.type \in {1, 4} -> 5 [] m.type = 2 -> 4 [] OTHER -> 0
  ELSE CASE m.type = 1 -> 6
         [] m.type = 2 \/ (m.type = 3 /\ m.kind = 2) -> 4
         [] m.type = 4 \/ (m.type = 3 /\ m.kind # 2) -> 5
         [] m.type = 5 -> 3
         [] m.type = 6 -> 1
         [] m.type = 7 -> 2

\* Without a type, 0, it is a Close in JSON.  INVOCATION_BINDING_FAILURE, -1,
\* is a MessageType too, but neither protocol makes a message of it.
Known(m) ==
  \/ m.type \in MessageTypes /\ (m.type = 3 /\ protocol = "messagepack" => m.kind \in 1..3)
  \/ m.type = 0 /\ protocol = "json"

\* An empty JSON object is left out.
Skipped(m) == protocol = "json" /\ m.elements = 0

Decodes(m) == Skipped(m) \/ (Unpacks(m) /\ Known(m) /\ m.elements >= ElementsRead(m))

\* Faulty variant: a message without a type keeps none.
Decoded_Untyped(m) == [type |-> m.type, client_stream |-> FALSE, of |-> m]

\* MessagePack makes another class of an invocation with stream ids.
Decoded(m) ==
  [type |-> IF m.type = 0 THEN 7 ELSE m.type,
   client_stream |-> m.type = 1 /\ m.streams /\ protocol = "messagepack",
   of |-> m]

Meaning(m) == IF Skipped(m) THEN <<>> ELSE <<Decoded(m)>>
-----------------------------------------------------------------------------
(* One frame.                                                              *)

Body == Head(frame).body

\* The message the parser is at, if there is one.
At == {i \in DOMAIN Body : Start(Body, i) = offset}

AtEnd == offset >= Start(Body, Len(Body) + 1)

\* parse_messages, for all of the frame or for what follows the handshake.
Receive ==
  /\ frame = <<>> /\ network # <<>>
  /\ handshake_received \/ Head(network).handshake
  /\ frame' = <<Head(network)>>
  /\ network' = Tail(network)
  /\ offset' = 0
  /\ messages' = <<>>
  /\ UNCHANGED <<protocol, handshake_received, log, encoded>>

\* A frame is taken for the handshake that an earlier one, which raised, did
\* not get through.  In JSON its first message is lost to that; MessagePack
\* raises.
Mistake ==
  /\ frame = <<>> /\ network # <<>>
  /\ ~handshake_received /\ ~Head(network).handshake
  /\ network' = Tail(network)
  /\ \/ /\ protocol = "json"
        /\ frame' = <<Head(network)>> /\ offset' = 1 /\ messages' = <<>>
        /\ UNCHANGED log
     \/ /\ protocol = "messagepack"
        /\ log' = Append(log, [frame |-> Head(network), got |-> Dropped])
        /\ UNCHANGED parserVars
  /\ UNCHANGED <<protocol, handshake_received, encoded>>

Parse ==
  /\ frame # <<>> /\ ~AtEnd
  /\ \E i \in At :
       /\ Decodes(Body[i])
       /\ messages' = messages \o Meaning(Body[i])
       /\ offset' = NextOffset(Body[i])
  /\ UNCHANGED <<protocol, handshake_received, network, frame, log, encoded>>

\* Faulty variant: what was parsed before the exception is passed on.
AfterRaise_Parsed == messages

AfterRaise == Dropped

ParseRaises ==
  /\ frame # <<>> /\ ~AtEnd
  /\ ~\E i \in At : Decodes(Body[i])
  /\ log' = Append(log, [frame |-> Head(frame), got |-> AfterRaise])
  /\ frame' = <<>>
  /\ UNCHANGED <<protocol, handshake_received, network, offset, messages, encoded>>

Dispatch ==
  /\ frame # <<>> /\ AtEnd
  /\ handshake_received' = TRUE
  /\ log' = Append(log, [frame |-> Head(frame), got |-> messages])
  /\ frame' = <<>>
  /\ UNCHANGED <<protocol, network, offset, messages, encoded>>
-----------------------------------------------------------------------------
(* The client's messages: their class, and the attributes of its objects.  *)

ClientMessages ==
  [InvocationMessage |-> {"type", "headers", "invocation_id", "target", "arguments"},
   InvocationClientStreamMessage |-> {"type", "headers", "stream_ids", "target", "arguments"},
   StreamItemMessage |-> {"type", "headers", "invocation_id", "item"},
   CompletionClientStreamMessage |-> {"type", "headers", "invocation_id"},
   StreamInvocationMessage |->
     {"type", "headers", "invocation_id", "target", "arguments", "stream_ids"},
   PingMessage |-> {"type"}]

TypeOf ==
  [InvocationMessage |-> 1, InvocationClientStreamMessage |-> 1, StreamItemMessage |-> 2,
   CompletionClientStreamMessage |-> 3, StreamInvocationMessage |-> 4, PingMessage |-> 6]

Priority ==
  <<"type", "headers", "invocation_id", "target", "arguments", "item", "result_kind",
    "result", "stream_ids">>

\* Faulty variant: the keys of JSON stay as the attributes are named.
Renamed_Not(attribute) == attribute

Renamed(attribute) ==
  CASE attribute = "invocation_id" -> "invocationId"
    [] attribute = "stream_ids" -> "streamIds"
    [] OTHER -> attribute

\* An array of the attributes the object has, by priority, or an object.
Encode ==
  /\ \E class \in DOMAIN ClientMessages :
       encoded' =
         [class |-> class,
          elements |-> IF protocol = "json" THEN <<>>
                       ELSE SelectSeq(Priority, LAMBDA a : a \in ClientMessages[class]),
          keys |-> IF protocol = "json" THEN {Renamed(a) : a \in ClientMessages[class]}
                   ELSE {}]
  /\ UNCHANGED <<protocol, handshake_received, network, parserVars, log>>

Next == HubSends \/ Receive \/ Mistake \/ Parse \/ ParseRaises \/ Dispatch \/ Encode

Spec == Init /\ [][Next]_vars
-----------------------------------------------------------------------------
(* Properties. *)

Frames == [handshake : BOOLEAN, body : Seq(HubMessages)]

\* Every variable keeps to its type, and the parser has one frame at most.
TypeOK ==
  /\ protocol \in Protocols
  /\ handshake_received \in BOOLEAN
  /\ network \in Seq(Frames)
  /\ frame \in Seq(Frames) /\ Len(frame) <= 1
  /\ offset \in Nat
  /\ messages \in Seq(DecodedMessages)
  /\ \A i \in DOMAIN log :
       log[i].frame \in Frames /\ (log[i].got # Dropped => log[i].got \in Seq(DecodedMessages))
  /\ encoded # None => encoded.class \in DOMAIN ClientMessages

\* The first sequences of a sequence, one behind the other.
Joins(s) ==
  LET join[n \in 0..Len(s)] == IF n = 0 THEN <<>> ELSE join[n - 1] \o s[n]
  IN join

\* What the first messages of a body mean.
Made(body) == Joins([i \in DOMAIN body |-> Meaning(body[i])])

Meanings(body) == Made(body)[Len(body)]

\* Did the frame with the handshake response get through?
Shaken == log # <<>> /\ log[1].got # Dropped

\* The parser never stands inside a message, however many it has passed: what
\* it has made so far is what is before it in the frame.
Aligned ==
  frame # <<>> /\ (Shaken \/ Head(frame).handshake) =>
    \E i \in 1..(Len(Body) + 1) :
      offset = Start(Body, i) /\ messages = Made(Body)[i - 1]

\* A frame is dispatched with all its messages in the order of the hub, or not
\* at all.  (A frame that is mistaken for the handshake is none of these.)
AllOrNothing ==
  \A i \in DOMAIN log :
    Shaken => log[i].got \in {Dropped, Meanings(log[i].frame.body)}

\* What the comment in the decoder lists, in a length of one byte; a completion
\* without a result ends before it.
Conforms(m) ==
  /\ m.type \in MessageTypes
  /\ m.type = 3 => m.kind \in 1..3
  /\ m.elements = IF m.type = 3 /\ m.kind = 2 THEN 4 ELSE Len(Documented[m.type])
  /\ m.size < 128

\* No frame of messages that keep to the documented layout is dropped, if the
\* frame with the handshake response was not.
NoneDropped ==
  \A i \in DOMAIN log :
    Shaken /\ (\A j \in DOMAIN log[i].frame.body : Conforms(log[i].frame.body[j]))
      => log[i].got # Dropped

\* The keys that the docstrings of messages/__init__.py list for each type.
DocumentedKeys ==
  << {"type", "target", "arguments"}, {"type", "invocationId", "item"},
     {"type", "invocationId"}, {"type", "invocationId", "target", "arguments"},
     {"type", "invocationId"}, {"type"}, {"type"} >>

\* Whatever the client sends in JSON has the keys that are documented for its
\* type, although its objects name them otherwise.
KeysAsDocumented ==
  encoded # None /\ protocol = "json" => DocumentedKeys[TypeOf[encoded.class]] \subseteq encoded.keys

\* In MessagePack every element stands where the comment in the decoder has it.
\* (The message that starts a client stream has its target in the place of the
\* invocation id.)
LaidOutAsDocumented ==
  encoded # None /\ protocol = "messagepack" =>
    IsPrefix(encoded.elements, Documented[TypeOf[encoded.class]])
===============================================================================
