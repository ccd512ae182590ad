---------------------------- MODULE MCHubProtocol ----------------------------
(***************************************************************************)
(* HubProtocol for TLC: messages of every type that is decoded on its own  *)
(* path, and of each way not to be decoded.                                *)
(***************************************************************************)
EXTENDS HubProtocol

Wire(type, elements, kind, streams, size) ==
  [type |-> type, elements |-> elements, kind |-> kind, streams |-> streams, size |-> size]

\* Stream start, item of the greatest length, void completion, ping; a result
\* of 128 bytes, an unknown result kind, a binding failure, an object without
\* a type, an empty one.
MCHubMessages ==
  {Wire(1, 6, 0, TRUE, 30), Wire(2, 4, 0, FALSE, 127), Wire(3, 4, 2, FALSE, 5),
   Wire(6, 1, 0, FALSE, 1),
   Wire(3, 5, 3, FALSE, 128), Wire(3, 5, 7, FALSE, 9), Wire(-1, 3, 0, FALSE, 3),
   Wire(0, 2, 0, FALSE, 2), Wire(0, 0, 0, FALSE, 1)}
===============================================================================
