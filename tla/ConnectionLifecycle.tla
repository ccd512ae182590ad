-------------------------- MODULE ConnectionLifecycle --------------------------
(***************************************************************************)
(* What a Connection with automatic reconnection promises an application   *)
(* that only listens: one socket after the other.  Each begins fresh, is   *)
(* accepted by the hub at most once, and is over before it is gone or goes *)
(* at once; the connection is reported as open from an acceptance on, and  *)
(* not beyond the end of the accepted socket.                              *)
(***************************************************************************)
VARIABLES
  phase,  \* of the present socket: "none", "fresh", "accepted" or "over"
  open    \* is the connection reported as connected?

vars == <<phase, open>>

Init == phase = "none" /\ open = FALSE

Begin ==
  /\ phase = "none"
  /\ phase' = "fresh"
  /\ UNCHANGED open

Accept ==
  /\ phase = "fresh"
  /\ phase' = "accepted"
  /\ open' = TRUE

\* The hub refuses, or a failed write, a Close or a kill ends the socket for
\* the client.
Finish ==
  /\ phase \in {"fresh", "accepted"}
  /\ phase' = "over"
  /\ open' = FALSE

Leave ==
  /\ phase # "none"
  /\ phase' = "none"
  /\ open' = FALSE

\* An error is reported as the end of the connection, and the socket stays.
Falter ==
  /\ open
  /\ open' = FALSE
  /\ UNCHANGED phase

Next == Begin \/ Accept \/ Finish \/ Leave \/ Falter

Spec == Init /\ [][Next]_vars
===============================================================================
