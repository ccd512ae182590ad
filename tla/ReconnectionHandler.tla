------------------------- MODULE ReconnectionHandler -------------------------
(***************************************************************************)
(* The retry budget of a hub connection: the ReconnectionHandler classes   *)
(* of transport/__init__.py.  The handler has no greenlet of its own; the  *)
(* transport calls it from whichever greenlet met a dead socket, and each  *)
(* call below runs to its end without giving up control.  The length of a  *)
(* wait is abstracted to "some wait"; whether there is one is kept.        *)
(***************************************************************************)
EXTENDS Naturals

CONSTANTS
  Handler,       \* which handler with_automatic_reconnect installed, if any
  MaxAttempts    \* raw: max_attempts; interval: the number of intervals

ASSUME HandlerAssumption ==
  /\ Handler \in {"none", "raw", "raw_unlimited", "interval"}
  /\ MaxAttempts \in Nat

VARIABLES
  reconnecting,    \* a reconnection was announced and has not succeeded yet
  attempt_number   \* waits handed out since the last reset

handlerVars == <<reconnecting, attempt_number>>

HasHandler == Handler # "none"

\* Bound: the code keeps counting after an interval handler is exhausted;
\* every number past the last interval behaves alike, so they are one.
AttemptCap == MaxAttempts + 1

HandlerInit ==
  /\ reconnecting = FALSE
  /\ attempt_number = 0

\* Faulty variant: one wait too many.
BudgetLeft_OneMore ==
  \/ Handler = "raw_unlimited"
  \/ Handler = "raw" /\ attempt_number <= MaxAttempts + 1
  \/ Handler = "interval" /\ attempt_number < MaxAttempts

(***************************************************************************)
(* next() returns a wait while BudgetLeft holds, else raises ValueError.   *)
(***************************************************************************)
BudgetLeft ==
  \/ Handler = "raw_unlimited"
  \/ Handler = "raw" /\ attempt_number <= MaxAttempts
  \/ Handler = "interval" /\ attempt_number < MaxAttempts

Exhausted == HasHandler /\ ~BudgetLeft

Counts ==
  \/ Handler = "raw" /\ BudgetLeft
  \/ Handler = "interval" /\ attempt_number < AttemptCap

CountAttempt ==
  attempt_number' = IF Counts THEN attempt_number + 1 ELSE attempt_number

next ==
  /\ reconnecting' = TRUE
  /\ CountAttempt

reset ==
  /\ reconnecting' = FALSE
  /\ attempt_number' = 0
===============================================================================
