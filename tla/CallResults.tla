----------------------------- MODULE CallResults -----------------------------
(***************************************************************************)
(* What Connection.send(on_invocation=...) and Connection.stream promise a *)
(* caller: once a call is registered its callbacks get the items of the    *)
(* stream, each one later than the last, and then at most one end, after   *)
(* which they are not called again.  A callback that raises breaks the     *)
(* calls its frame is about: their handlers may stay, and be given an end  *)
(* once more.                                                              *)
(***************************************************************************)
EXTENDS Naturals

CONSTANTS
  Calls,    \* calls of send() with a callback, and of stream()
  MaxItems  \* bound: the items of a stream

VARIABLES
  registered,  \* calls whose callbacks may be called
  got,         \* the last item the callback of each was given
  ends,        \* how many ends it was given
  broken       \* calls of a frame that was cut short

vars == <<registered, got, ends, broken>>

Init ==
  /\ registered = {}
  /\ got = [c \in Calls |-> 0]
  /\ ends = [c \in Calls |-> 0]
  /\ broken = {}

Open(c) == c \in registered /\ ends[c] = 0

Register(c) ==
  /\ c \notin registered
  /\ registered' = registered \cup {c}
  /\ UNCHANGED <<got, ends, broken>>

GiveItem(c) ==
  /\ Open(c)
  /\ \E n \in 1..MaxItems :
       /\ n > got[c]
       /\ got' = [got EXCEPT ![c] = n]
  /\ UNCHANGED <<registered, ends, broken>>

GiveEnd(c) ==
  /\ Open(c) \/ c \in broken
  /\ ends' = [ends EXCEPT ![c] = @ + 1]
  /\ UNCHANGED <<registered, got, broken>>

Break ==
  /\ \E calls \in SUBSET registered : broken' = broken \cup calls
  /\ UNCHANGED <<registered, got, ends>>

Next ==
  \/ \E c \in Calls : Register(c) \/ GiveItem(c) \/ GiveEnd(c)
  \/ Break

Spec == Init /\ [][Next]_vars
===============================================================================
