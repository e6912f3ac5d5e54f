----------------------------- MODULE AtomicFile -----------------------------
(***************************************************************************)
(* What "persists state to the database atomically" promises: the file     *)
(* always holds one whole value.  A store replaces it in one step; a power *)
(* failure may bring back the value that was last made durable, and        *)
(* nothing else.                                                           *)
(***************************************************************************)
CONSTANTS Values,   \* the states that can be stored
          NoValue   \* the file does not exist

VARIABLES current,  \* what a reader sees
          durable   \* what a power failure leaves

Init == current = NoValue /\ durable = NoValue

Store(v) == current' = v /\ UNCHANGED durable

Flush == durable' = current /\ UNCHANGED current

Lose == current' = durable /\ UNCHANGED durable

Next == Flush \/ Lose \/ \E v \in Values : Store(v)

Spec == Init /\ [][Next]_<<current, durable>>
=============================================================================
