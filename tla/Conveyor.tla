------------------------------ MODULE Conveyor ------------------------------
(***************************************************************************)
(* What the batch accumulator promises to its callers, with no goroutine,  *)
(* mutex, timer or channel in sight: an event handed over leaves for the   *)
(* storage sink at most once, in the order it was handed over, as part of  *)
(* a non-empty batch.                                                      *)
(***************************************************************************)
EXTENDS Naturals, Sequences

CONSTANT Event          \* the events a caller may hand over

VARIABLES admitted,     \* every event handed over so far, in order
          dispatched    \* every event handed to the sink so far, in order

conveyorVars == <<admitted, dispatched>>

ConveyorInit ==
    /\ admitted = <<>>
    /\ dispatched = <<>>

Pending == SubSeq(admitted, Len(dispatched) + 1, Len(admitted))

Admit(e) ==
    /\ admitted' = Append(admitted, e)
    /\ UNCHANGED dispatched

\* A batch is a non-empty prefix of what is pending.
Dispatch(n) ==
    /\ dispatched' = dispatched \o SubSeq(Pending, 1, n)
    /\ UNCHANGED admitted

ConveyorNext ==
    \/ \E e \in Event : Admit(e)
    \/ \E n \in 1..Len(Pending) : Dispatch(n)

ConveyorSpec == ConveyorInit /\ [][ConveyorNext]_conveyorVars
=============================================================================
