------------------------------ MODULE IrqLines ------------------------------
(***************************************************************************)
(* What the emulated interrupt controller promises in spite of the signal  *)
(* handler that enters it: a request of any line but Lossy, once made,     *)
(* stays until it has been taken; nothing is taken that nobody requested.  *)
(* A request of the line Lossy (the timer's) may vanish at any moment, and *)
(* a request may be taken more than once, because the acknowledgement of   *)
(* one may fall on the other.                                              *)
(***************************************************************************)
CONSTANTS Irq,      \* the lines in use
          Lossy,    \* the line whose requests may be lost
          Nothing

VARIABLES pending,  \* the requests made and not acknowledged
          taken     \* the request the processor has taken and not yet served

vars == <<pending, taken>>

Init == pending = {} /\ taken = Nothing

OrLess(S) == {S, S \ {Lossy}}

Raise(n) == /\ pending' \in OrLess(pending \union {n})
            /\ UNCHANGED taken

Take == /\ taken = Nothing
        /\ taken' \in pending
        /\ UNCHANGED pending

\* The acknowledgement clears the request that was taken, or the lossy one.
Acknowledge == /\ taken # Nothing
               /\ pending' \in OrLess(pending \ {taken}) \union OrLess(pending)
               /\ UNCHANGED taken

Serve == /\ taken # Nothing
         /\ taken' = Nothing
         /\ UNCHANGED pending

Next == (\E n \in Irq : Raise(n)) \/ Take \/ Acknowledge \/ Serve

Spec == Init /\ [][Next]_vars
=============================================================================
