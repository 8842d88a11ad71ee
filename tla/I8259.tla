-------------------------------- MODULE I8259 --------------------------------
(***************************************************************************)
(* The interrupt controller of nemu/src/device/i8259.c.  The emulator      *)
(* calls raise and ack between two instructions of the guest; the handler  *)
(* of the host's SIGVTALRM calls raise for line 0 in the middle of either. *)
(* Nothing protects the registers, so that each load and each store of a   *)
(* shared one is a step.  do_i8259 is taken with the two assignments to    *)
(* cpu.INTR that its TODOs name; as the file stands they are panics.       *)
(***************************************************************************)
EXTENDS Integers

CONSTANT NoIntr    \* NO_INTR: no request

ASSUME NoIntrAssumption == NoIntr \notin 0 .. 15

VARIABLES irr,          \* master.IRR, the set of lines requested, below 8
          sirr,         \* slave.IRR, lines 8 to 15
          highest_irq,  \* master.highest_irq
          slave_irq,    \* slave.highest_irq, as the number of its line
          intr_NO,      \* intr_NO - IRQ_BASE, a line
          INTR,         \* cpu.INTR
          at,           \* where the emulator is in the controller
          call          \* its arguments and locals there

picVars == <<irr, sirr, highest_irq, slave_irq, intr_NO, INTR, at, call>>

Timer == 0
Cascade == 2

\* master.IMR and slave.IMR are 0: no port of the controller is mapped.
ffo(S) == CHOOSE n \in S \union {NoIntr} :
            \/ n = NoIntr /\ S = {}
            \/ n \in S /\ \A k \in S : n <= k

NoCall == [line |-> NoIntr, load |-> {}, found |-> NoIntr]

\* Static storage is zero, so that the first ranks name line 0 and 8.
PicInit == /\ irr = {} /\ sirr = {}
           /\ highest_irq = 0 /\ slave_irq = 8
           /\ intr_NO = NoIntr
           /\ INTR = FALSE
           /\ at = "out" /\ call = NoCall

-----------------------------------------------------------------------------
(* i8259_raise_intr and i8259_ack_intr, called from the emulator.          *)

MasterLine(n) == IF n < 8 THEN n ELSE Cascade

\* Each begins with the slave, which no signal touches, and the load of
\* master.IRR that precedes its store.
Raise(n) == /\ at = "out"
            /\ sirr' = IF n < 8 THEN sirr ELSE sirr \union {n}
            /\ call' = [line |-> n, load |-> irr, found |-> NoIntr]
            /\ at' = "set"
            /\ UNCHANGED <<irr, highest_irq, slave_irq, intr_NO, INTR>>

Ack == /\ at = "out"
       /\ sirr' = sirr \ {intr_NO}
       /\ call' = [line |-> intr_NO, load |-> irr, found |-> NoIntr]
       /\ at' = "clear"
       /\ UNCHANGED <<irr, highest_irq, slave_irq, intr_NO, INTR>>

\* The store of master.IRR, and slave.highest_irq after it.
\* Buggy variant: slave.highest_irq is left as it is.
Bug_OldRank == slave_irq

SlaveRank == IF call.line < 8 THEN slave_irq ELSE ffo(sirr)

Set == /\ at = "set"
       /\ irr' = call.load \union {MasterLine(call.line)}
       /\ slave_irq' = SlaveRank
       /\ at' = "rank"
       /\ UNCHANGED <<sirr, highest_irq, intr_NO, INTR, call>>

\* Buggy variants: the cascade of a slave's request stays; every request of
\* the master is cleared.
Bug_ClearAll(n) == 0 .. 7
Bug_KeepCascade(n) == IF n < 8 THEN {n} ELSE {}

Cleared(n) == {MasterLine(n)}

Clear == /\ at = "clear"
         /\ irr' = call.load \ Cleared(call.line)
         /\ slave_irq' = SlaveRank
         /\ at' = "rank"
         /\ UNCHANGED <<sirr, highest_irq, intr_NO, INTR, call>>

\* master.highest_irq is computed, then stored.
\* Buggy variant: from the value loaded before the request was set.
Bug_Loaded == call.load

Requested == irr

Rank == /\ at = "rank"
        /\ call' = [call EXCEPT !.found = ffo(Requested)]
        /\ at' = "ranked"
        /\ UNCHANGED <<irr, sirr, highest_irq, slave_irq, intr_NO, INTR>>

Ranked == /\ at = "ranked"
          /\ highest_irq' = call.found
          /\ at' = "do"
          /\ UNCHANGED <<irr, sirr, slave_irq, intr_NO, INTR, call>>

\* do_i8259: the line behind the highest rank, with its assertion.
CascadeEmpty(rank) == rank = Cascade /\ slave_irq = NoIntr

\* Buggy variants: the slave's request is announced as the cascade's; the
\* offset of the slave is added twice.
Bug_NoSlave(rank) == rank
Bug_TwiceOffset(rank) == IF rank = Cascade THEN 8 + slave_irq ELSE rank

Line(rank) == IF rank = Cascade THEN slave_irq ELSE rank

Do == /\ at = "do"
      /\ at' = IF highest_irq = NoIntr THEN "lower"
               ELSE IF CascadeEmpty(highest_irq) THEN "abort" ELSE "announce"
      /\ call' = [call EXCEPT !.found = Line(highest_irq)]
      /\ UNCHANGED <<irr, sirr, highest_irq, slave_irq, intr_NO, INTR>>

Lower == /\ at = "lower"
         /\ INTR' = FALSE
         /\ at' = "out" /\ call' = NoCall
         /\ UNCHANGED <<irr, sirr, highest_irq, slave_irq, intr_NO>>

Announce == /\ at = "announce"
            /\ intr_NO' = call.found
            /\ at' = "lift"
            /\ UNCHANGED <<irr, sirr, highest_irq, slave_irq, INTR, call>>

Lift == /\ at = "lift"
        /\ INTR' = TRUE
        /\ at' = "out" /\ call' = NoCall
        /\ UNCHANGED <<irr, sirr, highest_irq, slave_irq, intr_NO>>

PicStep == \/ Set \/ Clear \/ Rank \/ Ranked \/ Do \/ Lower \/ Announce \/ Lift

-----------------------------------------------------------------------------
\* The whole of i8259_raise_intr(0), in the signal handler.
SignalRaise ==
  LET rank == ffo(irr \union {Timer})
  IN  /\ irr' = irr \union {Timer}
      /\ highest_irq' = rank
      /\ IF CascadeEmpty(rank)
         THEN at' = "abort" /\ UNCHANGED <<intr_NO, INTR>>
         ELSE intr_NO' = Line(rank) /\ INTR' = TRUE /\ UNCHANGED at
      /\ UNCHANGED <<sirr, slave_irq, call>>

-----------------------------------------------------------------------------
Lines == 0 .. 15

PicTypeOK ==
  /\ irr \subseteq 0 .. 7 /\ sirr \subseteq 8 .. 15
  /\ highest_irq \in 0 .. 7 \union {NoIntr}
  /\ slave_irq \in 8 .. 15 \union {NoIntr}
  /\ intr_NO \in Lines \union {NoIntr}
  /\ INTR \in BOOLEAN
  /\ at \in {"out", "set", "clear", "rank", "ranked", "do", "lower",
             "announce", "lift", "abort"}
  /\ call \in [line : Lines \union {NoIntr}, load : SUBSET (0 .. 7),
               found : Lines \union {NoIntr}]
=============================================================================
