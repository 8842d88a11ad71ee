----------------------------- MODULE DeviceLoop -----------------------------
(***************************************************************************)
(* The devices of NEMU around the interrupt controller: the host timer     *)
(* whose signal enters the emulator anywhere (timer_sig_handler of sdl.c,  *)
(* timer.c), the keyboard (keyboard.c), and the loop of cpu_exec that      *)
(* polls the one and takes the interrupts of the other.  The processor's   *)
(* side of it, query and then acknowledge, and the guest's handlers are    *)
(* what these interfaces are made for and are not in the repository's      *)
(* emulator.                                                               *)
(***************************************************************************)
EXTENDS I8259

CONSTANTS Gap,      \* instructions of the guest between two signals, at least
          Free      \* the processor is in no interrupt handler

ASSUME LoopAssumption == Gap \in Nat /\ Free \notin 0 .. 15

VARIABLES pc,         \* where cpu_exec is
          running,    \* nemu_state is RUNNING
          newkey,     \* newkey of keyboard.c
          update,     \* device_update_flag
          handling,   \* the line whose handler the guest executes
          served,     \* whether that handler has done its work
          quiet       \* instructions since the last signal, up to Gap

loopVars == <<pc, running, newkey, update, handling, served, quiet>>
vars == <<picVars, loopVars>>

Keyboard == 1
Ide == 14

Init == /\ PicInit
        /\ pc = "exec" /\ running = TRUE
        /\ newkey = FALSE
        /\ update = FALSE
        /\ handling = Free /\ served = FALSE
        /\ quiet = 0

-----------------------------------------------------------------------------
(* One turn of the loop of cpu_exec.                                       *)

\* An instruction outside the handlers: it may command the disk, which
\* raises its line, and it may leave the loop's state on STOP.
Execute == /\ pc = "exec" /\ at = "out" /\ handling = Free
           /\ \/ pc' = "update" /\ running' \in BOOLEAN /\ UNCHANGED picVars
              \/ pc' = "update" /\ Raise(Ide) /\ UNCHANGED running
           /\ UNCHANGED <<newkey, update, handling, served, quiet>>

\* The guest's handler: the keyboard's reads port 0x60, whose callback is
\* i8042_io_handler.
\* Buggy variant: the callback leaves newkey as it is.
Bug_KeepNewkey(line) == newkey

NewkeyAfter(line) == IF line = Keyboard THEN FALSE ELSE newkey

Serve == /\ pc = "exec" /\ at = "out" /\ handling # Free /\ ~ served
         /\ newkey' = NewkeyAfter(handling)
         /\ served' = TRUE
         /\ pc' = "update"
         /\ UNCHANGED <<picVars, running, update, handling, quiet>>

Iret == /\ pc = "exec" /\ at = "out" /\ handling # Free /\ served
        /\ handling' = Free /\ served' = FALSE
        /\ pc' = "update"
        /\ UNCHANGED <<picVars, running, newkey, update, quiet>>

\* device_update: the events are polled once after each signal.
\* keyboard_intr drops a key while the last one has not been read, and when
\* the emulator has just been stopped.
Accept == running /\ ~ newkey

DeviceUpdate ==
  /\ pc = "update" /\ at = "out"
  /\ \/ /\ update /\ Accept
        /\ update' = FALSE
        /\ Raise(Keyboard)
        /\ pc' = "key"
     \/ /\ update' = FALSE
        /\ pc' = "check"
        /\ UNCHANGED picVars
  /\ UNCHANGED <<running, newkey, handling, served, quiet>>

\* newkey = true, after i8259_raise_intr has returned.
NewKey == /\ pc = "key" /\ at = "out"
          /\ newkey' = TRUE
          /\ pc' = "check"
          /\ UNCHANGED <<picVars, running, update, handling, served, quiet>>

NextInstr == /\ pc' = IF running THEN "exec" ELSE "prompt"
             /\ quiet' = IF quiet < Gap THEN quiet + 1 ELSE quiet

\* The end of the turn.  An interrupt is taken when INTR is on and the guest
\* is in no handler: i8259_query_intr, and then i8259_ack_intr.
Interruptible == handling = Free

Check == /\ pc = "check" /\ at = "out"
         /\ IF running /\ INTR /\ Interruptible
            THEN /\ handling' = intr_NO
                 /\ pc' = "ack"
                 /\ UNCHANGED quiet
            ELSE NextInstr /\ UNCHANGED handling
         /\ UNCHANGED <<picVars, running, newkey, update, served>>

Acknowledge == /\ pc = "ack" /\ at = "out"
               /\ Ack
               /\ pc' = "taken"
               /\ UNCHANGED <<running, newkey, update, handling, served, quiet>>

Taken == /\ pc = "taken" /\ at = "out"
         /\ NextInstr
         /\ UNCHANGED <<picVars, running, newkey, update, handling, served>>

\* The user's c or si.
Continue == /\ pc = "prompt"
            /\ running' = TRUE
            /\ pc' = "exec"
            /\ UNCHANGED <<picVars, newkey, update, handling, served, quiet>>

InController == PicStep /\ UNCHANGED loopVars

Emulator == \/ Execute \/ Serve \/ Iret \/ DeviceUpdate \/ NewKey \/ Check
            \/ Acknowledge \/ Taken \/ InController

-----------------------------------------------------------------------------
\* timer_sig_handler with timer_intr; the handler asks for the next signal
\* only at its end, so that two never overlap.
Signal == /\ at # "abort" /\ quiet = Gap
          /\ quiet' = 0
          /\ update' = TRUE
          /\ IF running THEN SignalRaise ELSE UNCHANGED picVars
          /\ UNCHANGED <<pc, running, newkey, handling, served>>

Next == Emulator \/ Continue \/ Signal

\* cpu_exec goes on, and the timer goes on while it does.
Spec == Init /\ [][Next]_vars /\ WF_vars(Emulator) /\ WF_vars(Signal)

-----------------------------------------------------------------------------
TypeOK == /\ PicTypeOK
          /\ pc \in {"exec", "update", "key", "check", "ack", "taken", "prompt"}
          /\ {running, newkey, update, served} \subseteq BOOLEAN
          /\ handling \in Lines \union {Free}
          /\ quiet \in 0 .. Gap
          /\ served => handling # Free

\* The assertion of do_i8259 on the slave never fails, whatever the signal
\* interrupts.
AssertHolds == at # "abort"

\* A key that is waiting to be read keeps the others out (newkey); if its
\* request were lost, no key would ever come again.  So while newkey is set
\* the request of line 1 is there, or its handler is about to read the port.
KeyboardAlive ==
  newkey => Keyboard \in irr \/ (handling = Keyboard /\ ~ served)

\* Whenever cpu_exec is not inside the controller, a request of the keyboard
\* or the disk shows in INTR, and intr_NO names a request that is there, even
\* if a signal came between computing a register and storing it.
Announced ==
  at = "out" => /\ irr \ {Timer} # {} => INTR
                /\ INTR => intr_NO \in irr \union sirr

\* What the controller does to the requests is no worse than IrqLines says.
Requests == (irr \ {Cascade}) \union sirr

Interrupt == INSTANCE IrqLines WITH Irq <- {Timer, Keyboard, Ide},
               Lossy <- Timer, Nothing <- Free,
               pending <- Requests, taken <- handling

ImplementsIrqLines == Interrupt!Spec

\* A key that has been accepted is read, and a transfer that has ended is
\* handled, unless the user stops the emulator.
KeyIsRead == newkey ~> (~ newkey \/ ~ running)
DiskIsServed == (Ide \in sirr) ~> (Ide \notin sirr \/ ~ running)
=============================================================================
