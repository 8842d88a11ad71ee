------------------------------- MODULE Monitor -------------------------------
(***************************************************************************)
(* The debugger of NEMU: the commands of nemu/src/monitor/debug/ui.c that  *)
(* change state, the instruction loop cpu_exec of                          *)
(* nemu/src/monitor/cpu-exec.c, and the check of the watchpoints after     *)
(* each instruction.  The guest program is abstracted to what the loop     *)
(* sees of it: the values of the expressions after an instruction, and     *)
(* whether the instruction was nemu_trap, int3 or an unimplemented one.    *)
(***************************************************************************)
EXTENDS WatchpointPool

CONSTANTS MaxN,    \* the largest count of instructions: cpu_exec(-1), 2 ^ 32 - 1
          EipExpr  \* the expressions that read $eip

ASSUME MonitorAssumption == MaxN \in Nat \ {0} /\ EipExpr \subseteq Expr

VARIABLES nemu_state,  \* STOP, RUNNING or END
          pc,          \* "prompt" in ui_mainloop, "exec" in cpu_exec,
                       \* "quit" after q, "dead" after an abort or a fault
          n,           \* instructions cpu_exec has still to execute
          cur,         \* the value each expression has now
          trapped      \* the HIT GOOD/BAD TRAP message has been printed

\* What the user has asked for with w and not withdrawn with d: the number of
\* the watchpoint, the expression and its value at the time.  A history
\* variable: no guard reads it, and it is told nothing of the lists.
VARIABLE asked

cpuVars == <<nemu_state, pc, n, cur, trapped>>
vars == <<poolVars, cpuVars, asked>>

Init == /\ PoolInit
        /\ nemu_state = "STOP"
        /\ pc = "prompt"
        /\ n = 0
        /\ cur \in [Expr -> Value]
        /\ trapped = FALSE
        /\ asked = {}

-----------------------------------------------------------------------------
(* Commands.                                                               *)

\* w EXPR: the expression is evaluated and a watchpoint takes its value.
CmdW(e) ==
  /\ pc = "prompt"
  /\ SetWatchpoint(e, cur[e])
  /\ asked' = asked \union {<<free_, e, cur[e]>>}
  /\ UNCHANGED cpuVars

\* w with every watchpoint in use: new_wp dereferences free_, which is NULL.
CmdWFull ==
  /\ pc = "prompt"
  /\ free_ = Null
  /\ pc' = "dead"
  /\ UNCHANGED <<poolVars, nemu_state, n, cur, trapped, asked>>

\* w or p with text that is no expression: expr stores through success, NULL.
CmdBadExpr ==
  /\ pc = "prompt"
  /\ pc' = "dead"
  /\ UNCHANGED <<poolVars, nemu_state, n, cur, trapped, asked>>

\* d N: delete_wp looks for N among the watchpoints in use only.
CmdD(no) ==
  /\ pc = "prompt"
  /\ no \in Active
  /\ FreeWp(no)
  /\ asked' = {a \in asked : a[1] # no}
  /\ UNCHANGED cpuVars

CmdQ == /\ pc = "prompt"
        /\ pc' = "quit"
        /\ UNCHANGED <<poolVars, nemu_state, n, cur, trapped, asked>>

\* cpu_exec(count), from si and c, as far as the head of its loop.  Once the
\* program has ended, and with a count of zero, no instruction is executed.
CpuExec(count) ==
  /\ pc = "prompt"
  /\ IF nemu_state = "END" THEN UNCHANGED <<nemu_state, pc, n>>
     ELSE IF count = 0
          THEN nemu_state' = "STOP" /\ UNCHANGED <<pc, n>>
          ELSE nemu_state' = "RUNNING" /\ pc' = "exec" /\ n' = count
  /\ UNCHANGED <<poolVars, cur, trapped, asked>>

CmdSi(count) == CpuExec(count)
CmdC         == CpuExec(MaxN)

-----------------------------------------------------------------------------
(* The loop of cpu_exec.                                                   *)

\* check_, given the values after the instruction.  The test is as in the
\* code: a watchpoint whose value differs makes it return true and keeps the
\* value recorded; one whose value is the same records it again.
Changed(val) ==
  \E w \in Active : val[expr_watching[w]] # value_watching[w]

\* Buggy variant: the value that stopped the program is recorded, so that the
\* next comparison is made with it.
Bug_Renewed(val) ==
  [w \in WP |-> IF w \in Active THEN val[expr_watching[w]] ELSE value_watching[w]]

Recorded(val) ==
  [w \in WP |-> IF w \in Active /\ val[expr_watching[w]] = value_watching[w]
                THEN val[expr_watching[w]] ELSE value_watching[w]]

\* nemu_state once the instruction and check_ are done: nemu_trap ends the
\* program, int3 stops it, and a changed watchpoint overrides both.
StateAfter(instr, val) ==
  IF Changed(val) THEN "STOP"
  ELSE CASE instr = "trap"  -> "END"
         [] instr = "int3"  -> "STOP"
         [] instr = "other" -> "RUNNING"

\* The for loop ends after its last instruction, and RUNNING becomes STOP.
StateOnReturn(state, left) ==
  IF state = "RUNNING" /\ left = 0 THEN "STOP" ELSE state

\* Buggy variant: the count is not stepped when an instruction stops nothing.
Bug_NoStep == n

CountDown == n - 1

\* One turn of the loop: one instruction, check_, and the test of the state.
Iterate(instr, val) ==
  LET state == StateAfter(instr, val)
  IN  /\ pc = "exec"
      /\ cur' = val
      /\ n' = CountDown
      /\ trapped' = (trapped \/ instr = "trap")
      /\ value_watching' = Recorded(val)
      /\ nemu_state' = StateOnReturn(state, n')
      /\ pc' = IF state # "RUNNING" \/ n' = 0 THEN "prompt" ELSE "exec"
      /\ UNCHANGED <<nxt, head, free_, expr_watching, asked>>

\* inv: an opcode that is not implemented ends in assert(0).
Inv == /\ pc = "exec"
       /\ pc' = "dead"
       /\ UNCHANGED <<poolVars, nemu_state, n, cur, trapped, asked>>

\* nemu_trap and int3 change no register but eip and no memory.
Execute == \/ Inv
           \/ \E val \in [Expr -> Value] :
                \/ Iterate("other", val)
                \/ /\ \A e \in Expr \ EipExpr : val[e] = cur[e]
                   /\ \E instr \in {"trap", "int3"} : Iterate(instr, val)

Next == \/ \E e \in Expr : CmdW(e)
        \/ CmdWFull
        \/ CmdBadExpr
        \/ \E no \in WP : CmdD(no)
        \/ CmdQ
        \/ \E count \in 0 .. MaxN : CmdSi(count)
        \/ CmdC
        \/ Execute

\* cpu_exec is a plain loop in the only thread: it goes on.  Nothing forces
\* the user to type a command.
Spec == Init /\ [][Next]_vars /\ WF_vars(Execute)

-----------------------------------------------------------------------------
TypeOK == /\ PoolTypeOK
          /\ nemu_state \in {"STOP", "RUNNING", "END"}
          /\ pc \in {"prompt", "exec", "quit", "dead"}
          /\ n \in 0 .. MaxN
          /\ cur \in [Expr -> Value]
          /\ trapped \in BOOLEAN

\* cpu_exec goes on from one instruction to the next only while every
\* expression the user watches has the value it had when the user typed w
\* (cpu-exec.c:75-85, watchpoint.c:24-44).  A stop does not renew the value:
\* the program stops again after every instruction of the next c until the
\* old value is back, and is not stopped when it comes back.
ChangeStops ==
  [][ pc = "exec" /\ pc' = "exec"
        => \A a \in asked : cur'[a[2]] = a[3] ]_vars

\* Each c and si comes back to the prompt, if only after the 2^32 - 1
\* instructions of cpu_exec(-1), or the emulator aborts.
ExecReturns == pc = "exec" ~> pc \in {"prompt", "dead"}

\* What cpu_exec tells the user (cpu-exec.c:39): a program that hit nemu_trap
\* has ended, and nothing short of a new run of NEMU executes it further.
EndedStaysEnded == trapped => nemu_state = "END"
=============================================================================
