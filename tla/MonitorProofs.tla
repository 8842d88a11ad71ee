---------------------------- MODULE MonitorProofs ----------------------------
(***************************************************************************)
(* Proofs about the debugger.                                              *)
(*                                                                         *)
(* Monitor and WatchpointPool: for a pool of any size the two lists stay   *)
(* lists that share the pool between them, and the program is never        *)
(* executed past a change of a watched expression.                         *)
(*                                                                         *)
(* ExprEval: a guarded text of any depth has its value in C, if every part *)
(* of it has one.                                                          *)
(***************************************************************************)
EXTENDS Monitor, ExprEval, LinksProofs, FiniteSetTheorems

-----------------------------------------------------------------------------
(* The inductive invariant of Monitor.                                     *)

\* cpu_exec is in its loop with an instruction left to execute.
Executing == pc = "exec" => nemu_state = "RUNNING" /\ n > 0

\* The pool says what the user has asked for: no command and no check loses,
\* exchanges or renews the value a watchpoint was set with.
AsAsked == asked = {<<w, expr_watching[w], value_watching[w]>> : w \in Active}

IInv == TypeOK /\ PoolSound /\ Executing /\ AsAsked

-----------------------------------------------------------------------------
(* The pool.                                                               *)

\* The first watchpoint of a list that is not empty is in it.
LEMMA Heads ==
  ASSUME PoolTypeOK
  PROVE  /\ DOMAIN nxt = WP /\ Null \notin WP
         /\ head # Null => head \in Active
         /\ free_ # Null => free_ \in Chain(free_)
         /\ Active \subseteq WP /\ Chain(free_) \subseteq WP
         /\ \A w \in WP : nxt[w] \in WP \/ nxt[w] = Null
<1>1. DOMAIN nxt = WP /\ Null \notin WP
  BY PoolAssumption DEF PoolTypeOK, WP
<1> QED
  BY <1>1, WalkClosed DEF PoolTypeOK, Active, Chain, Ptr

\* The lists after the first free watchpoint has been taken off its list and
\* appended to the other.
LEMMA AppendSound ==
  ASSUME PoolTypeOK, PoolSound, NEW e \in Expr, NEW v \in Value, SetWatchpoint(e, v)
  PROVE  /\ PoolTypeOK' /\ PoolSound'
         /\ Active' = Active \union {free_}
         /\ free_ \in WP \ Active
<1> DEFINE wp == free_
           detached == [nxt EXCEPT ![wp] = Null]
<1>1. /\ wp \in WP /\ free_' = nxt[wp]
      /\ expr_watching' = [expr_watching EXCEPT ![wp] = e]
      /\ value_watching' = [value_watching EXCEPT ![wp] = v]
  BY DEF SetWatchpoint, PoolTypeOK, Ptr
<1>2. /\ DOMAIN nxt = WP /\ Null \notin WP /\ wp \in Chain(free_)
      /\ Active \subseteq WP /\ Chain(free_) \subseteq WP
      /\ wp \notin Active
  BY <1>1, Heads DEF PoolSound, SetWatchpoint
<1>3. /\ Walk(nxt[wp], nxt) = Chain(free_) \ {wp}
      /\ Ends(nxt[wp], nxt)
  BY <1>1, <1>2, DropFirst DEF PoolSound, Chain
<1>4. /\ DOMAIN nxt' = WP /\ nxt' \in [WP -> Ptr] /\ head' \in Ptr
      /\ \A w \in Chain(free_) \ {wp} : nxt'[w] = nxt[w]
      /\ Walk(head', nxt') = Active \union {wp}
      /\ Ends(head', nxt')
  <2>1. CASE head = Null
    <3>1. head' = wp /\ nxt' = detached
      BY <2>1 DEF SetWatchpoint
    <3>2. /\ DOMAIN nxt' = WP /\ nxt' \in [WP -> Ptr] /\ head' \in Ptr /\ nxt'[wp] = Null
          /\ \A w \in WP \ {wp} : nxt'[w] = nxt[w]
      BY <1>1, <1>2, <3>1 DEF PoolTypeOK, Ptr
    <3>3. Active = {} /\ Ends(Null, nxt)
      BY <1>2, <2>1, WalkNull DEF Active, Chain, Ends
    <3>4. Walk(wp, nxt') = {wp} /\ Ends(wp, nxt')
      BY <1>1, <1>2, <3>2, WalkStep, WalkNull, WalkClosed DEF Ends
    <3> QED
      BY <1>2, <3>1, <3>2, <3>3, <3>4
  <2>2. CASE head # Null
    <3>1. PICK last \in Active : /\ nxt[last] = Null
                                 /\ nxt' = [detached EXCEPT ![last] = wp]
                                 /\ head' = head
      BY <2>2 DEF SetWatchpoint
    <3>2. /\ DOMAIN nxt' = WP /\ nxt' \in [WP -> Ptr] /\ head' \in Ptr
          /\ nxt'[last] = wp /\ nxt'[wp] = Null
          /\ \A w \in WP \ {wp, last} : nxt'[w] = nxt[w]
      BY <1>1, <1>2, <3>1 DEF PoolTypeOK, Ptr
    <3>3. \A w \in Chain(free_) \ {wp} : w # last
      BY <3>1 DEF PoolSound
    <3>4. /\ DOMAIN nxt' = DOMAIN nxt /\ last \in Walk(head, nxt)
          /\ nxt[last] \notin DOMAIN nxt
          /\ wp \in DOMAIN nxt /\ wp \notin Walk(head, nxt)
          /\ nxt'[wp] \notin DOMAIN nxt
          /\ \A w \in Walk(head, nxt) \ {last} : nxt'[w] = nxt[w]
      BY <1>1, <1>2, <3>1, <3>2 DEF Active, Chain
    <3>5. /\ Walk(head, nxt') = Walk(head, nxt) \union {wp}
          /\ Ends(head, nxt')
      BY <3>2, <3>4, AppendNode
    <3> QED
      BY <1>2, <3>1, <3>2, <3>3, <3>5 DEF Active, Chain
  <2> QED
    BY <2>1, <2>2
<1>5. Walk(free_', nxt') = Chain(free_) \ {wp} /\ Ends(free_', nxt')
  BY <1>1, <1>2, <1>3, <1>4, WalkSame
<1>6. /\ Active' = Active \union {wp}
      /\ Chain(free_)' = Chain(free_) \ {wp}
  BY <1>4, <1>5 DEF Active, Chain
<1>7. PoolTypeOK'
  BY <1>1, <1>4 DEF PoolTypeOK
<1>8. {w \in WP : expr_watching'[w] # NoExpr} = Active \union {wp}
  <2>1. e # NoExpr
    BY PoolAssumption
  <2>2. \A w \in WP : expr_watching'[w] = IF w = wp THEN e ELSE expr_watching[w]
    BY <1>1 DEF PoolTypeOK
  <2> QED
    BY <1>1, <2>1, <2>2 DEF PoolSound
<1>9. PoolSound'
  BY <1>2, <1>4, <1>5, <1>6, <1>8 DEF PoolSound
<1> QED
  BY <1>1, <1>2, <1>6, <1>7, <1>9

\* The lists after a watchpoint in use has been unlinked and pushed on the
\* free list.
LEMMA UnlinkSound ==
  ASSUME PoolTypeOK, PoolSound, NEW wp \in Active, FreeWp(wp)
  PROVE  PoolTypeOK' /\ PoolSound' /\ Active' = Active \ {wp}
<1>1. /\ head' = IF wp = head THEN nxt[head] ELSE head
      /\ nxt' = [Unlinked(wp) EXCEPT ![wp] = free_]
      /\ free_' = wp
      /\ value_watching' = [value_watching EXCEPT ![wp] = Zero]
      /\ expr_watching' = [expr_watching EXCEPT ![wp] = NoExpr]
  BY DEF FreeWp
<1>2. /\ DOMAIN nxt = WP /\ Null \notin WP /\ wp \in WP
      /\ Active \subseteq WP /\ Chain(free_) \subseteq WP
      /\ wp \notin Chain(free_)
      /\ \A w \in WP : nxt[w] \in WP \/ nxt[w] = Null
  BY Heads DEF PoolSound
<1>3. /\ DOMAIN nxt' = WP /\ nxt' \in [WP -> Ptr] /\ head' \in Ptr /\ nxt'[wp] = free_
      /\ \A w \in WP \ {wp} : nxt'[w] = IF wp # head /\ w \in Active /\ nxt[w] = wp
                                        THEN nxt[wp] ELSE nxt[w]
  <2>1. Unlinked(wp) \in [WP -> Ptr]
    BY <1>2 DEF Unlinked, PoolTypeOK
  <2>2. \A w \in WP : Unlinked(wp)[w] = IF wp # head /\ w \in Active /\ nxt[w] = wp
                                        THEN nxt[wp] ELSE nxt[w]
    BY <1>2 DEF Unlinked, PoolTypeOK
  <2>3. free_ \in Ptr /\ head' \in Ptr
    BY <1>1, <1>2 DEF PoolTypeOK, Ptr
  <2> QED
    BY <1>1, <1>2, <2>1, <2>2, <2>3
<1>4. \A w \in Chain(free_) : nxt'[w] = nxt[w]
  BY <1>2, <1>3 DEF PoolSound
<1>5. /\ Walk(free_', nxt') = {wp} \union Chain(free_)
      /\ Ends(free_', nxt')
  <2>1. /\ DOMAIN nxt' = DOMAIN nxt /\ Ends(free_, nxt) /\ wp \in DOMAIN nxt
        /\ \A w \in Walk(free_, nxt) : nxt'[w] = nxt[w]
    BY <1>2, <1>3, <1>4 DEF PoolSound, Chain
  <2>2. /\ Walk(wp, nxt') = {wp} \union Walk(free_, nxt)
        /\ Ends(wp, nxt')
    BY <1>3, <2>1, Push
  <2> QED
    BY <1>1, <2>2 DEF Chain
<1>6. /\ Walk(head', nxt') = Active \ {wp}
      /\ Ends(head', nxt')
  <2>1. CASE wp = head
    <3>1. Walk(nxt[head], nxt) = Active \ {wp} /\ Ends(nxt[head], nxt)
      BY <1>2, <2>1, DropFirst DEF PoolSound, Active, Chain
    <3>2. \A w \in Active \ {wp} : nxt'[w] = nxt[w]
      BY <1>2, <1>3, <2>1
    <3> QED
      BY <1>1, <1>2, <1>3, <2>1, <3>1, <3>2, WalkSame
  <2>2. CASE wp # head
    <3>1. \A w \in Active \ {wp} :
             nxt'[w] = IF nxt[w] = wp THEN nxt[wp] ELSE nxt[w]
      BY <1>2, <1>3, <2>2
    <3>2. head' = head
      BY <1>1, <2>2
    <3>3. /\ DOMAIN nxt' = DOMAIN nxt /\ Ends(head, nxt)
          /\ wp \in Walk(head, nxt)
      BY <1>2, <1>3 DEF PoolSound, Active, Chain
    <3>4. \A w \in Walk(head, nxt) \ {wp} :
             nxt'[w] = IF nxt[w] = wp THEN nxt[wp] ELSE nxt[w]
      BY <3>1 DEF Active, Chain
    <3>5. Walk(head, nxt') = Walk(head, nxt) \ {wp} /\ Ends(head, nxt')
      BY <2>2, <3>3, <3>4, Unlink
    <3> QED
      BY <3>2, <3>5 DEF Active, Chain
  <2> QED
    BY <2>1, <2>2
<1>7. /\ Active' = Active \ {wp}
      /\ Chain(free_)' = {wp} \union Chain(free_)
  BY <1>5, <1>6 DEF Active, Chain
<1>8. PoolTypeOK'
  BY <1>1, <1>2, <1>3, PoolAssumption DEF PoolTypeOK, Ptr
<1>9. {w \in WP : expr_watching'[w] # NoExpr} = Active \ {wp}
  <2>1. \A w \in WP : expr_watching'[w] = IF w = wp THEN NoExpr ELSE expr_watching[w]
    BY <1>1, <1>2 DEF PoolTypeOK
  <2> QED
    BY <2>1 DEF PoolSound
<1>10. PoolSound'
  BY <1>2, <1>5, <1>6, <1>7, <1>9 DEF PoolSound
<1> QED
  BY <1>7, <1>8, <1>10

-----------------------------------------------------------------------------
(* The initial states and the steps.                                       *)

\* init_wp_pool links the whole array into the free list.
LEMMA InitIInv == ASSUME Init PROVE IInv
<1>1. /\ nxt = FirstLinks /\ head = Null /\ free_ = 0
      /\ expr_watching = [i \in WP |-> NoExpr]
      /\ value_watching = [i \in WP |-> Zero]
      /\ nemu_state = "STOP" /\ pc = "prompt" /\ n = 0
      /\ cur \in [Expr -> Value] /\ trapped = FALSE /\ asked = {}
  BY DEF Init, PoolInit
<1> DEFINE last == NR_WP - 1
<1>2. last \in Nat /\ WP = 0 .. last /\ Null \notin WP
  BY PoolAssumption DEF WP
<1>3. /\ DOMAIN nxt = WP /\ nxt[last] = Null
      /\ \A i \in 0 .. last : i < last => nxt[i] = i + 1
  BY <1>1, <1>2 DEF FirstLinks
<1>4. Walk(0, nxt) = WP /\ Ends(0, nxt)
  <2> HIDE DEF last
  <2> QED
    BY <1>2, <1>3, ArrayLinked
<1>5. Active = {} /\ Ends(head, nxt)
  BY <1>1, <1>2, <1>3, WalkNull DEF Active, Chain, Ends
<1>6. TypeOK
  <2>1. \A i \in WP : FirstLinks[i] \in Ptr
    BY <1>2 DEF FirstLinks, Ptr
  <2>2. nxt \in [WP -> Ptr]
    BY <1>1, <2>1 DEF FirstLinks
  <2>3. head \in Ptr /\ free_ \in Ptr
    BY <1>1, <1>2 DEF Ptr
  <2>4. /\ expr_watching \in [WP -> Expr \union {NoExpr}]
        /\ value_watching \in [WP -> Value]
    BY <1>1, PoolAssumption
  <2>5. n \in 0 .. MaxN
    BY <1>1, MonitorAssumption
  <2>6. trapped \in BOOLEAN
    BY <1>1
  <2> QED
    BY <1>1, <2>2, <2>3, <2>4, <2>5, <2>6 DEF TypeOK, PoolTypeOK
<1>7. PoolSound
  BY <1>1, <1>4, <1>5 DEF PoolSound, Chain
<1> QED
  BY <1>1, <1>5, <1>6, <1>7 DEF IInv, Executing, AsAsked

\* What the links say does not depend on the values recorded.
LEMMA SamePool ==
  ASSUME PoolSound, UNCHANGED <<nxt, head, free_, expr_watching>>
  PROVE  PoolSound' /\ Active' = Active
  BY DEF PoolSound, Active, Chain

\* Steps that change no watchpoint and no wish of the user.
LEMMA SameWishes ==
  ASSUME IInv, UNCHANGED <<poolVars, asked>>
  PROVE  PoolTypeOK' /\ PoolSound' /\ AsAsked'
<1>1. PoolSound' /\ Active' = Active
  BY SamePool DEF IInv, poolVars
<1>2. PoolTypeOK'
  BY DEF IInv, TypeOK, PoolTypeOK, poolVars
<1> QED
  BY <1>1, <1>2 DEF IInv, AsAsked, poolVars

\* Commands that leave the pool alone.
LEMMA CommandIInv ==
  ASSUME IInv, \/ CmdWFull \/ CmdBadExpr \/ CmdQ \/ CmdC
               \/ \E count \in 0 .. MaxN : CmdSi(count)
  PROVE  IInv'
<1>1. UNCHANGED <<poolVars, asked>> /\ UNCHANGED <<cur, trapped>> /\ pc = "prompt"
  BY DEF CmdWFull, CmdBadExpr, CmdQ, CmdC, CmdSi, CpuExec
<1>2. PoolTypeOK' /\ PoolSound' /\ AsAsked'
  BY <1>1, SameWishes
<1>3. \/ pc' \in {"dead", "quit"} /\ UNCHANGED <<nemu_state, n>>
      \/ pc' = pc /\ nemu_state' \in {nemu_state, "STOP"} /\ UNCHANGED n
      \/ /\ nemu_state' = "RUNNING" /\ pc' = "exec"
         /\ n' \in 0 .. MaxN /\ n' # 0
  BY MonitorAssumption DEF CmdWFull, CmdBadExpr, CmdQ, CmdC, CmdSi, CpuExec
<1> QED
  BY <1>1, <1>2, <1>3 DEF IInv, TypeOK, Executing

LEMMA PoolCommandIInv ==
  ASSUME IInv, (\E e \in Expr : CmdW(e)) \/ (\E no \in WP : CmdD(no))
  PROVE  IInv'
<1>1. CASE \E e \in Expr : CmdW(e)
  <2>1. PICK e \in Expr : /\ SetWatchpoint(e, cur[e]) /\ UNCHANGED cpuVars
                         /\ asked' = asked \union {<<free_, e, cur[e]>>}
    BY <1>1 DEF CmdW
  <2>2. cur[e] \in Value
    BY DEF IInv, TypeOK
  <2>3. /\ PoolTypeOK' /\ PoolSound'
        /\ Active' = Active \union {free_} /\ free_ \in WP \ Active
    BY <2>1, <2>2, AppendSound DEF IInv, TypeOK
  <2>4. /\ expr_watching' = [expr_watching EXCEPT ![free_] = e]
        /\ value_watching' = [value_watching EXCEPT ![free_] = cur[e]]
    BY <2>1 DEF SetWatchpoint
  <2>5. /\ expr_watching'[free_] = e /\ value_watching'[free_] = cur[e]
        /\ \A w \in Active : /\ expr_watching'[w] = expr_watching[w]
                             /\ value_watching'[w] = value_watching[w]
    BY <2>3, <2>4, Heads DEF IInv, TypeOK, PoolTypeOK
  <2>6. AsAsked'
    BY <2>1, <2>3, <2>5 DEF IInv, AsAsked
  <2> QED
    BY <2>1, <2>3, <2>6 DEF IInv, TypeOK, Executing, cpuVars
<1>2. CASE \E no \in WP : CmdD(no)
  <2>1. PICK no \in Active : /\ FreeWp(no) /\ UNCHANGED cpuVars
                            /\ asked' = {a \in asked : a[1] # no}
    BY <1>2 DEF CmdD
  <2>2. PoolTypeOK' /\ PoolSound' /\ Active' = Active \ {no}
    BY <2>1, UnlinkSound DEF IInv, TypeOK
  <2>3. \A w \in Active' : /\ expr_watching'[w] = expr_watching[w]
                           /\ value_watching'[w] = value_watching[w]
    BY <2>1, <2>2, Heads DEF IInv, TypeOK, PoolTypeOK, FreeWp
  <2>4. AsAsked'
    BY <2>1, <2>2, <2>3 DEF IInv, AsAsked
  <2> QED
    BY <2>1, <2>2, <2>4 DEF IInv, TypeOK, Executing, cpuVars
<1> QED
  BY <1>1, <1>2

\* An instruction, check_ and the test of the state.
LEMMA IterateIInv ==
  ASSUME IInv, NEW instr \in {"other", "trap", "int3"}, NEW val \in [Expr -> Value],
         Iterate(instr, val)
  PROVE  IInv'
<1> DEFINE state == StateAfter(instr, val)
<1>1. /\ pc = "exec" /\ cur' = val /\ n' = n - 1
      /\ trapped' = (trapped \/ instr = "trap")
      /\ value_watching' = Recorded(val)
      /\ nemu_state' = StateOnReturn(state, n')
      /\ pc' = IF state # "RUNNING" \/ n' = 0 THEN "prompt" ELSE "exec"
      /\ UNCHANGED <<nxt, head, free_, expr_watching, asked>>
  BY DEF Iterate, CountDown
<1>2. n \in 1 .. MaxN
  BY <1>1, MonitorAssumption DEF IInv, TypeOK, Executing
<1>3. n' \in 0 .. MaxN
  BY <1>1, <1>2, MonitorAssumption
<1>4. state \in {"STOP", "RUNNING", "END"}
  BY DEF StateAfter
<1>5. nemu_state' \in {"STOP", "RUNNING", "END"}
  BY <1>1, <1>4 DEF StateOnReturn
<1>6. value_watching' \in [WP -> Value]
  <2>1. \A w \in Active : expr_watching[w] \in Expr
    BY Heads DEF IInv, TypeOK, PoolTypeOK, PoolSound
  <2>2. \A w \in WP : value_watching[w] \in Value
    BY DEF IInv, TypeOK, PoolTypeOK
  <2> QED
    BY <1>1, <2>1, <2>2 DEF Recorded
<1>7. trapped' \in BOOLEAN /\ cur' \in [Expr -> Value] /\ pc' \in {"prompt", "exec"}
  BY <1>1
<1>8. TypeOK'
  BY <1>1, <1>3, <1>5, <1>6, <1>7 DEF IInv, TypeOK, PoolTypeOK
<1>9. PoolSound'
  BY <1>1, SamePool DEF IInv
<1>10. Executing'
  <2> HIDE DEF state
  <2>1. pc' = "exec" => state = "RUNNING" /\ n' # 0
    BY <1>1
  <2>2. n' # 0 => n' > 0
    BY <1>3
  <2> QED
    BY <1>1, <2>1, <2>2 DEF Executing, StateOnReturn
<1>11. AsAsked'
  <2>1. Active' = Active /\ Active \subseteq WP
    BY <1>1, SamePool, Heads DEF IInv, TypeOK
  <2>2. \A w \in Active : value_watching'[w] = value_watching[w]
    BY <1>1, <2>1 DEF Recorded
  <2> QED
    BY <1>1, <2>1, <2>2 DEF IInv, AsAsked
<1> QED
  BY <1>8, <1>9, <1>10, <1>11 DEF IInv

LEMMA NextIInv == ASSUME IInv, [Next]_vars PROVE IInv'
<1>1. CASE \/ CmdWFull \/ CmdBadExpr \/ CmdQ \/ CmdC
           \/ \E count \in 0 .. MaxN : CmdSi(count)
  BY <1>1, CommandIInv
<1>2. CASE (\E e \in Expr : CmdW(e)) \/ (\E no \in WP : CmdD(no))
  BY <1>2, PoolCommandIInv
<1>3. CASE Execute
  <2>1. CASE Inv
    <3>1. UNCHANGED <<poolVars, nemu_state, n, cur, trapped, asked>> /\ pc' = "dead"
      BY <2>1 DEF Inv
    <3>2. PoolTypeOK' /\ PoolSound' /\ AsAsked'
      BY <3>1, SameWishes
    <3> QED
      BY <3>1, <3>2 DEF IInv, TypeOK, Executing
  <2>2. CASE ~ Inv
    <3>1. PICK val \in [Expr -> Value] :
             \E instr \in {"other", "trap", "int3"} : Iterate(instr, val)
      BY <1>3, <2>2 DEF Execute
    <3> QED
      BY <3>1, IterateIInv
  <2> QED
    BY <2>1, <2>2
<1>4. CASE UNCHANGED vars
  <2>1. UNCHANGED <<poolVars, asked>> /\ UNCHANGED cpuVars
    BY <1>4 DEF vars
  <2>2. PoolTypeOK' /\ PoolSound' /\ AsAsked'
    BY <2>1, SameWishes
  <2> QED
    BY <2>1, <2>2 DEF IInv, TypeOK, Executing, cpuVars
<1> QED
  BY <1>1, <1>2, <1>3, <1>4 DEF Next

-----------------------------------------------------------------------------
(* The theorems.                                                           *)

LEMMA Invariance == Spec => []IInv
<1> QED
  BY InitIInv, NextIInv, PTL DEF Spec

\* Every variable of the debugger keeps its type, and the count of cpu_exec
\* never wraps below zero (cpu-exec.c:54).
THEOREM TypeCorrect == Spec => []TypeOK
<1>1. IInv => TypeOK
  BY DEF IInv
<1> QED
  BY <1>1, Invariance, PTL

\* new_wp and free_wp keep the two lists of the pool disjoint, ended and
\* complete, and check_ evaluates the watchpoints that have an expression
\* (watchpoint.c:47-111).
THEOREM PoolStaysSound == Spec => []PoolSound
<1>1. IInv => PoolSound
  BY DEF IInv
<1> QED
  BY <1>1, Invariance, PTL

\* cpu_exec goes on to another instruction only when check_ found every
\* watched expression as it was recorded, and what is recorded is the value
\* the user set the watchpoint with (cpu-exec.c:75-85, watchpoint.c:24-44).
LEMMA ExecutingStep ==
  ASSUME IInv, [Next]_vars, pc = "exec", pc' = "exec", ~ UNCHANGED vars,
         NEW a \in asked
  PROVE  cur'[a[2]] = a[3]
<1>1. Execute /\ ~ Inv
  BY DEF Next, CmdW, CmdWFull, CmdBadExpr, CmdD, CmdQ, CmdSi, CmdC, CpuExec, Inv
<1>2. PICK val \in [Expr -> Value] :
         \E instr \in {"other", "trap", "int3"} : Iterate(instr, val)
  BY <1>1 DEF Execute
<1>3. ~ Changed(val) /\ cur' = val
  BY <1>2 DEF Iterate, StateAfter
<1>4. PICK w \in Active : a = <<w, expr_watching[w], value_watching[w]>>
  BY DEF IInv, AsAsked
<1> QED
  BY <1>3, <1>4 DEF Changed

\* Over any sequence of commands and instructions the program is not executed
\* past a point where a watched expression differs from its value at the w
\* that asked for it (watchpoint.c:31, cpu-exec.c:75-85).
THEOREM ChangesStop == Spec => ChangeStops
<1>1. IInv /\ [Next]_vars
      => [ pc = "exec" /\ pc' = "exec" => \A a \in asked : cur'[a[2]] = a[3] ]_vars
  BY ExecutingStep
<1> QED
  BY <1>1, Invariance, PTL DEF ChangeStops, Spec

-----------------------------------------------------------------------------
(* Recursion on a height.                                                  *)

\* A set of numbers has a least one.
LEMMA LeastOf ==
  ASSUME NEW S \in SUBSET Nat, S # {}
  PROVE  \E f \in S : \A j \in S : f <= j
<1> DEFINE less == OpToRel(<, Nat)
<1>1. IsWellFoundedOn(less, Nat)
  BY NatLessThanWellFounded
<1>2. \A j, l \in Nat : j < l => <<j, l>> \in less
  BY DEF OpToRel
<1> HIDE DEF less
<1>3. PICK f \in S : \A j \in S : ~ (<<j, f>> \in less)
  BY <1>1, WFMin
<1>4. ASSUME NEW j \in S PROVE f <= j
  <2>1. ~ (j < f)
    BY <1>2, <1>3
  <2> QED
    BY <2>1
<1> QED
  BY <1>4

\* Induction: a set that holds an element when it holds all lower ones.
LEMMA ByHeight ==
  ASSUME NEW S, NEW h \in [S -> Nat], NEW G \in SUBSET S,
         \A x \in S : (\A y \in S : h[y] < h[x] => y \in G) => x \in G
  PROVE  G = S
<1> SUFFICES ASSUME G # S PROVE FALSE
  OBVIOUS
<1> DEFINE H == {h[x] : x \in S \ G}
<1>1. H \in SUBSET Nat /\ H # {}
  OBVIOUS
<1> HIDE DEF H
<1>2. PICK least \in H : \A j \in H : least <= j
  BY <1>1, LeastOf
<1>3. PICK x \in S \ G : h[x] = least
  BY DEF H
<1>4. ASSUME NEW y \in S, h[y] < h[x] PROVE y \in G
  <2> SUFFICES ASSUME y \notin G PROVE FALSE
    OBVIOUS
  <2>1. h[y] \in H
    BY DEF H
  <2>2. h[x] <= h[y] /\ h[x] \in Nat /\ h[y] \in Nat
    BY <1>2, <1>3, <2>1
  <2> QED
    BY <1>4, <2>2
<1> QED
  BY <1>3, <1>4

\* A recursive definition, f = step[f].
HasSolution(F, step) == \E f \in F : f = step[f]

\* Its value at x depends on the values at lower elements only.
Descends(S, F, h, step) ==
  \A f, g \in F : \A x \in S :
    (\A y \in S : h[y] < h[x] => f[y] = g[y]) => step[f][x] = step[g][x]

\* Then it has a solution.
LEMMA FixedPoint ==
  ASSUME NEW S, NEW V, NEW h \in [S -> Nat], NEW step \in [[S -> V] -> [S -> V]],
         NEW base \in [S -> V], Descends(S, [S -> V], h, step)
  PROVE  HasSolution([S -> V], step)
<1>d. \A f, g \in [S -> V] : \A x \in S :
        (\A y \in S : h[y] < h[x] => f[y] = g[y]) => step[f][x] = step[g][x]
  BY DEF Descends
<1> DEFINE F           == [S -> V]
           Holds(f, k) == \A x \in S : h[x] < k => f[x] = step[f][x]
           Lacks       == {k \in Nat : ~ \E f \in F : Holds(f, k)}
<1>1. Lacks = {}
  <2> SUFFICES ASSUME Lacks # {} PROVE FALSE
    OBVIOUS
  <2>1. PICK k \in Lacks : \A j \in Lacks : k <= j
    <3>1. Lacks \in SUBSET Nat
      OBVIOUS
    <3> HIDE DEF Lacks
    <3> QED
      BY <3>1, LeastOf
  <2>2. k # 0
    <3>1. Holds(base, 0)
      OBVIOUS
    <3> QED
      BY <3>1
  <2>3. k \in Nat /\ k - 1 \in Nat /\ k - 1 \notin Lacks
    BY <2>1, <2>2
  <2>4. PICK f \in F : Holds(f, k - 1)
    BY <2>3
  <2>5. step[f] \in F
    OBVIOUS
  <2>6. ASSUME NEW x \in S, h[x] < k PROVE step[f][x] = step[step[f]][x]
    <3>1. ASSUME NEW y \in S, h[y] < h[x] PROVE f[y] = step[f][y]
      <4>1. h[y] \in Nat /\ h[x] \in Nat
        OBVIOUS
      <4>2. h[y] < k - 1
        BY <2>3, <2>6, <3>1, <4>1
      <4> QED
        BY <2>4, <4>2
    <3> QED
      BY <1>d, <2>5, <3>1
  <2> QED
    BY <2>1, <2>5, <2>6
<1>2. ASSUME NEW k \in Nat, NEW m \in Nat, NEW f \in F, NEW g \in F,
             Holds(f, k), Holds(g, m)
      PROVE  \A x \in S : h[x] < k /\ h[x] < m => f[x] = g[x]
  <2> DEFINE G == {x \in S : h[x] < k /\ h[x] < m => f[x] = g[x]}
  <2>1. G \in SUBSET S
    OBVIOUS
  <2>2. ASSUME NEW x \in S, \A y \in S : h[y] < h[x] => y \in G PROVE x \in G
    <3> SUFFICES ASSUME h[x] < k, h[x] < m PROVE f[x] = g[x]
      OBVIOUS
    <3>1. ASSUME NEW y \in S, h[y] < h[x] PROVE f[y] = g[y]
      <4>1. h[y] \in Nat /\ h[x] \in Nat
        OBVIOUS
      <4>2. h[y] < k /\ h[y] < m
        BY <3>1, <4>1
      <4> QED
        BY <2>2, <3>1, <4>2
    <3>2. step[f][x] = step[g][x]
      BY <1>d, <3>1
    <3> QED
      BY <1>2, <3>2
  <2> HIDE DEF G
  <2>3. G = S
    BY <2>1, <2>2, ByHeight
  <2> QED
    BY <2>3 DEF G
<1> DEFINE upTo(k) == CHOOSE f \in F : Holds(f, k)
           fix     == [x \in S |-> upTo(h[x] + 1)[x]]
<1>3. ASSUME NEW k \in Nat PROVE upTo(k) \in F /\ Holds(upTo(k), k)
  <2>1. \E f \in F : Holds(f, k)
    BY <1>1
  <2> HIDE DEF Holds, F
  <2> QED
    BY <2>1
<1> HIDE DEF upTo, Lacks
<1>4. fix \in F
  <2>1. ASSUME NEW x \in S PROVE upTo(h[x] + 1)[x] \in V
    <3>1. h[x] + 1 \in Nat
      OBVIOUS
    <3> QED
      BY <1>3, <3>1
  <2> QED
    BY <2>1
<1>5. ASSUME NEW x \in S PROVE fix[x] = step[fix][x]
  <2> DEFINE g == upTo(h[x] + 1)
  <2>1. h[x] \in Nat /\ h[x] + 1 \in Nat /\ h[x] < h[x] + 1
    OBVIOUS
  <2>2. g \in F /\ Holds(g, h[x] + 1)
    BY <1>3, <2>1
  <2>3. ASSUME NEW y \in S, h[y] < h[x] PROVE fix[y] = g[y]
    <3>1. h[y] \in Nat /\ h[y] + 1 \in Nat /\ h[y] < h[y] + 1 /\ h[y] < h[x] + 1
      BY <2>1, <2>3
    <3>2. upTo(h[y] + 1) \in F /\ Holds(upTo(h[y] + 1), h[y] + 1)
      BY <1>3, <3>1
    <3>3. upTo(h[y] + 1)[y] = g[y]
      <4> HIDE DEF Holds, F, g
      <4> QED
        BY <1>2, <2>1, <2>2, <3>1, <3>2
    <3> QED
      BY <3>3
  <2>4. fix[x] = g[x]
    OBVIOUS
  <2> HIDE DEF g, fix
  <2>5. step[fix][x] = step[g][x]
    BY <1>d, <1>4, <2>2, <2>3
  <2>6. g[x] = step[g][x]
    BY <2>1, <2>2
  <2> QED
    BY <2>4, <2>5, <2>6
<1>6. step[fix] \in F
  <2> HIDE DEF fix
  <2> QED
    BY <1>4
<1>7. fix = step[fix]
  <2> HIDE DEF fix
  <2> QED
    BY <1>4, <1>5, <1>6
<1> QED
  BY <1>4, <1>7 DEF HasSolution

-----------------------------------------------------------------------------
(* The recursive definitions have solutions.                               *)

Kinds == Literals \union {"REG", "VAR", "unary", "deref", "binary"}

\* What an expression is made of.
LEMMA TreeFacts ==
  ASSUME NEW t \in Trees
  PROVE  /\ Height \in [Trees -> Nat] /\ t.kind \in Kinds
         /\ t.kind \in Literals => t.n \in Word
         /\ t.kind = "REG" => t = Register
         /\ t.kind = "VAR" => t = Symbol
         /\ t.kind = "unary" => t.op \in {"-", "!"} /\ t.form \in Literals /\ t.n \in Word
         /\ t.kind = "deref" => t.arg \in Trees /\ Height[t.arg] < Height[t]
         /\ t.kind = "binary" => /\ t.op \in BinaryOps
                                 /\ t.left \in Trees /\ Height[t.left] < Height[t]
                                 /\ t.right \in Trees /\ Height[t.right] < Height[t]
BY TreeAssumption DEF IsTree, Kinds, Literals

\* What an evaluation returns.
Results == Word \union {Abort}

\* The helpers of eval stay within a word, or abort.
LEMMA WordFacts ==
  /\ M \in Nat /\ M > 1 /\ Word = 0 .. M - 1 /\ Word \subseteq Int /\ 0 \in Word
  /\ Abort \notin Word /\ Abort \in Results /\ Word \subseteq Results
  /\ \A x \in Int : Wrap(x) \in Word
  /\ \A b : Truth(b) \in Word
  /\ \A a : Read(a) \in Results
  /\ Eax \in Word /\ SymbolAddr \in Word
<1>1. M \in Nat /\ M > 1 /\ Eax \in Word /\ SymbolAddr \in Word
      /\ \A a \in DOMAIN Mem : Mem[a] \in Word
  BY ExprAssumption
<1> HIDE DEF M
<1>2. \A x \in Int : Wrap(x) \in Word
  BY <1>1 DEF Wrap, Word
<1>3. Word = 0 .. M - 1 /\ Word \subseteq Int /\ Abort \notin Word /\ 0 \in Word /\ 1 \in Word
  BY <1>1 DEF Word, Abort
<1>4. \A a : Read(a) \in Results
  BY <1>1, <1>3 DEF Read, Results
<1> QED
  BY <1>1, <1>2, <1>3, <1>4 DEF Truth, Results

\* The operators that tokens have.
Calculated == {"+", "-", "*", "/", "==", "!=", "||"}

\* An operator of two words gives a word or aborts.
LEMMA ApplyType ==
  ASSUME NEW op \in Calculated, NEW a \in Word, NEW b \in Word
  PROVE  Apply(op, a, b) \in Results
<1>1. /\ M \in Nat /\ M > 1 /\ \A x \in Int : Wrap(x) \in Word
      /\ a \in Int /\ b \in Int /\ 0 <= b /\ b < M /\ \A x : Truth(x) \in Word
      /\ Word \subseteq Results /\ Abort \in Results
  BY WordFacts
<1> HIDE DEF M
<1>2. Signed(a) \in Int /\ Signed(b) \in Int /\ (b # 0 => Signed(b) # 0)
  BY <1>1 DEF Signed
<1>3. Wrap(a + b) \in Word /\ Wrap(a - b) \in Word
  BY <1>1
<1>4. Wrap(Signed(a) * Signed(b)) \in Word
  <2>1. \A x, y \in Int : x * y \in Int
    OBVIOUS
  <2> QED
    BY <1>1, <1>2, <2>1
<1>5. b # 0 => Wrap(Quot(Signed(a), Signed(b))) \in Word
  <2>1. \A x \in Int, y \in Int \ {0} : Quot(x, y) \in Int
    <3> SUFFICES ASSUME NEW x \in Int, NEW y \in Int \ {0} PROVE Quot(x, y) \in Int
      OBVIOUS
    <3> DEFINE c == IF x < 0 THEN - x ELSE x
               d == IF y < 0 THEN - y ELSE y
    <3>1. c \in Int /\ d \in Int /\ d > 0
      OBVIOUS
    <3>2. Quot(x, y) = IF (x < 0) = (y < 0) THEN c \div d ELSE - (c \div d)
      BY DEF Quot
    <3> HIDE DEF c, d
    <3>3. c \div d \in Int
      BY <3>1
    <3> QED
      BY <3>2, <3>3
  <2> QED
    BY <1>1, <1>2, <2>1
<1> HIDE DEF Calculated
<1>6. op = "/" => Apply(op, a, b) \in Results
  BY <1>1, <1>5 DEF Apply
<1>7. op \in {"+", "-", "*"} => Apply(op, a, b) \in Results
  BY <1>1, <1>3, <1>4 DEF Apply
<1>8. op \in {"==", "!=", "||"} => Apply(op, a, b) \in Results
  BY <1>1 DEF Apply
<1> QED
  BY <1>6, <1>7, <1>8 DEF Calculated

IsValue(f) == f = [t \in Trees |-> ValueOf(f, t)]

\* One level of the recursions, and what it needs of the parts.
LEMMA ValueOfType ==
  ASSUME NEW f, NEW t \in Trees,
         \A u \in Trees : Height[u] < Height[t] => f[u] \in Results
  PROVE  ValueOf(f, t) \in Results
<1>1. /\ t.kind \in Kinds
      /\ t.kind \in Literals \union {"unary"} => t.n \in Word
      /\ t.kind = "deref" => f[t.arg] \in Results
      /\ t.kind = "binary" => t.op \in BinaryOps /\ f[t.left] \in Results /\ f[t.right] \in Results
  BY TreeFacts
<1>2. CASE t.kind \in Literals
  <2>1. ValueOf(f, t) = t.n
    BY <1>2 DEF ValueOf, Literals
  <2> QED
    BY <1>1, <1>2, <2>1 DEF Results
<1>3. CASE t.kind \in {"REG", "VAR"}
  <2>1. ValueOf(f, t) \in {Eax, SymbolAddr}
    BY <1>3 DEF ValueOf, Literals
  <2> QED
    BY <2>1, WordFacts
<1>4. CASE t.kind = "unary"
  <2>1. ValueOf(f, t) = IF t.op = "-" THEN Wrap(- t.n) ELSE Truth(t.n = 0)
    BY <1>4 DEF ValueOf, Literals
  <2>2. - t.n \in Int
    BY <1>1, <1>4, WordFacts
  <2> QED
    BY <2>1, <2>2, WordFacts
<1>5. CASE t.kind = "deref"
  <2>1. ValueOf(f, t) = IF f[t.arg] = Abort THEN Abort ELSE Read(f[t.arg])
    BY <1>5 DEF ValueOf, Literals
  <2> QED
    BY <2>1, WordFacts
<1>6. CASE t.kind = "binary"
  <2> DEFINE a == f[t.left]
             b == f[t.right]
  <2>1. ValueOf(f, t) = IF a = Abort THEN Abort
                        ELSE IF Decides(t.op, a) THEN Truth(a # 0)
                        ELSE IF b = Abort THEN Abort
                        ELSE IF t.op = "&&" THEN Truth(b # 0)
                        ELSE Apply(t.op, a, b)
    BY <1>6 DEF ValueOf, Literals
  <2>2. a \in Results /\ b \in Results
    BY <1>1, <1>6
  <2> HIDE DEF a, b
  <2>3. CASE a = Abort \/ b = Abort \/ Decides(t.op, a)
    BY <2>1, <2>3, WordFacts
  <2>4. CASE ~ (a = Abort \/ b = Abort \/ Decides(t.op, a)) /\ t.op = "&&"
    BY <2>1, <2>4, WordFacts
  <2>5. CASE ~ (a = Abort \/ b = Abort \/ Decides(t.op, a)) /\ t.op # "&&"
    <3>1. a \in Word /\ b \in Word /\ t.op \in Calculated
      BY <1>1, <1>6, <2>2, <2>5 DEF Results, BinaryOps, Calculated
    <3>2. Apply(t.op, a, b) \in Results
      BY <3>1, ApplyType
    <3> QED
      BY <2>1, <2>5, <3>2
  <2> QED
    BY <2>3, <2>4, <2>5
<1> QED
  BY <1>1, <1>2, <1>3, <1>4, <1>5, <1>6 DEF Kinds

\* The value of an expression is defined for all of them at once.
LEMMA MeaningIs ==
  \E f : /\ IsValue(f)
         /\ \A t \in Trees : Meaning(t) = f[t] /\ f[t] \in Results
<1> DEFINE F    == [Trees -> Results]
           step == [f \in F |-> [t \in Trees |-> ValueOf(f, t)]]
<1>1. ASSUME NEW f \in F, NEW g \in F, NEW t \in Trees,
             \A u \in Trees : Height[u] < Height[t] => f[u] = g[u]
      PROVE  ValueOf(f, t) = ValueOf(g, t)
  <2>1. t.kind = "deref" => f[t.arg] = g[t.arg]
    BY <1>1, TreeFacts
  <2>2. t.kind = "binary" => f[t.left] = g[t.left] /\ f[t.right] = g[t.right]
    BY <1>1, TreeFacts
  <2>3. t.kind \in Kinds
    BY TreeFacts
  <2> HIDE DEF F
  <2> QED
    BY <2>1, <2>2, <2>3 DEF Kinds, Literals, ValueOf
<1>2. \E f : IsValue(f)
  <2>1. step \in [F -> F]
    BY ValueOfType
  <2>2. \A f, g \in F, t \in Trees :
          (\A u \in Trees : Height[u] < Height[t] => f[u] = g[u]) => step[f][t] = step[g][t]
    BY <1>1
  <2>3. [t \in Trees |-> Abort] \in F
    BY WordFacts
  <2>4. Height \in [Trees -> Nat]
    BY TreeAssumption
  <2>5. \E f \in F : f = step[f]
    <3> DEFINE base == [t \in Trees |-> Abort]
    <3>1. base \in F
      BY <2>3
    <3>2. step \in [[Trees -> Results] -> [Trees -> Results]]
      BY <2>1
    <3>3. base \in [Trees -> Results]
      BY <3>1
    <3>4. Descends(Trees, [Trees -> Results], Height, step)
      BY <2>2 DEF Descends
    <3> HIDE DEF step, base, F
    <3>5. HasSolution([Trees -> Results], step)
      BY <2>4, <3>2, <3>3, <3>4, FixedPoint
    <3> QED
      BY <3>5 DEF F, HasSolution
  <2>6. PICK f \in F : f = step[f]
    BY <2>5
  <2>7. f = [t \in Trees |-> ValueOf(f, t)]
    <3>1. step[f] = [t \in Trees |-> ValueOf(f, t)]
      OBVIOUS
    <3> QED
      BY <2>6, <3>1
  <2> QED
    BY <2>7 DEF IsValue
<1> DEFINE all == CHOOSE f : IsValue(f)
<1>3. IsValue(all)
  BY <1>2
<1>4. \A t : Meaning(t) = all[t]
  BY DEF Meaning, IsValue
<1> HIDE DEF all
<1>5. \A t \in Trees : all[t] \in Results
  <2> DEFINE G == {t \in Trees : all[t] \in Results}
  <2>1. G \in SUBSET Trees /\ Height \in [Trees -> Nat]
    BY TreeAssumption
  <2>2. ASSUME NEW t \in Trees, \A u \in Trees : Height[u] < Height[t] => u \in G
        PROVE  t \in G
    <3>1. all[t] = ValueOf(all, t)
      BY <1>3 DEF IsValue
    <3>2. \A u \in Trees : Height[u] < Height[t] => all[u] \in Results
      BY <2>2
    <3>3. ValueOf(all, t) \in Results
      BY <3>2, ValueOfType
    <3> QED
      BY <3>1, <3>3
  <2> HIDE DEF G
  <2>3. G = Trees
    BY <2>1, <2>2, ByHeight
  <2> QED
    BY <2>3 DEF G
<1> QED
  BY <1>3, <1>4, <1>5

\* What the value of an expression is in C, by its kind.
LEMMA Meanings ==
  ASSUME NEW t \in Trees
  PROVE  /\ Meaning(t) \in Results
         /\ t.kind \in Literals => Meaning(t) = t.n
         /\ t.kind = "REG" => Meaning(t) = Eax
         /\ t.kind = "VAR" => Meaning(t) = SymbolAddr
         /\ t.kind = "unary" =>
              Meaning(t) = IF t.op = "-" THEN Wrap(- t.n) ELSE Truth(t.n = 0)
         /\ t.kind = "deref" =>
              Meaning(t) = IF Meaning(t.arg) = Abort THEN Abort ELSE Read(Meaning(t.arg))
         /\ t.kind = "binary" /\ t.op # "&&" =>
              Meaning(t) = IF Meaning(t.left) = Abort THEN Abort
                           ELSE IF Decides(t.op, Meaning(t.left)) THEN Truth(Meaning(t.left) # 0)
                           ELSE IF Meaning(t.right) = Abort THEN Abort
                           ELSE Apply(t.op, Meaning(t.left), Meaning(t.right))
<1>1. PICK f : IsValue(f) /\ \A u \in Trees : Meaning(u) = f[u] /\ f[u] \in Results
  BY MeaningIs
<1>2. Meaning(t) = ValueOf(f, t)
  BY <1>1 DEF IsValue
<1>3. t.kind = "deref" => Meaning(t.arg) = f[t.arg]
  BY <1>1, TreeFacts
<1>4. t.kind = "binary" => Meaning(t.left) = f[t.left] /\ Meaning(t.right) = f[t.right]
  BY <1>1, TreeFacts
<1>5. Meaning(t) \in Results
  BY <1>1
<1>6. CASE t.kind = "binary"
  <2>1. ValueOf(f, t) = IF f[t.left] = Abort THEN Abort
                        ELSE IF Decides(t.op, f[t.left]) THEN Truth(f[t.left] # 0)
                        ELSE IF f[t.right] = Abort THEN Abort
                        ELSE IF t.op = "&&" THEN Truth(f[t.right] # 0)
                        ELSE Apply(t.op, f[t.left], f[t.right])
    BY <1>6 DEF ValueOf, Literals
  <2> QED
    BY <1>2, <1>4, <1>5, <1>6, <2>1 DEF Literals
<1>7. CASE t.kind # "binary"
  BY <1>2, <1>3, <1>5, <1>7 DEF ValueOf, Literals
<1> QED
  BY <1>6, <1>7

IsParts(f) == f = [t \in Trees |-> PartsOf(f, t)]

\* The parts of an expression are defined for all of them at once.
LEMMA PartsAre ==
  \E f : IsParts(f) /\ \A t \in Trees : Parts(t) = f[t] /\ f[t] \subseteq Trees
<1> DEFINE F    == [Trees -> SUBSET Trees]
           step == [f \in F |-> [t \in Trees |-> PartsOf(f, t)]]
           base == [t \in Trees |-> {}]
<1>1. ASSUME NEW t \in Trees
      PROVE  Operands(t) \subseteq Trees /\ \A s \in Operands(t) : Height[s] < Height[t]
  BY TreeFacts DEF Operands
<1>2. ASSUME NEW f, NEW t \in Trees,
             \A u \in Trees : Height[u] < Height[t] => f[u] \subseteq Trees
      PROVE  PartsOf(f, t) \subseteq Trees
  <2>1. \A s \in Operands(t) : f[s] \subseteq Trees
    BY <1>1, <1>2
  <2> QED
    BY <2>1 DEF PartsOf
<1>3. ASSUME NEW f \in F, NEW g \in F, NEW t \in Trees,
             \A u \in Trees : Height[u] < Height[t] => f[u] = g[u]
      PROVE  PartsOf(f, t) = PartsOf(g, t)
  <2>1. \A s \in Operands(t) : f[s] = g[s]
    BY <1>1, <1>3
  <2> QED
    BY <2>1 DEF PartsOf
<1>4. \E f : IsParts(f)
  <2>1. step \in [F -> F]
    BY <1>2
  <2>2. Descends(Trees, F, Height, step)
    BY <1>3 DEF Descends
  <2>3. base \in F /\ Height \in [Trees -> Nat]
    BY TreeAssumption
  <2>4. HasSolution(F, step)
    <3> HIDE DEF step, base
    <3> QED
      BY <2>1, <2>2, <2>3, FixedPoint
  <2>5. PICK f \in F : f = step[f]
    BY <2>4 DEF HasSolution
  <2>6. f = [t \in Trees |-> PartsOf(f, t)]
    <3>1. step[f] = [t \in Trees |-> PartsOf(f, t)]
      OBVIOUS
    <3> QED
      BY <2>5, <3>1
  <2> QED
    BY <2>6 DEF IsParts
<1> DEFINE all == CHOOSE f : IsParts(f)
<1>5. IsParts(all)
  BY <1>4
<1>6. \A t : Parts(t) = all[t]
  BY DEF Parts, IsParts
<1> HIDE DEF all
<1>7. \A t \in Trees : all[t] \subseteq Trees
  <2> DEFINE G == {t \in Trees : all[t] \subseteq Trees}
  <2>1. G \in SUBSET Trees /\ Height \in [Trees -> Nat]
    BY TreeAssumption
  <2>2. ASSUME NEW t \in Trees, \A u \in Trees : Height[u] < Height[t] => u \in G
        PROVE  t \in G
    <3>1. all[t] = PartsOf(all, t)
      BY <1>5 DEF IsParts
    <3>2. PartsOf(all, t) \subseteq Trees
      BY <1>2, <2>2
    <3> QED
      BY <3>1, <3>2
  <2> HIDE DEF G
  <2>3. G = Trees
    BY <2>1, <2>2, ByHeight
  <2> QED
    BY <2>3 DEF G
<1> QED
  BY <1>5, <1>6, <1>7

\* The parts of an expression are itself and the parts of its operands.
LEMMA PartsOfOperands ==
  ASSUME NEW t \in Trees
  PROVE  /\ t \in Parts(t) /\ Parts(t) \subseteq Trees
         /\ t.kind \notin {"deref", "binary"} => Parts(t) = {t}
         /\ t.kind = "deref" => Parts(t) = {t} \union Parts(t.arg)
         /\ t.kind = "binary" => Parts(t) = {t} \union Parts(t.left) \union Parts(t.right)
<1>1. PICK f : IsParts(f) /\ \A u \in Trees : Parts(u) = f[u] /\ f[u] \subseteq Trees
  BY PartsAre
<1>2. Parts(t) = {t} \union UNION {f[s] : s \in Operands(t)} /\ Parts(t) \subseteq Trees
  BY <1>1 DEF IsParts, PartsOf
<1>3. CASE t.kind \notin {"deref", "binary"}
  <2>1. Operands(t) = {}
    BY <1>3 DEF Operands
  <2> QED
    BY <1>2, <1>3, <2>1
<1>4. CASE t.kind = "deref"
  <2>1. Operands(t) = {t.arg} /\ Parts(t.arg) = f[t.arg]
    BY <1>1, <1>4, TreeFacts DEF Operands
  <2> QED
    BY <1>2, <1>4, <2>1
<1>5. CASE t.kind = "binary"
  <2>1. /\ Operands(t) = {t.left, t.right}
        /\ Parts(t.left) = f[t.left] /\ Parts(t.right) = f[t.right]
    BY <1>1, <1>5, TreeFacts DEF Operands
  <2> QED
    BY <1>2, <1>5, <2>1
<1> QED
  BY <1>3, <1>4, <1>5

\* The value of an expression all of whose parts are evaluated.
Strict(t) == IF \A s \in Parts(t) : Meaning(s) # Abort THEN Meaning(t) ELSE Abort

\* What it is, by the kind of the expression.
LEMMA Stricts ==
  ASSUME NEW t \in Trees
  PROVE  /\ Strict(t) \in Results
         /\ t.kind \in Literals => Strict(t) = t.n
         /\ t.kind = "REG" => Strict(t) = Eax
         /\ t.kind = "VAR" => Strict(t) = SymbolAddr
         /\ t.kind = "unary" =>
              Strict(t) = IF t.op = "-" THEN Wrap(- t.n) ELSE Truth(t.n = 0)
         /\ t.kind = "deref" =>
              Strict(t) = IF Strict(t.arg) = Abort THEN Abort ELSE Read(Strict(t.arg))
         /\ t.kind = "binary" /\ t.op # "&&" =>
              Strict(t) = IF Abort \in {Strict(t.left), Strict(t.right)} THEN Abort
                          ELSE Apply(t.op, Strict(t.left), Strict(t.right))
<1>1. Strict(t) \in Results
  BY Meanings, WordFacts DEF Strict
<1>2. t.kind \notin {"deref", "binary"} => Strict(t) = Meaning(t)
  BY PartsOfOperands DEF Strict
<1>3. \A u \in Trees : Strict(u) = Abort <=> \E s \in Parts(u) : Meaning(s) = Abort
  BY PartsOfOperands DEF Strict
<1>4. CASE t.kind = "deref"
  <2>1. /\ t.arg \in Trees /\ Parts(t) = {t} \union Parts(t.arg)
        /\ Meaning(t) = IF Meaning(t.arg) = Abort THEN Abort ELSE Read(Meaning(t.arg))
    BY <1>4, TreeFacts, PartsOfOperands, Meanings
  <2>2. CASE Strict(t.arg) = Abort
    <3>1. Strict(t) = Abort
      BY <1>3, <2>1, <2>2
    <3> QED
      BY <1>1, <1>4, <2>2, <3>1 DEF Literals
  <2>3. CASE Strict(t.arg) # Abort
    <3>1. (\A s \in Parts(t.arg) : Meaning(s) # Abort) /\ Strict(t.arg) = Meaning(t.arg)
      BY <1>3, <2>1, <2>3 DEF Strict
    <3>2. Meaning(t.arg) # Abort
      BY <2>3, <3>1
    <3>3. Strict(t) = Meaning(t)
      BY <2>1, <3>1 DEF Strict
    <3> QED
      BY <1>1, <1>4, <2>1, <2>3, <3>1, <3>2, <3>3 DEF Literals
  <2> QED
    BY <2>2, <2>3
<1>5. CASE t.kind = "binary"
  <2> DEFINE a == Strict(t.left)
             b == Strict(t.right)
  <2>1. t.left \in Trees /\ t.right \in Trees /\ t.op \in BinaryOps
        /\ Parts(t) = {t} \union Parts(t.left) \union Parts(t.right)
    BY <1>5, TreeFacts, PartsOfOperands
  <2>2. CASE a = Abort \/ b = Abort
    BY <1>1, <1>3, <1>5, <2>1, <2>2 DEF Literals
  <2>3. CASE a # Abort /\ b # Abort
    <3>1. /\ \A s \in Parts(t.left) \union Parts(t.right) : Meaning(s) # Abort
          /\ a = Meaning(t.left) /\ b = Meaning(t.right)
      BY <1>3, <2>1, <2>3 DEF Strict
    <3>2. Strict(t) = Meaning(t)
      BY <2>1, <3>1 DEF Strict
    <3>3. t.op # "&&" => Meaning(t) = IF Decides(t.op, a) THEN Truth(a # 0)
                                      ELSE Apply(t.op, a, b)
      BY <1>5, <2>3, <3>1, Meanings
    <3> HIDE DEF a, b
    <3>4. t.op # "&&" /\ Decides(t.op, a) => Apply(t.op, a, b) = Truth(a # 0)
      BY DEF Decides, Apply, Truth
    <3> QED
      BY <1>1, <1>5, <2>3, <3>2, <3>3, <3>4 DEF a, b, Literals
  <2> QED
    BY <2>2, <2>3
<1> QED
  BY <1>1, <1>2, <1>4, <1>5, Meanings DEF Literals

\* All parts are ones the evaluator understands.
Fit(t) == \A s \in Parts(t) : Understood(s)

LEMMA FitParts ==
  ASSUME NEW t \in Trees, Fit(t)
  PROVE  /\ Understood(t)
         /\ t.kind = "deref" => Fit(t.arg)
         /\ t.kind = "binary" => t.op \in Calculated /\ Fit(t.left) /\ Fit(t.right)
<1>1. Understood(t)
  BY PartsOfOperands DEF Fit
<1>2. t.kind = "binary" => t.op \in Calculated
  BY <1>1, TreeFacts DEF Understood, BinaryOps, Calculated
<1> QED
  BY <1>1, <1>2, PartsOfOperands DEF Fit

\* The types that a token of a text or of the array has.
TokenTypes == {"NUM", "HEX", "REG", "VAR", "!", "(", ")", "none", "POINT", "NEG"} \union BinaryOps
TokenT     == [type : TokenTypes, n : Word]

IsText(how, f) == f = [t \in Trees |-> TextOf(how, f, t)]

\* A text in parentheses.
LEMMA EnclosedType ==
  ASSUME NEW ts \in Seq(TokenT), NEW bare
  PROVE  /\ Token("(") \in TokenT /\ Token(")") \in TokenT
         /\ Enclosed(ts) \in Seq(TokenT) /\ Len(Enclosed(ts)) = Len(ts) + 2
         /\ Enclosed(ts)[1] = Token("(") /\ Enclosed(ts)[Len(ts) + 2] = Token(")")
         /\ InParentheses(bare, ts) \in Seq(TokenT)
         /\ InParentheses(bare, ts) \in {ts, Enclosed(ts)}
<1>1. Token("(") \in TokenT /\ Token(")") \in TokenT
  BY WordFacts DEF Token, Number, TokenT, TokenTypes
<1> HIDE DEF TokenT
<1>2. <<Token("(")>> \in Seq(TokenT) /\ <<Token(")")>> \in Seq(TokenT)
  BY <1>1
<1>3. /\ Enclosed(ts) \in Seq(TokenT) /\ Len(Enclosed(ts)) = Len(ts) + 2
      /\ Enclosed(ts)[1] = Token("(") /\ Enclosed(ts)[Len(ts) + 2] = Token(")")
  BY <1>2 DEF Enclosed
<1> QED
  BY <1>1, <1>3 DEF InParentheses

\* One level of a text is a sequence of tokens when its parts are.
LEMMA TextOfType ==
  ASSUME NEW how, NEW f, NEW t \in Trees,
         \A u \in Trees : Height[u] < Height[t] => f[u] \in Seq(TokenT)
  PROVE  TextOf(how, f, t) \in Seq(TokenT)
<1>1. /\ t.kind \in Kinds
      /\ t.kind \in Literals \union {"unary"} => t.n \in Word
      /\ t.kind = "unary" => t.op \in {"-", "!"} /\ t.form \in Literals
      /\ t.kind = "deref" => f[t.arg] \in Seq(TokenT)
      /\ t.kind = "binary" => /\ t.op \in BinaryOps
                              /\ f[t.left] \in Seq(TokenT) /\ f[t.right] \in Seq(TokenT)
  BY TreeFacts
<1>2. \A type \in TokenTypes : Token(type) \in TokenT
  BY WordFacts DEF Token, Number, TokenT
<1>3. \A form \in Literals, m \in Word : Number(form, m) \in TokenT
  BY DEF Number, Literals, TokenT, TokenTypes
<1>4. CASE t.kind \in Literals \union {"REG", "VAR", "unary"}
  <2>1. {"REG", "VAR", "-", "!"} \subseteq TokenTypes
    BY DEF TokenTypes, BinaryOps
  <2> HIDE DEF TokenT, TokenTypes
  <2>2. CASE t.kind \in Literals
    <3>1. TextOf(how, f, t) = <<Number(t.kind, t.n)>>
      BY <2>2 DEF TextOf, Literals
    <3> QED
      BY <1>1, <1>3, <2>2, <3>1
  <2>3. CASE t.kind \in {"REG", "VAR"}
    <3>1. TextOf(how, f, t) = <<Token(t.kind)>>
      BY <2>3 DEF TextOf, Literals
    <3> QED
      BY <1>2, <2>1, <2>3, <3>1
  <2>4. CASE t.kind = "unary"
    <3>1. TextOf(how, f, t) = <<Token(t.op), Number(t.form, t.n)>>
      BY <2>4 DEF TextOf, Literals
    <3>2. Token(t.op) \in TokenT /\ Number(t.form, t.n) \in TokenT
      BY <1>1, <1>2, <1>3, <2>1, <2>4
    <3> QED
      BY <3>1, <3>2
  <2> QED
    BY <1>4, <2>2, <2>3, <2>4
<1>5. CASE t.kind = "deref"
  <2>1. PICK bare : TextOf(how, f, t) = <<Token("*")>> \o InParentheses(bare, f[t.arg])
    BY <1>5 DEF TextOf, Literals
  <2>2. Token("*") \in TokenT
    BY <1>2 DEF TokenTypes, BinaryOps
  <2>3. InParentheses(bare, f[t.arg]) \in Seq(TokenT)
    BY <1>1, <1>5, EnclosedType
  <2> HIDE DEF TokenT
  <2> QED
    BY <2>1, <2>2, <2>3
<1>6. CASE t.kind = "binary"
  <2>1. PICK bl, br : TextOf(how, f, t) = InParentheses(bl, f[t.left]) \o <<Token(t.op)>>
                                          \o InParentheses(br, f[t.right])
    BY <1>6 DEF TextOf, Literals
  <2>2. Token(t.op) \in TokenT
    BY <1>1, <1>2, <1>6 DEF TokenTypes
  <2>3. InParentheses(bl, f[t.left]) \in Seq(TokenT) /\ InParentheses(br, f[t.right]) \in Seq(TokenT)
    BY <1>1, <1>6, EnclosedType
  <2> HIDE DEF TokenT
  <2>4. <<Token(t.op)>> \in Seq(TokenT)
    BY <2>2
  <2> QED
    BY <2>1, <2>3, <2>4
<1> QED
  BY <1>1, <1>4, <1>5, <1>6 DEF Kinds

\* A text is defined for all expressions at once.
LEMMA TextIs ==
  ASSUME NEW how
  PROVE  \E f : /\ IsText(how, f)
                /\ \A t \in Trees : Text(how, t) = f[t] /\ f[t] \in Seq(TokenT)
<1> DEFINE F    == [Trees -> Seq(TokenT)]
           step == [f \in F |-> [t \in Trees |-> TextOf(how, f, t)]]
           base == [t \in Trees |-> << >>]
<1>1. ASSUME NEW f \in F, NEW g \in F, NEW t \in Trees,
             \A u \in Trees : Height[u] < Height[t] => f[u] = g[u]
      PROVE  TextOf(how, f, t) = TextOf(how, g, t)
  <2>1. t.kind = "deref" => f[t.arg] = g[t.arg]
    BY <1>1, TreeFacts
  <2>2. t.kind = "binary" => f[t.left] = g[t.left] /\ f[t.right] = g[t.right]
    BY <1>1, TreeFacts
  <2>3. t.kind \in Kinds
    BY TreeFacts
  <2> HIDE DEF F
  <2> QED
    BY <2>1, <2>2, <2>3 DEF Kinds, Literals, TextOf
<1>2. \E f : IsText(how, f)
  <2>1. step \in [F -> F]
    BY TextOfType
  <2>2. Descends(Trees, F, Height, step)
    BY <1>1 DEF Descends
  <2>3. base \in F /\ Height \in [Trees -> Nat]
    BY TreeAssumption
  <2>4. HasSolution(F, step)
    <3> HIDE DEF step, base
    <3> QED
      BY <2>1, <2>2, <2>3, FixedPoint
  <2>5. PICK f \in F : f = step[f]
    BY <2>4 DEF HasSolution
  <2>6. f = [t \in Trees |-> TextOf(how, f, t)]
    <3>1. step[f] = [t \in Trees |-> TextOf(how, f, t)]
      OBVIOUS
    <3> QED
      BY <2>5, <3>1
  <2> QED
    BY <2>6 DEF IsText
<1> DEFINE all == CHOOSE f : IsText(how, f)
<1>3. IsText(how, all)
  BY <1>2
<1>4. \A t : Text(how, t) = all[t]
  BY DEF Text, IsText
<1> HIDE DEF all
<1>5. \A t \in Trees : all[t] \in Seq(TokenT)
  <2> DEFINE G == {t \in Trees : all[t] \in Seq(TokenT)}
  <2>1. G \in SUBSET Trees /\ Height \in [Trees -> Nat]
    BY TreeAssumption
  <2>2. ASSUME NEW t \in Trees, \A u \in Trees : Height[u] < Height[t] => u \in G
        PROVE  t \in G
    <3>1. all[t] = TextOf(how, all, t)
      BY <1>3 DEF IsText
    <3>2. \A u \in Trees : Height[u] < Height[t] => all[u] \in Seq(TokenT)
      BY <2>2
    <3>3. TextOf(how, all, t) \in Seq(TokenT)
      BY <3>2, TextOfType
    <3> QED
      BY <3>1, <3>3
  <2> HIDE DEF G
  <2>3. G = Trees
    BY <2>1, <2>2, ByHeight
  <2> QED
    BY <2>3 DEF G
<1> QED
  BY <1>3, <1>4, <1>5

-----------------------------------------------------------------------------
(* Guarded texts.                                                          *)

Guarded(t) == Text("guarded", t)

\* An operand as a guarded text has it.
Part(t, op) == InParentheses(t.kind \in Literals \/ IsTighter(t, op), Guarded(t))

\* A guarded text, by the kind of its expression.
LEMMA Texts ==
  ASSUME NEW t \in Trees
  PROVE  /\ Guarded(t) \in Seq(TokenT)
         /\ t.kind \in Literals => Guarded(t) = <<Number(t.kind, t.n)>>
         /\ t.kind \in {"REG", "VAR"} => Guarded(t) = <<Token(t.kind)>>
         /\ t.kind = "unary" => Guarded(t) = <<Token(t.op), Number(t.form, t.n)>>
         /\ t.kind = "deref" =>
              Guarded(t) = <<Token("*")>> \o InParentheses(t.arg.kind \in Literals, Guarded(t.arg))
         /\ t.kind = "binary" =>
              Guarded(t) = Part(t.left, t.op) \o <<Token(t.op)>> \o Part(t.right, t.op)
<1>1. PICK f : /\ IsText("guarded", f)
               /\ \A u \in Trees : Text("guarded", u) = f[u] /\ f[u] \in Seq(TokenT)
  BY TextIs
<1>2. Guarded(t) = TextOf("guarded", f, t) /\ Guarded(t) \in Seq(TokenT)
  BY <1>1 DEF IsText, Guarded
<1>3. t.kind = "deref" => Guarded(t.arg) = f[t.arg]
  BY <1>1, TreeFacts DEF Guarded
<1>4. t.kind = "binary" => Guarded(t.left) = f[t.left] /\ Guarded(t.right) = f[t.right]
  BY <1>1, TreeFacts DEF Guarded
<1>5. CASE t.kind \in Literals \union {"REG", "VAR", "unary"}
  BY <1>2, <1>5 DEF TextOf, Literals
<1>6. CASE t.kind = "deref"
  <2>1. TextOf("guarded", f, t) =
          <<Token("*")>> \o InParentheses(\/ t.arg.kind \in Literals
                                          \/ "guarded" = "plain" /\ t.arg.kind # "binary",
                                          f[t.arg])
    BY <1>6 DEF TextOf, Literals
  <2> QED
    BY <1>2, <1>3, <1>6, <2>1 DEF InParentheses, Literals
<1>7. CASE t.kind = "binary"
  <2>1. TextOf("guarded", f, t) =
          InParentheses(Bare("guarded", t.left, t.op, "left"), f[t.left])
          \o <<Token(t.op)>>
          \o InParentheses(Bare("guarded", t.right, t.op, "right"), f[t.right])
    BY <1>7 DEF TextOf, Literals
  <2>2. Part(t.left, t.op) = InParentheses(Bare("guarded", t.left, t.op, "left"), f[t.left])
    BY <1>4, <1>7 DEF Part, Bare, InParentheses
  <2>3. Part(t.right, t.op) = InParentheses(Bare("guarded", t.right, t.op, "right"), f[t.right])
    BY <1>4, <1>7 DEF Part, Bare, InParentheses
  <2> QED
    BY <1>2, <1>7, <2>1, <2>2, <2>3 DEF Literals
<1> QED
  BY <1>2, <1>5, <1>6, <1>7, TreeFacts DEF Kinds

\* How the text of an expression begins and ends.
WellEnded(t, ts) ==
  /\ Len(ts) > 0
  /\ ts[1].type = "REG" => t.kind = "REG"
  /\ t.kind \in Literals \union {"binary"} =>
       /\ ts[1].type \in Literals \union {"("}
       /\ ts[Len(ts)].type \in Literals \union {")"}

\* An operand begins and ends as a number or as a parenthesis.
LEMMA PartEnds ==
  ASSUME NEW t \in Trees, NEW op, WellEnded(t, Guarded(t))
  PROVE  /\ Part(t, op) \in Seq(TokenT) /\ Len(Part(t, op)) > 0
         /\ Part(t, op)[1].type \in Literals \union {"("}
         /\ Part(t, op)[Len(Part(t, op))].type \in Literals \union {")"}
<1> DEFINE ts == Guarded(t)
<1>1. ts \in Seq(TokenT)
  BY Texts
<1>2. CASE t.kind \in Literals \/ IsTighter(t, op)
  <2>1. Part(t, op) = ts
    BY <1>2 DEF Part, InParentheses
  <2>2. t.kind \in Literals \union {"binary"}
    BY <1>2 DEF IsTighter
  <2> QED
    BY <1>1, <2>1, <2>2 DEF WellEnded
<1>3. CASE ~ (t.kind \in Literals \/ IsTighter(t, op))
  <2>1. Part(t, op) = Enclosed(ts)
    BY <1>3 DEF Part, InParentheses
  <2> HIDE DEF ts
  <2>2. /\ Enclosed(ts) \in Seq(TokenT) /\ Len(Enclosed(ts)) = Len(ts) + 2
        /\ Enclosed(ts)[1] = Token("(") /\ Enclosed(ts)[Len(ts) + 2] = Token(")")
    BY <1>1, EnclosedType
  <2>3. Len(ts) \in Nat
    BY <1>1
  <2> QED
    BY <2>1, <2>2, <2>3 DEF Token, Number, Literals
<1> QED
  BY <1>2, <1>3

\* So does the text of a number or of a binary operation.
LEMMA TextEnds ==
  ASSUME NEW t \in Trees
  PROVE  WellEnded(t, Guarded(t))
<1> DEFINE G == {u \in Trees : WellEnded(u, Guarded(u))}
<1>1. G \in SUBSET Trees /\ Height \in [Trees -> Nat]
  BY TreeAssumption
<1>2. ASSUME NEW u \in Trees, \A w \in Trees : Height[w] < Height[u] => w \in G
      PROVE  WellEnded(u, Guarded(u))
  <2>1. CASE u.kind \in Literals
    <3>1. Guarded(u) = <<Number(u.kind, u.n)>>
      BY <2>1, Texts
    <3> QED
      BY <2>1, <3>1 DEF WellEnded, Number, Literals
  <2>2. CASE u.kind \in {"REG", "VAR"}
    <3>1. Guarded(u) = <<Token(u.kind)>>
      BY <2>2, Texts
    <3> QED
      BY <2>2, <3>1 DEF WellEnded, Token, Number, Literals
  <2>3. CASE u.kind = "unary"
    <3>1. Guarded(u) = <<Token(u.op), Number(u.form, u.n)>> /\ u.op \in {"-", "!"}
      BY <2>3, Texts, TreeFacts
    <3> QED
      BY <2>3, <3>1 DEF WellEnded, Token, Number, Literals
  <2>4. CASE u.kind = "deref"
    <3> DEFINE rest == InParentheses(u.arg.kind \in Literals, Guarded(u.arg))
    <3>1. Guarded(u) = <<Token("*")>> \o rest
      BY <2>4, Texts
    <3>2. rest \in Seq(TokenT)
      BY <2>4, Texts, TreeFacts, EnclosedType
    <3> HIDE DEF rest, TokenT
    <3>3. Len(Guarded(u)) = 1 + Len(rest) /\ Len(rest) \in Nat
      BY <3>1, <3>2
    <3>4. Guarded(u)[1] = Token("*")
      BY <3>1, <3>2
    <3> QED
      BY <2>4, <3>3, <3>4 DEF WellEnded, Token, Number, Literals
  <2>5. CASE u.kind = "binary"
    <3> DEFINE l == Part(u.left, u.op)
               r == Part(u.right, u.op)
    <3>1. Guarded(u) = l \o <<Token(u.op)>> \o r
      BY <2>5, Texts
    <3>2. /\ l \in Seq(TokenT) /\ Len(l) > 0 /\ l[1].type \in Literals \union {"("}
          /\ r \in Seq(TokenT) /\ Len(r) > 0 /\ r[Len(r)].type \in Literals \union {")"}
      BY <1>2, <2>5, TreeFacts, PartEnds
    <3>3. u.op \in BinaryOps
      BY <2>5, TreeFacts
    <3> HIDE DEF l, r
    <3>4. Token(u.op) \in TokenT
      BY <3>3, WordFacts DEF Token, Number, TokenT, TokenTypes
    <3> HIDE DEF TokenT
    <3>5. /\ Len(Guarded(u)) = Len(l) + 1 + Len(r) /\ Len(l) \in Nat /\ Len(r) \in Nat
      BY <3>1, <3>2, <3>4
    <3>6. Guarded(u)[1] = l[1]
      BY <3>1, <3>2, <3>4
    <3>7. Guarded(u)[Len(l) + 1 + Len(r)] = r[Len(r)]
      <4>1. l \o <<Token(u.op)>> \in Seq(TokenT) /\ Len(l \o <<Token(u.op)>>) = Len(l) + 1
        BY <3>2, <3>4
      <4> QED
        BY <3>1, <3>2, <3>5, <4>1
    <3> QED
      BY <2>5, <3>2, <3>5, <3>6, <3>7 DEF WellEnded, Literals
  <2> QED
    BY <2>1, <2>2, <2>3, <2>4, <2>5, TreeFacts DEF Kinds
<1>3. ASSUME NEW u \in Trees, \A w \in Trees : Height[w] < Height[u] => w \in G
      PROVE  u \in G
  BY <1>2, <1>3
<1> HIDE DEF G
<1>4. G = Trees
  BY <1>1, <1>3, ByHeight
<1> QED
  BY <1>4 DEF G

-----------------------------------------------------------------------------
(* The tokens of a text in the array.                                      *)

\* What the array has of a token of a text, given the type of the one before.
Seen(k, before) ==
  IF k.type \in {"*", "-"} /\ ~ EndsOperand(before)
  THEN [k EXCEPT !.type = IF @ = "*" THEN "POINT" ELSE "NEG"] ELSE k

Before(ts, i, before) == IF i = 1 THEN before ELSE ts[i - 1].type

Lies(T, p, ts, before) ==
  \A i \in 1 .. Len(ts) : T[p + i - 1] = Seen(ts[i], Before(ts, i, before))

\* Two texts in a row lie in the array one behind the other.
LEMMA LiesApart ==
  ASSUME NEW T, NEW p \in Int, NEW a \in Seq(TokenT), NEW b \in Seq(TokenT), NEW before,
         Len(a) > 0, Lies(T, p, a \o b, before)
  PROVE  Lies(T, p, a, before) /\ Lies(T, p + Len(a), b, a[Len(a)].type)
<1> DEFINE ts == a \o b
<1> HIDE DEF TokenT
<1>1. /\ ts \in Seq(TokenT) /\ Len(ts) = Len(a) + Len(b) /\ Len(a) \in Nat /\ Len(b) \in Nat
      /\ \A i \in 1 .. Len(a) : ts[i] = a[i]
      /\ \A i \in 1 .. Len(b) : ts[Len(a) + i] = b[i]
  OBVIOUS
<1>2. \A i \in 1 .. Len(ts) : T[p + i - 1] = Seen(ts[i], Before(ts, i, before))
  BY DEF Lies
<1> HIDE DEF ts
<1>3. ASSUME NEW i \in 1 .. Len(a) PROVE T[p + i - 1] = Seen(a[i], Before(a, i, before))
  <2>1. i \in 1 .. Len(ts) /\ (i # 1 => i - 1 \in 1 .. Len(a))
    BY <1>1
  <2>2. Before(ts, i, before) = Before(a, i, before)
    BY <1>1, <2>1 DEF Before
  <2> QED
    BY <1>1, <1>2, <2>1, <2>2
<1>4. ASSUME NEW i \in 1 .. Len(b)
      PROVE  T[p + Len(a) + i - 1] = Seen(b[i], Before(b, i, a[Len(a)].type))
  <2>1. i \in Int /\ Len(a) + i \in 1 .. Len(ts) /\ (i # 1 => i - 1 \in 1 .. Len(b))
    BY <1>1
  <2>2. Before(ts, Len(a) + i, before) = Before(b, i, a[Len(a)].type)
    <3>1. CASE i = 1
      <4>1. Len(a) + i # 1 /\ Len(a) + i - 1 = Len(a) /\ Len(a) \in 1 .. Len(a)
        BY <1>1, <3>1
      <4> QED
        BY <1>1, <3>1, <4>1 DEF Before
    <3>2. CASE i # 1
      <4>1. Len(a) + i # 1 /\ Len(a) + i - 1 = Len(a) + (i - 1)
        BY <1>1, <2>1, <3>2
      <4>2. ts[Len(a) + (i - 1)] = b[i - 1]
        BY <1>1, <2>1, <3>2
      <4> QED
        BY <3>2, <4>1, <4>2 DEF Before
    <3> QED
      BY <3>1, <3>2
  <2>3. p + (Len(a) + i) - 1 = p + Len(a) + i - 1
    BY <1>1, <2>1
  <2>4. T[p + (Len(a) + i) - 1] = Seen(ts[Len(a) + i], Before(ts, Len(a) + i, before))
    BY <1>2, <2>1
  <2> QED
    BY <1>1, <2>2, <2>3, <2>4
<1>5. Lies(T, p, a, before)
  BY <1>3 DEF Lies
<1>6. Lies(T, p + Len(a), b, a[Len(a)].type)
  BY <1>4 DEF Lies
<1> QED
  BY <1>5, <1>6

HasFirst(ts) == 1 \in 1 .. Len(ts)

\* The first token of a text.
LEMMA LiesFirst ==
  ASSUME NEW T, NEW p \in Int, NEW ts, NEW before, HasFirst(ts), Lies(T, p, ts, before)
  PROVE  T[p] = Seen(ts[1], before)
<1>1. p + 1 - 1 = p
  OBVIOUS
<1> QED
  BY <1>1 DEF Lies, Before, HasFirst

\* A text in parentheses has them around it in the array.
LEMMA LiesEnclosed ==
  ASSUME NEW T, NEW p \in Int, NEW ts \in Seq(TokenT), NEW before,
         Lies(T, p, Enclosed(ts), before), Len(ts) > 0
  PROVE  /\ T[p] = Token("(") /\ T[p + Len(ts) + 1] = Token(")")
         /\ Lies(T, p + 1, ts, "(")
<1> DEFINE open  == <<Token("(")>>
           close == <<Token(")")>>
<1>1. open \in Seq(TokenT) /\ close \in Seq(TokenT) /\ ts \o close \in Seq(TokenT)
  <2>1. Token("(") \in TokenT /\ Token(")") \in TokenT
    BY EnclosedType
  <2> HIDE DEF TokenT
  <2> QED
    BY <2>1
<1>2. Enclosed(ts) = open \o (ts \o close)
  <2> HIDE DEF TokenT, open, close
  <2> QED
    BY <1>1 DEF Enclosed, open, close
<1>3. /\ Len(open) = 1 /\ open[1] = Token("(") /\ Token("(").type = "(" /\ Token(")").type = ")"
      /\ Len(ts) \in Nat /\ p + 1 \in Int /\ p + 1 + Len(ts) \in Int
      /\ p + 1 + Len(ts) = p + Len(ts) + 1
  BY DEF Token, Number
<1>4. Lies(T, p, open \o (ts \o close), before)
  BY <1>2
<1>5. Lies(T, p, open, before) /\ Lies(T, p + 1, ts \o close, "(")
  <2>1. Len(open) > 0 /\ p + Len(open) = p + 1 /\ open[Len(open)].type = "("
    BY <1>3
  <2> DEFINE rest == ts \o close
  <2>2. rest \in Seq(TokenT) /\ Lies(T, p, open \o rest, before)
    BY <1>1, <1>4
  <2> HIDE DEF open, close, rest
  <2>3. Lies(T, p, open, before) /\ Lies(T, p + Len(open), rest, open[Len(open)].type)
    BY <1>1, <2>1, <2>2, LiesApart
  <2> QED
    BY <2>1, <2>3 DEF rest
<1>6. Lies(T, p + 1, ts, "(") /\ Lies(T, p + 1 + Len(ts), close, ts[Len(ts)].type)
  <2> HIDE DEF open, close
  <2> QED
    BY <1>1, <1>3, <1>5, LiesApart
<1>7. T[p] = Seen(Token("("), before)
  <2>1. T[p] = Seen(open[1], before)
    <3>1. HasFirst(open) /\ Lies(T, p, open, before)
      BY <1>5 DEF HasFirst
    <3> HIDE DEF open
    <3> QED
      BY <3>1, LiesFirst
  <2> QED
    BY <1>3, <2>1
<1>8. T[p + 1 + Len(ts)] = Seen(Token(")"), ts[Len(ts)].type)
  <2> DEFINE at == p + 1 + Len(ts)
             b  == ts[Len(ts)].type
  <2>1. at \in Int /\ Lies(T, at, close, b) /\ HasFirst(close) /\ close[1] = Token(")")
    BY <1>3, <1>6 DEF HasFirst
  <2> HIDE DEF at, b, close
  <2>2. T[at] = Seen(close[1], b)
    BY <2>1, LiesFirst
  <2> QED
    BY <2>1, <2>2 DEF at, b
<1>9. \A b : Seen(Token("("), b) = Token("(") /\ Seen(Token(")"), b) = Token(")")
  BY <1>3 DEF Seen
<1> QED
  BY <1>3, <1>6, <1>7, <1>8, <1>9

-----------------------------------------------------------------------------
(* The depth of parentheses.                                               *)

Kept(T, p, q, type) == {i \in p .. q : T[i].type = type}

\* Counting tokens of a type in two stretches.
LEMMA KeptSplit ==
  ASSUME NEW T, NEW type, NEW p \in Int, NEW q \in Int, NEW k \in Int, p <= k, k <= q + 1
  PROVE  /\ Cardinality(Kept(T, p, q, type)) \in Nat
         /\ Cardinality(Kept(T, p, q, type)) =
              Cardinality(Kept(T, p, k - 1, type)) + Cardinality(Kept(T, k, q, type))
<1> DEFINE K(a, b) == Kept(T, a, b, type)
<1>1. ASSUME NEW a \in Int, NEW b \in Int
      PROVE  IsFiniteSet(K(a, b)) /\ Cardinality(K(a, b)) \in Nat
  <2>1. IsFiniteSet(a .. b) /\ K(a, b) \in SUBSET (a .. b)
    BY FS_Interval DEF Kept
  <2>2. IsFiniteSet(K(a, b))
    BY <2>1, FS_Subset
  <2> QED
    BY <2>2, FS_CardinalityType
<1>2. K(p, q) = K(p, k - 1) \union K(k, q) /\ K(p, k - 1) \cap K(k, q) = {}
  <2>1. p .. q = (p .. k - 1) \union (k .. q) /\ (p .. k - 1) \cap (k .. q) = {}
    OBVIOUS
  <2> QED
    BY <2>1 DEF Kept
<1> HIDE DEF K
<1>3. Cardinality(K(p, k - 1) \union K(k, q)) =
        Cardinality(K(p, k - 1)) + Cardinality(K(k, q)) - Cardinality(K(p, k - 1) \cap K(k, q))
  <2>1. IsFiniteSet(K(p, k - 1)) /\ IsFiniteSet(K(k, q))
    BY <1>1
  <2> QED
    BY <2>1, FS_Union
<1>4. /\ Cardinality(K(p, k - 1)) \in Nat /\ Cardinality(K(k, q)) \in Nat
      /\ Cardinality(K(p, q)) \in Nat
  BY <1>1
<1>5. Cardinality(K(p, k - 1) \cap K(k, q)) = 0
  BY <1>2, FS_EmptySet
<1>6. Cardinality(K(p, q)) = Cardinality(K(p, k - 1)) + Cardinality(K(k, q))
  BY <1>2, <1>3, <1>4, <1>5
<1> QED
  BY <1>4, <1>6 DEF K

\* The depths of two stretches add up.
LEMMA DepthSplit ==
  ASSUME NEW T, NEW p \in Int, NEW q \in Int, NEW k \in Int, p <= k, k <= q + 1
  PROVE  Depth(T, p, q) \in Int /\ Depth(T, p, q) = Depth(T, p, k - 1) + Depth(T, k, q)
<1> DEFINE N(a, b, type) == Cardinality(Kept(T, a, b, type))
<1>1. \A a, b : Depth(T, a, b) = N(a, b, "(") - N(a, b, ")")
  BY DEF Depth, Kept
<1>2. ASSUME NEW type
      PROVE  /\ N(p, q, type) \in Nat /\ N(p, k - 1, type) \in Nat /\ N(k, q, type) \in Nat
             /\ N(p, q, type) = N(p, k - 1, type) + N(k, q, type)
  <2>1. N(p, q, type) \in Nat /\ N(p, q, type) = N(p, k - 1, type) + N(k, q, type)
    BY KeptSplit
  <2>2. N(p, k - 1, type) \in Nat
    <3>1. k - 1 \in Int /\ k <= (k - 1) + 1
      OBVIOUS
    <3> QED
      BY <3>1, KeptSplit
  <2>3. N(k, q, type) \in Nat
    <3>1. k <= k
      OBVIOUS
    <3> QED
      BY <3>1, KeptSplit
  <2> QED
    BY <2>1, <2>2, <2>3
<1> HIDE DEF N
<1> QED
  BY <1>1, <1>2

\* What a token adds to the depth.
Opens(k) == IF k.type = "(" THEN 1 ELSE IF k.type = ")" THEN -1 ELSE 0

\* The depth of a single token, and of none.
LEMMA DepthOne ==
  ASSUME NEW T, NEW p \in Int
  PROVE  Depth(T, p, p) = Opens(T[p]) /\ Depth(T, p, p - 1) = 0
<1>1. p .. p = {p} /\ p .. p - 1 = {}
  OBVIOUS
<1>2. \A c : {i \in p .. p - 1 : T[i].type = c} = {}
  BY <1>1
<1>3. \A c : {i \in p .. p : T[i].type = c} = IF T[p].type = c THEN {p} ELSE {}
  BY <1>1
<1>4. Cardinality({}) = 0 /\ Cardinality({p}) = 1
  BY FS_EmptySet, FS_Singleton
<1>5. Depth(T, p, p - 1) = 0
  BY <1>2, <1>4 DEF Depth
<1>6. Depth(T, p, p) = Opens(T[p])
  <2>1. Depth(T, p, p) = Cardinality(IF T[p].type = "(" THEN {p} ELSE {})
                         - Cardinality(IF T[p].type = ")" THEN {p} ELSE {})
    BY <1>3 DEF Depth
  <2> QED
    BY <1>4, <2>1 DEF Opens
<1> QED
  BY <1>5, <1>6

\* A first token, and the rest.
LEMMA DepthFirst ==
  ASSUME NEW T, NEW p \in Int, NEW q \in Int, p <= q
  PROVE  Depth(T, p, q) = Opens(T[p]) + Depth(T, p + 1, q) /\ Depth(T, p + 1, q) \in Int
<1>1. p + 1 \in Int /\ p <= p + 1 /\ p + 1 <= q + 1 /\ p + 1 <= p + 1 /\ (p + 1) - 1 = p
  OBVIOUS
<1>2. Depth(T, p, q) = Depth(T, p, (p + 1) - 1) + Depth(T, p + 1, q)
  BY <1>1, DepthSplit
<1>3. Depth(T, p + 1, q) \in Int
  BY <1>1, DepthSplit
<1> QED
  BY <1>1, <1>2, <1>3, DepthOne

-----------------------------------------------------------------------------
(* The evaluation of tokens p .. q has one result.                         *)

\* The operators of C, and no other token, have a priority.
LEMMA Priorities ==
  ASSUME NEW type
  PROVE  Priority(type) \in 0 .. 9 /\ (Priority(type) > 0 <=> type \in Calculated)
<1>1. CASE type \in Calculated
  BY <1>1 DEF Priority, Calculated
<1>2. CASE type \notin Calculated
  <2>1. Priority(type) = 0
    BY <1>2 DEF Priority, Calculated
  <2> QED
    BY <1>2, <2>1
<1> QED
  BY <1>1, <1>2

\* The operators outside parentheses.
Ops(T, p, q) == {i \in p .. q : Depth(T, p, i) = 0 /\ Priority(T[i].type) > 0}

Dominates(T, ops, i) == \A j \in ops \ {i} :
  \/ Priority(T[j].type) < Priority(T[i].type)
  \/ Priority(T[j].type) = Priority(T[i].type) /\ i < j

\* domi_position finds an operator if there is one, and the one to split at.
LEMMA Dominant ==
  ASSUME NEW T, NEW p \in Nat, NEW q \in Int
  PROVE  /\ Ops(T, p, q) = {} => DomiPosition(T, p, q) = -1
         /\ Ops(T, p, q) # {} => /\ DomiPosition(T, p, q) \in Ops(T, p, q)
                                 /\ Dominates(T, Ops(T, p, q), DomiPosition(T, p, q))
<1> DEFINE ops == Ops(T, p, q)
           pri(i) == Priority(T[i].type)
<1>1. DomiPosition(T, p, q) = IF ops = {} THEN -1 ELSE CHOOSE i \in ops : Dominates(T, ops, i)
  BY DEF DomiPosition, Ops, Dominates
<1>2. ops \in SUBSET Nat /\ \A i : pri(i) \in 0 .. 9
  BY Priorities DEF Ops
<1> HIDE DEF ops, pri
<1>3. ASSUME ops # {} PROVE \E i \in ops : Dominates(T, ops, i)
  <2> DEFINE gaps == {9 - pri(i) : i \in ops}
  <2>1. gaps \in SUBSET Nat /\ gaps # {}
    BY <1>2, <1>3
  <2>2. PICK g \in gaps : \A j \in gaps : g <= j
    <3> HIDE DEF gaps
    <3> QED
      BY <2>1, LeastOf
  <2> DEFINE loosest == {i \in ops : 9 - pri(i) = g}
  <2>3. loosest \in SUBSET Nat /\ loosest # {}
    BY <1>2
  <2>4. PICK i \in loosest : \A j \in loosest : i <= j
    <3> HIDE DEF loosest
    <3> QED
      BY <2>3, LeastOf
  <2>5. ASSUME NEW j \in ops \ {i} PROVE pri(j) < pri(i) \/ (pri(j) = pri(i) /\ i < j)
    <3>1. 9 - pri(i) <= 9 - pri(j) /\ pri(i) \in Int /\ pri(j) \in Int /\ i \in Int /\ j \in Int
      BY <1>2, <2>2, <2>4
    <3>2. pri(j) = pri(i) => i <= j
      BY <2>4
    <3> QED
      BY <3>1, <3>2
  <2>6. Dominates(T, ops, i)
    BY <2>5 DEF Dominates, pri
  <2> QED
    BY <2>4, <2>6
<1>4. ops # {} => /\ DomiPosition(T, p, q) \in ops
                  /\ Dominates(T, ops, DomiPosition(T, p, q))
  BY <1>1, <1>3
<1> QED
  BY <1>1, <1>4 DEF ops

Array == [Index -> TokenT]

\* Stretches of tokens that the evaluator meets in the array.
InArray(p, q) == p \in Nat /\ q \in Int /\ -1 <= q /\ q < NrTokens /\ p <= NrTokens

\* The arguments eval is defined for.
LEMMA Windows ==
  /\ \A p, q : InArray(p, q) <=> <<p, q>> \in Window
  /\ \A r \in Window : r = <<r[1], r[2]>> /\ InArray(r[1], r[2])
BY ExprAssumption DEF Window, InArray

\* How many tokens.
Span(p, q) == IF p > q THEN 0 ELSE q - p + 1

\* The calls eval makes of itself are of shorter stretches.
LEMMA Shorter ==
  ASSUME NEW T, NEW p, NEW q, InArray(p, q), p < q
  PROVE  LET op == DomiPosition(T, p, q)
         IN  /\ InArray(p + 1, q) /\ Span(p + 1, q) < Span(p, q)
             /\ InArray(p + 1, q - 1) /\ Span(p + 1, q - 1) < Span(p, q)
             /\ op # -1 => /\ InArray(p, op - 1) /\ Span(p, op - 1) < Span(p, q)
                           /\ InArray(op + 1, q) /\ Span(op + 1, q) < Span(p, q)
                           /\ T[op].type \in Calculated
<1> DEFINE op == DomiPosition(T, p, q)
<1>1. p \in Nat /\ q \in Int /\ q < NrTokens /\ NrTokens \in Nat
  BY ExprAssumption DEF InArray
<1>2. op # -1 => op \in Ops(T, p, q)
  BY <1>1, Dominant
<1> HIDE DEF op
<1>3. op # -1 => op \in p .. q /\ op \in Int /\ p <= op /\ op <= q /\ T[op].type \in Calculated
  BY <1>1, <1>2, Priorities DEF Ops
<1>4. InArray(p + 1, q) /\ Span(p + 1, q) < Span(p, q)
  BY <1>1 DEF InArray, Span
<1>5. InArray(p + 1, q - 1) /\ Span(p + 1, q - 1) < Span(p, q)
  BY <1>1 DEF InArray, Span
<1>6. op # -1 => InArray(p, op - 1) /\ Span(p, op - 1) < Span(p, q)
  BY <1>1, <1>3 DEF InArray, Span
<1>7. op # -1 => InArray(op + 1, q) /\ Span(op + 1, q) < Span(p, q)
  BY <1>1, <1>3 DEF InArray, Span
<1> QED
  BY <1>3, <1>4, <1>5, <1>6, <1>7 DEF op

IsEval(T, f) == f = [r \in Window |-> EvalOf(T, f, r[1], r[2])]

\* The results of all stretches.
Evals(T) == CHOOSE f : IsEval(T, f)

\* What eval makes of one token.
LEMMA TokenFacts ==
  ASSUME NEW k \in TokenT
  PROVE  Operand(k) \in Results /\ Wrap(- Scanned(k)) \in Word /\ k.n \in Word
<1>1. k.n \in Word
  BY DEF TokenT
<1>2. - Scanned(k) \in Int
  <2>1. Scanned(k) \in Word
    BY <1>1, WordFacts DEF Scanned
  <2> QED
    BY <2>1, WordFacts
<1>3. Operand(k) \in {k.n, Eax, SymbolAddr, 0, Abort}
  BY DEF Operand, Literals
<1> QED
  BY <1>1, <1>2, <1>3, WordFacts

\* One level of eval gives a word or aborts when the levels below do.
LEMMA EvalOfType ==
  ASSUME NEW T \in Array, NEW f, NEW p, NEW q, InArray(p, q),
         \A c, d : InArray(c, d) /\ Span(c, d) < Span(p, q) => f[<<c, d>>] \in Results
  PROVE  EvalOf(T, f, p, q) \in Results
<1> DEFINE op  == DomiPosition(T, p, q)
           val == f[<<p + 1, q>>]
           in  == f[<<p + 1, q - 1>>]
           a   == f[<<p, op - 1>>]
           b   == f[<<op + 1, q>>]
<1>1. CASE p > q
  BY <1>1, WordFacts DEF EvalOf
<1>2. p \in Int /\ q \in Int /\ 0 <= p /\ q < NrTokens /\ NrTokens \in Nat
  BY ExprAssumption DEF InArray
<1>3. CASE p = q
  <2>1. p \in Index
    BY <1>2, <1>3 DEF Index
  <2>2. T[p] \in TokenT
    BY <2>1 DEF Array
  <2> QED
    BY <1>2, <1>3, <2>2, TokenFacts DEF EvalOf
<1>4. CASE p < q
  <2>1. /\ val \in Results /\ in \in Results
        /\ op # -1 => a \in Results /\ b \in Results /\ T[op].type \in Calculated
    BY <1>4, Shorter
  <2>2. Wrap(- Scanned(T[q])) \in Word
    <3>1. q \in Index
      BY <1>2, <1>4 DEF Index
    <3>2. T[q] \in TokenT
      BY <3>1 DEF Array
    <3> QED
      BY <3>2, TokenFacts
  <2>3. Pointed(T, p, val) \in Results /\ Truth(Scanned(T[q]) = 0) \in Results
    BY WordFacts DEF Pointed
  <2>4. EvalOf(T, f, p, q) =
          IF CheckParentheses(T, p, q) THEN in
          ELSE IF op = -1 /\ val = Abort THEN Abort
          ELSE IF op = -1 /\ T[p].type \in {"POINT", "VAR"} THEN Pointed(T, p, val)
          ELSE IF op = -1 /\ T[p].type = "NEG" THEN Wrap(- Scanned(T[q]))
          ELSE IF T[p].type = "!" THEN Truth(Scanned(T[q]) = 0)
          ELSE IF op = -1 \/ Abort \in {a, b} THEN Abort
          ELSE Apply(T[op].type, a, b)
    BY <1>2, <1>4 DEF EvalOf
  <2> HIDE DEF op, val, in, a, b
  <2>5. op # -1 /\ Abort \notin {a, b} => Apply(T[op].type, a, b) \in Results
    <3> SUFFICES ASSUME op # -1, Abort \notin {a, b} PROVE Apply(T[op].type, a, b) \in Results
      OBVIOUS
    <3>1. a \in Word /\ b \in Word /\ T[op].type \in Calculated
      BY <2>1 DEF Results
    <3> QED
      BY <3>1, ApplyType
  <2> QED
    BY <2>1, <2>2, <2>3, <2>4, <2>5, WordFacts
<1> QED
  BY <1>1, <1>2, <1>3, <1>4

\* One level of eval depends on shorter stretches only.
LEMMA EvalOfSame ==
  ASSUME NEW T, NEW f, NEW g, NEW p, NEW q, InArray(p, q),
         \A c, d : InArray(c, d) /\ Span(c, d) < Span(p, q) => f[<<c, d>>] = g[<<c, d>>]
  PROVE  EvalOf(T, f, p, q) = EvalOf(T, g, p, q)
<1> DEFINE op == DomiPosition(T, p, q)
<1>1. p \in Int /\ q \in Int
  BY DEF InArray
<1>2. CASE p > q \/ p = q
  BY <1>1, <1>2 DEF EvalOf
<1>3. CASE p < q
  <2>1. /\ f[<<p + 1, q>>] = g[<<p + 1, q>>]
        /\ f[<<p + 1, q - 1>>] = g[<<p + 1, q - 1>>]
        /\ op # -1 => /\ f[<<p, op - 1>>] = g[<<p, op - 1>>]
                      /\ f[<<op + 1, q>>] = g[<<op + 1, q>>]
    BY <1>3, Shorter
  <2>2. CASE op = -1
    BY <1>1, <1>3, <2>1, <2>2 DEF EvalOf
  <2>3. CASE op # -1
    BY <1>1, <1>3, <2>1, <2>3 DEF EvalOf
  <2> QED
    BY <2>2, <2>3
<1> QED
  BY <1>1, <1>2, <1>3

\* The evaluation as an equation.
LEMMA EvalIs ==
  ASSUME NEW T \in Array
  PROVE  /\ \A p, q : Eval(T, p, q) = Evals(T)[<<p, q>>]
         /\ \A p, q : InArray(p, q) => /\ Eval(T, p, q) = EvalOf(T, Evals(T), p, q)
                                       /\ Eval(T, p, q) \in Results
<1> DEFINE F      == [Window -> Results]
           step   == [f \in F |-> [r \in Window |-> EvalOf(T, f, r[1], r[2])]]
           base   == [r \in Window |-> Abort]
           height == [r \in Window |-> Span(r[1], r[2])]
<1>1. height \in [Window -> Nat]
  <2>1. ASSUME NEW r \in Window PROVE Span(r[1], r[2]) \in Nat
    <3>1. r[1] \in Int /\ r[2] \in Int
      BY Windows DEF InArray
    <3> QED
      BY <3>1 DEF Span
  <2> QED
    BY <2>1
<1>2. ASSUME NEW f, NEW G, NEW r \in Window,
             \A s \in Window : height[s] < height[r] => f[s] \in G
      PROVE  \A c, d : InArray(c, d) /\ Span(c, d) < Span(r[1], r[2]) => f[<<c, d>>] \in G
  <2> SUFFICES ASSUME NEW c, NEW d, InArray(c, d), Span(c, d) < Span(r[1], r[2])
               PROVE  f[<<c, d>>] \in G
    OBVIOUS
  <2>1. <<c, d>> \in Window
    BY Windows
  <2>2. height[<<c, d>>] = Span(c, d) /\ height[r] = Span(r[1], r[2])
    BY <2>1
  <2> QED
    BY <1>2, <2>1, <2>2
<1>3. ASSUME NEW f, NEW r \in Window,
             \A s \in Window : height[s] < height[r] => f[s] \in Results
      PROVE  EvalOf(T, f, r[1], r[2]) \in Results
  <2>1. \A c, d : InArray(c, d) /\ Span(c, d) < Span(r[1], r[2]) => f[<<c, d>>] \in Results
    <3> HIDE DEF height
    <3> QED
      BY <1>2, <1>3
  <2>2. InArray(r[1], r[2])
    BY Windows
  <2> QED
    BY <2>1, <2>2, EvalOfType
<1>4. ASSUME NEW f \in F, NEW g \in F, NEW r \in Window,
             \A s \in Window : height[s] < height[r] => f[s] = g[s]
      PROVE  EvalOf(T, f, r[1], r[2]) = EvalOf(T, g, r[1], r[2])
  <2>1. \A c, d : InArray(c, d) /\ Span(c, d) < Span(r[1], r[2]) => f[<<c, d>>] = g[<<c, d>>]
    <3> SUFFICES ASSUME NEW c, NEW d, InArray(c, d), Span(c, d) < Span(r[1], r[2])
                 PROVE  f[<<c, d>>] = g[<<c, d>>]
      OBVIOUS
    <3>1. <<c, d>> \in Window
      BY Windows
    <3>2. height[<<c, d>>] = Span(c, d) /\ height[r] = Span(r[1], r[2])
      BY <3>1
    <3> QED
      BY <1>4, <3>1, <3>2
  <2>2. InArray(r[1], r[2])
    BY Windows
  <2> QED
    BY <2>1, <2>2, EvalOfSame
<1>5. \E f : IsEval(T, f)
  <2>1. step \in [F -> F]
    <3>1. ASSUME NEW f \in F, NEW r \in Window PROVE EvalOf(T, f, r[1], r[2]) \in Results
      BY <1>3
    <3> QED
      BY <3>1
  <2>2. Descends(Window, F, height, step)
    <3>1. \A f \in F : \A r \in Window : step[f][r] = EvalOf(T, f, r[1], r[2])
      OBVIOUS
    <3> HIDE DEF step, height, F
    <3> QED
      BY <1>4, <3>1 DEF Descends
  <2>3. base \in F
    BY WordFacts
  <2>4. HasSolution(F, step)
    <3> HIDE DEF step, base, height
    <3> QED
      BY <1>1, <2>1, <2>2, <2>3, FixedPoint
  <2>5. PICK f \in F : f = step[f]
    BY <2>4 DEF HasSolution
  <2>6. step[f] = [r \in Window |-> EvalOf(T, f, r[1], r[2])]
    OBVIOUS
  <2>7. f = [r \in Window |-> EvalOf(T, f, r[1], r[2])]
    BY <2>5, <2>6
  <2> QED
    BY <2>7 DEF IsEval
<1> DEFINE all == Evals(T)
<1>6. IsEval(T, all)
  BY <1>5 DEF Evals
<1>7. \A p, q : Eval(T, p, q) = all[<<p, q>>]
  BY DEF Eval, Evals, IsEval
<1> HIDE DEF all
<1>8. \A r \in Window : all[r] \in Results
  <2> DEFINE G == {r \in Window : all[r] \in Results}
  <2>1. G \in SUBSET Window
    OBVIOUS
  <2>2. ASSUME NEW r \in Window, \A s \in Window : height[s] < height[r] => s \in G
        PROVE  r \in G
    <3>1. all[r] = EvalOf(T, all, r[1], r[2])
      BY <1>6 DEF IsEval
    <3>2. \A s \in Window : height[s] < height[r] => all[s] \in Results
      BY <2>2
    <3>3. EvalOf(T, all, r[1], r[2]) \in Results
      <4> HIDE DEF height
      <4> QED
        BY <1>3, <3>2
    <3> QED
      BY <3>1, <3>3
  <2> HIDE DEF G, height
  <2>3. G = Window
    BY <1>1, <2>1, <2>2, ByHeight
  <2> QED
    BY <2>3 DEF G
<1>9. ASSUME NEW p, NEW q, InArray(p, q)
      PROVE  Eval(T, p, q) = EvalOf(T, all, p, q) /\ Eval(T, p, q) \in Results
  <2>1. <<p, q>> \in Window /\ <<p, q>>[1] = p /\ <<p, q>>[2] = q
    BY <1>9, Windows
  <2>2. all[<<p, q>>] = EvalOf(T, all, <<p, q>>[1], <<p, q>>[2])
    BY <1>6, <2>1 DEF IsEval
  <2> QED
    BY <1>7, <1>8, <2>1, <2>2
<1> QED
  BY <1>7, <1>9 DEF all

-----------------------------------------------------------------------------
(* What the evaluator makes of each form of expression.                    *)

\* Tokens p .. q are those of one expression with value v, and its operators
\* outside parentheses bind at least as tightly as pri says.
Stands(T, p, q, v, pri) ==
  /\ InArray(p, q) /\ p <= q
  /\ Depth(T, p, q) = 0
  /\ \A k \in p .. q : Depth(T, p, k) >= 0
  /\ \A k \in p .. q : Depth(T, p, k) = 0 => Priority(T[k].type) <= pri
  /\ Eval(T, p, q) = v

\* A number, a register or a symbol.
LEMMA StandsAlone ==
  ASSUME NEW T \in Array, NEW p \in Index, T[p].type \in Literals \union {"REG", "VAR"}
  PROVE  Stands(T, p, p, Operand(T[p]), 0)
<1>1. p \in Nat /\ InArray(p, p) /\ \A k \in p .. p : k = p
  BY ExprAssumption DEF Index, InArray
<1>2. Depth(T, p, p) = 0 /\ Priority(T[p].type) = 0
  BY <1>1, DepthOne DEF Opens, Priority, Literals
<1>3. Eval(T, p, p) = Operand(T[p])
  <2>1. Eval(T, p, p) = EvalOf(T, Evals(T), p, p)
    BY <1>1, EvalIs
  <2> QED
    BY <1>1, <2>1 DEF EvalOf
<1> QED
  BY <1>1, <1>2, <1>3 DEF Stands

\* Parentheses around an expression.
LEMMA StandsEnclosed ==
  ASSUME NEW T \in Array, NEW p \in Nat, NEW q \in Index, NEW v, NEW pri,
         T[p] = Token("("), T[q] = Token(")"), Stands(T, p + 1, q - 1, v, pri)
  PROVE  Stands(T, p, q, v, 0)
<1>1. /\ p \in Int /\ q \in Int /\ InArray(p, q) /\ p < q /\ p <= q /\ p + 1 <= q - 1
      /\ p + 1 \in Int /\ T[p].type = "(" /\ T[q].type = ")"
  BY ExprAssumption DEF Index, InArray, Stands, Token, Number
<1>2. Depth(T, p, p) = 1
  BY <1>1, DepthOne DEF Opens
<1>3. ASSUME NEW k \in p + 1 .. q - 1 PROVE Depth(T, p, k) >= 1
  <2>1. k \in Int /\ p <= k /\ Depth(T, p + 1, k) >= 0
    BY <1>1, <1>3 DEF Stands
  <2>2. Depth(T, p, k) = Opens(T[p]) + Depth(T, p + 1, k) /\ Depth(T, p + 1, k) \in Int
    BY <2>1, DepthFirst
  <2> QED
    BY <1>1, <2>1, <2>2 DEF Opens
<1>4. Depth(T, p, q) = 0
  <2>1. Depth(T, p, q) = Opens(T[p]) + Depth(T, p + 1, q) /\ Depth(T, p + 1, q) \in Int
    BY <1>1, DepthFirst
  <2>2. Depth(T, p + 1, q) = Depth(T, p + 1, q - 1) + Depth(T, q, q)
    BY <1>1, DepthSplit
  <2>3. Depth(T, p + 1, q - 1) = 0 /\ Depth(T, q, q) = -1
    BY <1>1, DepthOne DEF Opens, Stands
  <2> QED
    BY <1>1, <2>1, <2>2, <2>3 DEF Opens
<1>5. \A k \in p .. q - 1 : Depth(T, p, k) >= 1
  <2>1. \A k \in p .. q - 1 : k = p \/ k \in p + 1 .. q - 1
    BY <1>1
  <2> QED
    BY <1>2, <1>3, <2>1
<1>6. \A k \in p .. q : k = q \/ k \in p .. q - 1
  BY <1>1
<1>7. Priority(T[q].type) = 0
  BY <1>1 DEF Priority
<1>8. Eval(T, p, q) = v
  <2>1. CheckParentheses(T, p, q)
    BY <1>1, <1>4, <1>5 DEF CheckParentheses
  <2>2. Eval(T, p, q) = EvalOf(T, Evals(T), p, q)
    BY <1>1, EvalIs
  <2>3. EvalOf(T, Evals(T), p, q) = Evals(T)[<<p + 1, q - 1>>]
    BY <1>1, <2>1 DEF EvalOf
  <2>4. Eval(T, p + 1, q - 1) = v /\ Eval(T, p + 1, q - 1) = Evals(T)[<<p + 1, q - 1>>]
    BY EvalIs DEF Stands
  <2> QED
    BY <2>2, <2>3, <2>4
<1>9. \A k \in p .. q : Depth(T, p, k) >= 0
  <2>1. \A k \in p .. q : Depth(T, p, k) = 0 \/ (Depth(T, p, k) >= 1 /\ Depth(T, p, k) \in Int)
    <3>1. \A k \in p .. q : k \in Int /\ p <= k /\ p <= k + 1 /\ k <= k + 1 /\ k + 1 \in Int
      BY <1>1
    <3>2. \A k \in p .. q : Depth(T, p, k) \in Int
      BY <1>1, <3>1, DepthSplit
    <3> QED
      BY <1>4, <1>5, <1>6, <3>2
  <2> QED
    BY <2>1
<1>10. \A k \in p .. q : Depth(T, p, k) = 0 => Priority(T[k].type) <= 0
  BY <1>5, <1>6, <1>7
<1> QED
  BY <1>1, <1>4, <1>8, <1>9, <1>10 DEF Stands

\* Two operands that bind more tightly than the operator between them.
LEMMA StandsBinary ==
  ASSUME NEW T \in Array, NEW p, NEW k, NEW q, NEW a, NEW b, NEW l \in Int, NEW r \in Int,
         Stands(T, p, k - 1, a, l), Stands(T, k + 1, q, b, r), k \in Int,
         T[k].type \in Calculated, T[p].type # "!",
         l < Priority(T[k].type), r < Priority(T[k].type)
  PROVE  Stands(T, p, q, IF Abort \in {a, b} THEN Abort ELSE Apply(T[k].type, a, b),
                Priority(T[k].type))
<1>1. /\ p \in Nat /\ q \in Int /\ p <= k - 1 /\ p < k /\ k + 1 <= q /\ k < q /\ p < q
      /\ InArray(p, q)
  BY ExprAssumption DEF Stands, InArray
<1>2. Depth(T, p, k) = 0
  <2>1. Depth(T, p, k) = Depth(T, p, k - 1) + Depth(T, k, k)
    BY <1>1, DepthSplit
  <2>2. Depth(T, k, k) = 0
    BY DepthOne DEF Opens, Calculated
  <2> QED
    BY <2>1, <2>2 DEF Stands
<1>3. ASSUME NEW j \in k + 1 .. q
      PROVE  Depth(T, p, j) = Depth(T, k + 1, j) /\ Depth(T, k + 1, j) \in Int
  <2>1. j \in Int /\ k + 1 <= j /\ p <= k + 1 /\ k + 1 <= j + 1 /\ (k + 1) - 1 = k /\ k + 1 \in Int
    BY <1>1
  <2>2. Depth(T, p, j) = Depth(T, p, (k + 1) - 1) + Depth(T, k + 1, j)
    BY <1>1, <2>1, DepthSplit
  <2>3. Depth(T, k + 1, j) \in Int
    <3> DEFINE from == k + 1
    <3>1. from \in Int /\ from <= from /\ from <= j + 1 /\ j \in Int
      BY <2>1
    <3> HIDE DEF from
    <3>2. Depth(T, from, j) \in Int
      BY <3>1, DepthSplit
    <3> QED
      BY <3>2 DEF from
  <2> QED
    BY <1>2, <2>1, <2>2, <2>3
<1>4. \A j \in p .. q : j \in p .. k - 1 \/ j = k \/ j \in k + 1 .. q
  BY <1>1
<1>5. /\ q \in k + 1 .. q /\ Depth(T, k + 1, q) = 0
      /\ \A j \in p .. k - 1 : Depth(T, p, j) >= 0
      /\ \A j \in k + 1 .. q : Depth(T, k + 1, j) >= 0
      /\ \A j \in p .. k - 1 : Depth(T, p, j) = 0 => Priority(T[j].type) <= l
      /\ \A j \in k + 1 .. q : Depth(T, k + 1, j) = 0 => Priority(T[j].type) <= r
  BY <1>1 DEF Stands
<1>6. Depth(T, p, q) = 0
  BY <1>3, <1>5
<1>7. \A j \in p .. q : Depth(T, p, j) >= 0
  BY <1>2, <1>3, <1>4, <1>5
<1>8. \A j \in p .. q : j # k /\ Depth(T, p, j) = 0 => Priority(T[j].type) < Priority(T[k].type)
  <2>1. \A j : Priority(T[j].type) \in Int
    BY Priorities
  <2>2. \A j \in p .. k - 1 : Depth(T, p, j) = 0 => Priority(T[j].type) < Priority(T[k].type)
    BY <1>5, <2>1
  <2>3. \A j \in k + 1 .. q : Depth(T, p, j) = 0 => Priority(T[j].type) < Priority(T[k].type)
    BY <1>3, <1>5, <2>1
  <2> QED
    BY <1>4, <2>2, <2>3
<1>9. DomiPosition(T, p, q) = k
  <2>1. k \in Ops(T, p, q)
    BY <1>1, <1>2, Priorities DEF Ops
  <2>2. PICK d \in Ops(T, p, q) : d = DomiPosition(T, p, q) /\ Dominates(T, Ops(T, p, q), d)
    BY <1>1, <2>1, Dominant
  <2>3. SUFFICES ASSUME d # k PROVE FALSE
    BY <2>2
  <2>4. Priority(T[d].type) < Priority(T[k].type)
    BY <1>8, <2>3 DEF Ops
  <2>5. \/ Priority(T[k].type) < Priority(T[d].type)
        \/ Priority(T[k].type) = Priority(T[d].type)
    BY <2>1, <2>2, <2>3 DEF Dominates
  <2>6. Priority(T[d].type) \in Int /\ Priority(T[k].type) \in Int
    BY Priorities
  <2> QED
    BY <2>4, <2>5, <2>6
<1>10. ~ CheckParentheses(T, p, q)
  <2>1. k \in p .. q - 1
    BY <1>1
  <2> QED
    BY <1>2, <2>1 DEF CheckParentheses
<1>11. Eval(T, p, q) = IF Abort \in {a, b} THEN Abort ELSE Apply(T[k].type, a, b)
  <2>1. Eval(T, p, q) = EvalOf(T, Evals(T), p, q)
    BY <1>1, EvalIs
  <2>2. Evals(T)[<<p, k - 1>>] = a /\ Evals(T)[<<k + 1, q>>] = b
    BY EvalIs DEF Stands
  <2>3. EvalOf(T, Evals(T), p, q) =
          IF Abort \in {Evals(T)[<<p, k - 1>>], Evals(T)[<<k + 1, q>>]} THEN Abort
          ELSE Apply(T[k].type, Evals(T)[<<p, k - 1>>], Evals(T)[<<k + 1, q>>])
    <3>1. k # -1 /\ ~ (p > q) /\ p # q
      BY <1>1
    <3> QED
      BY <1>9, <1>10, <3>1 DEF EvalOf
  <2> QED
    BY <2>1, <2>2, <2>3
<1>12. \A j \in p .. q : Depth(T, p, j) = 0 => Priority(T[j].type) <= Priority(T[k].type)
  <2>1. \A j : Priority(T[j].type) \in Int
    BY Priorities
  <2> QED
    BY <1>8, <2>1
<1> QED
  BY <1>1, <1>6, <1>7, <1>11, <1>12 DEF Stands

\* A unary operator and its operand.
LEMMA Prefixed ==
  ASSUME NEW T \in Array, NEW p \in Nat, NEW q, NEW v, Stands(T, p + 1, q, v, 0),
         T[p].type \in {"NEG", "!", "POINT"}
  PROVE  /\ Stands(T, p, q, Eval(T, p, q), 0)
         /\ Eval(T, p, q) = IF T[p].type = "!" THEN
                              IF v = Abort THEN Abort ELSE Truth(Scanned(T[q]) = 0)
                            ELSE IF v = Abort THEN Abort
                            ELSE IF T[p].type = "POINT" THEN Pointed(T, p, v)
                            ELSE Wrap(- Scanned(T[q]))
<1>1. p \in Int /\ q \in Int /\ p + 1 \in Int /\ p < q /\ p <= q /\ p + 1 <= q /\ InArray(p, q)
  BY ExprAssumption DEF Stands, InArray
<1>2. Opens(T[p]) = 0 /\ Priority(T[p].type) = 0
  BY DEF Opens, Priority
<1>3. Depth(T, p, p) = 0
  BY <1>2, DepthOne
<1>4. ASSUME NEW k \in p + 1 .. q PROVE Depth(T, p, k) = Depth(T, p + 1, k)
  <2>1. k \in Int /\ p <= k
    BY <1>1
  <2> QED
    BY <1>2, <2>1, DepthFirst
<1>5. /\ \A k \in p + 1 .. q : Depth(T, p + 1, k) >= 0
      /\ \A k \in p + 1 .. q : Depth(T, p + 1, k) = 0 => Priority(T[k].type) <= 0
      /\ Depth(T, p + 1, q) = 0 /\ q \in p + 1 .. q
      /\ \A k \in p .. q : k = p \/ k \in p + 1 .. q
  BY <1>1 DEF Stands
<1>6. /\ Depth(T, p, q) = 0
      /\ \A k \in p .. q : Depth(T, p, k) >= 0
      /\ \A k \in p .. q : Depth(T, p, k) = 0 => Priority(T[k].type) <= 0
  BY <1>2, <1>3, <1>4, <1>5
<1>7. DomiPosition(T, p, q) = -1
  <2>1. \A k : Priority(T[k].type) \in Int
    BY Priorities
  <2>2. Ops(T, p, q) = {}
    BY <1>6, <2>1 DEF Ops
  <2> QED
    BY <1>1, <2>2, Dominant
<1>8. ~ CheckParentheses(T, p, q)
  <2>1. p \in p .. q - 1
    BY <1>1
  <2> QED
    BY <1>3, <2>1 DEF CheckParentheses
<1>9. Eval(T, p, q) = EvalOf(T, Evals(T), p, q) /\ Evals(T)[<<p + 1, q>>] = v
  BY <1>1, EvalIs DEF Stands
<1>10. EvalOf(T, Evals(T), p, q) =
         IF Evals(T)[<<p + 1, q>>] = Abort THEN Abort
         ELSE IF T[p].type \in {"POINT", "VAR"} THEN Pointed(T, p, Evals(T)[<<p + 1, q>>])
         ELSE IF T[p].type = "NEG" THEN Wrap(- Scanned(T[q]))
         ELSE Truth(Scanned(T[q]) = 0)
  <2>1. ~ (p > q) /\ p # q
    BY <1>1
  <2> QED
    BY <1>7, <1>8, <2>1 DEF EvalOf
<1>11. Stands(T, p, q, Eval(T, p, q), 0)
  BY <1>1, <1>6 DEF Stands
<1> QED
  BY <1>9, <1>10, <1>11

\* A sign or a negation before a number.
LEMMA StandsUnary ==
  ASSUME NEW T \in Array, NEW p \in Nat, p + 1 \in Index, T[p + 1].type = "NUM",
         T[p].type \in {"NEG", "!"}
  PROVE  Stands(T, p, p + 1, IF T[p].type = "!" THEN Truth(T[p + 1].n = 0)
                             ELSE Wrap(- T[p + 1].n), 0)
<1>1. Stands(T, p + 1, p + 1, Operand(T[p + 1]), 0)
  BY StandsAlone DEF Literals
<1>2. T[p + 1] \in TokenT
  BY DEF Array
<1>3. Operand(T[p + 1]) = T[p + 1].n /\ Scanned(T[p + 1]) = T[p + 1].n
  BY DEF Operand, Scanned, Literals
<1>4. T[p + 1].n # Abort
  BY <1>2, TokenFacts, WordFacts
<1>5. /\ Stands(T, p, p + 1, Eval(T, p, p + 1), 0)
      /\ Eval(T, p, p + 1) = IF T[p].type = "!" THEN
                               IF T[p + 1].n = Abort THEN Abort ELSE Truth(Scanned(T[p + 1]) = 0)
                             ELSE IF T[p + 1].n = Abort THEN Abort
                             ELSE IF T[p].type = "POINT" THEN Pointed(T, p, T[p + 1].n)
                             ELSE Wrap(- Scanned(T[p + 1]))
  <2> DEFINE q == p + 1
             v == T[p + 1].n
  <2>1. Stands(T, p + 1, q, v, 0)
    BY <1>1, <1>3
  <2> HIDE DEF q, v
  <2>2. /\ Stands(T, p, q, Eval(T, p, q), 0)
        /\ Eval(T, p, q) = IF T[p].type = "!" THEN
                             IF v = Abort THEN Abort ELSE Truth(Scanned(T[q]) = 0)
                           ELSE IF v = Abort THEN Abort
                           ELSE IF T[p].type = "POINT" THEN Pointed(T, p, v)
                           ELSE Wrap(- Scanned(T[q]))
    BY <2>1, Prefixed
  <2> QED
    BY <2>2 DEF q, v
<1> QED
  BY <1>3, <1>4, <1>5

\* A dereference, where the token two places on decides nothing.
LEMMA StandsDeref ==
  ASSUME NEW T \in Array, NEW p \in Nat, NEW q, NEW v, Stands(T, p + 1, q, v, 0),
         T[p].type = "POINT", T[p + 2].type = "REG" => v = Eax
  PROVE  Stands(T, p, q, IF v = Abort THEN Abort ELSE Read(v), 0)
<1>1. /\ Stands(T, p, q, Eval(T, p, q), 0)
      /\ Eval(T, p, q) = IF v = Abort THEN Abort ELSE Pointed(T, p, v)
  BY Prefixed
<1>2. Pointed(T, p, v) = Read(v)
  BY DEF Pointed
<1> QED
  BY <1>1, <1>2

-----------------------------------------------------------------------------
(* Guarded texts are evaluated as they are meant.                          *)

\* The length of two sequences in a row.
LEMMA JoinedLength ==
  ASSUME NEW S, NEW a \in Seq(S), NEW b \in Seq(S)
  PROVE  Len(a \o b) = Len(a) + Len(b)
OBVIOUS

NoAnd(ts) == \A i \in DOMAIN ts : ts[i].type # "&&"

\* Two texts without &&.
LEMMA NoAndJoined ==
  ASSUME NEW a \in Seq(TokenT), NEW b \in Seq(TokenT), NoAnd(a), NoAnd(b)
  PROVE  a \o b \in Seq(TokenT) /\ NoAnd(a \o b)
<1> HIDE DEF TokenT
<1>1. /\ DOMAIN (a \o b) = 1 .. Len(a) + Len(b) /\ DOMAIN a = 1 .. Len(a) /\ DOMAIN b = 1 .. Len(b)
      /\ Len(a) \in Nat /\ Len(b) \in Nat
      /\ \A i \in 1 .. Len(a) : (a \o b)[i] = a[i]
      /\ \A i \in 1 .. Len(b) : (a \o b)[Len(a) + i] = b[i]
      /\ a \o b \in Seq(TokenT)
  OBVIOUS
<1>2. ASSUME NEW i \in 1 .. Len(a) + Len(b) PROVE (a \o b)[i].type # "&&"
  <2>1. CASE i <= Len(a)
    <3>1. i \in 1 .. Len(a)
      BY <1>1, <2>1
    <3> QED
      BY <1>1, <3>1 DEF NoAnd
  <2>2. CASE i > Len(a)
    <3>1. i - Len(a) \in 1 .. Len(b) /\ i = Len(a) + (i - Len(a))
      BY <1>1, <2>2
    <3>2. (a \o b)[i] = b[i - Len(a)]
      BY <1>1, <3>1
    <3> QED
      BY <1>1, <3>1, <3>2 DEF NoAnd
  <2> QED
    BY <1>1, <2>1, <2>2
<1> QED
  BY <1>1, <1>2 DEF NoAnd

\* The same inside parentheses.
LEMMA NoAndEnclosed ==
  ASSUME NEW ts \in Seq(TokenT), NoAnd(ts), NEW bare
  PROVE  NoAnd(Enclosed(ts)) /\ NoAnd(InParentheses(bare, ts))
<1> DEFINE open  == <<Token("(")>>
           close == <<Token(")")>>
<1>1. open \in Seq(TokenT) /\ close \in Seq(TokenT)
  <2>1. Token("(") \in TokenT /\ Token(")") \in TokenT
    BY EnclosedType
  <2> HIDE DEF TokenT
  <2> QED
    BY <2>1
<1>2. NoAnd(open) /\ NoAnd(close)
  BY DEF NoAnd, Token, Number
<1>3. Enclosed(ts) = (open \o ts) \o close
  BY DEF Enclosed
<1> HIDE DEF open, close
<1>4. open \o ts \in Seq(TokenT) /\ NoAnd(open \o ts)
  BY <1>1, <1>2, NoAndJoined
<1> DEFINE front == open \o ts
<1> HIDE DEF front
<1>5. NoAnd(front \o close)
  BY <1>1, <1>2, <1>4, NoAndJoined DEF front
<1> QED
  BY <1>3, <1>5 DEF front, InParentheses

\* The parts of a binary operation.
LEMMA BinaryText ==
  ASSUME NEW t \in Trees, t.kind = "binary"
  PROVE  LET l == Part(t.left, t.op)
             r == Part(t.right, t.op)
         IN  /\ t.op \in BinaryOps /\ Token(t.op) \in TokenT
             /\ l \in Seq(TokenT) /\ Len(l) > 0
             /\ l[1].type \in Literals \union {"("} /\ l[Len(l)].type \in Literals \union {")"}
             /\ r \in Seq(TokenT) /\ Len(r) > 0
             /\ Guarded(t) = l \o (<<Token(t.op)>> \o r)
             /\ Len(Guarded(t)) = Len(l) + 1 + Len(r)
<1> DEFINE l == Part(t.left, t.op)
           r == Part(t.right, t.op)
           o == <<Token(t.op)>>
<1>1. t.op \in BinaryOps /\ t.left \in Trees /\ t.right \in Trees
  BY TreeFacts
<1>2. Token(t.op) \in TokenT
  BY <1>1, WordFacts DEF Token, Number, TokenT, TokenTypes
<1>3. /\ l \in Seq(TokenT) /\ Len(l) > 0
      /\ l[1].type \in Literals \union {"("} /\ l[Len(l)].type \in Literals \union {")"}
      /\ r \in Seq(TokenT) /\ Len(r) > 0
  BY <1>1, TextEnds, PartEnds
<1>4. Guarded(t) = (l \o o) \o r
  BY Texts
<1> HIDE DEF l, r, TokenT
<1>5. o \in Seq(TokenT) /\ Len(o) = 1
  BY <1>2
<1> HIDE DEF o
<1>6. (l \o o) \o r = l \o (o \o r)
  BY <1>3, <1>5
<1>7. Len(l \o (o \o r)) = Len(l) + 1 + Len(r)
  <2>1. Len(l) \in Nat /\ Len(r) \in Nat
    BY <1>3
  <2>2. o \o r \in Seq(TokenT)
    BY <1>3, <1>5
  <2>3. Len(o \o r) = Len(o) + Len(r)
    BY <1>3, <1>5, JoinedLength
  <2>4. Len(l \o (o \o r)) = Len(l) + Len(o \o r)
    BY <1>3, <2>2, JoinedLength
  <2> QED
    BY <1>5, <2>1, <2>3, <2>4
<1> QED
  BY <1>1, <1>2, <1>3, <1>4, <1>6, <1>7 DEF l, r, o

\* A text whose parts the evaluator understands has no &&.
LEMMA FitText ==
  ASSUME NEW t \in Trees, Fit(t)
  PROVE  NoAnd(Guarded(t))
<1> DEFINE G == {u \in Trees : Fit(u) => NoAnd(Guarded(u))}
<1>1. G \in SUBSET Trees /\ Height \in [Trees -> Nat]
  BY TreeAssumption
<1>2. ASSUME NEW u \in Trees, \A w \in Trees : Height[w] < Height[u] => w \in G, Fit(u)
      PROVE  NoAnd(Guarded(u))
  <2>1. CASE u.kind \in Literals
    <3>1. Guarded(u) = <<Number(u.kind, u.n)>>
      BY <2>1, Texts
    <3> QED
      BY <2>1, <3>1 DEF NoAnd, Number, Literals
  <2>2. CASE u.kind \in {"REG", "VAR"}
    <3>1. Guarded(u) = <<Token(u.kind)>>
      BY <2>2, Texts
    <3> QED
      BY <2>2, <3>1 DEF NoAnd, Token, Number
  <2>3. CASE u.kind = "unary"
    <3>1. Guarded(u) = <<Token(u.op), Number(u.form, u.n)>>
          /\ u.op \in {"-", "!"} /\ u.form \in Literals
      BY <2>3, Texts, TreeFacts
    <3> QED
      BY <3>1 DEF NoAnd, Token, Number, Literals
  <2>4. CASE u.kind = "deref"
    <3> DEFINE star == <<Token("*")>>
               rest == InParentheses(u.arg.kind \in Literals, Guarded(u.arg))
    <3>1. Guarded(u) = star \o rest /\ u.arg \in Trees /\ NoAnd(Guarded(u.arg))
      BY <1>2, <2>4, Texts, TreeFacts, FitParts
    <3>2. rest \in Seq(TokenT) /\ NoAnd(rest)
      BY <3>1, Texts, EnclosedType, NoAndEnclosed
    <3>3. Token("*") \in TokenT
      BY WordFacts DEF Token, Number, TokenT, TokenTypes, BinaryOps
    <3>4. star \in Seq(TokenT)
      <4> HIDE DEF TokenT
      <4> QED
        BY <3>3
    <3>5. NoAnd(star)
      BY DEF NoAnd, Token, Number
    <3> HIDE DEF star, rest
    <3> QED
      BY <3>1, <3>2, <3>4, <3>5, NoAndJoined
  <2>5. CASE u.kind = "binary"
    <3> DEFINE l == Part(u.left, u.op)
               r == Part(u.right, u.op)
               o == <<Token(u.op)>>
    <3>1. /\ u.left \in Trees /\ NoAnd(Guarded(u.left))
          /\ u.right \in Trees /\ NoAnd(Guarded(u.right))
          /\ u.op \in Calculated
      BY <1>2, <2>5, TreeFacts, FitParts
    <3>2. /\ Token(u.op) \in TokenT /\ l \in Seq(TokenT) /\ r \in Seq(TokenT)
          /\ Guarded(u) = l \o (o \o r)
      BY <2>5, BinaryText
    <3>3. NoAnd(l) /\ NoAnd(r)
      BY <3>1, Texts, NoAndEnclosed DEF Part
    <3>4. o \in Seq(TokenT)
      <4> HIDE DEF TokenT
      <4> QED
        BY <3>2
    <3>5. NoAnd(o)
      BY <3>1 DEF NoAnd, Token, Number, Calculated
    <3> DEFINE rest == o \o r
    <3> HIDE DEF l, r, o
    <3>6. rest \in Seq(TokenT) /\ NoAnd(rest)
      BY <3>2, <3>3, <3>4, <3>5, NoAndJoined
    <3> HIDE DEF rest
    <3>7. NoAnd(l \o rest)
      BY <3>2, <3>3, <3>6, NoAndJoined
    <3> QED
      BY <3>2, <3>7 DEF rest
  <2> QED
    BY <2>1, <2>2, <2>3, <2>4, <2>5, TreeFacts DEF Kinds
<1>3. ASSUME NEW u \in Trees, \A w \in Trees : Height[w] < Height[u] => w \in G
      PROVE  u \in G
  BY <1>2, <1>3
<1> HIDE DEF G
<1>4. G = Trees
  BY <1>1, <1>3, ByHeight
<1> QED
  BY <1>4 DEF G

Loosest(t) == IF t.kind = "binary" THEN Priority(t.op) ELSE 0

\* Wherever the text of t lies in the array.  What a text without parentheses
\* around it needs of its surroundings, it has when they are there.
Reads(t) ==
  \A T \in Array, p \in Nat, q \in Index : \A before :
    /\ q = p + Len(Guarded(t)) - 1
    /\ Fit(t) /\ Lies(T, p, Guarded(t), before)
    /\ t.kind \in {"unary", "deref"} => ~ EndsOperand(before) /\ T[q + 1].type = ")"
    => Stands(T, p, q, Strict(t), Loosest(t))

\* An expression in parentheses.
LEMMA EnclosedReads ==
  ASSUME NEW t \in Trees, Reads(t), NEW T \in Array, NEW p \in Nat, NEW q \in Index, NEW before,
         q = p + Len(Guarded(t)) + 1,
         Fit(t), Lies(T, p, Enclosed(Guarded(t)), before)
  PROVE  Stands(T, p, q, Strict(t), 0)
<1> DEFINE ts == Guarded(t)
<1>1. ts \in Seq(TokenT) /\ Len(ts) > 0 /\ Len(ts) \in Nat
  <2>1. ts \in Seq(TokenT) /\ Len(ts) > 0
    BY Texts, TextEnds DEF WellEnded
  <2> HIDE DEF ts, TokenT
  <2> QED
    BY <2>1
<1>3. T[p] = Token("(") /\ T[q] = Token(")") /\ Lies(T, p + 1, ts, "(")
  <2>1. q = p + Len(ts) + 1 /\ Lies(T, p, Enclosed(ts), before) /\ p \in Int
    OBVIOUS
  <2> HIDE DEF ts
  <2>2. T[p] = Token("(") /\ T[p + Len(ts) + 1] = Token(")") /\ Lies(T, p + 1, ts, "(")
    BY <1>1, <2>1, LiesEnclosed
  <2> QED
    BY <2>1, <2>2
<1>4. /\ p + 1 \in Nat /\ q - 1 \in Index /\ q - 1 = (p + 1) + Len(ts) - 1 /\ (q - 1) + 1 = q
      /\ ~ EndsOperand("(")
  <2>1. q \in Int /\ q < NrTokens /\ NrTokens \in Int /\ q = p + Len(ts) + 1
    BY ExprAssumption DEF Index
  <2> HIDE DEF ts
  <2> QED
    BY <1>1, <2>1 DEF Index, EndsOperand
<1>5. Stands(T, p + 1, q - 1, Strict(t), Loosest(t))
  <2> DEFINE first == p + 1
             last  == q - 1
  <2>1. /\ first \in Nat /\ last \in Index /\ last = first + Len(Guarded(t)) - 1
        /\ Fit(t) /\ Lies(T, first, Guarded(t), "(")
        /\ ~ EndsOperand("(") /\ T[last + 1].type = ")"
    BY <1>3, <1>4 DEF Token, Number
  <2> HIDE DEF first, last
  <2>2. Stands(T, first, last, Strict(t), Loosest(t))
    BY <2>1 DEF Reads
  <2> QED
    BY <2>2 DEF first, last
<1> QED
  BY <1>3, <1>5, StandsEnclosed

\* The levels of C and the priorities of domi_position agree.
LEMMA Levels ==
  ASSUME NEW a \in Calculated, NEW b \in Calculated, Level(a) < Level(b)
  PROVE  Priority(a) < Priority(b)
<1>1. a \in {"*", "/", "+", "-", "==", "!=", "||"} /\ b \in {"*", "/", "+", "-", "==", "!=", "||"}
  BY DEF Calculated
<1>2. \A c \in {"*", "/", "+", "-", "==", "!=", "||"} :
        \/ c \in {"*", "/"} /\ Level(c) = 1 /\ Priority(c) = 5
        \/ c \in {"+", "-"} /\ Level(c) = 2 /\ Priority(c) = 6
        \/ c \in {"==", "!="} /\ Level(c) = 3 /\ Priority(c) = 7
        \/ c = "||" /\ Level(c) = 5 /\ Priority(c) = 9
  BY DEF Level, Priority
<1> QED
  BY <1>1, <1>2

\* An operand of a binary operator.
LEMMA PartReads ==
  ASSUME NEW t \in Trees, Reads(t), NEW op \in Calculated,
         NEW T \in Array, NEW p \in Nat, NEW q \in Index, NEW before,
         q = p + Len(Part(t, op)) - 1, Fit(t), Lies(T, p, Part(t, op), before)
  PROVE  \E l \in Int : l < Priority(op) /\ Stands(T, p, q, Strict(t), l)
<1>1. Priority(op) > 0 /\ Priority(op) \in Int
  BY Priorities
<1>2. CASE t.kind \in Literals \/ IsTighter(t, op)
  <2>1. Part(t, op) = Guarded(t) /\ t.kind \in Literals \union {"binary"}
    BY <1>2 DEF Part, InParentheses, IsTighter
  <2>2. Stands(T, p, q, Strict(t), Loosest(t))
    BY <2>1 DEF Reads, Literals
  <2>3. Loosest(t) \in Int /\ Loosest(t) < Priority(op)
    <3>1. CASE t.kind \in Literals
      BY <1>1, <3>1 DEF Loosest, Literals
    <3>2. CASE t.kind \notin Literals
      <4>1. t.kind = "binary" /\ Level(t.op) < Level(op)
        BY <1>2, <3>2 DEF IsTighter
      <4>2. t.op \in Calculated
        BY <4>1, FitParts
      <4>3. Priority(t.op) < Priority(op) /\ Priority(t.op) \in Int
        BY <4>1, <4>2, Levels, Priorities
      <4> QED
        BY <4>1, <4>3 DEF Loosest
    <3> QED
      BY <3>1, <3>2
  <2> QED
    BY <2>2, <2>3
<1>3. CASE ~ (t.kind \in Literals \/ IsTighter(t, op))
  <2>1. Part(t, op) = Enclosed(Guarded(t))
    BY <1>3 DEF Part, InParentheses
  <2>2. Len(Enclosed(Guarded(t))) = Len(Guarded(t)) + 2 /\ Len(Guarded(t)) \in Nat
    <3> DEFINE ts == Guarded(t)
    <3>1. ts \in Seq(TokenT)
      BY Texts
    <3> HIDE DEF ts, TokenT
    <3>2. Len(Enclosed(ts)) = Len(ts) + 2 /\ Len(ts) \in Nat
      BY <3>1, EnclosedType
    <3> QED
      BY <3>2 DEF ts
  <2>3. q = p + Len(Guarded(t)) + 1
    BY <2>1, <2>2
  <2>4. Stands(T, p, q, Strict(t), 0)
    BY <2>1, <2>3, EnclosedReads
  <2> QED
    BY <1>1, <2>4
<1> QED
  BY <1>2, <1>3

\* A binary operation, when its operands are evaluated as they are meant.
LEMMA BinaryReads ==
  ASSUME NEW t \in Trees, t.kind = "binary", Reads(t.left), Reads(t.right)
  PROVE  Reads(t)
<1> SUFFICES ASSUME NEW T \in Array, NEW p \in Nat, NEW q \in Index, NEW before,
                    q = p + Len(Guarded(t)) - 1, Fit(t),
                    Lies(T, p, Guarded(t), before)
             PROVE  Stands(T, p, q, Strict(t), Priority(t.op))
  BY DEF Reads, Loosest
<1> DEFINE l == Part(t.left, t.op)
           r == Part(t.right, t.op)
           o == <<Token(t.op)>>
           k == p + Len(l)
<1>1. /\ Token(t.op) \in TokenT
      /\ l \in Seq(TokenT) /\ Len(l) > 0
      /\ l[1].type \in Literals \union {"("} /\ l[Len(l)].type \in Literals \union {")"}
      /\ r \in Seq(TokenT) /\ Len(r) > 0
      /\ Guarded(t) = l \o (o \o r)
      /\ Len(Guarded(t)) = Len(l) + 1 + Len(r)
  BY BinaryText
<1>2. t.op \in Calculated /\ Fit(t.left) /\ Fit(t.right) /\ t.left \in Trees /\ t.right \in Trees
  BY FitParts, TreeFacts
<1> HIDE DEF l, r
<1>3. /\ o \in Seq(TokenT) /\ o \o r \in Seq(TokenT) /\ Len(o) = 1 /\ o[1] = Token(t.op)
      /\ Len(l) \in Nat /\ Len(r) \in Nat
  <2> HIDE DEF TokenT
  <2> QED
    BY <1>1
<1>4. /\ q \in Int /\ NrTokens \in Int /\ q < NrTokens /\ q = k + Len(r) /\ q = (k + 1) + Len(r) - 1
      /\ k \in Int /\ k + 1 \in Nat /\ p \in Int
      /\ k - 1 \in Index /\ k - 1 = p + Len(l) - 1
  BY <1>1, <1>3, ExprAssumption DEF Index
<1>5. Lies(T, p, l, before) /\ Lies(T, k, o \o r, l[Len(l)].type)
  <2> DEFINE rest == o \o r
  <2>1. rest \in Seq(TokenT) /\ Lies(T, p, l \o rest, before)
    BY <1>1, <1>3
  <2> HIDE DEF rest
  <2>2. Lies(T, p, l, before) /\ Lies(T, p + Len(l), rest, l[Len(l)].type)
    BY <1>1, <1>4, <2>1, LiesApart
  <2> QED
    BY <2>2 DEF rest
<1>6. Lies(T, k, o, l[Len(l)].type) /\ Lies(T, k + 1, r, t.op)
  <2> DEFINE b == l[Len(l)].type
  <2>1. Lies(T, k, o \o r, b) /\ Len(o) > 0
    BY <1>3, <1>5
  <2>2. o[Len(o)].type = t.op
    BY <1>3 DEF Token, Number
  <2> HIDE DEF o, k, b
  <2>3. Lies(T, k, o, b) /\ Lies(T, k + Len(o), r, o[Len(o)].type)
    BY <1>1, <1>3, <1>4, <2>1, LiesApart
  <2> QED
    BY <1>3, <2>2, <2>3 DEF b
<1>7. T[k] = Token(t.op)
  <2> DEFINE b == l[Len(l)].type
  <2>1. T[k] = Seen(Token(t.op), b)
    <3>1. T[k] = Seen(o[1], b)
      <4>1. Lies(T, k, o, b) /\ k \in Int /\ HasFirst(o)
        BY <1>3, <1>4, <1>6 DEF HasFirst
      <4> HIDE DEF k, b, o
      <4> QED
        BY <4>1, LiesFirst
    <3> QED
      BY <1>3, <3>1
  <2>2. EndsOperand(b)
    BY <1>1 DEF EndsOperand, Literals
  <2> QED
    BY <2>1, <2>2 DEF Seen
<1>8. T[p].type # "!"
  <2>1. T[p] = Seen(l[1], before)
    <3>1. HasFirst(l) /\ Lies(T, p, l, before) /\ p \in Int
      BY <1>1, <1>3, <1>4, <1>5 DEF HasFirst
    <3> QED
      BY <3>1, LiesFirst
  <2> QED
    BY <1>1, <2>1 DEF Seen, Literals
<1>9. PICK wl \in Int : wl < Priority(t.op) /\ Stands(T, p, k - 1, Strict(t.left), wl)
  <2> HIDE DEF k
  <2> QED
    BY <1>2, <1>4, <1>5, PartReads DEF l
<1>10. PICK wr \in Int : wr < Priority(t.op) /\ Stands(T, k + 1, q, Strict(t.right), wr)
  <2> HIDE DEF k
  <2> QED
    BY <1>2, <1>4, <1>6, PartReads DEF r
<1>11. T[k].type = t.op
  BY <1>7 DEF Token, Number
<1>12. Stands(T, p, q, IF Abort \in {Strict(t.left), Strict(t.right)} THEN Abort
                       ELSE Apply(t.op, Strict(t.left), Strict(t.right)), Priority(t.op))
  <2> HIDE DEF k
  <2> QED
    BY <1>2, <1>4, <1>8, <1>9, <1>10, <1>11, StandsBinary
<1>13. t.op # "&&"
  BY <1>2 DEF Calculated
<1> QED
  BY <1>12, <1>13, Stricts

\* A number, a register or a symbol.
LEMMA LeafReads ==
  ASSUME NEW t \in Trees, t.kind \in Literals \union {"REG", "VAR"}
  PROVE  Reads(t)
<1> SUFFICES ASSUME NEW T \in Array, NEW p \in Nat, NEW q \in Index, NEW before,
                    q = p + Len(Guarded(t)) - 1, Lies(T, p, Guarded(t), before)
             PROVE  Stands(T, p, q, Strict(t), 0)
  BY DEF Reads, Loosest, Literals
<1>1. PICK k : /\ Guarded(t) = <<k>> /\ k.type = t.kind
               /\ t.kind \in Literals => k.n = t.n
  <2>1. CASE t.kind \in Literals
    <3>1. Guarded(t) = <<Number(t.kind, t.n)>>
      BY <2>1, Texts
    <3> QED
      BY <2>1, <3>1 DEF Number
  <2>2. CASE t.kind \notin Literals
    <3>1. Guarded(t) = <<Token(t.kind)>>
      BY <2>2, Texts
    <3> QED
      BY <2>2, <3>1 DEF Token, Number
  <2> QED
    BY <2>1, <2>2
<1>2. q = p /\ p \in Int
  <2>1. Len(<<k>>) = 1
    OBVIOUS
  <2> QED
    BY <1>1, <2>1
<1>3. T[p] = Seen(k, before)
  <2> DEFINE ts == <<k>>
  <2>1. Lies(T, p, ts, before) /\ p \in Int /\ HasFirst(ts) /\ ts[1] = k
    BY <1>1, <1>2 DEF HasFirst
  <2> HIDE DEF ts
  <2>2. T[p] = Seen(ts[1], before)
    BY <2>1, LiesFirst
  <2> QED
    BY <2>1, <2>2
<1>4. T[p] = k
  BY <1>1, <1>3 DEF Seen, Literals
<1>5. Stands(T, p, p, Operand(T[p]), 0)
  BY <1>1, <1>2, <1>4, StandsAlone
<1>6. Operand(T[p]) = Strict(t)
  BY <1>1, <1>4, Stricts DEF Operand, Literals
<1> QED
  BY <1>2, <1>5, <1>6

\* A sign or a negation before a number.
LEMMA UnaryReads ==
  ASSUME NEW t \in Trees, t.kind = "unary"
  PROVE  Reads(t)
<1> SUFFICES ASSUME NEW T \in Array, NEW p \in Nat, NEW q \in Index, NEW before,
                    q = p + Len(Guarded(t)) - 1, Lies(T, p, Guarded(t), before),
                    ~ EndsOperand(before), t.form = "NUM"
             PROVE  Stands(T, p, q, Strict(t), 0)
  <2>1. Fit(t) => t.form = "NUM"
    BY FitParts DEF Understood
  <2> QED
    BY <2>1 DEF Reads, Loosest
<1> DEFINE sign == Token(t.op)
           num  == Number(t.form, t.n)
<1>1. Guarded(t) = <<sign, num>> /\ t.op \in {"-", "!"}
  BY Texts, TreeFacts
<1>2. q = p + 1 /\ p \in Int
  <2>1. Len(<<sign, num>>) = 2
    OBVIOUS
  <2> HIDE DEF sign, num
  <2> QED
    BY <1>1, <2>1
<1>3. T[p] = Seen(sign, before) /\ T[p + 1] = Seen(num, sign.type)
  <2>1. /\ Len(<<sign, num>>) = 2 /\ <<sign, num>>[1] = sign /\ <<sign, num>>[2] = num
        /\ p + 1 - 1 = p /\ p + 2 - 1 = p + 1 /\ 1 \in 1 .. 2 /\ 2 \in 1 .. 2
    BY <1>2
  <2>2. Lies(T, p, <<sign, num>>, before)
    BY <1>1
  <2> DEFINE ts == <<sign, num>>
  <2>3. \A i \in 1 .. 2 : T[p + i - 1] = Seen(ts[i], Before(ts, i, before))
    BY <2>1, <2>2 DEF Lies
  <2> HIDE DEF sign, num, ts
  <2>4. T[p + 1 - 1] = Seen(ts[1], Before(ts, 1, before))
    BY <2>3
  <2>5. T[p + 2 - 1] = Seen(ts[2], Before(ts, 2, before))
    BY <2>3
  <2>6. Before(ts, 1, before) = before /\ Before(ts, 2, before) = ts[1].type
    BY DEF Before
  <2> QED
    BY <2>1, <2>4, <2>5, <2>6 DEF ts
<1>4. /\ T[p + 1] = num /\ num.type = "NUM" /\ num.n = t.n
      /\ T[p].type = IF t.op = "-" THEN "NEG" ELSE "!"
  BY <1>1, <1>3 DEF Seen, Token, Number
<1>5. Stands(T, p, p + 1, IF T[p].type = "!" THEN Truth(T[p + 1].n = 0)
                          ELSE Wrap(- T[p + 1].n), 0)
  <2>1. p + 1 \in Index /\ T[p + 1].type = "NUM" /\ T[p].type \in {"NEG", "!"}
    BY <1>2, <1>4
  <2> QED
    BY <2>1, StandsUnary
<1>6. Strict(t) = IF t.op = "-" THEN Wrap(- t.n) ELSE Truth(t.n = 0)
  BY Stricts
<1>7. T[p + 1].n = t.n /\ (T[p].type = "!" <=> t.op # "-")
  BY <1>1, <1>4
<1> QED
  BY <1>2, <1>5, <1>6, <1>7

\* A dereference, when its operand is evaluated as it is meant.
LEMMA DerefReads ==
  ASSUME NEW t \in Trees, t.kind = "deref", Reads(t.arg)
  PROVE  Reads(t)
<1> SUFFICES ASSUME NEW T \in Array, NEW p \in Nat, NEW q \in Index, NEW before,
                    q = p + Len(Guarded(t)) - 1, Fit(t),
                    Lies(T, p, Guarded(t), before),
                    ~ EndsOperand(before), T[q + 1].type = ")"
             PROVE  Stands(T, p, q, Strict(t), 0)
  BY DEF Reads, Loosest
<1> DEFINE star == <<Token("*")>>
           arg  == Guarded(t.arg)
           rest == InParentheses(t.arg.kind \in Literals, arg)
<1>1. t.arg \in Trees /\ Guarded(t) = star \o rest
  BY Texts, TreeFacts
<1>2. arg \in Seq(TokenT) /\ Len(arg) > 0 /\ (arg[1].type = "REG" => t.arg.kind = "REG")
  BY <1>1, Texts, TextEnds DEF WellEnded
<1>3. rest \in Seq(TokenT)
  BY <1>2, EnclosedType
<1>4. star \in Seq(TokenT) /\ Len(star) = 1 /\ star[1] = Token("*")
  <2>1. Token("*") \in TokenT
    BY WordFacts DEF Token, Number, TokenT, TokenTypes, BinaryOps
  <2> HIDE DEF TokenT
  <2> QED
    BY <2>1
<1>5. Len(rest) \in Nat /\ Len(arg) \in Nat /\ Len(Guarded(t)) = 1 + Len(rest)
  <2>1. Len(rest) \in Nat /\ Len(arg) \in Nat
    BY <1>2, <1>3
  <2> HIDE DEF star, rest, arg, TokenT
  <2>2. Len(star \o rest) = Len(star) + Len(rest)
    BY <1>3, <1>4, JoinedLength
  <2> QED
    BY <1>1, <1>4, <2>1, <2>2
<1>6. Fit(t.arg)
  BY FitParts
<1>7. Lies(T, p, star, before) /\ Lies(T, p + 1, rest, "*")
  <2>1. /\ Lies(T, p, star \o rest, before) /\ Len(star) > 0 /\ p \in Int
        /\ star[Len(star)].type = "*"
    BY <1>1, <1>4 DEF Token, Number
  <2> HIDE DEF star, rest
  <2>2. Lies(T, p, star, before) /\ Lies(T, p + Len(star), rest, star[Len(star)].type)
    BY <1>3, <1>4, <2>1, LiesApart
  <2> QED
    BY <1>4, <2>1, <2>2
<1>8. T[p].type = "POINT"
  <2>1. p \in Int /\ HasFirst(star) /\ Lies(T, p, star, before)
    BY <1>4, <1>7 DEF HasFirst
  <2>2. T[p] = Seen(star[1], before)
    <3> HIDE DEF star
    <3> QED
      BY <2>1, LiesFirst
  <2> QED
    BY <1>4, <2>2 DEF Seen, Token, Number
<1>9. p + 1 \in Nat /\ q = (p + 1) + Len(rest) - 1 /\ (p + 1) + 1 = p + 2 /\ p + 1 \in Int
  BY <1>5
<1> HIDE DEF star
<1>10. Stands(T, p + 1, q, Strict(t.arg), 0) /\ (T[p + 2].type = "REG" => Strict(t.arg) = Eax)
  <2>1. CASE t.arg.kind \in Literals
    <3>1. rest = arg /\ arg = <<Number(t.arg.kind, t.arg.n)>>
      BY <1>1, <2>1, Texts DEF InParentheses
    <3>2. Len(rest) = 1
      BY <3>1
    <3>3. q + 1 = p + 2
      <4> HIDE DEF rest
      <4> QED
        BY <1>9, <3>2
    <3>4. Stands(T, p + 1, q, Strict(t.arg), Loosest(t.arg))
      <4> DEFINE first == p + 1
      <4>1. /\ first \in Nat /\ q = first + Len(Guarded(t.arg)) - 1
            /\ Fit(t.arg) /\ Lies(T, first, Guarded(t.arg), "*")
        BY <1>6, <1>7, <1>9, <3>1
      <4> HIDE DEF first
      <4>2. Stands(T, first, q, Strict(t.arg), Loosest(t.arg))
        BY <2>1, <4>1 DEF Reads, Literals
      <4> QED
        BY <4>2 DEF first
    <3> QED
      BY <2>1, <3>3, <3>4 DEF Loosest, Literals
  <2>2. CASE t.arg.kind \notin Literals
    <3>1. rest = Enclosed(arg)
      BY <2>2 DEF InParentheses
    <3>2. Len(rest) = Len(arg) + 2
      <4> HIDE DEF arg
      <4> QED
        BY <1>2, <3>1, EnclosedType
    <3>3. Stands(T, p + 1, q, Strict(t.arg), 0)
      <4> DEFINE first == p + 1
      <4>1. q = first + Len(arg) + 1
        <5> HIDE DEF rest, arg
        <5> QED
          BY <1>5, <1>9, <3>2
      <4>2. first \in Nat /\ Fit(t.arg) /\ Lies(T, first, Enclosed(arg), "*")
        BY <1>6, <1>7, <3>1
      <4> HIDE DEF first
      <4>3. Stands(T, first, q, Strict(t.arg), 0)
        BY <1>1, <4>1, <4>2, EnclosedReads
      <4> QED
        BY <4>3 DEF first
    <3>4. Lies(T, p + 2, arg, "(")
      <4> DEFINE first == p + 1
      <4>1. first \in Int /\ first + 1 = p + 2 /\ Lies(T, first, Enclosed(arg), "*")
        BY <1>7, <1>9, <3>1
      <4> HIDE DEF first, arg
      <4>2. Lies(T, first + 1, arg, "(")
        BY <1>2, <4>1, LiesEnclosed
      <4> QED
        BY <4>1, <4>2
    <3>5. T[p + 2].type = "REG" => arg[1].type = "REG"
      <4> DEFINE first == p + 2
      <4>1. T[first] = Seen(arg[1], "(")
        <5>1. 1 \in 1 .. Len(arg) /\ first + 1 - 1 = first
          BY <1>2, <1>5
        <5>2. Lies(T, first, arg, "(")
          BY <3>4
        <5> HIDE DEF first, arg
        <5> QED
          BY <5>1, <5>2 DEF Lies, Before
      <4>2. arg[1].type \in {"*", "-"} => T[first].type \in {"POINT", "NEG"}
        <5>1. ~ EndsOperand("(")
          BY DEF EndsOperand
        <5>2. arg[1] \in TokenT
          <6> HIDE DEF arg, TokenT
          <6> QED
            BY <1>2, <1>5
        <5> HIDE DEF first, arg
        <5> QED
          BY <4>1, <5>1, <5>2 DEF Seen, TokenT
      <4>3. arg[1].type \notin {"*", "-"} => T[first] = arg[1]
        <5> HIDE DEF first, arg
        <5> QED
          BY <4>1 DEF Seen
      <4> QED
        BY <4>2, <4>3
    <3> QED
      BY <1>1, <1>2, <3>3, <3>5, Stricts
  <2> QED
    BY <2>1, <2>2
<1>11. Stands(T, p, q, IF Strict(t.arg) = Abort THEN Abort ELSE Read(Strict(t.arg)), 0)
  BY <1>8, <1>10, StandsDeref
<1> QED
  BY <1>11, Stricts

\* Every expression, by its height.
LEMMA AllRead ==
  ASSUME NEW t \in Trees
  PROVE  Reads(t)
<1> DEFINE G == {u \in Trees : Reads(u)}
<1>1. G \in SUBSET Trees /\ Height \in [Trees -> Nat]
  BY TreeAssumption
<1>2. ASSUME NEW u \in Trees, \A w \in Trees : Height[w] < Height[u] => w \in G
      PROVE  u \in G
  <2>1. CASE u.kind \in Literals \union {"REG", "VAR"}
    BY <2>1, LeafReads
  <2>2. CASE u.kind = "unary"
    BY <2>2, UnaryReads
  <2>3. CASE u.kind = "deref"
    <3>1. Reads(u.arg)
      BY <1>2, <2>3, TreeFacts
    <3> QED
      BY <2>3, <3>1, DerefReads
  <2>4. CASE u.kind = "binary"
    <3>1. Reads(u.left) /\ Reads(u.right)
      BY <1>2, <2>4, TreeFacts
    <3> QED
      BY <2>4, <3>1, BinaryReads
  <2> QED
    BY <2>1, <2>2, <2>3, <2>4, TreeFacts DEF Kinds
<1> HIDE DEF G
<1>3. G = Trees
  BY <1>1, <1>2, ByHeight
<1> QED
  BY <1>3 DEF G

-----------------------------------------------------------------------------
(* The calls of expr.                                                      *)

\* The array holds the tokens of the last text, in their places and with
\* their unary operators told from the binary ones; behind them lies anything.
TextInPlace ==
  /\ tokens \in Array /\ calls \in Nat
  /\ calls > 0 => /\ tree \in Trees
                  /\ nr_token = Len(Written(style, tree)) /\ nr_token < NrTokens
                  /\ NoAnd(Written(style, tree)) =>
                       Lies(tokens, 0, Written(style, tree), "none")

\* What the user types is a sequence of tokens.
LEMMA WrittenType ==
  ASSUME NEW how, NEW t \in Trees
  PROVE  Written(how, t) \in Seq(TokenT)
<1>1. Text(how, t) \in Seq(TokenT)
  BY TextIs
<1> QED
  BY <1>1, EnclosedType DEF Written

\* The array keeps holding tokens.
LEMMA MakeTokenType ==
  ASSUME tokens \in Array, NEW ts \in Seq(TokenT), NEW nr
  PROVE  MakeToken(ts) \in Array /\ Retyped(MakeToken(ts), nr) \in Array
<1>1. ASSUME NEW k \in TokenT PROVE TokenMade(k) \in TokenT
  BY DEF TokenMade, TokenT, TokenTypes, BinaryOps
<1>2. ASSUME NEW i \in Index, i < Len(ts) PROVE ts[i + 1] \in TokenT
  <2>1. i \in Int /\ 0 <= i
    BY ExprAssumption DEF Index
  <2> HIDE DEF TokenT
  <2>2. Len(ts) \in Nat /\ i + 1 \in 1 .. Len(ts)
    BY <1>2, <2>1
  <2> QED
    BY <2>2
<1>3. MakeToken(ts) \in Array
  BY <1>1, <1>2 DEF MakeToken, Array
<1>4. ASSUME NEW k \in TokenT
      PROVE  [k EXCEPT !.type = IF @ = "*" THEN "POINT" ELSE "NEG"] \in TokenT
  BY DEF TokenT, TokenTypes
<1> QED
  BY <1>3, <1>4 DEF Retyped, Array

\* The loop of make_token and the one of expr put the text in its place.
LEMMA MadeInPlace ==
  ASSUME NEW ts \in Seq(TokenT), NoAnd(ts), Len(ts) < NrTokens
  PROVE  Lies(Retyped(MakeToken(ts), Len(ts)), 0, ts, "none")
<1> DEFINE A == MakeToken(ts)
           R == Retyped(A, Len(ts))
<1>1. Len(ts) \in Nat /\ NrTokens \in Nat /\ DOMAIN ts = 1 .. Len(ts)
  BY ExprAssumption
<1>2. ASSUME NEW j \in 0 .. Len(ts) - 1
      PROVE  j \in Index /\ j \in Int /\ j < Len(ts) /\ j + 1 \in 1 .. Len(ts) /\ A[j] = ts[j + 1]
  <2>1. j \in Index /\ j \in Int /\ j < Len(ts) /\ j + 1 \in 1 .. Len(ts)
    BY <1>1 DEF Index
  <2>2. A[j] = TokenMade(ts[j + 1])
    BY <2>1 DEF MakeToken
  <2>3. ts[j + 1] \in TokenT /\ ts[j + 1].type # "&&"
    <3>1. ts[j + 1].type # "&&"
      BY <1>1, <2>1 DEF NoAnd
    <3> HIDE DEF TokenT
    <3> QED
      BY <2>1, <3>1
  <2>4. TokenMade(ts[j + 1]) = ts[j + 1]
    BY <2>3 DEF TokenMade, TokenT
  <2> QED
    BY <2>1, <2>2, <2>4
<1>3. ASSUME NEW i \in 1 .. Len(ts) PROVE R[0 + i - 1] = Seen(ts[i], Before(ts, i, "none"))
  <2> DEFINE j == i - 1
  <2>1. /\ i \in Int /\ 0 + i - 1 = j /\ j + 1 = i /\ j \in 0 .. Len(ts) - 1
        /\ (j # 0 => j - 1 \in 0 .. Len(ts) - 1) /\ (j - 1) + 1 = i - 1 /\ (j = 0 <=> i = 1)
    BY <1>1
  <2> HIDE DEF A, R, j
  <2>2. j \in Index /\ j < Len(ts) /\ A[j] = ts[i]
    BY <1>2, <2>1
  <2>3. j # 0 => A[j - 1] = ts[i - 1]
    BY <1>2, <2>1
  <2>4. R[j] = IF A[j].type \in {"*", "-"} /\ (j = 0 \/ ~ EndsOperand(A[j - 1].type))
               THEN [A[j] EXCEPT !.type = IF @ = "*" THEN "POINT" ELSE "NEG"] ELSE A[j]
    BY <2>2 DEF R, Retyped
  <2>5. (j = 0 \/ ~ EndsOperand(A[j - 1].type)) <=> ~ EndsOperand(Before(ts, i, "none"))
    BY <2>1, <2>3 DEF EndsOperand, Before
  <2> QED
    BY <2>1, <2>2, <2>4, <2>5 DEF Seen
<1> QED
  BY <1>3 DEF Lies

\* The invariant holds at first.
LEMMA InPlaceInit ==
  ExprInit => TextInPlace
<1>1. Token("none") \in TokenT
  BY WordFacts DEF Token, Number, TokenT, TokenTypes
<1> QED
  BY <1>1 DEF ExprInit, TextInPlace, Array

\* every call of expr keeps it.
LEMMA InPlaceNext ==
  TextInPlace /\ [ExprNext]_exprVars => TextInPlace'
<1> SUFFICES ASSUME TextInPlace, [ExprNext]_exprVars PROVE TextInPlace'
  OBVIOUS
<1>1. CASE UNCHANGED exprVars
  BY <1>1 DEF exprVars, TextInPlace, Array
<1>2. ASSUME NEW how, NEW t \in Trees, CallExpr(t, how) PROVE TextInPlace'
  <2> DEFINE ts == Written(how, t)
  <2>1. ts \in Seq(TokenT)
    BY WrittenType
  <2>2. /\ tokens' = Retyped(MakeToken(ts), Len(ts)) /\ nr_token' = Len(ts)
        /\ tree' = t /\ style' = how /\ calls' = calls + 1 /\ Len(ts) + 1 < NrTokens
    BY <1>2 DEF CallExpr
  <2>3. Len(ts) < NrTokens
    <3>1. Len(ts) \in Int /\ NrTokens \in Int
      BY <2>1, ExprAssumption
    <3> HIDE DEF ts
    <3> QED
      BY <2>2, <3>1
  <2>4. Written(style', tree') = ts
    BY <2>2
  <2> HIDE DEF ts
  <2>5. tokens' \in Array /\ calls' \in Nat
    BY <2>1, <2>2, MakeTokenType DEF TextInPlace
  <2>6. NoAnd(ts) => Lies(tokens', 0, ts, "none")
    BY <2>1, <2>2, <2>3, MadeInPlace
  <2>7. tree' \in Trees /\ nr_token' = Len(ts) /\ nr_token' < NrTokens
    BY <2>2, <2>3
  <2> QED
    BY <2>4, <2>5, <2>6, <2>7 DEF TextInPlace
<1>3. CASE ExprNext
  <2>1. Earlier \subseteq Trees /\ Later \subseteq Trees
    BY ExprAssumption
  <2> QED
    BY <1>2, <1>3, <2>1 DEF ExprNext
<1> QED
  BY <1>1, <1>3

\* and it is enough.
LEMMA InPlaceRight ==
  TextInPlace => GuardedIsRight
<1> SUFFICES ASSUME TextInPlace, style = "guarded", Fit(tree), calls > 0
             PROVE  Result = Strict(tree)
  BY DEF GuardedIsRight, Fit, Strict
<1> DEFINE ts   == Guarded(tree)
           last == nr_token - 1
<1>1. /\ tree \in Trees /\ tokens \in Array
      /\ nr_token = Len(Written(style, tree)) /\ nr_token < NrTokens
      /\ Lies(tokens, 0, Written(style, tree), "none")
  <2>1. tree \in Trees
    BY DEF TextInPlace
  <2>2. NoAnd(Written(style, tree))
    BY <2>1, FitText, Texts, NoAndEnclosed DEF Written, Guarded
  <2> QED
    BY <2>2 DEF TextInPlace
<1>2. ts \in Seq(TokenT) /\ Len(ts) > 0 /\ Len(ts) \in Nat
  <2>1. ts \in Seq(TokenT) /\ Len(ts) > 0
    BY <1>1, Texts, TextEnds DEF WellEnded
  <2> HIDE DEF ts, TokenT
  <2> QED
    BY <2>1
<1>3. Reads(tree)
  BY <1>1, AllRead
<1>4. NrTokens \in Int
  BY ExprAssumption
<1>5. CASE tree.kind \in {"unary", "deref"}
  <2>1. Written(style, tree) = Enclosed(ts)
    BY <1>5 DEF Written, Guarded
  <2>2. Len(Enclosed(ts)) = Len(ts) + 2
    <3> HIDE DEF ts
    <3> QED
      BY <1>2, EnclosedType
  <2>3. last \in Index /\ last = 0 + Len(ts) + 1
    <3> HIDE DEF ts
    <3> QED
      BY <1>1, <1>2, <1>4, <2>1, <2>2 DEF Index
  <2> HIDE DEF last
  <2>4. Stands(tokens, 0, last, Strict(tree), 0)
    BY <1>1, <1>3, <2>1, <2>3, EnclosedReads
  <2> QED
    BY <2>4 DEF Stands, Result, last
<1>6. CASE tree.kind \notin {"unary", "deref"}
  <2>1. Written(style, tree) = ts
    BY <1>6 DEF Written, Guarded
  <2>2. last \in Index /\ last = 0 + Len(ts) - 1
    <3> HIDE DEF ts
    <3> QED
      BY <1>1, <1>2, <1>4, <2>1 DEF Index
  <2> HIDE DEF last
  <2>3. 0 \in Nat /\ Fit(tree) /\ Lies(tokens, 0, Guarded(tree), "none")
    BY <1>1, <2>1
  <2>4. Stands(tokens, 0, last, Strict(tree), Loosest(tree))
    BY <1>1, <1>3, <1>6, <2>2, <2>3 DEF Reads
  <2> QED
    BY <2>4 DEF Stands, Result, last
<1> QED
  BY <1>5, <1>6

\* A guarded text without && and without a sign or a ! before a hexadecimal
\* number has the value C gives it when all of its parts have one, and aborts
\* otherwise, whatever its nesting and whatever the calls before left in the
\* array: eval, domi_position and check_parentheses are right on it
\* (expr.c:222-458).
THEOREM ExprRight == ExprSpec => []GuardedIsRight
<1>1. ExprInit => TextInPlace
  BY InPlaceInit
<1>2. TextInPlace /\ [ExprNext]_exprVars => TextInPlace'
  BY InPlaceNext
<1>3. TextInPlace => GuardedIsRight
  BY InPlaceRight
<1> QED
  BY <1>1, <1>2, <1>3, PTL DEF ExprSpec
=============================================================================
