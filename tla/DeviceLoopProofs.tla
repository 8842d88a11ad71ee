-------------------------- MODULE DeviceLoopProofs --------------------------
(***************************************************************************)
(* Proofs about DeviceLoop: that the signal handler, which may come        *)
(* between any two loads and stores of the interrupt controller, leaves    *)
(* the requests of the other devices alone.  The reason is that the        *)
(* handler only ever adds the request of line 0, the line of the highest   *)
(* priority: what the emulator has loaded and will store differs from what *)
(* is there by that request at most.                                       *)
(***************************************************************************)
EXTENDS DeviceLoop, WellFoundedInduction, TLAPS

-----------------------------------------------------------------------------
(* The inductive invariant.                                                *)

\* What the emulator is doing in the controller, for whom.
Located ==
  /\ at = "set" => call.line \in {Keyboard, Ide} /\ (call.line = Ide => Ide \in sirr)
  /\ at = "clear" => /\ pc = "taken" /\ handling # Free /\ ~ served
                     /\ call.line \in {handling, Timer}
  /\ pc = "ack" => /\ at = "out" /\ handling # Free /\ ~ served
                   /\ intr_NO \in {handling, Timer}
  /\ pc = "key" => IF at = "set" THEN call.line = Keyboard ELSE Keyboard \in irr

\* Since the load only the timer's request may have come.
Loaded == at \in {"set", "clear"} =>
            call.load \subseteq irr /\ irr \subseteq call.load \union {Timer}

\* The cascade asks for a line of the slave, but while that line's
\* acknowledgement is half done.
CascadeKnown == \/ at = "clear" /\ call.line \in 8 .. 15
                \/ Cascade \in irr => slave_irq \in sirr

\* The ranks on their way to INTR and intr_NO.
RankKnown ==
  /\ at = "ranked" => IF call.found = NoIntr THEN irr \subseteq {Timer}
                                             ELSE call.found \in irr
  /\ at = "do" => IF highest_irq = NoIntr THEN irr \subseteq {Timer}
                                          ELSE highest_irq \in irr
  /\ at = "lower" => irr \subseteq {Timer}
  /\ at = "announce" => call.found \in Requests
  /\ at = "lift" => intr_NO \in Requests
  /\ at = "out" => /\ irr \ {Timer} # {} => INTR
                   /\ INTR => intr_NO \in Requests

IInv == /\ TypeOK /\ AssertHolds
        /\ Located /\ Loaded /\ CascadeKnown /\ RankKnown
        /\ KeyboardAlive

-----------------------------------------------------------------------------
(* The first bit found.                                                    *)

\* ffo finds a request if there is one, and NO_INTR otherwise.
LEMMA FindsFirst ==
  ASSUME NEW S, S \subseteq 0 .. 15
  PROVE  IF S = {} THEN ffo(S) = NoIntr ELSE ffo(S) \in S
<1>1. CASE S = {}
  BY <1>1 DEF ffo
<1>2. CASE S # {}
  <2>1. \E n \in S : \A k \in S : n <= k
    <3> DEFINE less == OpToRel(<, Nat)
    <3>1. S \subseteq Nat
      OBVIOUS
    <3>2. IsWellFoundedOn(less, Nat)
      BY NatLessThanWellFounded
    <3>3. \A m, n \in Nat : m < n => <<m, n>> \in less
      BY DEF OpToRel
    <3> HIDE DEF less
    <3>4. PICK n \in S : \A k \in S : ~ (<<k, n>> \in less)
      BY <1>2, <3>1, <3>2, WFMin
    <3> QED
      BY <3>1, <3>3, <3>4
  <2> QED
    BY <1>2, <2>1 DEF ffo
<1> QED
  BY <1>1, <1>2

\* Line 0 has the highest priority.
LEMMA FindsTimer ==
  ASSUME NEW S, S \subseteq 0 .. 15, Timer \in S
  PROVE  ffo(S) = Timer
<1>1. \A n \in S : Timer <= n
  BY DEF Timer
<1>2. \A n : /\ n \in S
             /\ \A k \in S : n <= k
             => n = Timer
  BY DEF Timer
<1> DEFINE first(n) == \/ n = NoIntr /\ S = {}
                       \/ n \in S /\ \A k \in S : n <= k
<1>3. first(Timer)
  BY <1>1
<1>4. \A n : first(n) => n = Timer
  BY <1>2
<1>5. ffo(S) = CHOOSE n \in S \union {NoIntr} : first(n)
  BY DEF ffo
<1> HIDE DEF first
<1> QED
  BY <1>3, <1>4, <1>5

-----------------------------------------------------------------------------
(* The invariant is inductive: one lemma for each group of steps.          *)

LEMMA InitIInv == Init => IInv
<1> SUFFICES ASSUME Init PROVE IInv
  OBVIOUS
<1>1. PicTypeOK
  <2>1. call \in [line : Lines \union {NoIntr}, load : SUBSET (0 .. 7),
                  found : Lines \union {NoIntr}]
    BY DEF Init, PicInit, NoCall
  <2>2. /\ irr \subseteq 0 .. 7 /\ sirr \subseteq 8 .. 15
        /\ INTR \in BOOLEAN /\ at = "out"
    BY DEF Init, PicInit
  <2>3. /\ highest_irq \in 0 .. 7 \union {NoIntr}
        /\ slave_irq \in 8 .. 15 \union {NoIntr}
        /\ intr_NO \in Lines \union {NoIntr}
    BY DEF Init, PicInit
  <2> QED
    BY <2>1, <2>2, <2>3 DEF PicTypeOK
<1>2. TypeOK
  <2>1. 0 \in 0 .. Gap
    BY LoopAssumption
  <2>2. {running, newkey, update, served} \subseteq BOOLEAN
    BY DEF Init
  <2> QED
    BY <1>1, <2>1, <2>2 DEF Init, TypeOK
<1>3. AssertHolds /\ Located /\ Loaded /\ CascadeKnown /\ RankKnown /\ KeyboardAlive
  BY DEF Init, PicInit, AssertHolds, Located, Loaded, CascadeKnown, RankKnown,
         KeyboardAlive
<1> QED
  BY <1>2, <1>3 DEF IInv

\* What the invariant says of types, for the steps below.
LEMMA Types ==
  ASSUME IInv
  PROVE  /\ irr \subseteq 0 .. 7 /\ sirr \subseteq 8 .. 15
         /\ irr \subseteq 0 .. 15 /\ sirr \subseteq 0 .. 15
         /\ NoIntr \notin irr /\ NoIntr \notin sirr
         /\ Requests \subseteq 0 .. 15
<1>1. irr \subseteq 0 .. 7 /\ sirr \subseteq 8 .. 15
  BY DEF IInv, TypeOK, PicTypeOK
<1>2. irr \subseteq 0 .. 15 /\ sirr \subseteq 0 .. 15
  BY <1>1
<1> QED
  BY <1>1, <1>2, NoIntrAssumption DEF Requests

\* i8259_raise_intr begins.
LEMMA RaiseIInv ==
  ASSUME IInv, at = "out", NEW n \in {Keyboard, Ide}, Raise(n),
         UNCHANGED <<newkey, handling, served, quiet>>, pc # "key",
         running' \in BOOLEAN, update' \in BOOLEAN,
         pc' \in {"update", "key"}, pc' = "key" => n = Keyboard
  PROVE  IInv'
<1>1. TypeOK'
  BY DEF IInv, TypeOK, PicTypeOK, Raise, Lines, Keyboard, Ide
<1>2. AssertHolds' /\ Loaded' /\ RankKnown'
  BY DEF AssertHolds, Loaded, RankKnown, Raise
<1>3. Located'
  BY DEF IInv, Located, Raise, Keyboard, Ide
<1>4. CascadeKnown' /\ KeyboardAlive'
  BY DEF IInv, CascadeKnown, KeyboardAlive, Raise
<1> QED
  BY <1>1, <1>2, <1>3, <1>4 DEF IInv

\* The loop of cpu_exec outside the controller.
LEMMA LoopIInv ==
  ASSUME IInv, UNCHANGED picVars, TypeOK', at # "clear",
         pc' = "key" => pc = "key",
         pc' = "ack" => at = "out" /\ handling' # Free /\ ~ served' /\ intr_NO = handling',
         KeyboardAlive'
  PROVE  IInv'
BY DEF IInv, picVars, AssertHolds, Located, Loaded, CascadeKnown, RankKnown,
       Requests

LEMMA ExecuteIInv == ASSUME IInv, Execute PROVE IInv'
<1>1. CASE /\ at = "out" /\ pc' = "update" /\ running' \in BOOLEAN /\ UNCHANGED picVars
           /\ UNCHANGED <<newkey, update, handling, served, quiet>>
  <2>1. TypeOK'
    BY <1>1 DEF IInv, TypeOK, PicTypeOK, picVars
  <2>2. KeyboardAlive'
    BY <1>1 DEF IInv, KeyboardAlive, picVars
  <2> QED
    BY <1>1, <2>1, <2>2, LoopIInv
<1>2. CASE pc' = "update" /\ Raise(Ide) /\ UNCHANGED running
  <2>1. running' \in BOOLEAN /\ update' \in BOOLEAN
    BY <1>2 DEF IInv, TypeOK, Execute
  <2> QED
    BY <1>2, <2>1, RaiseIInv DEF Execute
<1> QED
  BY <1>1, <1>2 DEF Execute

LEMMA ServeIInv == ASSUME IInv, Serve PROVE IInv'
<1>1. TypeOK'
  BY DEF Serve, NewkeyAfter, IInv, TypeOK, PicTypeOK, picVars
<1>2. KeyboardAlive'
  BY DEF Serve, NewkeyAfter, IInv, KeyboardAlive, picVars
<1> QED
  BY <1>1, <1>2, LoopIInv DEF Serve

LEMMA IretIInv == ASSUME IInv, Iret PROVE IInv'
<1>1. TypeOK'
  BY DEF Iret, IInv, TypeOK, PicTypeOK, picVars
<1>2. KeyboardAlive'
  BY DEF Iret, IInv, KeyboardAlive, picVars
<1> QED
  BY <1>1, <1>2, LoopIInv DEF Iret

LEMMA DeviceUpdateIInv == ASSUME IInv, DeviceUpdate PROVE IInv'
<1>1. CASE update' = FALSE /\ Raise(Keyboard) /\ pc' = "key"
  <2>1. running' \in BOOLEAN /\ update' \in BOOLEAN
    BY <1>1 DEF IInv, TypeOK, DeviceUpdate
  <2> QED
    BY <1>1, <2>1, RaiseIInv DEF DeviceUpdate
<1>2. CASE update' = FALSE /\ pc' = "check" /\ UNCHANGED picVars
  <2>1. TypeOK'
    BY <1>2 DEF DeviceUpdate, IInv, TypeOK, PicTypeOK, picVars
  <2>2. KeyboardAlive'
    BY <1>2 DEF DeviceUpdate, IInv, KeyboardAlive, picVars
  <2> QED
    BY <1>2, <2>1, <2>2, LoopIInv DEF DeviceUpdate
<1> QED
  BY <1>1, <1>2 DEF DeviceUpdate

LEMMA NewKeyIInv == ASSUME IInv, NewKey PROVE IInv'
<1>1. TypeOK'
  BY DEF NewKey, IInv, TypeOK, PicTypeOK, picVars
<1>2. KeyboardAlive'
  BY DEF NewKey, IInv, Located, KeyboardAlive, picVars
<1> QED
  BY <1>1, <1>2, LoopIInv DEF NewKey

\* The turn of the loop ends.
LEMMA QuietType ==
  ASSUME IInv, NextInstr
  PROVE  quiet' \in 0 .. Gap /\ pc' \in {"exec", "prompt"}
BY LoopAssumption DEF NextInstr, IInv, TypeOK

LEMMA CheckIInv == ASSUME IInv, Check PROVE IInv'
<1>1. CASE running /\ INTR /\ Interruptible
  <2>1. intr_NO \in Requests /\ intr_NO \in Lines
    BY <1>1, Types DEF Check, IInv, RankKnown, Lines
  <2>2. /\ handling' = intr_NO /\ pc' = "ack" /\ intr_NO # Free /\ ~ served
        /\ UNCHANGED <<picVars, running, newkey, update, served, quiet>>
    BY <1>1, <2>1, LoopAssumption DEF Check, Lines, IInv, TypeOK, Interruptible
  <2>3. TypeOK'
    BY <2>1, <2>2 DEF IInv, TypeOK, PicTypeOK, picVars
  <2>4. KeyboardAlive'
    BY <1>1, <2>2, LoopAssumption
       DEF IInv, KeyboardAlive, Interruptible, picVars, Keyboard
  <2> QED
    BY <2>2, <2>3, <2>4, LoopIInv DEF Check
<1>2. CASE NextInstr /\ UNCHANGED handling
  <2>1. TypeOK'
    BY <1>2, QuietType DEF Check, IInv, TypeOK, PicTypeOK, picVars
  <2>2. KeyboardAlive'
    BY <1>2 DEF Check, IInv, KeyboardAlive, picVars
  <2> QED
    BY <1>2, <2>1, <2>2, QuietType, LoopIInv DEF Check
<1> QED
  BY <1>1, <1>2 DEF Check

LEMMA TakenIInv == ASSUME IInv, Taken PROVE IInv'
<1>1. TypeOK'
  BY QuietType DEF Taken, IInv, TypeOK, PicTypeOK, picVars
<1>2. KeyboardAlive'
  BY DEF Taken, IInv, KeyboardAlive, picVars
<1> QED
  BY <1>1, <1>2, QuietType, LoopIInv DEF Taken

LEMMA ContinueIInv == ASSUME IInv, Continue PROVE IInv'
<1>1. TypeOK'
  BY DEF Continue, IInv, TypeOK, PicTypeOK, picVars
<1>2. KeyboardAlive'
  BY DEF Continue, IInv, KeyboardAlive, picVars
<1>3. at # "clear"
  BY DEF Continue, IInv, Located
<1> QED
  BY <1>1, <1>2, <1>3, LoopIInv DEF Continue

-----------------------------------------------------------------------------
(* The steps in the controller.                                            *)

\* i8259_ack_intr begins; if the signal has come since i8259_query_intr, it
\* is the timer's request that it takes.
LEMMA AcknowledgeIInv == ASSUME IInv, Acknowledge PROVE IInv'
<1>1. /\ intr_NO \in {handling, Timer} /\ handling # Free /\ intr_NO \in Lines /\ ~ served
      /\ at' = "clear" /\ pc' = "taken"
      /\ call' = [line |-> intr_NO, load |-> irr, found |-> NoIntr]
      /\ sirr' = sirr \ {intr_NO}
      /\ UNCHANGED <<irr, highest_irq, slave_irq, intr_NO, INTR,
                     running, newkey, update, handling, served, quiet>>
  BY DEF Acknowledge, Ack, IInv, Located, TypeOK, Timer, Lines
<1>2. TypeOK'
  BY <1>1 DEF IInv, TypeOK, PicTypeOK
<1>3. AssertHolds' /\ Located' /\ Loaded' /\ RankKnown' /\ KeyboardAlive'
  BY <1>1 DEF AssertHolds, Located, Loaded, RankKnown, IInv, KeyboardAlive
<1>4. CascadeKnown'
  <2>1. CASE intr_NO \in 8 .. 15
    BY <1>1, <2>1 DEF CascadeKnown
  <2>2. CASE intr_NO \notin 8 .. 15
    <3>1. sirr' = sirr
      BY <1>1, <2>2, Types
    <3> QED
      BY <1>1, <3>1 DEF CascadeKnown, IInv, Acknowledge, Ack
  <2> QED
    BY <2>1, <2>2
<1> QED
  BY <1>2, <1>3, <1>4 DEF IInv

\* master.IRR is stored, with a request added to what was loaded.
LEMMA SetIInv == ASSUME IInv, Set, UNCHANGED loopVars PROVE IInv'
<1>1. /\ at = "set" /\ at' = "rank" /\ call.line \in {Keyboard, Ide}
      /\ call.line = Ide => Ide \in sirr
      /\ irr' = call.load \union {MasterLine(call.line)}
      /\ slave_irq' = SlaveRank
      /\ UNCHANGED <<sirr, highest_irq, intr_NO, INTR, call, pc, running, newkey,
                     update, handling, served, quiet>>
      /\ call.load \subseteq irr /\ irr \subseteq call.load \union {Timer}
  BY DEF Set, IInv, Located, Loaded, loopVars
<1>2. MasterLine(call.line) \in 0 .. 7 /\ MasterLine(call.line) # Timer
  BY <1>1 DEF MasterLine, Cascade, Keyboard, Ide, Timer
<1>3. \/ call.line = Keyboard /\ MasterLine(call.line) = Keyboard /\ slave_irq' = slave_irq
      \/ call.line = Ide /\ slave_irq' \in sirr
  BY <1>1, Types, FindsFirst DEF MasterLine, SlaveRank, Keyboard, Ide
<1>4. TypeOK'
  <2>1. slave_irq' \in 8 .. 15 \union {NoIntr}
    BY <1>3, Types DEF IInv, TypeOK, PicTypeOK
  <2>2. irr' \subseteq 0 .. 7
    BY <1>1, <1>2, Types
  <2> QED
    BY <1>1, <2>1, <2>2 DEF IInv, TypeOK, PicTypeOK
<1>5. CascadeKnown'
  BY <1>1, <1>3 DEF IInv, CascadeKnown, Cascade, Keyboard
<1>6. Located' /\ KeyboardAlive'
  <2>1. Keyboard \in irr => Keyboard \in irr'
    BY <1>1 DEF Keyboard, Timer
  <2>2. pc = "key" => Keyboard \in irr'
    BY <1>1, <1>3 DEF IInv, Located, Keyboard, Ide
  <2>3. Located'
    BY <1>1, <2>2 DEF IInv, Located
  <2>4. KeyboardAlive'
    BY <1>1, <2>1 DEF IInv, KeyboardAlive
  <2> QED
    BY <2>3, <2>4
<1>7. AssertHolds' /\ Loaded' /\ RankKnown'
  BY <1>1 DEF AssertHolds, Loaded, RankKnown
<1> QED
  BY <1>4, <1>5, <1>6, <1>7 DEF IInv

\* master.IRR is stored, without the request that was acknowledged.
LEMMA ClearIInv == ASSUME IInv, Clear, UNCHANGED loopVars PROVE IInv'
<1>1. /\ at = "clear" /\ at' = "rank" /\ pc = "taken" /\ handling # Free /\ ~ served
      /\ call.line \in {handling, Timer} /\ call.line \in Lines
      /\ irr' = call.load \ {MasterLine(call.line)}
      /\ slave_irq' = SlaveRank
      /\ UNCHANGED <<sirr, highest_irq, intr_NO, INTR, call, pc, running, newkey,
                     update, handling, served, quiet>>
      /\ call.load \subseteq irr /\ irr \subseteq call.load \union {Timer}
  BY DEF Clear, Cleared, IInv, TypeOK, Located, Loaded, loopVars, Lines, Timer
<1>2. IF call.line \in 8 .. 15
      THEN MasterLine(call.line) = Cascade
      ELSE MasterLine(call.line) = call.line /\ slave_irq' = slave_irq
  BY <1>1 DEF MasterLine, SlaveRank, Lines
<1>3. TypeOK'
  <2>1. slave_irq' \in 8 .. 15 \union {NoIntr}
    BY <1>1, Types, FindsFirst DEF SlaveRank, IInv, TypeOK, PicTypeOK
  <2>2. irr' \subseteq 0 .. 7
    BY <1>1, Types
  <2> QED
    BY <1>1, <2>1, <2>2 DEF IInv, TypeOK, PicTypeOK
<1>4. CascadeKnown'
  BY <1>1, <1>2 DEF IInv, CascadeKnown
<1>5. Located'
  BY <1>1 DEF IInv, Located
<1>6. KeyboardAlive'
  <2>1. CASE call.line = Keyboard
    <3>1. handling = Keyboard
      BY <1>1, <2>1 DEF Keyboard, Timer
    <3> QED
      BY <1>1, <3>1 DEF IInv, KeyboardAlive
  <2>2. CASE call.line # Keyboard
    <3>1. MasterLine(call.line) # Keyboard
      BY <1>2, <2>2 DEF Cascade, Keyboard
    <3>2. Keyboard \in irr => Keyboard \in irr'
      BY <1>1, <3>1 DEF Keyboard, Timer
    <3> QED
      BY <1>1, <3>2 DEF IInv, KeyboardAlive
  <2> QED
    BY <2>1, <2>2
<1>7. AssertHolds' /\ Loaded' /\ RankKnown'
  BY <1>1 DEF AssertHolds, Loaded, RankKnown
<1> QED
  BY <1>3, <1>4, <1>5, <1>6, <1>7 DEF IInv

\* The highest rank is computed, from what is requested now.
LEMMA RankIInv == ASSUME IInv, Rank, UNCHANGED loopVars PROVE IInv'
<1>1. /\ at = "rank" /\ at' = "ranked"
      /\ call' = [call EXCEPT !.found = ffo(irr)]
      /\ UNCHANGED <<irr, sirr, highest_irq, slave_irq, intr_NO, INTR, pc, running,
                     newkey, update, handling, served, quiet>>
  BY DEF Rank, Requested, loopVars
<1>2. IF irr = {} THEN ffo(irr) = NoIntr ELSE ffo(irr) \in irr
  BY Types, FindsFirst
<1>3. ffo(irr) \in Lines \union {NoIntr}
  BY <1>2, Types DEF Lines
<1>4. call'.found = ffo(irr)
  BY <1>1 DEF IInv, TypeOK, PicTypeOK
<1>5. TypeOK'
  BY <1>1, <1>3 DEF IInv, TypeOK, PicTypeOK
<1>6. RankKnown'
  BY <1>1, <1>2, <1>4, Types DEF RankKnown
<1>7. Located' /\ KeyboardAlive' /\ CascadeKnown'
  BY <1>1 DEF IInv, Located, KeyboardAlive, CascadeKnown
<1>8. AssertHolds' /\ Loaded'
  BY <1>1 DEF AssertHolds, Loaded
<1> QED
  BY <1>5, <1>6, <1>7, <1>8 DEF IInv

\* ... and stored; a signal in between has added line 0, whose rank is lost.
LEMMA RankedIInv == ASSUME IInv, Ranked, UNCHANGED loopVars PROVE IInv'
<1>1. /\ at = "ranked" /\ at' = "do" /\ highest_irq' = call.found
      /\ UNCHANGED <<irr, sirr, slave_irq, intr_NO, INTR, call, pc, running,
                     newkey, update, handling, served, quiet>>
  BY DEF Ranked, loopVars
<1>2. IF call.found = NoIntr THEN irr \subseteq {Timer} ELSE call.found \in irr
  BY <1>1 DEF IInv, RankKnown
<1>3. TypeOK'
  BY <1>1, <1>2, Types DEF IInv, TypeOK, PicTypeOK
<1>4. RankKnown'
  BY <1>1, <1>2 DEF RankKnown
<1>5. Located' /\ KeyboardAlive' /\ CascadeKnown'
  BY <1>1 DEF IInv, Located, KeyboardAlive, CascadeKnown
<1>6. AssertHolds' /\ Loaded'
  BY <1>1 DEF AssertHolds, Loaded
<1> QED
  BY <1>3, <1>4, <1>5, <1>6 DEF IInv

\* do_i8259 finds the line; the assertion on the slave holds, because the
\* cascade never asks for nothing.
LEMMA DoIInv == ASSUME IInv, Do, UNCHANGED loopVars PROVE IInv'
<1>1. /\ at = "do"
      /\ at' = IF highest_irq = NoIntr THEN "lower"
               ELSE IF CascadeEmpty(highest_irq) THEN "abort" ELSE "announce"
      /\ call' = [call EXCEPT !.found = Line(highest_irq)]
      /\ UNCHANGED <<irr, sirr, highest_irq, slave_irq, intr_NO, INTR, pc, running,
                     newkey, update, handling, served, quiet>>
  BY DEF Do, loopVars
<1>2. IF highest_irq = NoIntr THEN irr \subseteq {Timer} ELSE highest_irq \in irr
  BY <1>1 DEF IInv, RankKnown
<1>3. highest_irq = Cascade => slave_irq \in sirr
  BY <1>1, <1>2, NoIntrAssumption DEF IInv, CascadeKnown, Cascade
<1>4. ~ CascadeEmpty(highest_irq)
  BY <1>3, Types DEF CascadeEmpty
<1>5. Line(highest_irq) \in IF highest_irq = NoIntr THEN {NoIntr} ELSE Requests
  BY <1>2, <1>3, NoIntrAssumption DEF Line, Requests, Cascade
<1>6. Line(highest_irq) \in Lines \union {NoIntr}
  BY <1>5, Types DEF Lines
<1>7. call'.found = Line(highest_irq)
  BY <1>1 DEF IInv, TypeOK, PicTypeOK
<1>8. TypeOK'
  BY <1>1, <1>4, <1>6 DEF IInv, TypeOK, PicTypeOK
<1>9. RankKnown'
  BY <1>1, <1>2, <1>4, <1>5, <1>7 DEF RankKnown, Requests
<1>10. Located' /\ KeyboardAlive' /\ CascadeKnown'
  BY <1>1, <1>4 DEF IInv, Located, KeyboardAlive, CascadeKnown
<1>11. AssertHolds' /\ Loaded'
  BY <1>1, <1>4 DEF AssertHolds, Loaded
<1> QED
  BY <1>8, <1>9, <1>10, <1>11 DEF IInv

\* intr_NO and then INTR, or INTR alone, and out.
LEMMA AnnounceIInv == ASSUME IInv, Announce, UNCHANGED loopVars PROVE IInv'
<1>1. /\ at = "announce" /\ at' = "lift" /\ intr_NO' = call.found
      /\ UNCHANGED <<irr, sirr, highest_irq, slave_irq, INTR, call, pc, running,
                     newkey, update, handling, served, quiet>>
  BY DEF Announce, loopVars
<1>2. TypeOK'
  BY <1>1 DEF IInv, TypeOK, PicTypeOK
<1>3. RankKnown'
  BY <1>1 DEF IInv, RankKnown, Requests
<1>4. Located' /\ KeyboardAlive' /\ CascadeKnown'
  BY <1>1 DEF IInv, Located, KeyboardAlive, CascadeKnown
<1>5. AssertHolds' /\ Loaded'
  BY <1>1 DEF AssertHolds, Loaded
<1> QED
  BY <1>2, <1>3, <1>4, <1>5 DEF IInv

LEMMA LeaveIInv == ASSUME IInv, Lower \/ Lift, UNCHANGED loopVars PROVE IInv'
<1>1. /\ at \in {"lower", "lift"} /\ at' = "out" /\ call' = NoCall
      /\ INTR' = (at = "lift")
      /\ UNCHANGED <<irr, sirr, highest_irq, slave_irq, intr_NO, pc, running,
                     newkey, update, handling, served, quiet>>
  BY DEF Lower, Lift, loopVars
<1>2. TypeOK'
  <2>1. call' \in [line : Lines \union {NoIntr}, load : SUBSET (0 .. 7),
                   found : Lines \union {NoIntr}]
    BY <1>1 DEF NoCall
  <2>2. INTR' \in BOOLEAN
    BY <1>1
  <2> QED
    BY <1>1, <2>1, <2>2 DEF IInv, TypeOK, PicTypeOK
<1>3. RankKnown'
  BY <1>1 DEF IInv, RankKnown, Requests
<1>4. Located' /\ KeyboardAlive' /\ CascadeKnown'
  BY <1>1 DEF IInv, Located, KeyboardAlive, CascadeKnown
<1>5. AssertHolds' /\ Loaded'
  BY <1>1 DEF AssertHolds, Loaded
<1> QED
  BY <1>2, <1>3, <1>4, <1>5 DEF IInv

\* The signal, at any moment.
LEMMA SignalIInv == ASSUME IInv, Signal PROVE IInv'
<1>1. /\ at # "abort" /\ quiet' = 0 /\ update' = TRUE
      /\ UNCHANGED <<pc, running, newkey, handling, served>>
  BY DEF Signal
<1>2. 0 \in 0 .. Gap
  BY LoopAssumption
<1>3. CASE UNCHANGED picVars
  <2>1. TypeOK'
    BY <1>1, <1>2, <1>3 DEF IInv, TypeOK, PicTypeOK, picVars
  <2> QED
    BY <1>1, <1>3, <2>1 DEF IInv, picVars, AssertHolds, Located, Loaded, CascadeKnown,
         RankKnown, KeyboardAlive, Requests
<1>4. CASE SignalRaise
  <2>1. ffo(irr \union {Timer}) = Timer
    BY Types, FindsTimer DEF Timer
  <2>2. ~ CascadeEmpty(Timer) /\ Line(Timer) = Timer
    BY DEF CascadeEmpty, Line, Timer, Cascade
  <2>3. /\ irr' = irr \union {Timer} /\ highest_irq' = Timer
        /\ intr_NO' = Timer /\ INTR' = TRUE
        /\ UNCHANGED <<at, sirr, slave_irq, call>>
    BY <1>4, <2>1, <2>2 DEF SignalRaise
  <2>4. TypeOK'
    BY <1>1, <1>2, <2>3 DEF IInv, TypeOK, PicTypeOK, Timer, Lines
  <2>5. Timer \in irr' /\ Timer \in Requests' /\ Requests \subseteq Requests'
    BY <2>3 DEF Requests, Timer, Cascade
  <2>6. RankKnown'
    BY <2>3, <2>5, NoIntrAssumption DEF IInv, RankKnown, Timer
  <2>7. Located'
    BY <1>1, <2>3 DEF IInv, Located
  <2>8. KeyboardAlive' /\ Loaded' /\ AssertHolds'
    BY <1>1, <2>3 DEF IInv, KeyboardAlive, Loaded, AssertHolds
  <2>9. CascadeKnown'
    BY <2>3 DEF IInv, CascadeKnown, Timer, Cascade
  <2> QED
    BY <2>4, <2>6, <2>7, <2>8, <2>9 DEF IInv
<1> QED
  BY <1>3, <1>4 DEF Signal

LEMMA NextIInv == IInv /\ [Next]_vars => IInv'
<1> SUFFICES ASSUME IInv, [Next]_vars PROVE IInv'
  OBVIOUS
<1>1. CASE UNCHANGED vars
  BY <1>1 DEF vars, picVars, loopVars, IInv, TypeOK, PicTypeOK, AssertHolds, Located,
       Loaded, CascadeKnown, RankKnown, KeyboardAlive, Requests
<1>2. CASE InController
  BY <1>2, SetIInv, ClearIInv, RankIInv, RankedIInv, DoIInv, AnnounceIInv, LeaveIInv
     DEF InController, PicStep
<1> QED
  BY <1>1, <1>2, ExecuteIInv, ServeIInv, IretIInv, DeviceUpdateIInv, NewKeyIInv,
     CheckIInv, AcknowledgeIInv, TakenIInv, ContinueIInv, SignalIInv
     DEF Next, Emulator

-----------------------------------------------------------------------------
(* Every step is a step of IrqLines, or none.                              *)

LEMMA InitLines == Init => Interrupt!Init
BY DEF Init, PicInit, Interrupt!Init, Requests

\* What the emulator does to the registers raises a line ...
LEMMA SetLines == ASSUME IInv, Set, UNCHANGED loopVars PROVE Interrupt!Raise(call.line)
<1>1. /\ call.line \in {Keyboard, Ide} /\ (call.line = Ide => Ide \in sirr)
      /\ irr' = call.load \union {MasterLine(call.line)} /\ sirr' = sirr
      /\ handling' = handling
      /\ call.load \subseteq irr /\ irr \subseteq call.load \union {Timer}
  BY DEF Set, IInv, Located, Loaded, loopVars
<1>2. Timer \notin sirr
  BY Types DEF Timer
<1>3. Requests' \in {Requests \union {call.line}, (Requests \union {call.line}) \ {Timer}}
  <2>1. CASE call.line = Keyboard
    <3>1. irr' = call.load \union {Keyboard}
      BY <1>1, <2>1 DEF MasterLine, Keyboard
    <3>2. \/ call.load = irr
          \/ call.load = irr \ {Timer}
      BY <1>1
    <3> QED
      BY <1>1, <1>2, <2>1, <3>1, <3>2 DEF Requests, Keyboard, Timer, Cascade
  <2>2. CASE call.line = Ide
    <3>1. irr' = call.load \union {Cascade}
      BY <1>1, <2>2 DEF MasterLine, Ide
    <3>2. \/ call.load = irr
          \/ call.load = irr \ {Timer}
      BY <1>1
    <3> QED
      BY <1>1, <1>2, <2>2, <3>1, <3>2 DEF Requests, Ide, Timer, Cascade
  <2> QED
    BY <1>1, <2>1, <2>2
<1> QED
  BY <1>1, <1>3 DEF Interrupt!Raise, Interrupt!OrLess

\* ... or clears the one that was taken, or the timer's.
LEMMA AckLines ==
  ASSUME IInv, Acknowledge
  PROVE  Interrupt!Acknowledge \/ UNCHANGED <<Requests, handling>>
<1>1. /\ intr_NO \in {handling, Timer} /\ handling # Free /\ intr_NO \in Lines
      /\ irr' = irr /\ sirr' = sirr \ {intr_NO} /\ handling' = handling
  BY DEF Acknowledge, Ack, IInv, Located, TypeOK, Timer, Lines
<1>2. CASE intr_NO \in 8 .. 15
  <2>1. intr_NO = handling /\ intr_NO \notin irr
    BY <1>1, <1>2, Types DEF Timer
  <2>2. Requests' = Requests \ {handling}
    BY <1>1, <2>1 DEF Requests
  <2> QED
    BY <1>1, <2>2 DEF Interrupt!Acknowledge, Interrupt!OrLess
<1>3. CASE intr_NO \notin 8 .. 15
  <2>1. sirr' = sirr
    BY <1>1, <1>3, Types
  <2> QED
    BY <1>1, <2>1 DEF Requests
<1> QED
  BY <1>2, <1>3

LEMMA ClearLines ==
  ASSUME IInv, Clear, UNCHANGED loopVars
  PROVE  Interrupt!Acknowledge
<1>1. /\ handling # Free /\ handling' = handling
      /\ call.line \in {handling, Timer} /\ call.line \in Lines
      /\ irr' = call.load \ {MasterLine(call.line)} /\ sirr' = sirr
      /\ call.load \subseteq irr /\ irr \subseteq call.load \union {Timer}
  BY DEF Clear, Cleared, IInv, TypeOK, Located, Loaded, loopVars, Lines, Timer
<1>2. Timer \notin sirr
  BY Types DEF Timer
<1>3. call.load = irr \/ call.load = irr \ {Timer}
  BY <1>1
<1>4. CASE call.line \in 8 .. 15
  <2>1. irr' \ {Cascade} \in {irr \ {Cascade}, (irr \ {Cascade}) \ {Timer}}
    BY <1>1, <1>3, <1>4 DEF MasterLine
  <2>2. Requests' \in {Requests, Requests \ {Timer}}
    BY <1>1, <1>2, <2>1 DEF Requests
  <2> QED
    BY <1>1, <2>2 DEF Interrupt!Acknowledge, Interrupt!OrLess
<1>5. CASE call.line \in 0 .. 7
  <2>1. irr' = call.load \ {call.line} /\ call.line \notin sirr
    BY <1>1, <1>5, Types DEF MasterLine
  <2>2. Requests' \in {Requests \ {call.line}, (Requests \ {call.line}) \ {Timer}}
    BY <1>1, <1>2, <1>3, <2>1 DEF Requests
  <2> QED
    BY <1>1, <2>2 DEF Interrupt!Acknowledge, Interrupt!OrLess
<1> QED
  BY <1>1, <1>4, <1>5 DEF Lines

LEMMA NextLines == IInv /\ [Next]_vars => [Interrupt!Next]_(Interrupt!vars)
<1> SUFFICES ASSUME IInv, [Next]_vars PROVE [Interrupt!Next]_(Interrupt!vars)
  OBVIOUS
<1>1. CASE UNCHANGED <<irr, sirr, handling>>
  BY <1>1 DEF Requests, Interrupt!vars
<1>2. ASSUME NEW n \in {Keyboard, Ide}, Raise(n), handling' = handling
      PROVE  [Interrupt!Next]_(Interrupt!vars)
  <2>1. CASE n = Keyboard
    BY <1>2, <2>1 DEF Raise, Keyboard, Requests, Interrupt!vars
  <2>2. CASE n = Ide
    <3>1. Requests' = Requests \union {Ide}
      BY <1>2, <2>2 DEF Raise, Ide, Requests
    <3> QED
      BY <1>2, <3>1 DEF Interrupt!Next, Interrupt!Raise, Interrupt!OrLess
  <2> QED
    BY <1>2, <2>1, <2>2
<1>3. CASE Signal
  <2>1. CASE SignalRaise
    <3>1. Requests' = Requests \union {Timer}
      BY <2>1 DEF SignalRaise, Requests, Timer, Cascade
    <3> QED
      BY <1>3, <3>1 DEF Signal, Interrupt!Next, Interrupt!Raise, Interrupt!OrLess
  <2> QED
    BY <1>1, <1>3, <2>1 DEF Signal, picVars
<1>4. CASE Check
  <2>1. CASE running /\ INTR /\ Interruptible
    <3>1. intr_NO \in Requests
      BY <1>4, <2>1 DEF Check, IInv, RankKnown
    <3>2. handling = Free /\ handling' = intr_NO /\ Requests' = Requests
      BY <1>4, <2>1 DEF Check, Interruptible, picVars, Requests
    <3> QED
      BY <3>1, <3>2 DEF Interrupt!Next, Interrupt!Take
  <2> QED
    BY <1>1, <1>4, <2>1 DEF Check, picVars
<1>5. CASE Iret
  <2>1. handling # Free /\ handling' = Free /\ Requests' = Requests
    BY <1>5 DEF Iret, picVars, Requests
  <2> QED
    BY <2>1 DEF Interrupt!Next, Interrupt!Serve
<1>6. CASE Acknowledge
  BY <1>6, AckLines DEF Interrupt!Next, Interrupt!vars
<1>7. CASE InController
  <2>1. CASE Set
    <3>1. call.line \in {Timer, Keyboard, Ide}
      BY <2>1 DEF Set, IInv, Located
    <3> QED
      BY <1>7, <2>1, <3>1, SetLines DEF InController, Interrupt!Next
  <2>2. CASE Clear
    BY <1>7, <2>2, ClearLines DEF InController, Interrupt!Next
  <2>3. CASE ~ Set /\ ~ Clear
    BY <1>1, <1>7, <2>3
       DEF InController, PicStep, Rank, Ranked, Do, Lower, Announce, Lift, loopVars
  <2> QED
    BY <2>1, <2>2, <2>3
<1>8. CASE Execute
  BY <1>1, <1>2, <1>8 DEF Execute, picVars
<1>9. CASE DeviceUpdate
  BY <1>1, <1>2, <1>9 DEF DeviceUpdate, picVars
<1>10. CASE Serve \/ NewKey \/ Taken \/ Continue \/ UNCHANGED vars
  BY <1>1, <1>10 DEF Serve, NewKey, Taken, Continue, vars, picVars, loopVars
<1> QED
  BY <1>3, <1>4, <1>5, <1>6, <1>7, <1>8, <1>9, <1>10 DEF Next, Emulator

-----------------------------------------------------------------------------
(* The theorems, for any time between two signals.                         *)

\* The registers of both controllers, the emulator's place in them and the
\* state of the loop keep their types, whenever the signal comes
\* (i8259.c:22-106).
THEOREM TypeCorrect == Spec => []TypeOK
<1>1. IInv => TypeOK
  BY DEF IInv
<1> QED
  BY InitIInv, NextIInv, <1>1, PTL DEF Spec

\* The assertion of do_i8259 on slave.highest_irq never fails, although
\* master.IRR and slave.highest_irq are written apart (i8259.c:50).
THEOREM SlaveAsks == Spec => []AssertHolds
<1>1. IInv => AssertHolds
  BY DEF IInv
<1> QED
  BY InitIInv, NextIInv, <1>1, PTL DEF Spec

\* While newkey keeps other keys out, the keyboard's request is in
\* master.IRR or its handler is about to read the port: no signal can shut
\* the keyboard for ever (keyboard.c:12-18).
THEOREM KeysGoOn == Spec => []KeyboardAlive
<1>1. IInv => KeyboardAlive
  BY DEF IInv
<1> QED
  BY InitIInv, NextIInv, <1>1, PTL DEF Spec

\* Between two calls of the controller, cpu.INTR shows the requests of all
\* devices but the timer, and intr_NO names a request that is there
\* (i8259.c:39-60).
THEOREM RequestsShow == Spec => []Announced
<1>1. IInv => Announced
  BY DEF IInv, RankKnown, Requests, Announced
<1> QED
  BY InitIInv, NextIInv, <1>1, PTL DEF Spec

\* The controller under its signal handler implements a set of request
\* lines from which only the timer's may vanish (i8259.c:62-106).
THEOREM Refines == Spec => ImplementsIrqLines
<1> QED
  BY InitIInv, NextIInv, InitLines, NextLines, PTL
     DEF Spec, ImplementsIrqLines, Interrupt!Spec
=============================================================================
