------------------------------ MODULE PalProofs ------------------------------
(***************************************************************************)
(* Proofs about NEMU-PAL, for any party.                                   *)
(*                                                                         *)
(* PalBattle, for any number of players and enemies, any stock and any     *)
(* offer of actions and statuses.  Within a frame each step relies on what *)
(* an earlier step has looked at: the reason it may, is fMoved, which is   *)
(* set by whatever could have changed it.                                  *)
(*                                                                         *)
(* PalParty, for any items, roles, parts of the body and poisons, any size *)
(* of the inventory and of a list of poisons.  Whatever else its slots do, *)
(* all slots of an item but the first are empty: on that rests that the    *)
(* inventory implements PalGoods, and that each command does what it says. *)
(***************************************************************************)
EXTENDS PalBattle, PalParty, FiniteSetTheorems, SequenceTheorems, WellFoundedInduction, TLAPS

-----------------------------------------------------------------------------
(* PalBattle.                                                              *)


\* What is needed of the types.
Types ==
  /\ pc \in {"frame", "enemies", "strike", "rest", "ui", "players", "act", "abort"}
  /\ {cleared, fMoved, fOnlyPuppet} \subseteq BOOLEAN
  /\ state \in [Players -> {"Wait", "Com", "Act"}]
  /\ cur \in Players \union {Nobody}
  /\ present \subseteq Enemies
  /\ items \in 0 .. Stock /\ spent \in Nat

\* fOnlyPuppet and fMoved vouch that there is somebody to strike.
StrikerSeesSomeone ==
  pc = "strike" \/ (pc = "enemies" /\ ~ fMoved /\ ~ fOnlyPuppet) => alive # {}

IInv == /\ Types
        /\ StrikerSeesSomeone
        /\ OneAsked
        /\ NothingFromNothing

-----------------------------------------------------------------------------
(* The invariant is inductive: one lemma for each step of the frame.       *)

LEMMA InitIInv == Init => IInv
<1> SUFFICES ASSUME Init PROVE IInv
  OBVIOUS
<1>2. Types
  <2>1. 0 .. Stock = {n \in Nat : n <= Stock} /\ Stock \in Nat
    BY BattleAssumption
  <2>2. state \in [Players -> {"Wait", "Com", "Act"}] /\ cur \in Players \union {Nobody}
    BY DEF Init
  <2>3. {cleared, fMoved, fOnlyPuppet} \subseteq BOOLEAN
    BY DEF Init
  <2> QED
    BY <2>1, <2>2, <2>3 DEF Init, Types
<1>3. StrikerSeesSomeone /\ OneAsked
  BY DEF Init, StrikerSeesSomeone, OneAsked
<1>4. NothingFromNothing
  BY BattleAssumption DEF Init, NothingFromNothing
<1> QED
  BY <1>2, <1>3, <1>4 DEF IInv

\* A step that leaves the inventory alone.
LEMMA StockKept ==
  ASSUME IInv, UNCHANGED itemVars
  PROVE  NothingFromNothing' /\ items' \in 0 .. Stock /\ spent' \in Nat
BY DEF IInv, Types, NothingFromNothing, itemVars

\* Whatever scripts do, enemies are enemies, and those at 0 are there.
LEMMA FieldTyped ==
  ASSUME IInv, NEW run, NEW field \in Field(run)
  PROVE  /\ field.present \subseteq Enemies /\ present \subseteq field.present
         /\ drained \subseteq present => field.drained \subseteq field.present
<1>1. present \subseteq Enemies
  BY DEF IInv, Types
<1>2. CASE run
  <2>1. field \in AfterScripts
    BY <1>2 DEF Field
  <2> QED
    BY <2>1 DEF AfterScripts
<1>3. CASE ~ run
  <2>1. field = [present |-> present, drained |-> drained]
    BY <1>3 DEF Field
  <2> QED
    BY <1>1, <2>1
<1> QED
  BY <1>2, <1>3

\* The frame begins; scripts that may kill set fMoved.
LEMMA StartFrameIInv == ASSUME IInv, StartFrame PROVE IInv'
<1>1. /\ pc = "frame"
      /\ UNCHANGED <<state, cur, cleared, itemVars>>
  BY DEF StartFrame, playerVars
<1>2. CASE UNCHANGED <<pc, partyVars, present, drained, noteVars, fMoved, fOnlyPuppet>>
  <2>1. Types'
    BY <1>1, <1>2, StockKept DEF IInv, Types
  <2>2. StrikerSeesSomeone' /\ OneAsked'
    BY <1>1, <1>2 DEF IInv, StrikerSeesSomeone, OneAsked
  <2> QED
    BY <1>1, <2>1, <2>2, StockKept DEF IInv
<1>3. CASE ~ cleared /\ pc' = "enemies"
  <2>1. /\ fOnlyPuppet' = (alive = {}) /\ fMoved' = ScriptsRun
        /\ \E group \in IF Due # {} THEN Harm ELSE Unhurt : Becomes(group)
        /\ \E field \in Field(Due # {}) : present' = field.present
    BY <1>1, <1>3 DEF StartFrame
  <2>2. ~ ScriptsRun => alive' = alive
    BY <2>1 DEF ScriptsRun, Unhurt, Becomes
  <2>3. present' \subseteq Enemies /\ fMoved' \in BOOLEAN
    BY <2>1, FieldTyped DEF ScriptsRun
  <2>4. Types'
    BY <1>1, <1>3, <2>1, <2>3, StockKept DEF IInv, Types
  <2>5. StrikerSeesSomeone'
    BY <1>3, <2>1, <2>2 DEF StrikerSeesSomeone
  <2>6. OneAsked'
    BY <1>1, <1>3 DEF IInv, OneAsked
  <2> QED
    BY <1>1, <2>4, <2>5, <2>6, StockKept DEF IInv
<1> QED
  BY <1>2, <1>3 DEF StartFrame

LEMMA EnemyActsIInv == ASSUME IInv, EnemyActs PROVE IInv'
<1>1. /\ pc = "enemies" /\ pc' = "strike" /\ ~ fMoved /\ ~ fOnlyPuppet /\ fMoved' = TRUE
      /\ UNCHANGED <<alive, state, cur, present, cleared, fOnlyPuppet, itemVars>>
  BY DEF EnemyActs, Strikes, partyVars, playerVars, foeVars, Standing
<1>2. Types'
  BY <1>1, StockKept DEF IInv, Types
<1>3. StrikerSeesSomeone' /\ OneAsked'
  BY <1>1 DEF IInv, StrikerSeesSomeone, OneAsked
<1> QED
  BY <1>1, <1>2, <1>3, StockKept DEF IInv

\* What PAL_BattlePostActionCheck leaves.
LEMMA PostActionKeeps ==
  ASSUME IInv, NEW left, PostActionCheck(left)
  PROVE  /\ cleared' \in BOOLEAN
         /\ cur' \in Players \union {Nobody}
         /\ cleared' \/ cur' = cur
         /\ cleared => cleared'
BY DEF PostActionCheck, IInv, Types

LEMMA StrikeIInv == ASSUME IInv, Strike PROVE IInv'
<1>1. /\ pc = "strike" /\ pc' = "rest"
      /\ UNCHANGED <<state, fMoved, fOnlyPuppet, itemVars>>
  BY DEF Strike, playerVars
<1>2. PICK old \in SUBSET present : \E new \in SUBSET (Enemies \ old) :
        /\ present' = old \union new
        /\ \E left \in {old, old \union new} : PostActionCheck(left)
  BY Zenon DEF Strike
<1>3. present' \subseteq Enemies
  BY <1>2 DEF IInv, Types
<1>4. /\ cleared' \in BOOLEAN /\ cur' \in Players \union {Nobody}
      /\ cleared' \/ cur' = cur
      /\ cleared => cleared'
  BY <1>2, PostActionKeeps
<1>5. Types'
  BY <1>1, <1>3, <1>4, StockKept DEF IInv, Types
<1>6. StrikerSeesSomeone'
  BY <1>1 DEF StrikerSeesSomeone
<1>7. OneAsked'
  BY <1>1, <1>4 DEF IInv, OneAsked
<1> QED
  BY <1>1, <1>5, <1>6, <1>7, StockKept DEF IInv

LEMMA EnemiesGetReadyIInv == ASSUME IInv, EnemiesGetReady PROVE IInv'
<1>1. /\ pc \in {"enemies", "rest"} /\ pc' = "ui" /\ fOnlyPuppet' = FALSE
      /\ fMoved' \in BOOLEAN
      /\ UNCHANGED <<state, cur, cleared, itemVars>>
  BY DEF EnemiesGetReady, playerVars
<1>2. present' \subseteq Enemies
  <2>1. \E run : \E field \in Field(run) : present' = field.present
    BY DEF EnemiesGetReady
  <2> QED
    BY <2>1, FieldTyped
<1>3. Types'
  BY <1>1, <1>2, StockKept DEF IInv, Types
<1>4. StrikerSeesSomeone' /\ OneAsked'
  BY <1>1 DEF IInv, StrikerSeesSomeone, OneAsked
<1> QED
  BY <1>1, <1>3, <1>4, StockKept DEF IInv

\* A new player is asked only when nobody is in Com.
LEMMA CheckReadyIInv == ASSUME IInv, CheckReady PROVE IInv'
<1>1. /\ pc = "ui" /\ pc' = "players" /\ cur = Nobody
      /\ UNCHANGED <<present, cleared, fMoved, fOnlyPuppet, itemVars>>
  BY DEF CheckReady, foeVars, frameVars
<1>2. /\ state' \in [Players -> {"Wait", "Com", "Act"}]
      /\ cur' \in Players \union {Nobody}
      /\ OneAsked'
  <2>1. CASE cleared /\ UNCHANGED <<state, cur>>
    BY <1>1, <2>1 DEF IInv, Types, OneAsked
  <2>2. ASSUME ~ cleared, ~ Busy,
               NEW p \in Players, state' = [state EXCEPT ![p] = "Com"], Ask({p})
        PROVE  /\ state' \in [Players -> {"Wait", "Com", "Act"}]
               /\ cur' \in Players \union {Nobody}
               /\ OneAsked'
    <3>1. cur' = p
      <4>1. p \in Int
        BY <2>2 DEF Players
      <4>2. cur' = CHOOSE q \in {p} : \A r \in {p} : q <= r
        BY <2>2 DEF Ask
      <4>3. p <= p
        BY <4>1
      <4> QED
        BY <4>2, <4>3
    <3> QED
      BY <2>2, <3>1 DEF IInv, Types, OneAsked, Busy
  <2>3. CASE ~ cleared /\ Ask(Commanded) /\ UNCHANGED state
    <3>1. Commanded = {}
      BY <1>1, <2>3 DEF IInv, OneAsked, Commanded, Nobody, Players
    <3> QED
      BY <1>1, <2>3, <3>1 DEF Ask, IInv, Types, OneAsked
  <2> QED
    BY <2>1, <2>2, <2>3 DEF CheckReady
<1>3. Types'
  BY <1>1, <1>2, StockKept DEF IInv, Types
<1>4. StrikerSeesSomeone'
  BY <1>1 DEF StrikerSeesSomeone
<1> QED
  BY <1>1, <1>2, <1>3, <1>4, StockKept DEF IInv

\* Whatever the player who is asked commands, that player leaves Com.
LEMMA CommandIInv == ASSUME IInv, Command PROVE IInv'
<1>1. /\ pc = "ui" /\ pc' = "players" /\ cur \in Players
      /\ UNCHANGED <<present, cleared, fMoved, fOnlyPuppet, itemVars>>
  BY DEF Command, foeVars, frameVars, IInv, Types
<1>2. \/ state' = [state EXCEPT ![cur] = "Act"] /\ cur' = Nobody
      \/ state' = [state EXCEPT ![cur] = "Wait"] /\ cur' = Nobody
      \/ UNCHANGED <<state, cur>>
  BY DEF Command, Compelled, Choose, Repeat, Yield, Yielded, Undecided, Commit, playerVars
<1>3. Types'
  BY <1>1, <1>2, StockKept DEF IInv, Types
<1>4. OneAsked'
  BY <1>1, <1>2 DEF IInv, Types, OneAsked
<1>5. StrikerSeesSomeone'
  BY <1>1 DEF StrikerSeesSomeone
<1> QED
  BY <1>1, <1>3, <1>4, <1>5, StockKept DEF IInv

\* The players are looked at; nobody acts in a frame in which someone moved.
LEMMA UpdatePlayersIInv == ASSUME IInv, UpdatePlayers PROVE IInv'
<1>1. /\ pc = "players" /\ pc' = (IF fMoved THEN "frame" ELSE "act") /\ fMoved' = FALSE
      /\ state' = [p \in Players |-> IF Out(p) THEN "Wait" ELSE state[p]]
      /\ UNCHANGED <<cur, present, cleared, fOnlyPuppet, itemVars>>
  BY DEF UpdatePlayers, foeVars
<1>2. Types'
  BY <1>1, StockKept DEF IInv, Types
<1>3. OneAsked'
  BY <1>1 DEF IInv, OneAsked
<1>4. StrikerSeesSomeone'
  BY <1>1 DEF StrikerSeesSomeone
<1> QED
  BY <1>1, <1>2, <1>3, <1>4, StockKept DEF IInv

-----------------------------------------------------------------------------
(* A player performs.                                                      *)

\* An action that uses the item up finds it in the inventory.
LEMMA ValidHasItem ==
  ASSUME NEW p, NEW kind \in Valid(p), IInv, kind \in {"Throw", "Use"}
  PROVE  items > 0
<1>1. items \in Nat
  BY BattleAssumption DEF IInv, Types
<1>2. items # 0
  BY DEF Valid
<1> QED
  BY <1>1, <1>2

LEMMA PerformIInv ==
  ASSUME IInv, pc = "act", NEW p, NEW kind \in Valid(p), Perform(p, kind),
         UNCHANGED frameVars
  PROVE  IInv'
<1>1. /\ pc' = "frame" /\ state' = [state EXCEPT ![p] = "Wait"]
      /\ \E n \in Consumed(kind) : items' = Less(n) /\ spent' = spent + n
      /\ UNCHANGED <<fMoved, fOnlyPuppet>>
  BY DEF Perform, frameVars
<1>2. PICK left \in SUBSET Enemies : EnemiesAfter(kind, left) /\ PostActionCheck(left)
  BY DEF Perform
<1>3. present' \subseteq Enemies
  BY <1>2 DEF EnemiesAfter, IInv, Types
<1>4. /\ items' \in 0 .. Stock /\ spent' \in Nat
      /\ NothingFromNothing'
  <2>1. PICK n \in Consumed(kind) : items' = Less(n) /\ spent' = spent + n
    BY <1>1
  <2>2. CASE kind \in {"Throw", "Use"}
    <3>1. items > 0 /\ n \in {0, 1}
      BY <2>1, <2>2, ValidHasItem DEF Consumed
    <3> QED
      BY <2>1, <3>1, BattleAssumption DEF Less, IInv, Types, NothingFromNothing
  <2>3. CASE kind \notin {"Throw", "Use"}
    <3>1. n = 0
      BY <2>1, <2>3 DEF Consumed
    <3> QED
      BY <2>1, <3>1, BattleAssumption DEF Less, IInv, Types, NothingFromNothing
  <2> QED
    BY <2>2, <2>3
<1>5. Types'
  BY <1>1, <1>2, <1>3, <1>4, PostActionKeeps DEF IInv, Types
<1>6. OneAsked'
  BY <1>1, <1>2, PostActionKeeps DEF IInv, Types, OneAsked
<1>7. StrikerSeesSomeone'
  BY <1>1 DEF StrikerSeesSomeone
<1> QED
  BY <1>4, <1>5, <1>6, <1>7 DEF IInv

\* The program that has been aborted takes no further step.
LEMMA PlayerActsIInv == ASSUME IInv, PlayerActs PROVE IInv'
<1>1. pc = "act" /\ UNCHANGED frameVars
  BY DEF PlayerActs
<1>2. PICK p \in Players : \E kind \in Valid(p) : Perform(p, kind) \/ Asserts(p, kind)
  BY DEF PlayerActs
<1>3. PICK kind \in Valid(p) : Perform(p, kind) \/ Asserts(p, kind)
  BY <1>2
<1>4. CASE Asserts(p, kind)
  <2>1. pc' = "abort" /\ UNCHANGED <<state, cur, present, cleared, fMoved, fOnlyPuppet, itemVars>>
    BY <1>1, <1>4 DEF Asserts, playerVars, foeVars, frameVars
  <2>2. Types'
    BY <2>1, StockKept DEF IInv, Types
  <2>3. StrikerSeesSomeone' /\ OneAsked'
    BY <2>1 DEF IInv, StrikerSeesSomeone, OneAsked
  <2> QED
    BY <2>1, <2>2, <2>3, StockKept DEF IInv
<1> QED
  BY <1>1, <1>3, <1>4, PerformIInv

LEMMA NobodyActsIInv == ASSUME IInv, NobodyActs PROVE IInv'
<1>1. /\ pc = "act" /\ pc' = "frame"
      /\ UNCHANGED <<state, cur, present, cleared, fMoved, fOnlyPuppet, itemVars>>
  BY DEF NobodyActs, playerVars, foeVars, frameVars
<1>2. Types'
  BY <1>1, StockKept DEF IInv, Types
<1>3. StrikerSeesSomeone' /\ OneAsked'
  BY <1>1 DEF IInv, StrikerSeesSomeone, OneAsked
<1> QED
  BY <1>1, <1>2, <1>3, StockKept DEF IInv

LEMMA NextIInv == IInv /\ [Next]_vars => IInv'
<1> SUFFICES ASSUME IInv, [Next]_vars PROVE IInv'
  OBVIOUS
<1>1. CASE UNCHANGED vars
  BY <1>1 DEF vars, partyVars, playerVars, foeVars, frameVars, itemVars, IInv, Types,
       StrikerSeesSomeone, OneAsked, NothingFromNothing
<1> QED
  BY <1>1, StartFrameIInv, EnemyActsIInv, StrikeIInv, EnemiesGetReadyIInv, CheckReadyIInv,
     CommandIInv, UpdatePlayersIInv, PlayerActsIInv, NobodyActsIInv DEF Next

-----------------------------------------------------------------------------
(* The rest of the types and the turn order, one part of the state at a    *)
(* time.                                                                   *)

PartyTypes == alive \subseteq Players /\ status \in [Players -> SUBSET Statuses]

MeterTypes == meter \in [Players -> 1 - Hundred .. MeterCap]

ActionKinds == Kinds \union {"Attack", "Defend", "Pass", "AttackMate"}
ActionTargets == {All} \union Players \union Enemies

ActionTypes == action \in [Players -> [kind : ActionKinds, target : ActionTargets]]

FoeTypes == /\ foe \in [Enemies -> {"Wait", "Com", "Act"}]
            /\ drained \subseteq present
            /\ second \subseteq Enemies /\ turnStart \subseteq Enemies
            /\ striker \in Enemies /\ (pc = "strike" => striker \in present)

ResultTypes == result \in {"OnGoing", "Won", "Lost", "Fleed", "Terminated"}

OrderTypes == /\ order \subseteq Players \X Players
              /\ \A p, q \in Players : <<p, q>> \in order => HasTurn(p) /\ HasTurn(q)
              /\ TurnOrderSound

\* The one who is asked has nothing to perform.
AskedIsIdle == cur # Nobody => state[cur] # "Act"

TInv == /\ IInv
        /\ PartyTypes /\ MeterTypes /\ ActionTypes /\ FoeTypes /\ ResultTypes
        /\ OrderTypes /\ AskedIsIdle

LEMMA InitTInv == Init => TInv
<1> SUFFICES ASSUME Init PROVE TInv
  OBVIOUS
<1>1. PartyTypes
  BY DEF Init, PartyTypes
<1>2. MeterTypes
  <2>1. 0 \in 1 - Hundred .. MeterCap
    BY BattleAssumption DEF MeterCap
  <2> QED
    BY <2>1 DEF Init, MeterTypes
<1>3. ActionTypes
  BY DEF Init, ActionTypes, ActionKinds, ActionTargets, NoAction
<1>4. FoeTypes
  <2>1. 1 \in Enemies
    BY BattleAssumption DEF Enemies
  <2> QED
    BY <2>1 DEF Init, FoeTypes
<1>5. ResultTypes /\ OrderTypes /\ AskedIsIdle
  BY DEF Init, ResultTypes, OrderTypes, TurnOrderSound, HasTurn, AskedIsIdle
<1> QED
  BY <1>1, <1>2, <1>3, <1>4, <1>5, InitIInv DEF TInv

\* Nothing that happens to the party leaves its types.
LEMMA HarmTyped ==
  ASSUME PartyTypes, NEW group \in Harm \union Unhurt
  PROVE  group.alive \subseteq Players /\ group.status \in [Players -> SUBSET Statuses]
<1>1. CASE group \in Unhurt
  BY <1>1 DEF Unhurt, PartyTypes
<1>2. CASE group \in [alive : SUBSET alive, status : {status}]
  BY <1>2 DEF PartyTypes
<1>3. ASSUME NEW p \in alive, NEW s \in Statuses \ {"Puppet"},
             group = [alive |-> alive, status |-> [status EXCEPT ![p] = @ \union {s}]]
      PROVE  group.alive \subseteq Players /\ group.status \in [Players -> SUBSET Statuses]
  BY <1>3 DEF PartyTypes
<1> QED
  BY <1>1, <1>2, <1>3 DEF Harm

LEMMA HelpTyped ==
  ASSUME PartyTypes, NEW group \in Help
  PROVE  group.alive \subseteq Players /\ group.status \in [Players -> SUBSET Statuses]
<1>1. ASSUME NEW q \in Players, NEW s \in Statuses,
             group = [alive |-> alive \union {q}, status |-> [status EXCEPT ![q] = @ \ {s}]]
      PROVE  group.alive \subseteq Players /\ group.status \in [Players -> SUBSET Statuses]
  BY <1>1 DEF PartyTypes
<1>2. ASSUME NEW q \in Players \ alive, NEW s \in Statuses \intersect {"Puppet"},
             group = [alive |-> alive, status |-> [status EXCEPT ![q] = @ \union {s}]]
      PROVE  group.alive \subseteq Players /\ group.status \in [Players -> SUBSET Statuses]
  BY <1>2 DEF PartyTypes
<1> QED
  BY <1>1, <1>2 DEF Help

LEMMA EffectTyped ==
  ASSUME PartyTypes, NEW p, NEW kind, NEW group \in Effect(p, kind)
  PROVE  group.alive \subseteq Players /\ group.status \in [Players -> SUBSET Statuses]
<1>1. CASE group \in Unhurt
  BY <1>1 DEF Unhurt, PartyTypes
<1>2. CASE group \in Help
  BY <1>2, HelpTyped
<1>3. CASE \E q \in alive \ {p} : group = [alive |-> alive \ {q}, status |-> status]
  BY <1>3 DEF PartyTypes
<1>4. CASE kind \in {"Heal", "Use"}
  BY <1>1, <1>2, <1>4 DEF Effect
<1>5. CASE kind = "AttackMate"
  <2>1. group \in Unhurt \union {[alive |-> alive \ {q}, status |-> status] : q \in alive \ {p}}
    BY <1>5 DEF Effect
  <2> QED
    BY <1>1, <1>3, <2>1
<1>6. CASE kind \notin {"Heal", "Use", "AttackMate"}
  <2>1. group \in Unhurt
    BY <1>6 DEF Effect
  <2> QED
    BY <1>1, <2>1
<1> QED
  BY <1>4, <1>5, <1>6

LEMMA PartyStep == ASSUME PartyTypes, [Next]_vars PROVE PartyTypes'
<1>1. CASE UNCHANGED partyVars
  BY <1>1 DEF partyVars, PartyTypes
<1>2. CASE \E group \in Harm \union Unhurt \union Help : Becomes(group)
  BY <1>2, HarmTyped, HelpTyped DEF Becomes, PartyTypes
<1>3. ASSUME NEW p, NEW kind, Perform(p, kind)
      PROVE  PartyTypes'
  <2>0. PICK left \in SUBSET Enemies :
          \E group \in Effect(p, kind) :
            \E after \in Aftermath(p, group, left) : Becomes(after)
    BY <1>3 DEF Perform
  <2>1. PICK group \in Effect(p, kind) :
          \E after \in Aftermath(p, group, left) : Becomes(after)
    BY <2>0
  <2>2. group.alive \subseteq Players /\ group.status \in [Players -> SUBSET Statuses]
    BY <2>1, EffectTyped
  <2>3. PICK after \in Aftermath(p, group, left) : Becomes(after)
    BY <2>1
  <2>4. \E a \in {group.alive, group.alive \ {p}} : \E s \in SUBSET group.status[p] :
          after = [alive |-> a, status |-> [group.status EXCEPT ![p] = s]]
    BY <2>3 DEF Aftermath
  <2>5. PICK a \in {group.alive, group.alive \ {p}} : \E s \in SUBSET group.status[p] :
          after = [alive |-> a, status |-> [group.status EXCEPT ![p] = s]]
    BY <2>4
  <2>6. PICK s \in SUBSET group.status[p] :
          after = [alive |-> a, status |-> [group.status EXCEPT ![p] = s]]
    BY <2>5
  <2>7. a \subseteq Players
    BY <2>2, <2>5
  <2>8. [group.status EXCEPT ![p] = s] \in [Players -> SUBSET Statuses]
    BY <2>2, <2>6
  <2> QED
    BY <2>3, <2>6, <2>7, <2>8 DEF Becomes, PartyTypes
<1>4. StartFrame => UNCHANGED partyVars \/ \E group \in Harm \union Unhurt : Becomes(group)
  BY DEF StartFrame
<1>5. EnemiesGetReady \/ Strike
      => \E group \in Harm \union Unhurt \union Help : Becomes(group)
  BY DEF EnemiesGetReady, Strike
<1>6. PlayerActs => UNCHANGED partyVars \/ \E p, kind : Perform(p, kind)
  BY DEF PlayerActs, Asserts
<1>7. EnemyActs \/ CheckReady \/ Command \/ UpdatePlayers \/ NobodyActs \/ UNCHANGED vars
      => UNCHANGED partyVars
  BY DEF EnemyActs, CheckReady, Command, UpdatePlayers, NobodyActs, vars
<1> QED
  BY <1>1, <1>2, <1>3, <1>4, <1>5, <1>6, <1>7 DEF Next

\* A meter never exceeds its cap; the one who yields gets a meter that is above
\* zero, less 99.
LEMMA MeterStep == ASSUME IInv, MeterTypes, [Next]_vars PROVE MeterTypes'
<1> USE BattleAssumption
<1>1. CASE UNCHANGED meter
  BY <1>1 DEF MeterTypes, MeterCap
<1>2. ASSUME NEW p \in Players, Yielder(p),
             meter' = [meter EXCEPT ![cur] = meter[p] - (Hundred - 1)]
      PROVE  MeterTypes'
  <2>1. meter[p] \in 1 .. MeterCap
    BY <1>2 DEF MeterTypes, Yielder, Counts, MeterCap
  <2>2. meter[p] - (Hundred - 1) \in 1 - Hundred .. MeterCap
    BY <2>1 DEF MeterCap
  <2> QED
    BY <1>2, <2>2 DEF MeterTypes
<1>3. CASE UpdatePlayers
  <2>1. PICK gain \in [Players -> Gains] :
          meter' = [p \in Players |->
                     IF Out(p) THEN 0
                     ELSE IF state[p] = "Wait" /\ meter[p] + gain[p] <= MeterCap
                          THEN meter[p] + gain[p] ELSE meter[p]]
    BY <1>3 DEF UpdatePlayers
  <2>2. ASSUME NEW p \in Players PROVE meter'[p] \in 1 - Hundred .. MeterCap
    <3>1. meter[p] \in 1 - Hundred .. MeterCap /\ gain[p] \in 0 .. 1
      BY <2>1 DEF MeterTypes, Gains
    <3>2. 0 \in 1 - Hundred .. MeterCap
      BY DEF MeterCap
    <3>3. CASE Out(p)
      BY <2>1, <3>2, <3>3
    <3>4. CASE ~ Out(p) /\ meter'[p] = meter[p]
      BY <3>1, <3>4
    <3>5. CASE meter'[p] = meter[p] + gain[p] /\ meter[p] + gain[p] <= MeterCap
      BY <3>1, <3>5 DEF MeterCap
    <3> QED
      BY <2>1, <3>3, <3>4, <3>5
  <2> QED
    BY <2>1, <2>2 DEF MeterTypes
<1>4. ASSUME NEW p, NEW kind, Perform(p, kind)
      PROVE  MeterTypes'
  <2>1. meter' = [q \in Players |-> IF q = p \/ kind = "Coop" THEN 0 ELSE meter[q]]
    BY <1>4 DEF Perform
  <2>2. 0 \in 1 - Hundred .. MeterCap
    BY DEF MeterCap
  <2> QED
    BY <2>1, <2>2 DEF MeterTypes
<1>5. Command => \/ UNCHANGED meter
                 \/ \E p \in Players :
                      /\ Yielder(p)
                      /\ meter' = [meter EXCEPT ![cur] = meter[p] - (Hundred - 1)]
  BY DEF Command, Compelled, Choose, Repeat, Yield, Undecided, Commit, playerVars
<1>6. PlayerActs => UNCHANGED meter \/ \E p, kind : Perform(p, kind)
  BY DEF PlayerActs, Asserts, playerVars
<1>7. StartFrame \/ EnemyActs \/ Strike \/ EnemiesGetReady \/ CheckReady \/ NobodyActs
      \/ UNCHANGED vars => UNCHANGED meter
  BY DEF StartFrame, EnemyActs, Strike, EnemiesGetReady, CheckReady, NobodyActs, vars,
         playerVars
<1> QED
  BY <1>1, <1>2, <1>3, <1>4, <1>5, <1>6, <1>7 DEF Next

\* What is commanded, and what becomes of a command, is an action.
LEMMA ActionStep == ASSUME IInv, FoeTypes, ActionTypes, [Next]_vars PROVE ActionTypes'
<1> DEFINE Actions == [kind : ActionKinds, target : ActionTargets]
<1>1. CASE UNCHANGED action
  BY <1>1 DEF ActionTypes
<1>2. ASSUME NEW kind \in ActionKinds, NEW t \in ActionTargets, Commit(kind, t)
      PROVE  ActionTypes'
  BY <1>2 DEF Commit, ActionTypes
<1>3. Compelled => \E kind \in ActionKinds, t \in ActionTargets : Commit(kind, t)
  <2>1. present \subseteq Enemies
    BY DEF IInv, Types
  <2>2. Targets("AttackMate") \subseteq ActionTargets
    BY <2>1 DEF Targets, ActionTargets
  <2> QED
    BY <2>1, <2>2 DEF Compelled, ActionKinds, ActionTargets
<1>4. Choose => \E kind \in ActionKinds, t \in ActionTargets : Commit(kind, t)
  <2>1. present \subseteq Enemies
    BY DEF IInv, Types
  <2>2. ASSUME NEW kind PROVE Targets(kind) \subseteq ActionTargets
    BY <2>1 DEF Targets, ActionTargets
  <2>3. 1 \in ActionTargets
    BY BattleAssumption DEF Enemies, ActionTargets
  <2>4. Offered \subseteq ActionKinds /\ {"Attack", "Defend"} \subseteq ActionKinds
    BY DEF Offered, ActionKinds
  <2>5. SUFFICES ASSUME Choose
                 PROVE  \E kind \in ActionKinds, t \in ActionTargets : Commit(kind, t)
    OBVIOUS
  <2>6. PICK kind \in Offered : \E t \in Targets(kind) :
          \/ Commit(kind, t)
          \/ kind = "Magic" /\ Commit("Attack", IF t = All THEN 1 ELSE t)
          \/ kind = "Heal" /\ Commit("Defend", t)
    BY <2>5 DEF Choose
  <2>7. PICK t \in Targets(kind) :
          \/ Commit(kind, t)
          \/ kind = "Magic" /\ Commit("Attack", IF t = All THEN 1 ELSE t)
          \/ kind = "Heal" /\ Commit("Defend", t)
    BY <2>6
  <2>8. t \in ActionTargets /\ (IF t = All THEN 1 ELSE t) \in ActionTargets
    BY <2>2, <2>3
  <2> QED
    BY <2>4, <2>7, <2>8
<1>10. Repeat => \E kind \in ActionKinds, t \in ActionTargets : Commit(kind, t)
  BY DEF Repeat, Offered, ActionKinds, ActionTargets
<1>5. CASE UpdatePlayers
  <2>1. action' = [p \in Players |-> IF Out(p) THEN NoAction ELSE Overruled(p)]
    BY <1>5 DEF UpdatePlayers
  <2>2. NoAction \in Actions
    BY DEF NoAction, ActionKinds, ActionTargets
  <2>3. ASSUME NEW p \in Players PROVE Overruled(p) \in Actions
    <3>1. PICK a \in Actions : a = action[p]
      BY DEF ActionTypes
    <3>2. [a EXCEPT !.kind = "Pass"] \in Actions /\ [a EXCEPT !.kind = "AttackMate"] \in Actions
      BY DEF ActionKinds
    <3> QED
      BY <3>1, <3>2 DEF Overruled
  <2> HIDE DEF Actions
  <2>4. action' \in [Players -> Actions]
    BY <2>1, <2>2, <2>3
  <2> QED
    BY <2>4 DEF ActionTypes, Actions, ActionTargets
<1>6. ASSUME NEW p, NEW kind, Perform(p, kind)
      PROVE  ActionTypes'
  <2>1. action' = [action EXCEPT ![p] = NoAction]
    BY <1>6 DEF Perform
  <2>2. NoAction \in Actions
    BY DEF NoAction, ActionKinds, ActionTargets
  <2> QED
    BY <2>1, <2>2 DEF ActionTypes
<1>7. Command => UNCHANGED action \/ Compelled \/ Choose \/ Repeat
  BY DEF Command, Yield, Undecided, playerVars
<1>8. PlayerActs => UNCHANGED action \/ \E p, kind : Perform(p, kind)
  BY DEF PlayerActs, Asserts, playerVars
<1>9. StartFrame \/ EnemyActs \/ Strike \/ EnemiesGetReady \/ CheckReady \/ NobodyActs
      \/ UNCHANGED vars => UNCHANGED action
  BY DEF StartFrame, EnemyActs, Strike, EnemiesGetReady, CheckReady, NobodyActs, vars,
         playerVars
<1> QED
  BY <1>1, <1>2, <1>3, <1>4, <1>5, <1>6, <1>7, <1>8, <1>9, <1>10 DEF Next

LEMMA ResultStep == ASSUME ResultTypes, [Next]_vars PROVE ResultTypes'
<1>1. result' \in {result, "Won", "Lost", "Fleed", "Terminated"} => ResultTypes'
  BY DEF ResultTypes
<1>2. StartFrame => result' \in {result, "Won", "Lost", "Fleed", "Terminated"}
  BY DEF StartFrame
<1>3. EnemiesGetReady \/ Strike => result' \in {result, "Won", "Lost", "Fleed", "Terminated"}
  BY DEF EnemiesGetReady, Strike
<1>4. PlayerActs => result' \in {result, "Won", "Lost", "Fleed", "Terminated"}
  BY DEF PlayerActs, Asserts, Perform
<1>5. EnemyActs \/ CheckReady \/ Command \/ UpdatePlayers \/ NobodyActs
      \/ UNCHANGED vars => UNCHANGED result
  BY DEF EnemyActs, CheckReady, Command, UpdatePlayers, NobodyActs, vars
<1> QED
  BY <1>1, <1>2, <1>3, <1>4, <1>5 DEF Next

\* Whoever has come is in Wait.
LEMMA AnewTyped ==
  ASSUME FoeTypes, NEW new
  PROVE  Anew(new) \in [Enemies -> {"Wait", "Com", "Act"}]
BY DEF Anew, FoeTypes

\* The loop over the enemies passes over those that have gone, whatever state
\* they were left in, and nothing goes between the loop and the blow.
LEMMA FoeStep == ASSUME IInv, FoeTypes, [Next]_vars PROVE FoeTypes'
<1>1. CASE UNCHANGED <<foeVars, striker>> /\ (pc' = "strike" => pc' = pc)
  BY <1>1 DEF FoeTypes, foeVars, noteVars
<1>2. CASE StartFrame
  <2>1. CASE UNCHANGED <<pc, present, drained, noteVars>>
    BY <1>2, <2>1 DEF StartFrame, FoeTypes, noteVars
  <2>2. CASE pc' = "enemies" /\ \E field \in Field(Due # {}) :
               /\ present' = field.present /\ drained' = field.drained
               /\ foe' = Anew(field.present \ present)
               /\ second' = second \ (field.present \ present)
               /\ turnStart' = turnStart \ field.present
    <3>1. striker' = striker
      BY <1>2 DEF StartFrame
    <3>2. drained' \subseteq present'
      BY <2>2, FieldTyped DEF FoeTypes
    <3>3. foe' \in [Enemies -> {"Wait", "Com", "Act"}]
      BY <2>2, AnewTyped
    <3> QED
      BY <2>2, <3>1, <3>2, <3>3 DEF FoeTypes
  <2> QED
    BY <1>2, <2>1, <2>2 DEF StartFrame
<1>3. CASE EnemyActs
  BY <1>3 DEF EnemyActs, foeVars, noteVars, FoeTypes, IInv, Types, Standing
<1>4. CASE Strike
  <2>1. PICK new :
          /\ drained' = {}
          /\ \E dual \in Dual :
               /\ second' = (second \ (new \union {striker})) \union dual
               /\ foe' = [Anew(new) EXCEPT ![striker] = IF dual = {} THEN "Wait" ELSE "Com"]
               /\ turnStart' = (turnStart \ new) \union ({striker} \ dual)
    BY <1>4 DEF Strike
  <2>2. PICK dual \in Dual :
          /\ second' = (second \ (new \union {striker})) \union dual
          /\ foe' = [Anew(new) EXCEPT ![striker] = IF dual = {} THEN "Wait" ELSE "Com"]
          /\ turnStart' = (turnStart \ new) \union ({striker} \ dual)
    BY <2>1
  <2>3. foe' \in [Enemies -> {"Wait", "Com", "Act"}]
    BY <2>2, AnewTyped
  <2>4. striker' = striker /\ pc' = "rest"
    BY <1>4 DEF Strike
  <2>5. second' \subseteq Enemies /\ turnStart' \subseteq Enemies
    BY <2>2 DEF Dual, FoeTypes
  <2> QED
    BY <2>1, <2>3, <2>4, <2>5 DEF FoeTypes
<1>5. CASE EnemiesGetReady
  <2>1. striker' = 1 /\ pc' = "ui"
    BY <1>5 DEF EnemiesGetReady
  <2> DEFINE done == IF pc = "rest" THEN {striker} ELSE {}
             ready == {e \in Standing \ done : foe[e] = "Com"}
             Goes(field, full) ==
               foe' = [e \in Enemies |-> IF e \in ready THEN "Act"
                                         ELSE IF e \in full THEN "Com"
                                         ELSE Anew(field.present \ present)[e]]
             waiting(field) == {e \in field.present \ done :
                                  Anew(field.present \ present)[e] = "Wait"}
  <2>2. \E field \in Field(ready # {}) :
          /\ present' = field.present /\ drained' = field.drained
          /\ \E full \in SUBSET waiting(field) : Goes(field, full)
          /\ second' = second \ (field.present \ present)
          /\ turnStart' = turnStart \ (field.present \ present)
    BY <1>5, Zenon DEF EnemiesGetReady
  <2> HIDE DEF waiting
  <2>3. PICK field \in Field(ready # {}) :
          /\ present' = field.present /\ drained' = field.drained
          /\ \E full : Goes(field, full)
          /\ second' = second \ (field.present \ present)
          /\ turnStart' = turnStart \ (field.present \ present)
    BY <2>2, Zenon
  <2>4. drained' \subseteq present'
    BY <2>3, FieldTyped DEF FoeTypes
  <2>5. foe' \in [Enemies -> {"Wait", "Com", "Act"}]
    <3>1. Anew(field.present \ present) \in [Enemies -> {"Wait", "Com", "Act"}]
      BY AnewTyped
    <3>2. PICK full : Goes(field, full)
      BY <2>3
    <3> HIDE DEF ready
    <3> QED
      BY <3>1, <3>2
  <2>6. 1 \in Enemies
    BY BattleAssumption DEF Enemies
  <2> HIDE DEF ready, Goes
  <2> QED
    BY <2>1, <2>3, <2>4, <2>5, <2>6 DEF FoeTypes
<1>6. ASSUME NEW p, NEW kind, Perform(p, kind), UNCHANGED frameVars
      PROVE  FoeTypes'
  <2>1. PICK left \in SUBSET Enemies : EnemiesAfter(kind, left)
    BY <1>6 DEF Perform
  <2>2. PICK old \in SUBSET present : \E new \in SUBSET (Enemies \ old) :
          /\ present' = old \union new
          /\ drained' \in IF left = {} THEN {{}} ELSE SUBSET present'
          /\ foe' = Anew(new)
          /\ second' = second \ new /\ turnStart' = turnStart \ new
    BY <2>1 DEF EnemiesAfter
  <2>3. striker' = striker /\ pc' = "frame"
    BY <1>6 DEF Perform, frameVars
  <2>4. foe' \in [Enemies -> {"Wait", "Com", "Act"}]
    BY <2>2, AnewTyped
  <2>5. drained' \subseteq present'
    BY <2>2
  <2> QED
    BY <2>2, <2>3, <2>4, <2>5 DEF FoeTypes
<1>7. CheckReady \/ Command \/ UpdatePlayers \/ NobodyActs \/ UNCHANGED vars
      => UNCHANGED <<foeVars, striker>> /\ (pc' = "strike" => pc' = pc)
  BY DEF CheckReady, Command, UpdatePlayers, NobodyActs, vars, frameVars
<1>8. PlayerActs
      => \/ UNCHANGED <<foeVars, striker>> /\ (pc' = "strike" => pc' = pc)
         \/ UNCHANGED frameVars /\ \E p, kind : Perform(p, kind)
  BY DEF PlayerActs, Asserts, frameVars
<1> QED
  BY <1>1, <1>2, <1>3, <1>4, <1>5, <1>6, <1>7, <1>8 DEF Next

-----------------------------------------------------------------------------
(* The turn order.                                                         *)

\* Whoever loses the place, the others keep theirs and their order.
LEMMA KeptOrder ==
  ASSUME OrderTypes, NEW S, order' = Kept(S),
         \A p \in Players \intersect S : HasTurn(p) => state'[p] = "Act"
  PROVE  OrderTypes'
<1>1. \A p, q \in Players : <<p, q>> \in order' <=> <<p, q>> \in order /\ p \in S /\ q \in S
  BY DEF Kept
<1>2. order' \subseteq Players \X Players
  BY DEF Kept, OrderTypes
<1>3. \A p, q \in Players : <<p, q>> \in order' => HasTurn(p)' /\ HasTurn(q)'
  BY <1>1 DEF OrderTypes, HasTurn
<1>4. \A p \in Players : HasTurn(p)' => state'[p] = "Act"
  BY <1>1 DEF HasTurn
<1>5. \A p, q \in Players :
        HasTurn(p)' /\ HasTurn(q)' /\ p # q => (<<p, q>> \in order' <=> <<q, p>> \notin order')
  BY <1>1 DEF OrderTypes, TurnOrderSound, HasTurn
<1>6. \A p, q, r \in Players :
        <<p, q>> \in order' /\ <<q, r>> \in order' => <<p, r>> \in order'
  BY <1>1 DEF OrderTypes, TurnOrderSound
<1> QED
  BY <1>2, <1>3, <1>4, <1>5, <1>6 DEF OrderTypes, TurnOrderSound

\* Those who get a place stand behind all who have kept one, in an order of
\* their own.
LEMMA PlacedBehind ==
  ASSUME OrderTypes, NEW S, NEW T \in SUBSET Players,
         \A p \in T : ~ (HasTurn(p) /\ p \in S),
         order' \subseteq Players \X Players,
         \A p, q \in Players :
           <<p, q>> \in order' <=> \/ <<p, q>> \in order /\ p \in S /\ q \in S
                                   \/ HasTurn(p) /\ p \in S /\ q \in T
                                   \/ p \in T /\ q \in T /\ p <= q,
         \A p \in Players \intersect S : HasTurn(p) => state'[p] = "Act",
         \A p \in T : state'[p] = "Act"
  PROVE  OrderTypes'
<1>1. Players \subseteq Int
  BY DEF Players
<1>2. ASSUME NEW p \in Players
      PROVE  HasTurn(p)' <=> (HasTurn(p) /\ p \in S) \/ p \in T
  <2>1. p <= p
    BY <1>1
  <2>2. HasTurn(p)' <=> <<p, p>> \in order'
    BY DEF HasTurn
  <2>3. <<p, p>> \in order' <=> (HasTurn(p) /\ p \in S) \/ p \in T
    BY <2>1 DEF HasTurn
  <2> QED
    BY <2>2, <2>3
<1>3. \A p, q \in Players : <<p, q>> \in order' => HasTurn(p)' /\ HasTurn(q)'
  BY <1>2 DEF OrderTypes
<1>4. \A p \in Players : HasTurn(p)' => state'[p] = "Act"
  BY <1>2
<1>5. ASSUME NEW p \in Players, NEW q \in Players, HasTurn(p)', HasTurn(q)', p # q
      PROVE  <<p, q>> \in order' <=> <<q, p>> \notin order'
  <2>1. CASE p \in T /\ q \in T
    <3>1. <<p, q>> \in order' <=> p <= q
      BY <2>1 DEF OrderTypes
    <3>2. <<q, p>> \in order' <=> q <= p
      BY <2>1 DEF OrderTypes
    <3> QED
      BY <1>1, <1>5, <3>1, <3>2
  <2>2. CASE p \in T /\ q \notin T
    BY <1>2, <1>5, <2>2 DEF OrderTypes
  <2>3. CASE p \notin T /\ q \in T
    BY <1>2, <1>5, <2>3 DEF OrderTypes
  <2>4. CASE p \notin T /\ q \notin T
    BY <1>2, <1>5, <2>4 DEF OrderTypes, TurnOrderSound
  <2> QED
    BY <2>1, <2>2, <2>3, <2>4
<1>6. ASSUME NEW p \in Players, NEW q \in Players, NEW r \in Players,
             <<p, q>> \in order', <<q, r>> \in order'
      PROVE  <<p, r>> \in order'
  <2>1. CASE q \in T
    <3>1. r \in T /\ q <= r
      BY <1>6, <2>1 DEF OrderTypes
    <3>2. \/ HasTurn(p) /\ p \in S
          \/ p \in T /\ p <= q
      BY <1>6, <2>1 DEF OrderTypes
    <3>3. p <= q => p <= r
      BY <1>1, <3>1
    <3> QED
      BY <3>1, <3>2, <3>3
  <2>2. CASE q \notin T
    <3>1. <<p, q>> \in order /\ p \in S /\ q \in S
      BY <1>6, <2>2
    <3>2. \/ <<q, r>> \in order /\ r \in S
          \/ r \in T
      BY <1>6, <2>2
    <3> QED
      BY <3>1, <3>2 DEF OrderTypes, TurnOrderSound
  <2> QED
    BY <2>1, <2>2
<1> QED
  BY <1>3, <1>4, <1>5, <1>6 DEF OrderTypes, TurnOrderSound

\* The places a command leads to.
LEMMA CommitOrder ==
  ASSUME Types, OrderTypes, cur \in Players, NEW kind, NEW t, Commit(kind, t)
  PROVE  OrderTypes'
<1> DEFINE S == Players \ {cur}
<1>1. /\ state' = [state EXCEPT ![cur] = "Act"]
      /\ order' = Kept(S) \union IF kind \in Casting THEN {} ELSE Behind(S, cur)
  BY DEF Commit
<1>2. \A p \in Players \intersect S : HasTurn(p) => state'[p] = "Act"
  BY <1>1 DEF Types, OrderTypes, TurnOrderSound
<1>3. CASE kind \in Casting
  <2>1. order' = Kept(S)
    BY <1>1, <1>3
  <2> HIDE DEF S
  <2> QED
    BY <1>2, <2>1, KeptOrder
<1>4. CASE kind \notin Casting
  <2>1. order' = Kept(S) \union Behind(S, cur)
    BY <1>1, <1>4
  <2>2. order' \subseteq Players \X Players
    BY <2>1 DEF OrderTypes, Kept, Behind
  <2>3. {cur} \in SUBSET Players /\ \A p \in {cur} : ~ (HasTurn(p) /\ p \in S)
    OBVIOUS
  <2>4. \A p \in {cur} : state'[p] = "Act"
    BY <1>1 DEF Types
  <2>5. ASSUME NEW p \in Players, NEW q \in Players
        PROVE  <<p, q>> \in order' <=> \/ <<p, q>> \in order /\ p \in S /\ q \in S
                                       \/ HasTurn(p) /\ p \in S /\ q \in {cur}
                                       \/ p \in {cur} /\ q \in {cur} /\ p <= q
    <3>1. cur <= cur
      BY DEF Players
    <3> QED
      BY <2>1, <3>1 DEF Kept, Behind
  <2>6. \A p, q \in Players :
           <<p, q>> \in order' <=> \/ <<p, q>> \in order /\ p \in S /\ q \in S
                                   \/ HasTurn(p) /\ p \in S /\ q \in {cur}
                                   \/ p \in {cur} /\ q \in {cur} /\ p <= q
    BY <2>5
  <2> DEFINE T == {cur}
  <2>7. T \in SUBSET Players
    OBVIOUS
  <2>8. \A p \in T : ~ (HasTurn(p) /\ p \in S)
    BY <2>3
  <2>9. /\ \A p, q \in Players :
              <<p, q>> \in order' <=> \/ <<p, q>> \in order /\ p \in S /\ q \in S
                                      \/ HasTurn(p) /\ p \in S /\ q \in T
                                      \/ p \in T /\ q \in T /\ p <= q
        /\ \A p \in T : state'[p] = "Act"
    BY <2>4, <2>6
  <2> HIDE DEF S, T
  <2> QED
    BY <1>2, <2>2, <2>7, <2>8, <2>9, PlacedBehind
<1> QED
  BY <1>3, <1>4

\* The loop over the players drops those who are out and places those whose
\* action's time has come.
LEMMA UpdateOrder == ASSUME Types, OrderTypes, UpdatePlayers PROVE OrderTypes'
<1>1. PICK done \in SUBSET {p \in Players : Placeless(p)} : order' = Kept(In) \union InOrder(done)
  BY DEF UpdatePlayers, Places
<1>2. state' = [p \in Players |-> IF Out(p) THEN "Wait" ELSE state[p]]
  BY DEF UpdatePlayers
<1>3. \A p \in done : p \in Players /\ p \in In /\ ~ HasTurn(p) /\ state[p] = "Act"
  BY <1>1 DEF Placeless, In
<1>4. \A p \in Players \intersect In : HasTurn(p) => state'[p] = "Act"
  BY <1>2 DEF In, OrderTypes, TurnOrderSound
<1>5. \A p \in done : state'[p] = "Act"
  BY <1>2, <1>3 DEF In
<1>6. ASSUME NEW p, NEW q
      PROVE  <<p, q>> \in InOrder(done) <=> /\ q \in done
                                            /\ \/ p \in In /\ HasTurn(p)
                                               \/ p = q
                                               \/ p \in done /\ p < q
  BY DEF InOrder, Behind
<1>7. ASSUME NEW x \in InOrder(done) PROVE x \in Players \X Players
  <2>1. In \subseteq Players
    BY DEF In
  <2>2. PICK q \in done : x \in Behind(In, q) \union {<<r, q>> : r \in {r \in done : r < q}}
    BY DEF InOrder
  <2> QED
    BY <1>3, <2>1, <2>2 DEF Behind
<1>8. order' \subseteq Players \X Players
  BY <1>1, <1>7 DEF Kept, OrderTypes
<1>9. ASSUME NEW p \in Players, NEW q \in Players
      PROVE  <<p, q>> \in order' <=> \/ <<p, q>> \in order /\ p \in In /\ q \in In
                                     \/ HasTurn(p) /\ p \in In /\ q \in done
                                     \/ p \in done /\ q \in done /\ p <= q
  <2>1. p <= q <=> p < q \/ p = q
    BY DEF Players
  <2>2. <<p, q>> \in Kept(In) <=> <<p, q>> \in order /\ p \in In /\ q \in In
    BY DEF Kept
  <2> QED
    BY <1>1, <1>6, <2>1, <2>2
<1>10. done \in SUBSET Players /\ \A p \in done : ~ (HasTurn(p) /\ p \in In)
  BY <1>3
<1> QED
  BY <1>4, <1>5, <1>8, <1>9, <1>10, PlacedBehind

LEMMA OrderStep ==
  ASSUME IInv, OrderTypes, AskedIsIdle, [Next]_vars
  PROVE  OrderTypes' /\ AskedIsIdle'
<1>1. CASE UNCHANGED <<order, state>> /\ cur' \in {cur, Nobody}
  BY <1>1 DEF OrderTypes, TurnOrderSound, HasTurn, AskedIsIdle
<1>2. CASE CheckReady
  <2>1. cur = Nobody /\ UNCHANGED order
    BY <1>2 DEF CheckReady
  <2>2. CASE UNCHANGED <<state, cur>>
    BY <1>1, <2>1, <2>2
  <2>3. ASSUME NEW p \in Players, Fastest(p), state' = [state EXCEPT ![p] = "Com"], Ask({p})
        PROVE  OrderTypes' /\ AskedIsIdle'
    <3>1. ~ HasTurn(p)
      BY <2>3 DEF Fastest, OrderTypes, TurnOrderSound
    <3>2. cur' \in {p}
      <4>1. p <= p
        BY DEF Players
      <4>2. cur' = CHOOSE q \in {p} : \A r \in {p} : q <= r
        BY <2>3 DEF Ask
      <4> QED
        BY <4>1, <4>2
    <3>3. \A q \in Players : HasTurn(q) => state'[q] = "Act"
      BY <2>3, <3>1 DEF OrderTypes, TurnOrderSound, IInv, Types
    <3> QED
      BY <2>1, <2>3, <3>2, <3>3 DEF OrderTypes, TurnOrderSound, HasTurn, AskedIsIdle,
         IInv, Types
  <2>4. CASE ~ cleared /\ Ask(Commanded) /\ UNCHANGED state
    <3>1. Commanded = {}
      BY <2>1, <2>4 DEF IInv, OneAsked, Commanded, Nobody, Players
    <3> QED
      BY <2>1, <2>2, <2>4, <3>1 DEF Ask
  <2> QED
    BY <1>2, <2>2, <2>3, <2>4 DEF CheckReady
<1>3. CASE Command
  <2>1. cur \in Players
    BY <1>3 DEF Command, IInv, Types
  <2>2. CASE \E kind, t : Commit(kind, t)
    BY <2>1, <2>2, CommitOrder DEF IInv, Commit, AskedIsIdle
  <2>3. CASE Yield
    <3>1. state' = [state EXCEPT ![cur] = "Wait"] /\ UNCHANGED order /\ cur' = Nobody
      BY <2>3 DEF Yield, Yielded
    <3>2. \A p \in Players : HasTurn(p) => state'[p] = "Act"
      BY <2>1, <3>1 DEF OrderTypes, TurnOrderSound, AskedIsIdle, IInv, Types, Nobody, Players
    <3> QED
      BY <3>1, <3>2 DEF OrderTypes, TurnOrderSound, HasTurn, AskedIsIdle
  <2>4. CASE Undecided
    BY <1>1, <2>4 DEF Undecided, playerVars
  <2>5. Compelled \/ Choose \/ Repeat => \E kind, t : Commit(kind, t)
    BY DEF Compelled, Choose, Repeat
  <2> QED
    BY <1>3, <2>2, <2>3, <2>4, <2>5 DEF Command
<1>4. CASE UpdatePlayers
  <2>1. /\ UNCHANGED cur
        /\ state' = [p \in Players |-> IF Out(p) THEN "Wait" ELSE state[p]]
    BY <1>4 DEF UpdatePlayers
  <2>2. AskedIsIdle'
    BY <2>1 DEF AskedIsIdle, IInv, Types
  <2> QED
    BY <1>4, <2>2, UpdateOrder DEF IInv
<1>5. ASSUME NEW p, NEW kind, Perform(p, kind)
      PROVE  OrderTypes' /\ AskedIsIdle'
  <2>1. /\ state' = [state EXCEPT ![p] = "Wait"] /\ order' = Kept(Players \ {p})
        /\ cur' \in {cur, Nobody}
    BY <1>5 DEF Perform, PostActionCheck
  <2>2. \A q \in Players \intersect (Players \ {p}) : HasTurn(q) => state'[q] = "Act"
    BY <2>1 DEF OrderTypes, TurnOrderSound, IInv, Types
  <2>3. OrderTypes'
    BY <2>1, <2>2, KeptOrder
  <2>4. AskedIsIdle'
    BY <2>1 DEF AskedIsIdle, IInv, Types
  <2> QED
    BY <2>3, <2>4
<1>6. PlayerActs => \/ UNCHANGED <<order, state>> /\ cur' \in {cur, Nobody}
                    \/ \E p, kind : Perform(p, kind)
  BY DEF PlayerActs, Asserts, playerVars
<1>7. StartFrame \/ EnemyActs \/ Strike \/ EnemiesGetReady \/ NobodyActs \/ UNCHANGED vars
      => UNCHANGED <<order, state>> /\ cur' \in {cur, Nobody}
  BY DEF StartFrame, EnemyActs, Strike, EnemiesGetReady, NobodyActs, vars, playerVars,
         PostActionCheck
<1> QED
  BY <1>1, <1>2, <1>3, <1>4, <1>5, <1>6, <1>7 DEF Next

LEMMA NextTInv == TInv /\ [Next]_vars => TInv'
BY NextIInv, PartyStep, MeterStep, ActionStep, FoeStep, ResultStep, OrderStep DEF TInv

-----------------------------------------------------------------------------
(* The theorems, for parties and fields of any size.                       *)

\* When an enemy performs, PAL_BattleEnemySelectTargetIndex finds a player
\* who is alive, so that its loop of draws ends (fight.c:4244-4260).
THEOREM DrawEnds == Spec => []EnemyFindsTarget
<1>1. IInv => EnemyFindsTarget
  BY DEF IInv, StrikerSeesSomeone, EnemyFindsTarget
<1> QED
  BY InitIInv, NextIInv, <1>1, PTL DEF Spec

\* Until the battle is won, a player in Com is the one the menu asks: no
\* second player waits in Com unasked (fight.c:1016-1034, uibattle.c:994).
THEOREM AskedOneByOne == Spec => []OneAsked
<1>1. IInv => OneAsked
  BY DEF IInv
<1> QED
  BY InitIInv, NextIInv, <1>1, PTL DEF Spec

\* No action takes effect with an item the inventory does not have
\* (fight.c:3286-3325, 4085-4126).
THEOREM ItemsPaidFor == Spec => []NothingFromNothing
<1>1. IInv => NothingFromNothing
  BY DEF IInv
<1> QED
  BY InitIInv, NextIInv, <1>1, PTL DEF Spec

\* Every variable keeps its type: meters stay in their range, an action has a
\* kind and a target, and an enemy that performs is still there
\* (fight.c:1060-1355, 4227-4330).
THEOREM TypeCorrect == Spec => []TypeOK
<1>1. TInv => TypeOK
  BY DEF TInv, IInv, Types, PartyTypes, MeterTypes, ActionTypes, ActionKinds, ActionTargets,
         FoeTypes, ResultTypes, OrderTypes, TypeOK
<1> QED
  BY InitTInv, NextTInv, <1>1, PTL DEF Spec

\* A place in the turn order belongs to a player in Act, and the places are
\* never shared: whoever dies, rises, yields or is commanded anew meanwhile
\* (fight.c:1242-1307, 1338-1352, 1888-1906).
THEOREM TurnsInOrder == Spec => []TurnOrderSound
<1>1. TInv => TurnOrderSound
  BY DEF TInv, OrderTypes
<1> QED
  BY InitTInv, NextTInv, <1>1, PTL DEF Spec

-----------------------------------------------------------------------------
(* PalParty.                                                               *)
-----------------------------------------------------------------------------
(* What Only keeps: the entries at the kept positions, in their order.     *)

LEMMA RankFacts ==
  ASSUME NEW n \in Nat, NEW keep \in SUBSET (1 .. n)
  PROVE  /\ Cardinality(keep) \in 0 .. n
         /\ \A k \in keep : Rank(k, keep) \in 1 .. Cardinality(keep)
         /\ \A j, k \in keep : j < k => Rank(j, keep) < Rank(k, keep)
         /\ \A m \in 1 .. Cardinality(keep) : \E k \in keep : Rank(k, keep) = m
<1>1. IsFiniteSet(1 .. n) /\ Cardinality(1 .. n) = n
  BY FS_Interval
<1>2. IsFiniteSet(keep) /\ Cardinality(keep) \in 0 .. n
  <2>1. IsFiniteSet(keep) /\ Cardinality(keep) <= n
    BY <1>1, FS_Subset
  <2>2. Cardinality(keep) \in Nat
    BY <2>1, FS_CardinalityType
  <2> QED
    BY <2>1, <2>2
<1>0. \A k \in keep : k \in Int
  OBVIOUS
<1>3. ASSUME NEW k \in keep
      PROVE  /\ IsFiniteSet({j \in keep : j <= k})
             /\ Rank(k, keep) \in 1 .. Cardinality(keep)
  <2>1. /\ IsFiniteSet({j \in keep : j <= k})
        /\ Cardinality({j \in keep : j <= k}) <= Cardinality(keep)
    BY <1>2, FS_Subset
  <2>2. k \in {j \in keep : j <= k}
    BY <1>3
  <2>3. Cardinality({j \in keep : j <= k}) \in Nat \ {0}
    BY <2>1, <2>2, FS_CardinalityType, FS_EmptySet
  <2> QED
    BY <1>2, <2>1, <2>3 DEF Rank
<1>4. ASSUME NEW j \in keep, NEW k \in keep, j < k
      PROVE  Rank(j, keep) < Rank(k, keep)
  <2>1. {l \in keep : l <= j} \subseteq {l \in keep : l <= k}
    <3>1. ASSUME NEW l \in keep, l <= j PROVE l <= k
      BY <1>0, <1>4, <3>1
    <3> QED
      BY <3>1
  <2>2. k \in {l \in keep : l <= k} /\ k \notin {l \in keep : l <= j}
    BY <1>0, <1>4
  <2>3. /\ Cardinality({l \in keep : l <= j}) <= Cardinality({l \in keep : l <= k})
        /\ Cardinality({l \in keep : l <= j}) # Cardinality({l \in keep : l <= k})
    BY <1>3, <2>1, <2>2, FS_Subset
  <2> QED
    BY <1>3, <2>3 DEF Rank
<1>5. \A m \in 1 .. Cardinality(keep) : \E k \in keep : Rank(k, keep) = m
  <2> DEFINE T == 1 .. Cardinality(keep)
             f == [k \in keep |-> Rank(k, keep)]
  <2>1. IsFiniteSet(T) /\ Cardinality(T) = Cardinality(keep)
    BY <1>2, FS_Interval
  <2>2. f \in [keep -> T]
    BY <1>3
  <2>3. \A j, k \in keep : f[j] = f[k] => j = k
    <3>1. ASSUME NEW j \in keep, NEW k \in keep, j # k PROVE Rank(j, keep) # Rank(k, keep)
      <4>1. j < k \/ k < j
        BY <1>0, <3>1
      <4>2. Rank(j, keep) \in 1 .. Cardinality(keep) /\ Rank(k, keep) \in 1 .. Cardinality(keep)
        BY <1>3
      <4>3. Rank(j, keep) \in Int /\ Rank(k, keep) \in Int
        BY <1>2, <4>2
      <4> QED
        BY <1>4, <4>1, <4>3
    <3> QED
      BY <3>1
  <2> HIDE DEF T, f
  <2>4. f \in Injection(keep, T)
    BY <2>2, <2>3 DEF Injection, IsInjective
  <2>5. f \in Surjection(keep, T)
    BY <2>1, <2>4, <1>2, FS_Injection
  <2> QED
    BY <2>5 DEF Surjection, f, T
<1> QED
  BY <1>2, <1>3, <1>4, <1>5

\* The position the m-th of the kept entries had.
At(m, keep) == CHOOSE k \in keep : Rank(k, keep) = m

LEMMA OnlyFacts ==
  ASSUME NEW n \in Nat, NEW keep \in SUBSET (1 .. n), NEW s
  PROVE  /\ Cardinality(keep) \in 0 .. n
         /\ DOMAIN Only(s, keep) = 1 .. Cardinality(keep)
         /\ \A m \in 1 .. Cardinality(keep) :
              At(m, keep) \in keep /\ Only(s, keep)[m] = s[At(m, keep)]
         /\ \A l, m \in 1 .. Cardinality(keep) : l < m => At(l, keep) < At(m, keep)
         /\ \A k \in keep : \E m \in 1 .. Cardinality(keep) : At(m, keep) = k
<1>0. (\A k \in keep : k \in Int) /\ Cardinality(keep) \in Nat
  <2>1. Cardinality(keep) \in 0 .. n
    BY RankFacts
  <2> QED
    BY <2>1
<1>1. \A m \in 1 .. Cardinality(keep) : At(m, keep) \in keep /\ Rank(At(m, keep), keep) = m
  BY RankFacts DEF At
<1>2. ASSUME NEW l \in 1 .. Cardinality(keep), NEW m \in 1 .. Cardinality(keep), l < m
      PROVE  At(l, keep) < At(m, keep)
  <2>1. /\ At(l, keep) \in keep /\ Rank(At(l, keep), keep) = l
        /\ At(m, keep) \in keep /\ Rank(At(m, keep), keep) = m
    BY <1>1
  <2>2. l \in Int /\ m \in Int /\ At(l, keep) # At(m, keep)
    BY <1>0, <1>2, <2>1
  <2>3. ~ (At(m, keep) < At(l, keep))
    <3>1. At(m, keep) < At(l, keep) => m < l
      BY <2>1, RankFacts
    <3> QED
      BY <1>2, <2>2, <3>1
  <2>4. At(l, keep) \in Int /\ At(m, keep) \in Int
    BY <1>0, <2>1
  <2> QED
    BY <2>2, <2>3, <2>4
<1>3. ASSUME NEW k \in keep
      PROVE  \E m \in 1 .. Cardinality(keep) : At(m, keep) = k
  <2>1. Rank(k, keep) \in 1 .. Cardinality(keep)
    BY RankFacts
  <2> DEFINE j == At(Rank(k, keep), keep)
  <2>2. j \in keep /\ Rank(j, keep) = Rank(k, keep)
    BY <1>1, <2>1
  <2>3. ~ (j < k) /\ ~ (k < j)
    <3> HIDE DEF j
    <3>1. (j < k => Rank(j, keep) < Rank(k, keep)) /\ (k < j => Rank(k, keep) < Rank(j, keep))
      BY <2>2, RankFacts
    <3>2. Rank(k, keep) \in Int
      BY <1>0, <2>1
    <3> QED
      BY <2>2, <3>1, <3>2
  <2>4. j = k
    <3> HIDE DEF j
    <3> QED
      BY <1>0, <2>2, <2>3
  <2> QED
    BY <2>1, <2>4
<1>4. /\ DOMAIN Only(s, keep) = 1 .. Cardinality(keep)
      /\ \A m \in 1 .. Cardinality(keep) : Only(s, keep)[m] = s[At(m, keep)]
  BY DEF Only, At
<1> QED
  BY <1>1, <1>2, <1>3, <1>4, RankFacts

LEMMA OnlySeq ==
  ASSUME NEW n \in Nat, NEW keep \in SUBSET (1 .. n), NEW s, NEW T, \A k \in keep : s[k] \in T
  PROVE  Only(s, keep) \in Seq(T) /\ Len(Only(s, keep)) = Cardinality(keep)
<1>1. Cardinality(keep) \in Nat
  <2>1. Cardinality(keep) \in 0 .. n
    BY RankFacts
  <2> QED
    BY <2>1
<1>2. Only(s, keep) \in [1 .. Cardinality(keep) -> T]
  <2>1. \A m \in 1 .. Cardinality(keep) : Only(s, keep)[m] \in T
    <3>1. ASSUME NEW m \in 1 .. Cardinality(keep) PROVE Only(s, keep)[m] \in T
      <4>1. At(m, keep) \in keep /\ Only(s, keep)[m] = s[At(m, keep)]
        BY OnlyFacts
      <4> QED
        BY <4>1
    <3> QED
      BY <3>1
  <2>2. Only(s, keep) = [m \in 1 .. Cardinality(keep) |-> Only(s, keep)[m]]
    BY DEF Only
  <2> QED
    BY <2>1, <2>2
<1>3. Only(s, keep) \in Seq(T)
  BY <1>1, <1>2, SeqDef
<1>4. Len(Only(s, keep)) = Cardinality(keep)
  BY <1>1, <1>2, <1>3, LenProperties
<1> QED
  BY <1>3, <1>4

-----------------------------------------------------------------------------
(* The inventory.  An item may have several slots, but all of them but the *)
(* first are empty: that is why the first one tells how many are carried.  *)

Slot == [item : Items, amount : 0 .. Cap]

Sound(inv) ==
  /\ inv \in Seq(Slot)
  /\ \A j, k \in DOMAIN inv : j < k /\ inv[j].item = inv[k].item => inv[k].amount = 0

LEMMA Sizes == /\ Slots \in Nat \ {0} /\ Cap \in Nat \ {0} /\ PoisonSlots \in Nat \ {0}
               /\ Price \in Nat \ {0} /\ CashBound \in Nat
BY PartyAssumption

LEMMA SlotFacts ==
  ASSUME NEW inv, Sound(inv)
  PROVE  /\ Len(inv) \in Nat /\ DOMAIN inv = 1 .. Len(inv)
         /\ \A k \in DOMAIN inv : /\ k \in Nat \ {0} /\ inv[k] \in Slot
                                  /\ inv[k].item \in Items
                                  /\ inv[k].amount \in 0 .. Cap /\ inv[k].amount \in Nat
                                  /\ inv[k].amount <= Cap
<1>1. Len(inv) \in Nat /\ DOMAIN inv = 1 .. Len(inv)
  BY LenProperties DEF Sound
<1>2. ASSUME NEW k \in DOMAIN inv
      PROVE  /\ k \in Nat \ {0} /\ inv[k] \in Slot
             /\ inv[k].item \in Items
             /\ inv[k].amount \in 0 .. Cap /\ inv[k].amount \in Nat
             /\ inv[k].amount <= Cap
  <2>1. inv[k] \in Slot
    BY <1>1, ElementOfSeq DEF Sound
  <2>2. inv[k].item \in Items /\ inv[k].amount \in 0 .. Cap
    BY <2>1 DEF Slot
  <2> QED
    BY <1>1, <2>1, <2>2, Sizes
<1> QED
  BY <1>1, <1>2

LEMMA LeastOf ==
  ASSUME NEW S \in SUBSET Nat, S # {}
  PROVE  \E f \in S : \A j \in S : f <= j
<1> DEFINE less == OpToRel(<, Nat)
<1>1. IsWellFoundedOn(less, Nat)
  BY NatLessThanWellFounded
<1>2. \A j, l \in Nat : j < l => <<j, l>> \in less
  BY DEF OpToRel
<1> HIDE DEF less
<1>3. PICK f \in S : \A j \in S : ~ (<<j, f>> \in less)
  BY <1>1, WFMin
<1>4. ASSUME NEW j \in S PROVE f <= j
  <2>1. ~ (j < f)
    BY <1>2, <1>3
  <2> QED
    BY <2>1
<1> QED
  BY <1>4

\* SlotOf finds the first slot of an item.
LEMMA FirstSlot ==
  ASSUME NEW inv, Sound(inv), NEW i, NEW k \in DOMAIN inv, inv[k].item = i
  PROVE  /\ SlotOf(inv, i) \in DOMAIN inv /\ inv[SlotOf(inv, i)].item = i
         /\ SlotOf(inv, i) \in Nat \ {0} /\ SlotOf(inv, i) <= k
<1> DEFINE Held == {j \in DOMAIN inv : inv[j].item = i}
<1>1. Held \in SUBSET Nat /\ Held # {}
  BY SlotFacts
<1>2. PICK f \in Held : \A j \in Held : f <= j
  <2> HIDE DEF Held
  <2> QED
    BY <1>1, LeastOf
<1>3. \E g \in DOMAIN inv : inv[g].item = i /\ \A j \in DOMAIN inv : inv[j].item = i => g <= j
  BY <1>2
<1>4. /\ SlotOf(inv, i) \in DOMAIN inv /\ inv[SlotOf(inv, i)].item = i
      /\ \A j \in DOMAIN inv : inv[j].item = i => SlotOf(inv, i) <= j
  BY <1>3 DEF SlotOf
<1> QED
  BY <1>4, SlotFacts

LEMMA NoSlot ==
  ASSUME NEW inv, NEW i, \A k \in DOMAIN inv : inv[k].item # i
  PROVE  SlotOf(inv, i) = 0 /\ Amount(inv, i) = 0
BY DEF SlotOf, Amount

LEMMA HasSlot ==
  ASSUME NEW inv, Sound(inv), NEW i, SlotOf(inv, i) # 0
  PROVE  /\ SlotOf(inv, i) \in DOMAIN inv /\ inv[SlotOf(inv, i)].item = i
         /\ Amount(inv, i) = inv[SlotOf(inv, i)].amount
<1>1. PICK k \in DOMAIN inv : inv[k].item = i
  BY NoSlot
<1> QED
  BY <1>1, FirstSlot DEF Amount

\* A slot that is not empty is the first of its item.
LEMMA FullSlot ==
  ASSUME NEW inv, Sound(inv), NEW i, NEW k \in DOMAIN inv, inv[k].item = i, inv[k].amount # 0
  PROVE  SlotOf(inv, i) = k /\ Amount(inv, i) = inv[k].amount
<1>1. /\ SlotOf(inv, i) \in DOMAIN inv /\ inv[SlotOf(inv, i)].item = i
      /\ SlotOf(inv, i) \in Nat \ {0} /\ SlotOf(inv, i) <= k
  BY FirstSlot
<1>2. ~ (SlotOf(inv, i) < k)
  BY <1>1 DEF Sound
<1>3. SlotOf(inv, i) = k
  BY <1>1, <1>2, SlotFacts
<1> QED
  BY <1>3, <1>1, HasSlot

LEMMA AmountType ==
  ASSUME NEW inv, Sound(inv), NEW i
  PROVE  Amount(inv, i) \in 0 .. Cap /\ Amount(inv, i) \in Nat /\ Amount(inv, i) <= Cap
<1>1. CASE SlotOf(inv, i) = 0
  BY <1>1, Sizes DEF Amount
<1>2. CASE SlotOf(inv, i) # 0
  BY <1>2, HasSlot, SlotFacts
<1> QED
  BY <1>1, <1>2

\* Inventories whose slots that are not empty are the same hold the same.
LEMMA SameSlots ==
  ASSUME NEW a, NEW b, Sound(a), Sound(b), NEW i,
         \A k \in DOMAIN a : a[k].item = i /\ a[k].amount # 0
                             => \E l \in DOMAIN b : b[l] = a[k],
         \A k \in DOMAIN b : b[k].item = i /\ b[k].amount # 0
                             => \E l \in DOMAIN a : a[l] = b[k]
  PROVE  Amount(a, i) = Amount(b, i)
<1>1. CASE Amount(a, i) # 0
  <2>1. SlotOf(a, i) # 0
    BY <1>1 DEF Amount
  <2>2. PICK k \in DOMAIN a : a[k].item = i /\ a[k].amount = Amount(a, i)
    BY <2>1, HasSlot
  <2>3. PICK l \in DOMAIN b : b[l] = a[k]
    BY <1>1, <2>2
  <2> QED
    BY <1>1, <2>2, <2>3, FullSlot
<1>2. CASE Amount(b, i) # 0
  <2>1. SlotOf(b, i) # 0
    BY <1>2 DEF Amount
  <2>2. PICK k \in DOMAIN b : b[k].item = i /\ b[k].amount = Amount(b, i)
    BY <2>1, HasSlot
  <2>3. PICK l \in DOMAIN a : a[l] = b[k]
    BY <1>2, <2>2
  <2> QED
    BY <1>2, <2>2, <2>3, FullSlot
<1> QED
  BY <1>1, <1>2

\* The first slot of an item depends only on the items in the slots.
LEMMA SameItems ==
  ASSUME NEW a, NEW b, Sound(a), Sound(b), DOMAIN a = DOMAIN b,
         \A k \in DOMAIN a : a[k].item = b[k].item, NEW i
  PROVE  SlotOf(a, i) = SlotOf(b, i)
<1>1. CASE \A k \in DOMAIN a : a[k].item # i
  <2>1. \A k \in DOMAIN b : b[k].item # i
    BY <1>1
  <2> QED
    BY <1>1, <2>1, NoSlot
<1>2. CASE \E k \in DOMAIN a : a[k].item = i
  <2>1. PICK k \in DOMAIN a : a[k].item = i
    BY <1>2
  <2>2. k \in DOMAIN b /\ b[k].item = i
    BY <2>1
  <2>3. /\ SlotOf(a, i) \in DOMAIN a /\ a[SlotOf(a, i)].item = i /\ SlotOf(a, i) \in Nat \ {0}
        /\ SlotOf(b, i) \in DOMAIN b /\ b[SlotOf(b, i)].item = i /\ SlotOf(b, i) \in Nat \ {0}
    BY <2>1, <2>2, FirstSlot
  <2>4. /\ SlotOf(a, i) \in DOMAIN b /\ b[SlotOf(a, i)].item = i
        /\ SlotOf(b, i) \in DOMAIN a /\ a[SlotOf(b, i)].item = i
    BY <2>3
  <2>5. SlotOf(b, i) <= SlotOf(a, i) /\ SlotOf(a, i) <= SlotOf(b, i)
    BY <2>4, FirstSlot
  <2> QED
    BY <2>3, <2>5
<1> QED
  BY <1>1, <1>2

\* Writing the amount of the first slot of an item.
Written(inv, i, a) == [inv EXCEPT ![SlotOf(inv, i)].amount = a]

LEMMA SlotWritten ==
  ASSUME NEW inv, Sound(inv), NEW i, SlotOf(inv, i) # 0, NEW a \in 0 .. Cap, NEW new,
         new = Written(inv, i, a)
  PROVE  /\ Sound(new) /\ Len(new) = Len(inv)
         /\ Amount(new, i) = a
         /\ \A j : j # i => Amount(new, j) = Amount(inv, j)
<1> DEFINE f == SlotOf(inv, i)
<1>1. f \in DOMAIN inv /\ inv[f].item = i /\ f \in Nat \ {0}
  BY HasSlot, SlotFacts
<1>0. \A k \in DOMAIN inv : inv[k].item = i => f <= k
  BY FirstSlot
<1>2. DOMAIN new = DOMAIN inv
  BY DEF Written
<1>3. \A k \in DOMAIN inv : k # f => new[k] = inv[k]
  BY DEF Written
<1>4. new[f] = [inv[f] EXCEPT !.amount = a]
  BY <1>1 DEF Written
<1>5. new[f].item = i /\ new[f].amount = a /\ new[f] \in Slot
  <2>1. inv[f] \in Slot
    BY <1>1, SlotFacts
  <2>2. inv[f] \in [item : Items, amount : 0 .. Cap]
    BY <2>1 DEF Slot
  <2> HIDE DEF f
  <2> QED
    BY <1>4, <1>1, <2>2 DEF Slot
<1> HIDE DEF f
<1>6. \A k \in DOMAIN inv : new[k].item = inv[k].item /\ new[k] \in Slot
  <2>1. \A k \in DOMAIN inv : inv[k] \in Slot
    BY SlotFacts
  <2> QED
    BY <1>1, <1>3, <1>5, <2>1
<1>7. new \in Seq(Slot) /\ Len(new) = Len(inv)
  <2>1. new = [k \in DOMAIN inv |-> new[k]]
    BY <1>2 DEF Written
  <2>2. DOMAIN inv = 1 .. Len(inv) /\ Len(inv) \in Nat
    BY SlotFacts
  <2>3. new \in [1 .. Len(inv) -> Slot]
    BY <1>6, <2>1, <2>2
  <2>4. new \in Seq(Slot)
    BY <2>2, <2>3, SeqDef
  <2> QED
    BY <2>2, <2>3, <2>4, LenProperties
<1>8. Sound(new)
  <2>1. ASSUME NEW j \in DOMAIN new, NEW k \in DOMAIN new, j < k, new[j].item = new[k].item
        PROVE  new[k].amount = 0
    <3>0. j \in Nat /\ k \in Nat
      BY <1>2, SlotFacts
    <3>1. j \in DOMAIN inv /\ k \in DOMAIN inv /\ inv[j].item = inv[k].item
      BY <1>2, <1>6, <2>1
    <3>2. k # f
      BY <1>0, <1>1, <2>1, <3>0, <3>1
    <3>3. inv[k].amount = 0
      BY <2>1, <3>1 DEF Sound
    <3> QED
      BY <1>3, <3>1, <3>2, <3>3
  <2> QED
    BY <1>7, <2>1 DEF Sound
<1>9. \A j : SlotOf(new, j) = SlotOf(inv, j)
  BY <1>2, <1>6, <1>8, SameItems
<1>10. Amount(new, i) = a
  <2>1. SlotOf(new, i) = f
    BY <1>9 DEF f
  <2> QED
    BY <1>1, <1>5, <2>1 DEF Amount
<1>11. ASSUME NEW j, j # i PROVE Amount(new, j) = Amount(inv, j)
  <2>1. CASE SlotOf(inv, j) = 0
    BY <1>9, <2>1 DEF Amount
  <2>2. CASE SlotOf(inv, j) # 0
    <3>1. SlotOf(inv, j) \in DOMAIN inv /\ inv[SlotOf(inv, j)].item = j
      BY <2>2, HasSlot
    <3>2. SlotOf(inv, j) # f
      BY <1>1, <1>11, <3>1
    <3>3. SlotOf(new, j) = SlotOf(inv, j) /\ SlotOf(new, j) # 0
      BY <1>9, <2>2
    <3>4. Amount(new, j) = new[SlotOf(new, j)].amount /\ Amount(inv, j) = inv[SlotOf(inv, j)].amount
      BY <1>8, <2>2, <3>3, HasSlot
    <3> QED
      BY <1>3, <3>1, <3>2, <3>3, <3>4
  <2> QED
    BY <2>1, <2>2
<1> QED
  BY <1>7, <1>8, <1>10, <1>11

\* What PalGoods says of n of each of what that come to an inventory.
Gained(inv, new, what, n) ==
  /\ Len(inv) <= Len(new) /\ Len(new) <= Slots
  /\ Len(new) # Len(inv) => \E i \in what : Amount(inv, i) = 0 /\ Amount(new, i) > 0
  /\ \A i : \/ Amount(new, i) = IF i \in what THEN Least(Amount(inv, i) + n, Cap)
                                ELSE Amount(inv, i)
           \/ /\ i \in what /\ Amount(inv, i) = 0 /\ Amount(new, i) = 0
              /\ Len(new) = Slots

\* PAL_AddItemToInventory with a positive number: only a full array has no room.
LEMMA AddedFacts ==
  ASSUME NEW inv, Sound(inv), Len(inv) <= Slots, NEW i \in Items, NEW n \in 1 .. Cap
  PROVE  /\ Sound(Added(inv, i, n)) /\ Gained(inv, Added(inv, i, n), {i}, n)
         /\ \A j : j # i => Amount(Added(inv, i, n), j) = Amount(inv, j)
<1> USE DEF Gained
<1>0. n \in Nat /\ n > 0 /\ n <= Cap /\ Cap \in Nat
  BY Sizes
<1>1. CASE SlotOf(inv, i) # 0
  <2> DEFINE f == SlotOf(inv, i)
             a == Least(inv[f].amount + n, Cap)
  <2>1. f \in DOMAIN inv /\ Amount(inv, i) = inv[f].amount
    BY <1>1, HasSlot
  <2>2. a \in 0 .. Cap
    <3>1. inv[f].amount \in Nat
      BY <2>1, SlotFacts
    <3> HIDE DEF f
    <3> QED
      BY <1>0, <3>1 DEF Least
  <2>3. Added(inv, i, n) = Written(inv, i, a)
    BY <1>1 DEF Added, Written
  <2> HIDE DEF a
  <2>4. /\ Sound(Added(inv, i, n)) /\ Len(Added(inv, i, n)) = Len(inv)
        /\ Amount(Added(inv, i, n), i) = a
        /\ \A j : j # i => Amount(Added(inv, i, n), j) = Amount(inv, j)
    BY <1>1, <2>2, <2>3, SlotWritten
  <2>5. Amount(Added(inv, i, n), i) = Least(Amount(inv, i) + n, Cap)
    BY <2>1, <2>4 DEF a
  <2>6. Len(inv) \in Nat
    BY SlotFacts
  <2> HIDE DEF f
  <2> QED
    BY <2>4, <2>5, <2>6
<1>2. CASE SlotOf(inv, i) = 0 /\ Len(inv) < Slots
  <2> DEFINE s == [item |-> i, amount |-> Least(n, Cap)]
             new == Append(inv, s)
  <2>1. /\ s \in Slot /\ s.item = i /\ s.amount = n
    BY <1>0 DEF Slot, Least
  <2>0. Len(inv) \in Nat /\ DOMAIN inv = 1 .. Len(inv)
    BY SlotFacts
  <2> HIDE DEF s
  <2>2. /\ new \in Seq(Slot) /\ Len(new) = Len(inv) + 1
        /\ new[Len(inv) + 1] = s /\ \A k \in 1 .. Len(inv) : new[k] = inv[k]
    BY <2>1, AppendProperties DEF Sound
  <2> HIDE DEF new
  <2>3. DOMAIN new = 1 .. Len(inv) + 1
    BY <2>2, LenProperties
  <2>4. \A k \in DOMAIN inv : inv[k].item # i
    BY <1>2, FirstSlot
  <2>5. Sound(new)
    <3>1. ASSUME NEW j \in DOMAIN new, NEW k \in DOMAIN new, j < k, new[j].item = new[k].item
          PROVE  new[k].amount = 0
      <4>0. j \in Int /\ k \in Int /\ j \in 1 .. Len(inv)
        BY <2>0, <2>3, <3>1
      <4>1. k # Len(inv) + 1
        BY <2>0, <2>1, <2>2, <2>4, <3>1, <4>0
      <4>2. k \in 1 .. Len(inv)
        BY <2>0, <2>3, <4>0, <4>1
      <4> QED
        BY <2>0, <2>2, <3>1, <4>0, <4>2 DEF Sound
    <3> QED
      BY <2>2, <3>1 DEF Sound
  <2>6. Amount(new, i) = n
    <3>1. Len(inv) + 1 \in DOMAIN new
      BY <2>0, <2>3
    <3> QED
      BY <1>0, <2>1, <2>2, <2>5, <3>1, FullSlot
  <2>7. ASSUME NEW j, j # i PROVE Amount(new, j) = Amount(inv, j)
    <3>1. ASSUME NEW k \in DOMAIN new, new[k].item = j, new[k].amount # 0
          PROVE  \E l \in DOMAIN inv : inv[l] = new[k]
      <4>1. k # Len(inv) + 1
        BY <2>1, <2>2, <2>7, <3>1
      <4>2. k \in 1 .. Len(inv)
        BY <2>0, <2>3, <4>1
      <4> QED
        BY <2>0, <2>2, <4>2
    <3>2. ASSUME NEW k \in DOMAIN inv, inv[k].item = j, inv[k].amount # 0
          PROVE  \E l \in DOMAIN new : new[l] = inv[k]
      <4>1. k \in DOMAIN new
        BY <2>0, <2>3
      <4> QED
        BY <2>0, <2>2, <4>1
    <3> QED
      BY <2>5, <3>1, <3>2, SameSlots
  <2>8. Added(inv, i, n) = new
    BY <1>2 DEF Added, new, s
  <2>9. Amount(inv, i) = 0
    BY <2>4, NoSlot
  <2>10. Len(new) <= Slots
    BY <1>2, <2>0, <2>2, Sizes
  <2>11. Amount(new, i) = Least(Amount(inv, i) + n, Cap)
    BY <1>0, <2>6, <2>9 DEF Least
  <2>12. Amount(new, i) > 0 /\ Len(inv) <= Len(new)
    BY <1>0, <2>0, <2>2, <2>6
  <2> QED
    BY <2>5, <2>7, <2>8, <2>9, <2>10, <2>11, <2>12
<1>3. CASE SlotOf(inv, i) = 0 /\ ~ (Len(inv) < Slots)
  <2>1. Added(inv, i, n) = inv
    BY <1>3 DEF Added
  <2>2. Amount(inv, i) = 0
    BY <1>3 DEF Amount
  <2>3. Len(inv) \in Nat /\ Len(inv) = Slots
    BY <1>3, SlotFacts, Sizes
  <2> QED
    BY <2>1, <2>2, <2>3
<1> QED
  BY <1>1, <1>2, <1>3

\* PAL_AddItemToInventory with a negative number: no amount goes below 0.
LEMMA RemovedFacts ==
  ASSUME NEW inv, Sound(inv), NEW i, NEW n \in 1 .. Cap
  PROVE  /\ Sound(Removed(inv, i, n)) /\ Len(Removed(inv, i, n)) = Len(inv)
         /\ Amount(Removed(inv, i, n), i)
              = IF Amount(inv, i) < n THEN 0 ELSE Amount(inv, i) - n
         /\ \A j : j # i => Amount(Removed(inv, i, n), j) = Amount(inv, j)
<1>0. n \in Nat /\ n > 0 /\ Cap \in Nat
  BY Sizes
<1>1. CASE SlotOf(inv, i) = 0
  <2>1. Removed(inv, i, n) = inv /\ Amount(inv, i) = 0
    BY <1>1 DEF Removed, Amount
  <2> QED
    BY <1>0, <2>1
<1>2. CASE SlotOf(inv, i) # 0
  <2> DEFINE f == SlotOf(inv, i)
             a == IF inv[f].amount < n THEN 0 ELSE inv[f].amount - n
  <2>1. f \in DOMAIN inv /\ Amount(inv, i) = inv[f].amount
    BY <1>2, HasSlot
  <2>2. a \in 0 .. Cap
    <3>1. inv[f].amount \in Nat /\ inv[f].amount <= Cap
      BY <2>1, SlotFacts
    <3> HIDE DEF f
    <3> QED
      BY <1>0, <3>1
  <2>3. Removed(inv, i, n) = Written(inv, i, a)
    BY <1>2 DEF Removed, Written
  <2> HIDE DEF a
  <2>4. /\ Sound(Removed(inv, i, n)) /\ Len(Removed(inv, i, n)) = Len(inv)
        /\ Amount(Removed(inv, i, n), i) = a
        /\ \A j : j # i => Amount(Removed(inv, i, n), j) = Amount(inv, j)
    BY <1>2, <2>2, <2>3, SlotWritten
  <2> QED
    BY <2>1, <2>4 DEF a
<1> QED
  BY <1>1, <1>2

\* PAL_CompressInventory only drops empty slots.
LEMMA CompressedFacts ==
  ASSUME NEW inv, Sound(inv)
  PROVE  /\ Sound(Compressed(inv)) /\ Len(Compressed(inv)) <= Len(inv)
         /\ \A k \in DOMAIN Compressed(inv) : Compressed(inv)[k].amount > 0
         /\ \A i : Amount(Compressed(inv), i) = Amount(inv, i)
<1> DEFINE keep == {k \in DOMAIN inv : inv[k].amount > 0}
           new == Only(inv, keep)
<1>0. Len(inv) \in Nat /\ DOMAIN inv = 1 .. Len(inv)
  BY SlotFacts
<1>1. /\ keep \in SUBSET (1 .. Len(inv))
      /\ \A k \in keep : k \in DOMAIN inv /\ inv[k] \in Slot /\ inv[k].amount > 0
      /\ \A k \in DOMAIN inv : inv[k].amount # 0 => k \in keep
  <2>1. \A k \in DOMAIN inv : inv[k] \in Slot /\ inv[k].amount \in Nat
    BY SlotFacts
  <2> QED
    BY <1>0, <2>1
<1> HIDE DEF keep
<1>2. new \in Seq(Slot) /\ Len(new) = Cardinality(keep)
  BY <1>0, <1>1, OnlySeq
<1>3. /\ Cardinality(keep) \in 0 .. Len(inv)
      /\ DOMAIN new = 1 .. Cardinality(keep)
      /\ \A m \in 1 .. Cardinality(keep) : At(m, keep) \in keep /\ new[m] = inv[At(m, keep)]
      /\ \A l, m \in 1 .. Cardinality(keep) : l < m => At(l, keep) < At(m, keep)
      /\ \A k \in keep : \E m \in 1 .. Cardinality(keep) : At(m, keep) = k
  <2> DEFINE n == Len(inv)
  <2>1. n \in Nat /\ keep \in SUBSET (1 .. n)
    BY <1>0, <1>1
  <2>2. new = Only(inv, keep)
    OBVIOUS
  <2> HIDE DEF n, new
  <2>3. /\ Cardinality(keep) \in 0 .. n
        /\ DOMAIN Only(inv, keep) = 1 .. Cardinality(keep)
        /\ \A m \in 1 .. Cardinality(keep) :
             At(m, keep) \in keep /\ Only(inv, keep)[m] = inv[At(m, keep)]
        /\ \A l, m \in 1 .. Cardinality(keep) : l < m => At(l, keep) < At(m, keep)
        /\ \A k \in keep : \E m \in 1 .. Cardinality(keep) : At(m, keep) = k
    BY <2>1, OnlyFacts
  <2> QED
    BY <2>2, <2>3 DEF n
<1> HIDE DEF new
<1>4. \A m \in DOMAIN new : new[m].amount > 0 /\ At(m, keep) \in DOMAIN inv
                            /\ new[m] = inv[At(m, keep)]
  BY <1>1, <1>3
<1>5. Sound(new)
  <2>1. ASSUME NEW l \in DOMAIN new, NEW m \in DOMAIN new, l < m, new[l].item = new[m].item
        PROVE  new[m].amount = 0
    <3>1. At(l, keep) < At(m, keep)
      BY <1>3, <2>1
    <3>2. inv[At(m, keep)].amount = 0
      BY <1>4, <2>1, <3>1 DEF Sound
    <3> QED
      BY <1>4, <3>2
  <2> QED
    BY <1>2, <2>1 DEF Sound
<1>6. ASSUME NEW i PROVE Amount(new, i) = Amount(inv, i)
  <2>1. \A k \in DOMAIN new : new[k].item = i /\ new[k].amount # 0
                              => \E l \in DOMAIN inv : inv[l] = new[k]
    BY <1>4
  <2>2. ASSUME NEW k \in DOMAIN inv, inv[k].item = i, inv[k].amount # 0
        PROVE  \E l \in DOMAIN new : new[l] = inv[k]
    <3>1. k \in keep
      BY <1>1, <2>2
    <3>2. PICK m \in 1 .. Cardinality(keep) : At(m, keep) = k
      BY <1>3, <3>1
    <3> QED
      BY <1>3, <3>2
  <2> QED
    BY <1>5, <2>1, <2>2, SameSlots
<1>7. Len(new) <= Len(inv)
  BY <1>0, <1>2, <1>3
<1>8. Compressed(inv) = new
  BY DEF Compressed, new, keep
<1> QED
  BY <1>4, <1>5, <1>6, <1>7, <1>8

\* What the menu of usable items shows besides is empty slots.
LEMMA WornTooFacts ==
  ASSUME party \in Seq(Roles)
  PROVE  WornToo \in Seq(Slot) /\ \A k \in DOMAIN WornToo : WornToo[k].amount = 0
<1> DEFINE n == Len(party) * Len(Body)
           keep == {k \in DOMAIN Worn : Worn[k] \in Usable}
           s == [k \in DOMAIN Worn |-> [item |-> Worn[k], amount |-> 0]]
           Empty == {t \in Slot : t.amount = 0}
<1>1. n \in Nat
  <2>1. Len(party) \in Nat /\ Len(Body) \in Nat
    BY PartyAssumption, LenProperties
  <2> QED
    BY <2>1
<1>2. DOMAIN Worn = 1 .. n
  BY DEF Worn
<1>3. keep \in SUBSET (1 .. n)
  BY <1>2
<1>4. \A k \in keep : s[k] \in Empty
  <2>1. ASSUME NEW k \in keep PROVE [item |-> Worn[k], amount |-> 0] \in Empty
    <3>1. Worn[k] \in Items
      BY PartyAssumption
    <3> QED
      BY <3>1, Sizes DEF Slot
  <2> QED
    BY <2>1
<1>5. WornToo = Only(s, keep)
  BY DEF WornToo
<1> HIDE DEF n, keep, s, Empty
<1>6. WornToo \in Seq(Empty)
  BY <1>1, <1>3, <1>4, <1>5, OnlySeq
<1>7. \A k \in DOMAIN WornToo : WornToo[k] \in Empty
  BY <1>6, ElementOfSeq, LenProperties
<1>8. Len(WornToo) \in Nat /\ WornToo \in [1 .. Len(WornToo) -> Empty]
  BY <1>6, LenProperties
<1>9. WornToo \in Seq(Slot)
  <2>1. WornToo \in [1 .. Len(WornToo) -> Slot]
    BY <1>8 DEF Empty
  <2> QED
    BY <1>8, <2>1, SeqDef
<1> QED
  BY <1>7, <1>9 DEF Empty

LEMMA ShownFacts ==
  ASSUME party \in Seq(Roles), Sound(inventory), Len(inventory) <= Slots, NEW usable \in BOOLEAN
  PROVE  /\ Sound(Shown(usable)) /\ Len(Shown(usable)) <= Slots
         /\ \A i : Amount(Shown(usable), i) = Amount(inventory, i)
         /\ ~ usable => \A k \in DOMAIN Shown(usable) : Shown(usable)[k].amount > 0
<1> DEFINE c == Compressed(inventory)
           w == WornToo
           n == Least(Len(c \o w), Slots)
           new == SubSeq(c \o w, 1, n)
<1>1. /\ Sound(c) /\ Len(c) <= Len(inventory)
      /\ \A k \in DOMAIN c : c[k].amount > 0
      /\ \A i : Amount(c, i) = Amount(inventory, i)
  BY CompressedFacts
<1>2. Len(c) <= Slots /\ Len(c) \in Nat /\ DOMAIN c = 1 .. Len(c) /\ c \in Seq(Slot)
  <2>1. Len(inventory) \in Nat
    BY SlotFacts
  <2>2. Len(c) \in Nat /\ DOMAIN c = 1 .. Len(c)
    BY <1>1, SlotFacts
  <2> QED
    BY <1>1, <2>1, <2>2, Sizes DEF Sound
<1>3. w \in Seq(Slot) /\ Len(w) \in Nat /\ \A k \in 1 .. Len(w) : w[k].amount = 0
  BY WornTooFacts, LenProperties
<1>4. CASE ~ usable
  BY <1>1, <1>2, <1>4 DEF Shown
<1>5. CASE usable
  <2>0. Shown(usable) = new
    BY <1>5 DEF Shown
  <2> HIDE DEF c, w
  <2>1. /\ c \o w \in Seq(Slot) /\ Len(c \o w) = Len(c) + Len(w)
        /\ \A k \in 1 .. Len(c) : (c \o w)[k] = c[k]
        /\ \A k \in Len(c) + 1 .. Len(c) + Len(w) : (c \o w)[k] = w[k - Len(c)]
    BY <1>2, <1>3, ConcatProperties
  <2>2. n \in Nat /\ Len(c) <= n /\ n <= Len(c) + Len(w) /\ n <= Slots
    BY <1>2, <1>3, <2>1, Sizes DEF Least
  <2> HIDE DEF n
  <2>3. new \in Seq(Slot) /\ Len(new) = n /\ \A k \in 1 .. n : new[k] = (c \o w)[k]
    <3>1. \A k \in 1 .. n : (c \o w)[k] \in Slot
      <4>1. ASSUME NEW k \in 1 .. n PROVE k \in 1 .. Len(c \o w)
        <5>1. k \in Int
          BY <2>2
        <5> QED
          BY <1>2, <1>3, <2>1, <2>2, <5>1
      <4> QED
        BY <2>1, <4>1, ElementOfSeq
    <3>2. new = [k \in 1 .. n |-> (c \o w)[k]]
      BY <2>2
    <3>3. new \in [1 .. n -> Slot]
      BY <3>1, <3>2
    <3>4. new \in Seq(Slot)
      BY <2>2, <3>3, SeqDef
    <3> QED
      BY <2>2, <3>2, <3>3, <3>4, LenProperties
  <2> HIDE DEF new
  <2>4. DOMAIN new = 1 .. n
    BY <2>3, LenProperties
  <2>5. \A k \in 1 .. Len(c) : k \in DOMAIN new /\ new[k] = c[k]
    <3>1. ASSUME NEW k \in 1 .. Len(c) PROVE k \in 1 .. n
      <4>1. k \in Int
        BY <1>2
      <4> QED
        BY <1>2, <2>2, <4>1
    <3> QED
      BY <2>1, <2>3, <2>4, <3>1
  <2>6. ASSUME NEW k \in DOMAIN new, k \notin 1 .. Len(c) PROVE new[k].amount = 0
    <3>1. k \in 1 .. n /\ k \in Int
      BY <2>2, <2>4
    <3>2. k \in Len(c) + 1 .. Len(c) + Len(w) /\ k - Len(c) \in 1 .. Len(w)
      BY <1>2, <1>3, <2>2, <2>6, <3>1
    <3> QED
      BY <1>3, <2>1, <2>3, <3>1, <3>2
  <2>7. Sound(new)
    <3>1. ASSUME NEW j \in DOMAIN new, NEW k \in DOMAIN new, j < k, new[j].item = new[k].item,
                 k \in 1 .. Len(c)
          PROVE  new[k].amount = 0
      <4>1. j \in 1 .. Len(c)
        <5>1. j \in Int /\ k \in Int /\ 1 <= j
          BY <2>2, <2>4
        <5> QED
          BY <1>2, <3>1, <5>1
      <4> QED
        BY <1>1, <1>2, <2>5, <3>1, <4>1 DEF Sound
    <3> QED
      BY <2>3, <2>6, <3>1 DEF Sound
  <2>8. ASSUME NEW i PROVE Amount(new, i) = Amount(c, i)
    <3>1. \A k \in DOMAIN new : new[k].item = i /\ new[k].amount # 0
                                => \E l \in DOMAIN c : c[l] = new[k]
      BY <1>2, <2>5, <2>6
    <3>2. \A k \in DOMAIN c : c[k].item = i /\ c[k].amount # 0
                              => \E l \in DOMAIN new : new[l] = c[k]
      BY <1>2, <2>5
    <3> QED
      BY <1>1, <2>7, <3>1, <3>2, SameSlots
  <2> QED
    BY <1>1, <1>5, <2>0, <2>2, <2>3, <2>7, <2>8
<1> QED
  BY <1>4, <1>5

\* What is taken off goes to the inventory piece by piece.
IsRest(rest, inv, gone, n) ==
  rest = [k \in 0 .. n |-> IF k = 0 THEN inv ELSE Added(rest[k - 1], gone[k], 1)]

LEMMA ReturnedRest ==
  ASSUME NEW inv, NEW gone, NEW n \in Nat
  PROVE  \E rest : IsRest(rest, inv, gone, n)
<1> USE DEF IsRest
<1> DEFINE P(m) == \E rest : IsRest(rest, inv, gone, m)
           Bad == {m \in Nat : ~ P(m)}
<1>1. P(0)
  <2> DEFINE r == [k \in 0 .. 0 |-> inv]
  <2>1. r = [k \in 0 .. 0 |-> IF k = 0 THEN inv ELSE Added(r[k - 1], gone[k], 1)]
    <3>1. \A k \in 0 .. 0 : k = 0
      OBVIOUS
    <3> QED
      BY <3>1
  <2> QED
    BY <2>1
<1>2. ASSUME NEW m \in Nat, P(m) PROVE P(m + 1)
  <2>1. PICK g : g = [k \in 0 .. m |-> IF k = 0 THEN inv ELSE Added(g[k - 1], gone[k], 1)]
    BY <1>2
  <2> DEFINE r == [k \in 0 .. m + 1 |-> IF k = m + 1 THEN Added(g[m], gone[m + 1], 1) ELSE g[k]]
  <2>2. ASSUME NEW k \in 0 .. m + 1
        PROVE  r[k] = IF k = 0 THEN inv ELSE Added(r[k - 1], gone[k], 1)
    <3>0. k \in Int
      OBVIOUS
    <3>1. CASE k = m + 1
      <4>1. k - 1 = m /\ m \in 0 .. m + 1 /\ m # m + 1 /\ k # 0
        BY <3>1
      <4>2. r[k - 1] = g[m]
        BY <4>1
      <4> QED
        BY <3>1, <4>1, <4>2
    <3>2. CASE k # m + 1 /\ k # 0
      <4>1. k \in 0 .. m /\ k - 1 \in 0 .. m + 1 /\ k - 1 # m + 1
        BY <3>0, <3>2
      <4>2. r[k] = g[k] /\ r[k - 1] = g[k - 1]
        BY <3>2, <4>1
      <4> HIDE DEF r
      <4>3. g[k] = Added(g[k - 1], gone[k], 1)
        BY <2>1, <3>2, <4>1
      <4> QED
        BY <3>2, <4>2, <4>3
    <3>3. CASE k = 0
      <4>1. k \in 0 .. m /\ k # m + 1
        BY <3>3
      <4>2. r[k] = g[k]
        BY <4>1
      <4> HIDE DEF r
      <4>3. g[k] = inv
        BY <2>1, <3>3, <4>1
      <4> QED
        BY <3>3, <4>2, <4>3
    <3> QED
      BY <3>1, <3>2, <3>3
  <2>3. r = [k \in 0 .. m + 1 |-> r[k]]
    OBVIOUS
  <2> HIDE DEF r
  <2>4. r = [k \in 0 .. m + 1 |-> IF k = 0 THEN inv ELSE Added(r[k - 1], gone[k], 1)]
    BY <2>2, <2>3
  <2> QED
    BY <2>4
<1> HIDE DEF P
<1>3. Bad = {}
  <2> SUFFICES ASSUME Bad # {} PROVE FALSE
    OBVIOUS
  <2>1. Bad \in SUBSET Nat
    OBVIOUS
  <2>2. PICK m \in Bad : \A j \in Bad : m <= j
    <3> HIDE DEF Bad
    <3> QED
      BY <2>1, LeastOf
  <2>3. m \in Nat /\ ~ P(m) /\ m # 0
    BY <1>1
  <2>4. m - 1 \in Nat /\ m - 1 \notin Bad
    BY <2>2, <2>3
  <2>5. P(m - 1)
    BY <2>4
  <2>6. P((m - 1) + 1)
    BY <1>2, <2>4, <2>5
  <2> QED
    BY <2>3, <2>6
<1> QED
  BY <1>3 DEF P

\* One more piece, of which none has come yet.
LEMMA GainedMore ==
  ASSUME NEW inv, NEW old, NEW new, NEW before, NEW g, g \notin before,
         Sound(inv), Sound(old), Sound(new),
         Gained(inv, old, before, 1), Gained(old, new, {g}, 1),
         \A j : j # g => Amount(new, j) = Amount(old, j)
  PROVE  Gained(inv, new, before \union {g}, 1)
<1>0. Len(inv) \in Nat /\ Len(old) \in Nat /\ Len(new) \in Nat
  BY SlotFacts
<1>1. /\ Len(inv) <= Len(new) /\ Len(new) <= Slots
      /\ Amount(old, g) = Amount(inv, g)
  BY <1>0, Sizes DEF Gained
<1>2. ASSUME Len(new) # Len(inv)
      PROVE  \E i \in before \union {g} : Amount(inv, i) = 0 /\ Amount(new, i) > 0
  <2>1. CASE Len(new) # Len(old)
    BY <1>1, <2>1 DEF Gained
  <2>2. CASE Len(new) = Len(old)
    <3>1. PICK i \in before : Amount(inv, i) = 0 /\ Amount(old, i) > 0
      BY <1>2, <2>2 DEF Gained
    <3>2. i # g
      OBVIOUS
    <3>3. Amount(new, i) = Amount(old, i)
      BY <3>2
    <3> QED
      BY <3>1, <3>3
  <2> QED
    BY <2>1, <2>2
<1>3. ASSUME NEW i
      PROVE  \/ Amount(new, i) = IF i \in before \union {g} THEN Least(Amount(inv, i) + 1, Cap)
                                ELSE Amount(inv, i)
             \/ /\ i \in before \union {g} /\ Amount(inv, i) = 0 /\ Amount(new, i) = 0
                /\ Len(new) = Slots
  <2>1. CASE i = g
    BY <1>1, <2>1 DEF Gained
  <2>2. CASE i # g
    <3>1. Amount(new, i) = Amount(old, i)
      BY <2>2
    <3>2. Len(old) = Slots => Len(new) = Slots
      BY <1>0, Sizes DEF Gained
    <3> QED
      BY <2>2, <3>1, <3>2 DEF Gained
  <2> QED
    BY <2>1, <2>2
<1> QED
  BY <1>1, <1>2, <1>3 DEF Gained

LEMMA ReturnedFacts ==
  ASSUME NEW inv, Sound(inv), Len(inv) <= Slots, NEW gone \in Seq(Items),
         \A j, k \in DOMAIN gone : gone[j] = gone[k] => j = k
  PROVE  /\ Sound(Returned(inv, gone))
         /\ Gained(inv, Returned(inv, gone), Contents(gone), 1)
<1> DEFINE n == Len(gone)
           rest == CHOOSE rest : rest = [k \in 0 .. n |-> IF k = 0 THEN inv
                                                         ELSE Added(rest[k - 1], gone[k], 1)]
           Till(k) == {gone[j] : j \in 1 .. k}
           Good(k) == Sound(rest[k]) /\ Gained(inv, rest[k], Till(k), 1)
           Bad == {k \in 0 .. n : ~ Good(k)}
<1>0. n \in Nat /\ DOMAIN gone = 1 .. n
  BY LenProperties
<1>1. rest = [k \in 0 .. n |-> IF k = 0 THEN inv ELSE Added(rest[k - 1], gone[k], 1)]
  <2> HIDE DEF n
  <2>1. \E f : IsRest(f, inv, gone, n)
    BY <1>0, ReturnedRest
  <2>2. rest = CHOOSE f : IsRest(f, inv, gone, n)
    BY DEF IsRest
  <2> HIDE DEF rest
  <2>3. IsRest(rest, inv, gone, n)
    BY <2>1, <2>2
  <2> QED
    BY <2>3 DEF IsRest
<1>2. Returned(inv, gone) = rest[n]
  BY DEF Returned
<1> HIDE DEF n, rest
<1>3. rest[0] = inv /\ \A k \in 1 .. n : rest[k] = Added(rest[k - 1], gone[k], 1)
  <2>1. 0 \in 0 .. n
    BY <1>0
  <2>2. ASSUME NEW k \in 1 .. n PROVE k \in 0 .. n /\ k # 0
    BY <1>0
  <2>3. rest[0] = inv
    BY <1>1, <2>1
  <2>4. ASSUME NEW k \in 1 .. n PROVE rest[k] = Added(rest[k - 1], gone[k], 1)
    BY <1>1, <2>2
  <2> QED
    BY <2>3, <2>4
<1>4. Good(0)
  <2>1. Till(0) = {}
    OBVIOUS
  <2>2. Len(inv) \in Nat
    BY SlotFacts
  <2> QED
    BY <1>3, <2>1, <2>2 DEF Gained
<1>5. ASSUME NEW k \in 1 .. n, Good(k - 1) PROVE Good(k)
  <2> DEFINE g == gone[k]
  <2>0. k \in Int /\ k - 1 \in 0 .. n /\ k \in DOMAIN gone
    BY <1>0
  <2>1. g \in Items
    BY <2>0, ElementOfSeq, <1>0 DEF n
  <2>2. Till(k) = Till(k - 1) \union {g}
    <3>1. ASSUME NEW j \in 1 .. k PROVE j = k \/ j \in 1 .. k - 1
      BY <2>0
    <3>2. ASSUME NEW j \in 1 .. k - 1 PROVE j \in 1 .. k
      BY <2>0
    <3>3. k \in 1 .. k
      BY <2>0
    <3> QED
      BY <3>1, <3>2, <3>3
  <2>3. g \notin Till(k - 1)
    <3>1. ASSUME NEW j \in 1 .. k - 1 PROVE gone[j] # g
      <4>1. j \in DOMAIN gone /\ j # k
        <5>1. j \in Int
          BY <2>0
        <5> QED
          BY <1>0, <2>0, <5>1
      <4> QED
        BY <2>0, <4>1
    <3> QED
      BY <3>1
  <2>4. Sound(rest[k - 1]) /\ Gained(inv, rest[k - 1], Till(k - 1), 1)
    BY <1>5
  <2>5. 1 \in 1 .. Cap
    BY Sizes
  <2> DEFINE old == rest[k - 1]
             new == Added(old, g, 1)
             before == Till(k - 1)
  <2>6. rest[k] = new
    BY <1>3
  <2>7. Sound(old) /\ Gained(inv, old, before, 1)
    BY <2>4
  <2> HIDE DEF g, old, before
  <2>8. Len(old) <= Slots
    BY <2>7 DEF Gained
  <2>9. /\ Sound(new) /\ Gained(old, new, {g}, 1)
        /\ \A j : j # g => Amount(new, j) = Amount(old, j)
    BY <2>1, <2>5, <2>7, <2>8, AddedFacts
  <2>10. g \notin before
    BY <2>3 DEF before
  <2> HIDE DEF new
  <2>11. Gained(inv, new, before \union {g}, 1)
    BY <2>7, <2>9, <2>10, GainedMore
  <2> QED
    BY <2>2, <2>6, <2>9, <2>11 DEF before
<1>7. Contents(gone) = Till(n)
  BY <1>0 DEF Contents
<1>6. Good(n)
  <2> HIDE DEF Good
  <2> SUFFICES ASSUME ~ Good(n) PROVE FALSE
    OBVIOUS
  <2>1. Bad \in SUBSET Nat /\ n \in Bad
    BY <1>0
  <2>2. PICK m \in Bad : \A j \in Bad : m <= j
    <3> HIDE DEF Bad
    <3> QED
      BY <2>1, LeastOf
  <2>3. m \in Nat /\ m <= n /\ ~ Good(m) /\ m # 0
    BY <1>0, <1>4, <2>2
  <2>4. m \in 1 .. n /\ m - 1 \in 0 .. n /\ m - 1 \notin Bad
    BY <1>0, <2>2, <2>3
  <2>5. Good(m - 1)
    BY <2>4
  <2> QED
    BY <1>5, <2>3, <2>4, <2>5
<1> HIDE DEF Till
<1> QED
  BY <1>2, <1>6, <1>7

-----------------------------------------------------------------------------
(* The lists of poisons.                                                   *)

Lists == [1 .. PoisonSlots -> Poisons \union {None}]

\* Uncursed leaves nothing of the curse's level, at any place of the list.
LEMMA UncursedFacts ==
  ASSUME NEW list \in Lists
  PROVE  /\ Uncursed(list) \in Lists
         /\ \A k \in 1 .. PoisonSlots :
              Uncursed(list)[k] # None => Level[Uncursed(list)[k]] < CurseLevel
<1> DEFINE keep == {k \in 1 .. PoisonSlots :
                      (\A j \in 1 .. k : list[j] # None) /\ Level[list[k]] < CurseLevel}
           Mild == {p \in Poisons : Level[p] < CurseLevel}
<1>1. ASSUME NEW k \in keep PROVE list[k] \in Mild
  <2>1. k \in 1 .. k
    BY Sizes
  <2> QED
    BY <2>1 DEF Lists
<1>2. keep \in SUBSET (1 .. PoisonSlots) /\ PoisonSlots \in Nat
  BY Sizes
<1>3. Remaining(list) = Only(list, keep)
  BY DEF Remaining
<1> HIDE DEF keep, Mild
<1>4. Remaining(list) \in Seq(Mild)
  BY <1>1, <1>2, <1>3, OnlySeq
<1>5. ASSUME NEW k \in 1 .. PoisonSlots PROVE Uncursed(list)[k] \in Mild \union {None}
  <2>1. CASE k <= Len(Remaining(list))
    <3>1. k \in 1 .. Len(Remaining(list))
      <4>1. Len(Remaining(list)) \in Nat /\ k \in Int
        BY <1>2, <1>4, LenProperties
      <4> QED
        BY <2>1, <4>1
    <3>2. Remaining(list)[k] \in Mild
      BY <1>4, <3>1, ElementOfSeq
    <3> QED
      BY <2>1, <3>2 DEF Uncursed
  <2>2. CASE ~ (k <= Len(Remaining(list)))
    BY <2>2 DEF Uncursed
  <2> QED
    BY <2>1, <2>2
<1>6. Uncursed(list) = [k \in 1 .. PoisonSlots |-> Uncursed(list)[k]]
  BY DEF Uncursed
<1> QED
  BY <1>5, <1>6 DEF Mild, Lists

LEMMA PoisonedFacts ==
  ASSUME NEW list \in Lists
  PROVE  /\ \A p \in Poisons : Poisoned(list, p) \in Lists
         /\ \A cured : Cured(list, cured) \in Lists
BY DEF Poisoned, Cured, Lists

-----------------------------------------------------------------------------
(* The types of PalParty with what makes its inventory sound.              *)

Stored == Sound(inventory) /\ Len(inventory) <= Slots

Dressed == /\ worn \in [Roles -> [Parts -> Items \union {None}]]
           /\ \A r \in Roles, p \in Parts : worn[r][p] # None => Part[worn[r][p]] = p

Sick == party \in Parties /\ poisons \in [Members -> Lists]

Purse == cash \in 0 .. CashBound

Wearing == wearing \in {i \in Items : Part[i] # None} \union {None}

PInv == Stored /\ Dressed /\ Sick /\ Purse /\ Wearing

LEMMA PInvTypes == PInv => PartyTypeOK
<1> SUFFICES ASSUME PInv PROVE PartyTypeOK
  OBVIOUS
<1>1. \A r \in Roles, p \in Parts : worn[r][p] \in Fitting(p)
  BY DEF PInv, Dressed, Fitting
<1> QED
  BY <1>1 DEF PInv, Stored, Dressed, Sick, Purse, Wearing, Sound, Slot, Lists, PartyTypeOK

LEMMA MembersAreRoles ==
  ASSUME Sick
  PROVE  /\ party \in Seq(Roles) /\ Contents(party) \subseteq Roles
         /\ \A m \in Members : party[m] \in Roles
<1>1. party \in Seq(Roles)
  BY PartyAssumption DEF Sick
<1>2. \A m \in Members : party[m] \in Roles
  BY <1>1, ElementOfSeq DEF Members
<1> QED
  BY <1>1, <1>2, LenProperties DEF Contents, Members

\* Nothing in a part of PInv but the variables it names.
LEMMA Frames ==
  /\ Stored /\ UNCHANGED inventory => Stored'
  /\ Dressed /\ UNCHANGED worn => Dressed'
  /\ Sick /\ UNCHANGED <<party, poisons>> => Sick'
  /\ Purse /\ UNCHANGED cash => Purse'
  /\ Wearing /\ UNCHANGED wearing => Wearing'
BY DEF Stored, Dressed, Sick, Purse, Wearing, Sound, Members

LEMMA RemovedEffect ==
  ASSUME Sick, UNCHANGED party, NEW who, NEW parts, RemoveEquipmentEffect(who, parts)
  PROVE  /\ Sick'
         /\ \A m \in Members : party[m] \in who /\ Wear \in parts
              => \A k \in 1 .. PoisonSlots :
                   poisons'[m][k] # None => Level[poisons'[m][k]] < CurseLevel
<1>1. poisons' = [m \in Members |-> IF party[m] \in who /\ Wear \in parts
                                    THEN Uncursed(poisons[m]) ELSE poisons[m]]
  BY DEF RemoveEquipmentEffect
<1>2. \A m \in Members : poisons[m] \in Lists
  BY DEF Sick
<1>3. \A m \in Members : poisons'[m] \in Lists
  BY <1>1, <1>2, UncursedFacts
<1>4. poisons' \in [Members -> Lists]
  <2>1. poisons' = [m \in Members |-> poisons'[m]]
    BY <1>1
  <2> QED
    BY <1>3, <2>1
<1>5. Sick'
  BY <1>4 DEF Sick, Members
<1> QED
  BY <1>1, <1>2, <1>5, UncursedFacts

LEMMA InitPInv == PartyInit => PInv
<1> SUFFICES ASSUME PartyInit PROVE PInv
  OBVIOUS
<1>1. Stored
  <2>1. inventory = <<>> /\ inventory \in Seq(Slot) /\ Len(inventory) = 0 /\ DOMAIN inventory = {}
    BY EmptySeq, LenProperties DEF PartyInit
  <2> QED
    BY <2>1, Sizes DEF Stored, Sound
<1>2. Dressed
  BY DEF PartyInit, Dressed, Fitting
<1>3. Sick
  BY PartyAssumption DEF PartyInit, Sick, Healthy, Lists
<1>4. Purse
  BY Sizes DEF PartyInit, Purse
<1> QED
  BY <1>1, <1>2, <1>3, <1>4 DEF PInv, PartyInit, Wearing

-----------------------------------------------------------------------------
(* Each command keeps PInv, and does in PalGoods what it is to do.         *)

Carried(inv) == [i \in Items |-> Amount(inv, i)]

GoodsSame == UNCHANGED <<held, used, worn, party, cash, loose>>

\* Whoever changes clothes in a step is left without a curse by it.
Uncursing ==
  \A m \in Members :
    worn'[party[m]][Wear] # worn[party[m]][Wear] =>
      \A k \in 1 .. PoisonSlots :
        poisons'[m][k] # None => Level[poisons'[m][k]] < CurseLevel

LEMMA GainedIsGain ==
  ASSUME NEW inv, Sound(inv), Sound(inventory'), NEW what \in SUBSET Items, NEW n,
         Gained(inv, inventory', what, n), NEW h, h = Carried(inv), used = Len(inv)
  PROVE  Goods!Gain(h, what, n)
<1>1. held' = Carried(inventory') /\ used' = Len(inventory')
  BY DEF held, used, Carried
<1>2. used' \in used .. Slots
  BY <1>1, SlotFacts, Sizes DEF Gained
<1>3. held' \in [Items -> 0 .. Cap]
  BY <1>1, AmountType DEF Carried
<1>4. used' # used => \E i \in what : h[i] = 0 /\ held'[i] > 0
  BY <1>1 DEF Gained, Carried
<1>5. ASSUME NEW i \in Items
      PROVE  \/ held'[i] = IF i \in what THEN Goods!Least(h[i] + n, Cap) ELSE h[i]
             \/ i \in what /\ h[i] = 0 /\ held'[i] = 0 /\ used' = Slots
  <2>1. held'[i] = Amount(inventory', i) /\ h[i] = Amount(inv, i)
    BY <1>1 DEF Carried
  <2> QED
    BY <1>1, <2>1 DEF Gained, Least, Goods!Least
<1> QED
  BY <1>2, <1>3, <1>4, <1>5 DEF Goods!Gain

LEMMA CarriedRemoved ==
  ASSUME NEW inv, Sound(inv), NEW i \in Items, NEW n \in 1 .. Cap
  PROVE  Carried(Removed(inv, i, n)) = Goods!Without(Carried(inv), i, n)
<1> DEFINE h == Carried(inv)
           g == Carried(Removed(inv, i, n))
<1>1. /\ g[i] = IF h[i] < n THEN 0 ELSE h[i] - n
      /\ \A j \in Items : j # i => g[j] = h[j]
  BY RemovedFacts DEF Carried
<1>2. h = [j \in Items |-> h[j]] /\ g = [j \in Items |-> g[j]]
  BY DEF Carried
<1>3. h[i] \in Nat /\ n \in Nat
  BY AmountType, Sizes DEF Carried
<1> HIDE DEF h, g
<1>4. g[i] = Goods!Most(h[i] - n, 0)
  BY <1>1, <1>3 DEF Goods!Most
<1>5. g = [h EXCEPT ![i] = Goods!Most(@ - n, 0)]
  BY <1>1, <1>2, <1>4
<1> QED
  BY <1>5 DEF Goods!Without, h, g

LEMMA HeldFacts ==
  /\ held = Carried(inventory) /\ held' = Carried(inventory')
  /\ used = Len(inventory) /\ used' = Len(inventory')
  /\ Closed => loose = None
  /\ wearing' = None => loose' = None
  /\ Stored => \A i \in Items : held[i] \in 0 .. Cap /\ held[i] \in Nat
BY AmountType DEF held, used, Carried, loose, Closed, Stored

\* How many slots are in use is a number up to Slots.
LEMMA UsedFacts ==
  ASSUME Stored'
  PROVE  used' \in 0 .. Slots
<1>1. Sound(inventory') /\ Len(inventory') <= Slots
  BY DEF Stored, Sound
<1> QED
  BY <1>1, SlotFacts, Sizes DEF used

\* Inventories that hold the same of every item are the same to PalGoods.
LEMMA SameCarried ==
  ASSUME NEW a, NEW b, \A i : Amount(a, i) = Amount(b, i)
  PROVE  Carried(a) = Carried(b)
BY DEF Carried

\* A step that leaves what is held, worn and loose alone.
LEMMA Quiet ==
  ASSUME UNCHANGED <<inventory, worn, party, cash, wearing>>
  PROVE  GoodsSame
BY DEF GoodsSame, held, used, loose

LEMMA BuyItemStep ==
  ASSUME PInv, BuyItem
  PROVE  PInv' /\ Goods!Buy
<1> USE DEF PInv
<1>1. PICK i \in Items : inventory' = Added(inventory, i, 1)
  BY DEF BuyItem
<1>2. Sound(inventory) /\ Len(inventory) <= Slots /\ 1 \in 1 .. Cap
  BY Sizes DEF Stored
<1>3. Sound(inventory') /\ Gained(inventory, inventory', {i}, 1)
  BY <1>1, <1>2, AddedFacts
<1>4. Stored'
  BY <1>3 DEF Stored, Sound, Gained
<1>5. Purse'
  BY Sizes DEF Purse, BuyItem
<1>6. PInv'
  BY <1>4, <1>5, Frames DEF BuyItem
<1>7. Goods!Gain(held, {i}, 1)
  BY <1>2, <1>3, GainedIsGain, HeldFacts
<1>8. loose' = loose
  BY HeldFacts DEF BuyItem, Closed
<1>9. Goods!Buy
  BY <1>7, <1>8 DEF Goods!Buy, BuyItem
<1> QED
  BY <1>6, <1>9

LEMMA SellItemStep ==
  ASSUME PInv, SellItem
  PROVE  PInv' /\ Goods!Sell
<1> USE DEF PInv
<1> DEFINE shown == Shown(FALSE)
<1>1. PICK i \in {s.item : s \in Contents(shown)} :
        /\ inventory' = Removed(shown, i, 1)
        /\ cash' = IF Enough(shown, i, 1) THEN cash + Price \div 2 ELSE cash
  BY DEF SellItem
<1>2. /\ Sound(shown) /\ Len(shown) <= Slots
      /\ \A j : Amount(shown, j) = Amount(inventory, j)
      /\ \A k \in DOMAIN shown : shown[k].amount > 0
  BY MembersAreRoles, ShownFacts DEF Stored
<1> HIDE DEF shown
<1>3. PICK k \in DOMAIN shown : shown[k].item = i
  BY <1>1 DEF Contents
<1>4. shown[k].amount \in Nat /\ shown[k].amount > 0 /\ i \in Items /\ k \in Nat \ {0}
  BY <1>2, <1>3, SlotFacts
<1>5. SlotOf(shown, i) = k /\ Amount(shown, i) = shown[k].amount
  BY <1>2, <1>3, <1>4, FullSlot
<1>6. Enough(shown, i, 1)
  BY <1>4, <1>5 DEF Enough
<1>0. 1 \in 1 .. Cap
  BY Sizes
<1>7. Stored'
  <2>1. Sound(Removed(shown, i, 1)) /\ Len(Removed(shown, i, 1)) = Len(shown)
    BY <1>0, <1>2, RemovedFacts
  <2>2. Sound(inventory') /\ Len(inventory') <= Slots
    BY <1>1, <1>2, <2>1
  <2> QED
    BY <2>2 DEF Stored, Sound
<1>8. Purse'
  <2>1. cash' = cash + Price \div 2 /\ cash' <= CashBound
    BY <1>1, <1>6 DEF SellItem
  <2>2. Price \div 2 \in Nat
    BY Sizes
  <2> QED
    BY <2>1, <2>2, Sizes DEF Purse
<1>9. PInv'
  BY <1>7, <1>8, Frames DEF SellItem
<1>10. held' = Goods!Without(held, i, 1)
  BY <1>0, <1>1, <1>2, <1>4, CarriedRemoved, SameCarried, HeldFacts
<1>11. held[i] > 0
  BY <1>2, <1>4, <1>5 DEF held
<1>12. Goods!Sell
  <2>1. loose' = loose
    BY HeldFacts DEF SellItem, Closed
  <2>2. cash' = cash + Price \div 2 /\ worn' = worn /\ party' = party
    BY <1>1, <1>6 DEF SellItem
  <2> QED
    BY <1>4, <1>7, <1>10, <1>11, <2>1, <2>2, UsedFacts DEF Goods!Sell
<1> QED
  BY <1>9, <1>12

LEMMA UseItemStep ==
  ASSUME PInv, UseItem
  PROVE  PInv' /\ (Goods!Tidy \/ Goods!Use)
<1> USE DEF PInv
<1> DEFINE shown == Shown(TRUE)
<1>2. /\ Sound(shown) /\ Len(shown) <= Slots
      /\ \A j : Amount(shown, j) = Amount(inventory, j)
  BY MembersAreRoles, ShownFacts DEF Stored
<1>3. \/ inventory' = shown
      \/ \E i \in Usable : inventory' = Removed(shown, i, 1)
  BY DEF UseItem
<1>4. /\ UNCHANGED <<worn, poisons, party, cash, wearing>>
      /\ loose' = loose
  BY HeldFacts DEF UseItem, Closed
<1> HIDE DEF shown
<1>0. 1 \in 1 .. Cap
  BY Sizes
<1>5. CASE inventory' = shown
  <2>1. Stored'
    BY <1>2, <1>5 DEF Stored, Sound
  <2>2. held' = held
    BY <1>2, <1>5, SameCarried, HeldFacts
  <2> QED
    BY <1>4, <2>1, <2>2, Frames, UsedFacts DEF Goods!Tidy
<1>6. ASSUME NEW i \in Usable, inventory' = Removed(shown, i, 1)
      PROVE  PInv' /\ Goods!Use
  <2>0. i \in Items
    BY PartyAssumption
  <2>1. Sound(Removed(shown, i, 1)) /\ Len(Removed(shown, i, 1)) = Len(shown)
    BY <1>0, <1>2, RemovedFacts
  <2>2. Sound(inventory') /\ Len(inventory') <= Slots
    BY <1>2, <1>6, <2>1
  <2>3. Stored'
    BY <2>2 DEF Stored, Sound
  <2>4. held' = Goods!Without(held, i, 1)
    BY <1>0, <1>2, <1>6, <2>0, CarriedRemoved, SameCarried, HeldFacts
  <2>5. Goods!Use
    BY <1>4, <2>0, <2>3, <2>4, UsedFacts DEF Goods!Use
  <2> QED
    BY <1>4, <2>3, <2>5, Frames
<1> QED
  BY <1>3, <1>5, <1>6

LEMMA OpenEquipMenuStep ==
  ASSUME PInv, OpenEquipMenu
  PROVE  PInv' /\ Goods!Tidy
<1> USE DEF PInv
<1> DEFINE shown == Shown(FALSE)
<1>1. inventory' = shown /\ Closed /\ UNCHANGED <<worn, poisons, party, cash>>
  BY DEF OpenEquipMenu
<1>2. /\ Sound(shown) /\ Len(shown) <= Slots
      /\ \A j : Amount(shown, j) = Amount(inventory, j)
      /\ \A k \in DOMAIN shown : shown[k].amount > 0
  BY MembersAreRoles, ShownFacts DEF Stored
<1> HIDE DEF shown
<1>3. PICK k \in DOMAIN shown : Part[shown[k].item] # None /\ wearing' = shown[k].item
  BY <1>1 DEF OpenEquipMenu, Contents
<1>4. shown[k].amount \in Nat /\ shown[k].amount > 0 /\ shown[k].item \in Items
  BY <1>2, SlotFacts
<1>5. Amount(shown, shown[k].item) # 0
  BY <1>2, <1>4, FullSlot
<1>6. Stored' /\ Wearing'
  BY <1>1, <1>2, <1>3, <1>4 DEF Stored, Sound, Wearing
<1>7. PInv'
  BY <1>1, <1>6, Frames
<1>8. held' = held
  BY <1>1, <1>2, SameCarried, HeldFacts
<1>9. held'[wearing'] # 0
  BY <1>1, <1>3, <1>4, <1>5, HeldFacts DEF Carried
<1>10. loose' = None /\ loose = None
  BY <1>1, <1>9, HeldFacts DEF loose
<1> QED
  BY <1>1, <1>6, <1>7, <1>8, <1>10, UsedFacts DEF Goods!Tidy

LEMMA CloseEquipMenuStep ==
  ASSUME PInv, CloseEquipMenu
  PROVE  PInv' /\ Goods!Leave
<1> USE DEF PInv
<1>1. PInv'
  BY Frames DEF CloseEquipMenu, Wearing
<1>2. Goods!Leave
  BY HeldFacts DEF CloseEquipMenu, Goods!Leave, Carried
<1> QED
  BY <1>1, <1>2

\* Putting on the piece that lies loose, or that is carried.
LEMMA EquipStep ==
  ASSUME PInv, Equip
  PROVE  PInv' /\ (Goods!PutOn \/ GoodsSame)
<1> USE DEF PInv
<1> DEFINE part == Part[wearing]
           taken == Removed(inventory, wearing, 1)
<1>1. PICK r \in Contents(party) :
        /\ RemoveEquipmentEffect({r}, {part})
        /\ worn' = [worn EXCEPT ![r][part] = wearing]
        /\ IF worn[r][part] = wearing THEN UNCHANGED <<inventory, wearing>>
           ELSE /\ inventory' = Swapped(inventory, worn[r][part], wearing)
                /\ wearing' = worn[r][part]
  BY DEF Equip
<1> DEFINE old == worn[r][part]
<1>2. /\ wearing \in Items /\ part # None /\ part \in Parts /\ r \in Roles
      /\ UNCHANGED <<party, cash>>
  BY MembersAreRoles, PartyAssumption DEF Equip, Closed, Wearing
<1>3. Sound(inventory) /\ Len(inventory) <= Slots /\ 1 \in 1 .. Cap
  BY Sizes DEF Stored
<1>4. old \in Items \union {None} /\ (old # None => Part[old] = part)
  BY <1>2 DEF Dressed
<1>5. Dressed'
  <2>1. worn' \in [Roles -> [Parts -> Items \union {None}]]
    BY <1>1, <1>2 DEF Dressed
  <2>2. ASSUME NEW q \in Roles, NEW p \in Parts, worn'[q][p] # None
        PROVE  Part[worn'[q][p]] = p
    <3>1. CASE q = r /\ p = part
      <4>1. worn'[q][p] = wearing
        BY <1>1, <1>2, <3>1 DEF Dressed
      <4> QED
        BY <3>1, <4>1
    <3>2. CASE ~ (q = r /\ p = part)
      <4>1. worn'[q][p] = worn[q][p]
        BY <1>1, <1>2, <3>2 DEF Dressed
      <4> QED
        BY <2>2, <4>1 DEF Dressed
    <3> QED
      BY <3>1, <3>2
  <2> QED
    BY <2>1, <2>2 DEF Dressed
<1>6. Sick'
  BY <1>1, <1>2, RemovedEffect
<1>7. Sound(taken) /\ Len(taken) <= Slots /\ Len(taken) = used
      /\ Carried(taken) = Goods!Without(held, wearing, 1)
  <2>1. Sound(taken) /\ Len(taken) = Len(inventory)
    BY <1>2, <1>3, RemovedFacts
  <2>2. Carried(taken) = Goods!Without(Carried(inventory), wearing, 1)
    BY <1>2, <1>3, CarriedRemoved
  <2> QED
    BY <1>3, <2>1, <2>2, HeldFacts
<1> HIDE DEF taken, part, old
<1>8. CASE old = wearing
  <2>1. UNCHANGED <<inventory, wearing>>
    BY <1>1, <1>8 DEF part, old
  <2>2. worn' = worn
    <3>1. worn' = [worn EXCEPT ![r] = [@ EXCEPT ![part] = wearing]]
      BY <1>1 DEF part
    <3>2. [worn[r] EXCEPT ![part] = wearing] = worn[r]
      BY <1>2, <1>8 DEF Dressed, old
    <3> QED
      BY <1>2, <3>1, <3>2 DEF Dressed
  <2>3. GoodsSame
    BY <1>2, <2>1, <2>2, Quiet
  <2> QED
    BY <1>2, <1>5, <1>6, <2>1, <2>3, Frames
<1>9. CASE old # wearing
  <2>1. inventory' = Swapped(inventory, old, wearing) /\ wearing' = old
    BY <1>1, <1>9 DEF part, old
  <2>2. /\ Sound(inventory') /\ Len(inventory') <= Slots
        /\ IF old = None THEN held' = Goods!Without(held, wearing, 1) /\ used' = used
           ELSE Goods!Gain(Goods!Without(held, wearing, 1), {old}, 1)
    <3>1. CASE old = None
      <4>1. inventory' = taken
        BY <2>1, <3>1 DEF Swapped, taken
      <4>2. held' = Goods!Without(held, wearing, 1) /\ used' = used
        BY <1>7, <4>1, HeldFacts
      <4> QED
        BY <1>7, <3>1, <4>1, <4>2
    <3>2. CASE old # None
      <4>1. inventory' = Added(taken, old, 1) /\ old \in Items
        BY <1>4, <2>1, <3>2 DEF Swapped, taken
      <4>2. Sound(inventory') /\ Gained(taken, inventory', {old}, 1)
        BY <1>3, <1>7, <4>1, AddedFacts
      <4>3. Goods!Gain(Goods!Without(held, wearing, 1), {old}, 1)
        BY <1>7, <4>1, <4>2, GainedIsGain
      <4> QED
        BY <3>2, <4>2, <4>3 DEF Gained
    <3> QED
      BY <3>1, <3>2
  <2>3. Stored'
    BY <2>2 DEF Stored, Sound
  <2>4. Wearing'
    BY <1>2, <1>4, <2>1 DEF Wearing
  <2>5. PInv'
    BY <1>2, <1>5, <1>6, <2>3, <2>4, Frames
  <2>6. held[wearing] > 0 \/ loose = wearing
    <3>1. held[wearing] \in Nat
      BY <1>2, HeldFacts
    <3>2. held[wearing] = 0 => loose = wearing
      BY DEF loose, Equip, Closed
    <3> QED
      BY <3>1, <3>2
  <2>7. loose' = IF old # None /\ held'[old] = 0 THEN old ELSE None
    BY <2>1 DEF loose
  <2>8. Goods!PutOn
    <3>1. r \in Roles /\ wearing \in {j \in Items : Part[j] # None}
      BY <1>2 DEF part
    <3> QED
      BY <1>1, <1>2, <1>9, <2>2, <2>6, <2>7, <3>1 DEF Goods!PutOn, part, old
  <2> QED
    BY <2>5, <2>8
<1> QED
  BY <1>8, <1>9

LEMMA ReceiveItemStep ==
  ASSUME PInv, ReceiveItem
  PROVE  PInv' /\ (Goods!Receive \/ Goods!Lose)
<1> USE DEF PInv
<1>1. PICK i \in Items, n \in -Cap .. Cap :
        inventory' = IF n < 0 THEN Removed(inventory, i, -n)
                     ELSE Added(inventory, i, IF n = 0 THEN 1 ELSE n)
  BY DEF ReceiveItem
<1>2. Sound(inventory) /\ Len(inventory) <= Slots
  BY DEF Stored
<1>3. UNCHANGED <<worn, poisons, party, cash, wearing>> /\ loose' = loose
  BY HeldFacts DEF ReceiveItem, Closed
<1>4. CASE n < 0
  <2> DEFINE m == -n
  <2>1. m \in 1 .. Cap
    BY <1>4, Sizes
  <2> HIDE DEF m
  <2>2. inventory' = Removed(inventory, i, m)
    BY <1>1, <1>4 DEF m
  <2>3. Sound(inventory') /\ Len(inventory') = Len(inventory)
    BY <1>2, <2>1, <2>2, RemovedFacts
  <2>4. Stored'
    BY <1>2, <2>3 DEF Stored, Sound
  <2>5. held' = Goods!Without(held, i, m) /\ used' = used
    BY <1>2, <2>1, <2>2, <2>3, CarriedRemoved, HeldFacts
  <2>6. Goods!Lose
    BY <1>3, <2>1, <2>5 DEF Goods!Lose
  <2> QED
    BY <1>3, <2>4, <2>6, Frames
<1>5. CASE ~ (n < 0)
  <2> DEFINE m == IF n = 0 THEN 1 ELSE n
  <2>1. m \in 1 .. Cap
    BY <1>5, Sizes
  <2>2. inventory' = Added(inventory, i, m)
    BY <1>1, <1>5
  <2> HIDE DEF m
  <2>3. Sound(inventory') /\ Gained(inventory, inventory', {i}, m)
    BY <1>2, <2>1, <2>2, AddedFacts
  <2>4. Stored'
    BY <2>3 DEF Stored, Sound, Gained
  <2>5. Goods!Gain(held, {i}, m)
    BY <1>2, <2>3, GainedIsGain, HeldFacts
  <2>6. Goods!Receive
    BY <1>3, <2>1, <2>5 DEF Goods!Receive
  <2> QED
    BY <1>3, <2>4, <2>6, Frames
<1> QED
  BY <1>4, <1>5

LEMMA ChangeCashStep ==
  ASSUME PInv, ChangeCash
  PROVE  PInv' /\ Goods!Pay
<1> USE DEF PInv
<1>1. cash \in Nat /\ CashBound \in Nat
  BY Sizes DEF Purse
<1>2. cash' \in Nat
  <2>1. CASE \E n \in -CashBound .. CashBound : ~ (n < 0 /\ cash < -n) /\ cash' = cash + n
    BY <1>1, <2>1
  <2>2. CASE cash' = cash - Least(cash, MostSpent)
    BY <1>1, <2>2 DEF Least, MostSpent
  <2>3. CASE cash' = cash \div 2
    BY <1>1, <2>3
  <2> QED
    BY <2>1, <2>2, <2>3 DEF ChangeCash
<1>3. Purse'
  BY <1>1, <1>2 DEF ChangeCash, Purse
<1>4. PInv'
  BY <1>3, Frames DEF ChangeCash
<1>5. held' = held /\ used' = used /\ loose' = loose
  BY DEF ChangeCash, held, used, loose
<1>6. Goods!Pay
  BY <1>2, <1>5 DEF Goods!Pay, ChangeCash
<1> QED
  BY <1>4, <1>6

LEMMA GiveItemUpStep ==
  ASSUME PInv, GiveItemUp
  PROVE  PInv' /\ Goods!GiveUp /\ Uncursing
<1> USE DEF PInv
<1>1. PICK i \in Items, n \in 1 .. Cap :
        LET wearers == {m \in Members : \E p \in Parts : worn[party[m]][p] = i}
            bared == IF Enough(inventory, i, n) THEN {}
                     ELSE {party[m] : m \in {m \in wearers : Rank(m, wearers) <= n}}
        IN  /\ inventory' = Removed(inventory, i, n)
            /\ worn' = [r \in Roles |-> [p \in Parts |->
                          IF r \in bared /\ worn[r][p] = i THEN None ELSE worn[r][p]]]
            /\ RemoveEquipmentEffect(bared, {Part[i]})
  BY Zenon DEF GiveItemUp
<1> DEFINE wearers == {m \in Members : \E p \in Parts : worn[party[m]][p] = i}
           givers == {party[m] : m \in {m \in wearers : Rank(m, wearers) <= n}}
           bared == IF Enough(inventory, i, n) THEN {} ELSE givers
<1>2. /\ inventory' = Removed(inventory, i, n)
      /\ worn' = [r \in Roles |-> [p \in Parts |->
                    IF r \in bared /\ worn[r][p] = i THEN None ELSE worn[r][p]]]
      /\ RemoveEquipmentEffect(bared, {Part[i]})
  BY <1>1
<1>0. Enough(inventory, i, n) => bared = {}
  OBVIOUS
<1>00. ~ Enough(inventory, i, n) => bared = givers
  OBVIOUS
<1> HIDE DEF bared, givers
<1>3. UNCHANGED <<party, cash, wearing>> /\ loose' = loose
  BY HeldFacts DEF GiveItemUp, Closed
<1>4. Sound(inventory) /\ Len(inventory) <= Slots
  BY DEF Stored
<1>5. Stored'
  <2>1. Sound(Removed(inventory, i, n)) /\ Len(Removed(inventory, i, n)) = Len(inventory)
    BY <1>4, RemovedFacts
  <2>2. Sound(inventory') /\ Len(inventory') <= Slots
    BY <1>2, <1>4, <2>1
  <2> QED
    BY <2>2 DEF Stored, Sound
<1>6. \A r \in Roles, p \in Parts :
        worn'[r][p] = IF r \in bared /\ worn[r][p] = i THEN None ELSE worn[r][p]
  BY <1>2
<1>7. worn' \in [Roles -> [Parts -> Items \union {None}]]
  <2>1. worn' = [r \in Roles |-> [p \in Parts |-> worn'[r][p]]]
    BY <1>2
  <2>2. \A r \in Roles, p \in Parts : worn'[r][p] \in Items \union {None}
    BY <1>6 DEF Dressed
  <2> QED
    BY <2>1, <2>2
<1>8. Dressed'
  BY <1>6, <1>7 DEF Dressed
<1>9. Sick'
  BY <1>2, <1>3, RemovedEffect
<1>10. PInv'
  BY <1>3, <1>5, <1>8, <1>9, Frames
<1>11. held' = Goods!Without(held, i, n)
  BY <1>2, <1>4, CarriedRemoved, HeldFacts
<1>12. Enough(inventory, i, n) <=> held[i] >= n
  <2>1. Amount(inventory, i) \in Nat /\ n \in Nat /\ n > 0
    BY <1>4, AmountType, Sizes
  <2>2. SlotOf(inventory, i) = 0 => Amount(inventory, i) = 0
    BY DEF Amount
  <2>3. held[i] = Amount(inventory, i)
    BY DEF held
  <2> QED
    BY <2>1, <2>2, <2>3 DEF Enough
<1>13. worn' = IF held[i] >= n THEN worn
               ELSE [r \in Roles |-> [p \in Parts |->
                       IF r \in givers /\ worn[r][p] = i THEN None ELSE worn[r][p]]]
  <2>1. CASE Enough(inventory, i, n)
    <3>1. \A r \in Roles, p \in Parts : worn'[r][p] = worn[r][p]
      BY <1>0, <1>6, <2>1
    <3>2. worn' = worn
      BY <1>7, <3>1 DEF Dressed
    <3> QED
      BY <1>12, <2>1, <3>2
  <2>2. CASE ~ Enough(inventory, i, n)
    BY <1>00, <1>2, <1>12, <2>2
  <2> QED
    BY <2>1, <2>2
<1>14. Goods!GiveUp
  <2>1. DOMAIN party = Members
    BY MembersAreRoles, LenProperties DEF Members
  <2>2. used' = used
    BY <1>2, <1>4, RemovedFacts, HeldFacts
  <2>3. \A S : Goods!Cardinality(S) = Cardinality(S)
    BY DEF Cardinality, Goods!Cardinality
  <2>4. LET w == {m \in DOMAIN party : \E p \in Parts : worn[party[m]][p] = i}
            g == {party[m] : m \in {m \in w : Goods!Cardinality({j \in w : j <= m}) <= n}}
        IN  /\ held' = Goods!Without(held, i, n)
            /\ worn' = IF held[i] >= n THEN worn
                       ELSE [r \in Roles |-> [p \in Parts |->
                               IF r \in g /\ worn[r][p] = i THEN None ELSE worn[r][p]]]
    BY <1>11, <1>13, <2>1, <2>3 DEF givers, Rank
  <2> QED
    BY <1>3, <2>2, <2>4, Zenon DEF Goods!GiveUp
<1>15. ASSUME NEW m \in Members, worn'[party[m]][Wear] # worn[party[m]][Wear],
              NEW k \in 1 .. PoisonSlots, poisons'[m][k] # None
       PROVE  Level[poisons'[m][k]] < CurseLevel
  <2>1. party[m] \in Roles /\ Wear \in Parts
    BY MembersAreRoles, PartyAssumption
  <2>2. party[m] \in bared /\ worn[party[m]][Wear] = i
    BY <1>6, <1>15, <2>1
  <2>3. i # None
    BY PartyAssumption
  <2>4. Part[i] = Wear
    BY <2>1, <2>2, <2>3 DEF Dressed
  <2>5. Wear \in {Part[i]}
    BY <2>4
  <2> QED
    BY <1>2, <1>3, <1>15, <2>2, <2>5, RemovedEffect
<1> QED
  BY <1>10, <1>14, <1>15 DEF Uncursing

\* What a role wears, each piece once.
LEMMA GoneFacts ==
  ASSUME Dressed, NEW r \in Roles, NEW off \in SUBSET Parts, NEW gone,
         gone = Only(WornBy(r), {k \in DOMAIN Body : Body[k] \in off /\ worn[r][Body[k]] # None})
  PROVE  /\ gone \in Seq(Items)
         /\ \A j, k \in DOMAIN gone : gone[j] = gone[k] => j = k
         /\ Contents(gone) = {worn[r][p] : p \in off} \ {None}
<1> DEFINE keep == {k \in DOMAIN Body : Body[k] \in off /\ worn[r][Body[k]] # None}
           n == Len(Body)
           s == WornBy(r)
<1>1. n \in Nat /\ DOMAIN Body = 1 .. n
  BY PartyAssumption, LenProperties
<1>2. keep \in SUBSET (1 .. n)
  BY <1>1
<1>3. \A k \in keep : /\ k \in DOMAIN Body /\ Body[k] \in off /\ Body[k] \in Parts
                      /\ s[k] = worn[r][Body[k]] /\ s[k] \in Items
                      /\ s[k] # None /\ Part[s[k]] = Body[k]
  <2>1. ASSUME NEW k \in keep
        PROVE  /\ k \in DOMAIN Body /\ Body[k] \in off /\ Body[k] \in Parts
               /\ s[k] = worn[r][Body[k]] /\ worn[r][Body[k]] # None
    BY DEF WornBy
  <2>2. ASSUME NEW k \in keep PROVE s[k] \in Items /\ s[k] # None /\ Part[s[k]] = Body[k]
    BY <2>1 DEF Dressed
  <2> QED
    BY <2>1, <2>2
<1>4. \A p \in off : worn[r][p] # None => \E k \in keep : s[k] = worn[r][p]
  <2>1. ASSUME NEW p \in off, worn[r][p] # None PROVE \E k \in keep : s[k] = worn[r][p]
    <3>1. PICK k \in DOMAIN Body : Body[k] = p
      BY DEF Parts
    <3>2. k \in keep /\ s[k] = worn[r][p]
      BY <2>1, <3>1 DEF WornBy
    <3> QED
      BY <3>2
  <2> QED
    BY <2>1
<1>5. gone = Only(s, keep)
  OBVIOUS
<1> HIDE DEF keep, n, s
<1>6. gone \in Seq(Items)
  <2>1. \A k \in keep : s[k] \in Items
    BY <1>3
  <2>2. Only(s, keep) \in Seq(Items)
    BY <1>1, <1>2, <2>1, OnlySeq
  <2> QED
    BY <1>5, <2>2
<1>7. /\ Cardinality(keep) \in 0 .. n
      /\ DOMAIN gone = 1 .. Cardinality(keep)
      /\ \A m \in 1 .. Cardinality(keep) : At(m, keep) \in keep /\ gone[m] = s[At(m, keep)]
      /\ \A l, m \in 1 .. Cardinality(keep) : l < m => At(l, keep) < At(m, keep)
      /\ \A k \in keep : \E m \in 1 .. Cardinality(keep) : At(m, keep) = k
  <2>1. /\ Cardinality(keep) \in 0 .. n
        /\ DOMAIN Only(s, keep) = 1 .. Cardinality(keep)
        /\ \A m \in 1 .. Cardinality(keep) : At(m, keep) \in keep /\ Only(s, keep)[m] = s[At(m, keep)]
        /\ \A l, m \in 1 .. Cardinality(keep) : l < m => At(l, keep) < At(m, keep)
        /\ \A k \in keep : \E m \in 1 .. Cardinality(keep) : At(m, keep) = k
    BY <1>1, <1>2, OnlyFacts
  <2> QED
    BY <1>5, <2>1
<1>8. ASSUME NEW l \in DOMAIN gone, NEW m \in DOMAIN gone, gone[l] = gone[m]
      PROVE  l = m
  <2>1. At(l, keep) \in keep /\ At(m, keep) \in keep /\ s[At(l, keep)] = s[At(m, keep)]
    BY <1>7, <1>8
  <2>2. Body[At(l, keep)] = Body[At(m, keep)]
    BY <1>3, <2>1
  <2>3. At(l, keep) = At(m, keep)
    BY <1>3, <2>1, <2>2, PartyAssumption
  <2>4. l \in Int /\ m \in Int /\ At(l, keep) \in Int
    <3>1. Cardinality(keep) \in Int
      BY <1>1, <1>7
    <3>2. At(l, keep) \in 1 .. n
      BY <1>2, <2>1
    <3> QED
      BY <1>1, <1>7, <3>1, <3>2
  <2>5. ~ (l < m) /\ ~ (m < l)
    BY <1>7, <2>3, <2>4
  <2> QED
    BY <2>4, <2>5
<1>9. Contents(gone) = {worn[r][p] : p \in off} \ {None}
  <2>1. ASSUME NEW m \in DOMAIN gone PROVE gone[m] \in {worn[r][p] : p \in off} \ {None}
    <3>1. At(m, keep) \in keep /\ gone[m] = s[At(m, keep)]
      BY <1>7
    <3> QED
      BY <1>3, <3>1
  <2>2. ASSUME NEW p \in off, worn[r][p] # None PROVE worn[r][p] \in Contents(gone)
    <3>1. PICK k \in keep : s[k] = worn[r][p]
      BY <1>4, <2>2
    <3>2. PICK m \in 1 .. Cardinality(keep) : At(m, keep) = k
      BY <1>7
    <3> QED
      BY <1>7, <3>1, <3>2 DEF Contents
  <2>3. Contents(gone) \subseteq {worn[r][p] : p \in off} \ {None}
    BY <2>1 DEF Contents
  <2>4. {worn[r][p] : p \in off} \ {None} \subseteq Contents(gone)
    BY <2>2
  <2> QED
    BY <2>3, <2>4
<1> QED
  BY <1>6, <1>8, <1>9

LEMMA TakeOffStep ==
  ASSUME PInv, TakeOff
  PROVE  PInv' /\ Goods!TakeOff /\ Uncursing
<1> USE DEF PInv
<1>1. PICK r \in Roles, off \in {Parts} \union {{p} : p \in Parts} :
        LET gone == Only(WornBy(r), {k \in DOMAIN Body : Body[k] \in off /\ worn[r][Body[k]] # None})
        IN  /\ inventory' = Returned(inventory, gone)
            /\ worn' = [worn EXCEPT ![r] = [p \in Parts |-> IF p \in off THEN None ELSE @[p]]]
            /\ RemoveEquipmentEffect({r}, IF off = Parts THEN off
                                          ELSE {p \in off : worn[r][p] # None})
  BY DEF TakeOff
<1> DEFINE gone == Only(WornBy(r), {k \in DOMAIN Body : Body[k] \in off /\ worn[r][Body[k]] # None})
           bared == IF off = Parts THEN off ELSE {p \in off : worn[r][p] # None}
<1>2. /\ inventory' = Returned(inventory, gone)
      /\ worn' = [worn EXCEPT ![r] = [p \in Parts |-> IF p \in off THEN None ELSE @[p]]]
      /\ RemoveEquipmentEffect({r}, bared)
  BY <1>1
<1>3. UNCHANGED <<party, cash, wearing>> /\ loose' = loose
  BY HeldFacts DEF TakeOff, Closed
<1>4. off \in SUBSET Parts
  OBVIOUS
<1>5. /\ gone \in Seq(Items)
      /\ \A j, k \in DOMAIN gone : gone[j] = gone[k] => j = k
      /\ Contents(gone) = {worn[r][p] : p \in off} \ {None}
  BY <1>4, GoneFacts
<1>6. Sound(inventory) /\ Len(inventory) <= Slots
  BY DEF Stored
<1> HIDE DEF gone, bared
<1>7. Sound(inventory') /\ Gained(inventory, inventory', Contents(gone), 1)
  BY <1>2, <1>5, <1>6, ReturnedFacts
<1>8. Stored'
  BY <1>7 DEF Stored, Sound, Gained
<1>9. \A q \in Roles, p \in Parts :
        worn'[q][p] = IF q = r /\ p \in off THEN None ELSE worn[q][p]
  BY <1>2 DEF Dressed
<1>10. Dressed'
  <2>1. worn' \in [Roles -> [Parts -> Items \union {None}]]
    <3>1. [p \in Parts |-> IF p \in off THEN None ELSE worn[r][p]] \in [Parts -> Items \union {None}]
      BY DEF Dressed
    <3> QED
      BY <1>2, <3>1 DEF Dressed
  <2> QED
    BY <1>9, <2>1 DEF Dressed
<1>11. Sick'
  BY <1>2, <1>3, RemovedEffect
<1>12. PInv'
  BY <1>3, <1>8, <1>10, <1>11, Frames
<1>13. Contents(gone) \in SUBSET Items
  BY <1>5 DEF Dressed
<1>14. Goods!Gain(held, {worn[r][p] : p \in off} \ {None}, 1)
  <2>1. Goods!Gain(held, Contents(gone), 1)
    BY <1>6, <1>7, <1>13, GainedIsGain, HeldFacts
  <2> QED
    BY <1>5, <2>1
<1>15. Goods!TakeOff
  BY <1>2, <1>3, <1>4, <1>14 DEF Goods!TakeOff
<1>16. ASSUME NEW m \in Members, worn'[party[m]][Wear] # worn[party[m]][Wear],
              NEW k \in 1 .. PoisonSlots, poisons'[m][k] # None
       PROVE  Level[poisons'[m][k]] < CurseLevel
  <2>1. party[m] \in Roles /\ Wear \in Parts
    BY MembersAreRoles, PartyAssumption
  <2>2. party[m] \in {r} /\ Wear \in off /\ worn[r][Wear] # None
    BY <1>9, <1>16, <2>1
  <2>3. Wear \in bared
    BY <2>2 DEF bared
  <2> QED
    BY <1>2, <1>3, <1>16, <2>2, <2>3, RemovedEffect
<1> QED
  BY <1>12, <1>15, <1>16 DEF Uncursing

LEMMA EquipUncurses ==
  ASSUME PInv, Equip
  PROVE  Uncursing
<1> USE DEF PInv
<1>1. PICK r \in Contents(party) :
        /\ RemoveEquipmentEffect({r}, {Part[wearing]})
        /\ worn' = [worn EXCEPT ![r][Part[wearing]] = wearing]
  BY DEF Equip
<1>2. party' = party
  BY DEF Equip
<1>3. ASSUME NEW m \in Members, worn'[party[m]][Wear] # worn[party[m]][Wear],
             NEW k \in 1 .. PoisonSlots, poisons'[m][k] # None
      PROVE  Level[poisons'[m][k]] < CurseLevel
  <2>1. party[m] \in Roles /\ Wear \in Parts
    BY MembersAreRoles, PartyAssumption
  <2>2. party[m] \in {r} /\ Wear \in {Part[wearing]}
    BY <1>1, <1>3, <2>1 DEF Dressed
  <2> QED
    BY <1>1, <1>2, <1>3, <2>2, RemovedEffect
<1> QED
  BY <1>3 DEF Uncursing

\* What only poisons, cures, or changes the party.
LEMMA PoisonSteps ==
  ASSUME PInv, PoisonPlayers \/ CurePlayers \/ BattleStarts \/ BattleEnds \/ SetParty
  PROVE  PInv' /\ (GoodsSame \/ Goods!Regroup)
<1> USE DEF PInv
<1>1. UNCHANGED <<inventory, worn, cash, wearing>>
  BY DEF PoisonPlayers, CurePlayers, BattleStarts, BattleEnds, SetParty
<1>2. \A m \in Members : poisons[m] \in Lists
  BY DEF Sick
<1>3. CASE PoisonPlayers \/ CurePlayers \/ BattleEnds
  <2>1. \E f : poisons' = [m \in Members |-> f[m]] /\ \A m \in Members : f[m] \in Lists
    <3>1. CASE PoisonPlayers
      <4>1. PICK p \in Poisons, hit \in SUBSET Members :
              poisons' = [m \in Members |-> IF m \in hit THEN Poisoned(poisons[m], p)
                                           ELSE poisons[m]]
        BY <3>1 DEF PoisonPlayers
      <4>2. \A m \in Members : poisons'[m] \in Lists
        BY <1>2, <4>1, PoisonedFacts
      <4>3. poisons' = [m \in Members |-> poisons'[m]]
        BY <4>1
      <4> QED
        BY <4>2, <4>3
    <3>2. CASE CurePlayers
      <4>1. PICK cured, who :
              poisons' = [m \in Members |-> IF m \in who THEN Cured(poisons[m], cured)
                                           ELSE poisons[m]]
        BY <3>2 DEF CurePlayers
      <4>2. \A m \in Members : poisons'[m] \in Lists
        BY <1>2, <4>1, PoisonedFacts
      <4>3. poisons' = [m \in Members |-> poisons'[m]]
        BY <4>1
      <4> QED
        BY <4>2, <4>3
    <3>3. CASE BattleEnds
      <4>1. poisons' = [m \in Members |-> Cured(poisons[m], OfLevel(3))]
        BY <3>3 DEF BattleEnds
      <4>2. \A m \in Members : poisons'[m] \in Lists
        BY <1>2, <4>1, PoisonedFacts
      <4>3. poisons' = [m \in Members |-> poisons'[m]]
        BY <4>1
      <4> QED
        BY <4>2, <4>3
    <3> QED
      BY <1>3, <3>1, <3>2, <3>3
  <2>2. poisons' \in [Members -> Lists]
    BY <2>1
  <2>3. party' = party
    BY <1>3 DEF PoisonPlayers, CurePlayers, BattleEnds
  <2>4. Sick'
    BY <2>2, <2>3 DEF Sick, Members
  <2> QED
    BY <1>1, <2>3, <2>4, Frames, Quiet
<1>4. CASE BattleStarts
  <2>1. Sick' /\ party' = party
    BY <1>4, RemovedEffect DEF BattleStarts
  <2> QED
    BY <1>1, <2>1, Frames, Quiet
<1>5. CASE SetParty
  <2>1. Healthy \in Lists
    BY DEF Healthy, Lists
  <2>2. Sick'
    BY <1>5, <2>1 DEF SetParty, Sick, Members
  <2>3. Goods!Regroup
    <3>1. party' \in Seq(Roles)
      BY <1>5, PartyAssumption DEF SetParty
    <3>2. held' = held /\ used' = used /\ loose' = loose
      BY <1>1 DEF held, used, loose
    <3> QED
      BY <1>1, <3>1, <3>2 DEF Goods!Regroup
  <2> QED
    BY <1>1, <2>2, <2>3, Frames
<1> QED
  BY <1>3, <1>4, <1>5

\* Each command does what it is to do.
Own ==
  /\ BuyItem => Goods!Buy
  /\ SellItem => Goods!Sell
  /\ UseItem => Goods!Tidy \/ Goods!Use
  /\ OpenEquipMenu => Goods!Tidy
  /\ CloseEquipMenu => Goods!Leave
  /\ Equip => Goods!PutOn \/ GoodsSame
  /\ ReceiveItem => Goods!Receive \/ Goods!Lose
  /\ ChangeCash => Goods!Pay
  /\ GiveItemUp => Goods!GiveUp
  /\ TakeOff => Goods!TakeOff

LEMMA NextOwn == ASSUME PInv PROVE Own
BY BuyItemStep, SellItemStep, UseItemStep, OpenEquipMenuStep, CloseEquipMenuStep, EquipStep,
   ReceiveItemStep, ChangeCashStep, GiveItemUpStep, TakeOffStep DEF Own

LEMMA NextPInv ==
  ASSUME PInv, PartyNext
  PROVE  PInv' /\ (Goods!Next \/ GoodsSame)
<1>1. CASE \/ BuyItem \/ SellItem \/ UseItem \/ OpenEquipMenu \/ CloseEquipMenu \/ Equip
           \/ ReceiveItem \/ ChangeCash \/ GiveItemUp \/ TakeOff
  <2>1. PInv'
    BY <1>1, BuyItemStep, SellItemStep, UseItemStep, OpenEquipMenuStep, CloseEquipMenuStep,
       EquipStep, ReceiveItemStep, ChangeCashStep, GiveItemUpStep, TakeOffStep
  <2>2. Goods!Next \/ GoodsSame
    BY <1>1, NextOwn DEF Own, Goods!Next
  <2> QED
    BY <2>1, <2>2
<1>2. CASE PoisonPlayers \/ CurePlayers \/ BattleStarts \/ BattleEnds \/ SetParty
  BY <1>2, PoisonSteps DEF Goods!Next
<1> QED
  BY <1>1, <1>2 DEF PartyNext

LEMMA StutterPInv ==
  ASSUME PInv, UNCHANGED partyState
  PROVE  PInv' /\ GoodsSame
BY Frames, Quiet DEF PInv, partyState

LEMMA PInvAlways == PartySpec => []PInv
<1>1. PInv /\ [PartyNext]_partyState => PInv'
  BY NextPInv, StutterPInv
<1> QED
  BY InitPInv, <1>1, PTL DEF PartySpec

\* The types of party, inventory and poisons hold whatever is bought, put on,
\* taken off, given up or cured: no amount passes Cap, no slot lies beyond
\* MAX_INVENTORY, and a piece is worn only where it belongs.
THEOREM PartyTypeCorrect == PartySpec => []PartyTypeOK
<1>1. PInv => PartyTypeOK
  BY PInvTypes
<1> QED
  BY PInvAlways, <1>1, PTL

\* Several slots of one item are never counted twice: all but the first are
\* empty, which is why PAL_GetItemAmount may stop at the first.
THEOREM OneFullSlot == PartySpec => []Sound(inventory)
<1>1. PInv => Sound(inventory)
  BY DEF PInv, Stored
<1> QED
  BY PInvAlways, <1>1, PTL

\* No order of commands loses or doubles an item but when the array is full:
\* what is carried, worn and paid changes only as PalGoods says.
THEOREM GoodsImplemented == PartySpec => ImplementsGoods
<1>1. PartyInit => Goods!Init
  <2> SUFFICES ASSUME PartyInit PROVE Goods!Init
    OBVIOUS
  <2>0. Len(inventory) = 0
    BY LenProperties DEF PartyInit
  <2>1. \A k \in DOMAIN inventory : inventory[k].item \in {}
    BY DEF PartyInit
  <2>2. \A i : Amount(inventory, i) = 0
    BY <2>1, NoSlot
  <2>3. held = [i \in Items |-> 0] /\ used = 0
    BY <2>0, <2>2 DEF held, used
  <2>4. loose = None
    BY DEF PartyInit, loose
  <2>5. party \in Seq(Roles)
    BY PartyAssumption DEF PartyInit
  <2> QED
    BY <2>3, <2>4, <2>5 DEF PartyInit, Goods!Init
<1>2. PInv /\ [PartyNext]_partyState => [Goods!Next]_(Goods!vars)
  BY NextPInv, StutterPInv DEF GoodsSame, Goods!vars
<1> QED
  BY PInvAlways, <1>1, <1>2, PTL DEF PartySpec, ImplementsGoods, Goods!Spec

\* Every command does its own step of PalGoods: to open a menu, to sell or to
\* use one thing never costs another.
THEOREM CommandsDoTheirOwn == PartySpec => EachDoesItsOwn
<1>1. ASSUME PInv PROVE Own
  BY <1>1, NextOwn
<1>2. PInv /\ [PartyNext]_partyState
        => [/\ BuyItem => Goods!Buy
            /\ SellItem => Goods!Sell
            /\ UseItem => Goods!Tidy \/ Goods!Use
            /\ OpenEquipMenu => Goods!Tidy
            /\ CloseEquipMenu => Goods!Leave
            /\ Equip => Goods!PutOn \/ UNCHANGED Goods!vars
            /\ ReceiveItem => Goods!Receive \/ Goods!Lose
            /\ ChangeCash => Goods!Pay
            /\ GiveItemUp => Goods!GiveUp
            /\ TakeOff => Goods!TakeOff]_partyState
  BY <1>1 DEF Own, GoodsSame, Goods!vars
<1> QED
  BY PInvAlways, <1>2, PTL DEF PartySpec, EachDoesItsOwn

\* Changing clothes always ends a curse, also when cures have left gaps in the
\* list of poisons that PAL_RemoveEquipmentEffect goes through.
THEOREM CurseEndsWithChange == PartySpec => ChangeUncurses
<1>1. ASSUME PInv, PartyNext, party' = party
      PROVE  Uncursing
  <2>1. CASE Equip
    BY <1>1, <2>1, EquipUncurses
  <2>2. CASE GiveItemUp
    BY <1>1, <2>2, GiveItemUpStep
  <2>3. CASE TakeOff
    BY <1>1, <2>3, TakeOffStep
  <2>4. CASE worn' = worn
    BY <2>4 DEF Uncursing
  <2> QED
    BY <1>1, <2>1, <2>2, <2>3, <2>4
       DEF PartyNext, BuyItem, SellItem, UseItem, OpenEquipMenu, CloseEquipMenu, ReceiveItem,
           ChangeCash, PoisonPlayers, CurePlayers, BattleStarts, BattleEnds, SetParty
<1>2. PInv /\ [PartyNext]_partyState
        => [party' = party =>
              \A m \in Members :
                worn'[party[m]][Wear] # worn[party[m]][Wear] =>
                  \A k \in 1 .. PoisonSlots :
                    poisons'[m][k] # None => Level[poisons'[m][k]] < CurseLevel]_partyState
  BY <1>1 DEF Uncursing
<1> QED
  BY PInvAlways, <1>2, PTL DEF PartySpec, ChangeUncurses
=============================================================================
