------------------------------ MODULE PalBattle ------------------------------
(***************************************************************************)
(* The battle of NEMU-PAL (nemu-pal/battle/fight.c, battle.c and           *)
(* ui/uibattle.c, built without PAL_CLASSIC): once per video frame         *)
(* PAL_BattleStartFrame runs the enemies, the menu and the players, each a *)
(* small machine Wait, Com, Act, and lets one fighter at a time perform.   *)
(*                                                                         *)
(* How hard a blow is, how fast a meter fills, what a script does to both  *)
(* sides and where the cursor of a menu stands are left open: any outcome  *)
(* the code can compute is a choice.  Of an enemy's wHealth the model has  *)
(* whether it is 0.  It is a WORD, and PAL_BattlePostActionCheck looks at  *)
(* it as a SHORT: one that went below 0 is an enemy like another until     *)
(* that check.  Of sTurnOrder, which is only compared, the model has the   *)
(* comparison.                                                             *)
(***************************************************************************)
EXTENDS Integers

CONSTANTS Party,      \* wMaxPartyMemberIndex + 1
          Foes,       \* wMaxEnemyIndex + 1
          Hundred,    \* int2F(100), in the unit of the model
          Stock,      \* how many of the item the party carries
          Kinds,      \* the actions the menus offer, and "Repeat" if the key
                      \* that repeats the player's last action is pressed
          Statuses    \* those of "Sleep", "Confused" and "Puppet" that occur

ASSUME BattleAssumption == /\ {Party, Foes, Hundred} \subseteq Nat \ {0}
                           /\ Stock \in Nat
                           /\ Statuses \subseteq {"Sleep", "Confused", "Puppet"}

VARIABLES pc,         \* where PAL_BattleStartFrame is
          result,     \* BattleResult
          alive,      \* the players whose HP is not 0
          status,     \* rgPlayerStatus, those that are not 0
          state,      \* rgPlayer[i].state
          meter,      \* rgPlayer[i].flTimeMeter
          action,     \* rgPlayer[i].action, of the players in Act
          order,      \* pairs of players whose sTurnOrder is not -1, and the
                      \* first one's is not above the second one's
          cur,        \* UI.wCurPlayerIndex, or Nobody when UI.state is Wait
          present,    \* the enemies whose wObjectID is not 0
          drained,    \* those of them whose wHealth is 0
          foe,        \* rgEnemy[i].state
          second,     \* those with fFirstMoveDone
          turnStart,  \* those with fTurnStart
          cleared,    \* fEnemyCleared
          fMoved, fOnlyPuppet,
          striker,    \* the enemy that performs
          items,      \* how many of the item are left in the inventory
          spent       \* how many have taken effect

partyVars == <<alive, status>>
playerVars == <<state, meter, action, order>>
noteVars == <<foe, second, turnStart>>
foeVars == <<present, drained, noteVars, cleared>>
frameVars == <<fMoved, fOnlyPuppet, striker>>
itemVars == <<items, spent>>
vars == <<pc, result, partyVars, playerVars, cur, foeVars, frameVars, itemVars>>

Players == 1 .. Party
Enemies == 1 .. Foes
All == 0              \* sTarget or wSelectedIndex -1
Nobody == 0
MeterCap == Hundred + 1
NoAction == [kind |-> "Pass", target |-> All]

Init ==
  /\ pc = "frame" /\ result = "OnGoing"
  /\ alive \in SUBSET Players            \* the scripts of PAL_BattleMain
  /\ status \in [Players -> SUBSET (Statuses \ {"Puppet"})]
  /\ state = [p \in Players |-> "Wait"]
  /\ meter = [p \in Players |-> 0]
  /\ action = [p \in Players |-> NoAction]
  /\ order = {}
  /\ cur = Nobody
  /\ present \in SUBSET Enemies \ {{}} /\ cleared = FALSE
  /\ drained \in SUBSET present
  /\ foe = [e \in Enemies |-> "Wait"]
  /\ second = {} /\ turnStart = {}
  /\ fMoved = FALSE /\ fOnlyPuppet = FALSE /\ striker = 1
  /\ items = Stock /\ spent = 0

-----------------------------------------------------------------------------
(* The turn order.                                                         *)

HasTurn(p) == <<p, p>> \in order

\* sTurnOrder is set to -1 for all but the players of S.
Kept(S) == order \intersect (S \X S)

\* sMax + 1: behind everyone in S who has a place.
Behind(S, p) == ({q \in S : HasTurn(q)} \union {p}) \X {p}

-----------------------------------------------------------------------------
(* What blows, magics and scripts may do to the party.                     *)

Puppets == {p \in Players \ alive : "Puppet" \in status[p]}
Out(p) == p \notin alive \union Puppets

\* Any of the party may fall; one who lives may be put to sleep or confused.
Harm == [alive : SUBSET alive, status : {status}]
        \union {[alive |-> alive, status |-> [status EXCEPT ![p] = @ \union {s}]] :
                  p \in alive, s \in Statuses \ {"Puppet"}}

\* Someone is healed or raised, or one of the dead is made to fight.
Help == {[alive |-> alive \union {p}, status |-> [status EXCEPT ![p] = @ \ {s}]] :
           p \in Players, s \in Statuses}
        \union {[alive |-> alive, status |-> [status EXCEPT ![p] = @ \union {s}]] :
                  p \in Players \ alive, s \in Statuses \intersect {"Puppet"}}

Unhurt == {[alive |-> alive, status |-> status]}

Becomes(party) == alive' = party.alive /\ status' = party.status

-----------------------------------------------------------------------------
(* What they may do to the enemies.                                        *)

\* A script may hurt any enemy, down to 0 or below, and bring enemies into
\* places that are free.
AfterScripts ==
  {field \in [present : SUBSET Enemies, drained : SUBSET Enemies] :
     present \subseteq field.present /\ field.drained \subseteq field.present}

Field(run) == IF run THEN AfterScripts
              ELSE {[present |-> present, drained |-> drained]}

\* One that has come is in Wait, and nothing is noted of it.
Anew(new) == [e \in Enemies |-> IF e \in new THEN "Wait" ELSE foe[e]]

\* PAL_BattlePostActionCheck found the enemies of "left" there; new ones may
\* have come since.
PostActionCheck(left) ==
  /\ cleared' = (cleared \/ left = {})
  /\ cur' = IF left = {} THEN Nobody ELSE cur

-----------------------------------------------------------------------------
(* The start of the frame, and the enemies.                                *)

\* The enemies whose script at the start of their turn is to run.
Due == turnStart \intersect present

\* Whether a script has run, which may have ended the battle.
\* Buggy variant: nobody notes it.
Bug_ScriptsRun == FALSE

ScriptsRun == Due # {}

StartFrame ==
  /\ pc = "frame" /\ result = "OnGoing"
  /\ IF cleared \/ alive \union Puppets = {}
     THEN /\ result' = IF cleared THEN "Won" ELSE "Lost"
          /\ UNCHANGED <<pc, partyVars, present, drained, noteVars, fMoved, fOnlyPuppet>>
     ELSE LET run == Due # {}
          IN  /\ fOnlyPuppet' = (alive = {})
              /\ fMoved' = ScriptsRun
              /\ \E party \in IF run THEN Harm ELSE Unhurt : Becomes(party)
              /\ \E field \in Field(run) :
                   LET new == field.present \ present
                   IN  /\ present' = field.present /\ drained' = field.drained
                       /\ foe' = Anew(new)
                       /\ second' = second \ new
                       /\ turnStart' = turnStart \ field.present
              /\ result' \in IF run THEN {result, "Terminated"} ELSE {result}
              /\ pc' = "enemies"
  /\ UNCHANGED <<playerVars, cur, cleared, striker, itemVars>>

\* The loops over the enemies pass over those that have gone.
\* Buggy variant: they do not.
Bug_Everyone == Enemies

Standing == present

\* The first enemy of the loop in Act performs, unless someone has moved in
\* this frame, or an enemy before it runs its script now.
Strikes(e) ==
  /\ foe[e] = "Act" /\ ~ fMoved /\ ~ fOnlyPuppet
  /\ \A d \in Standing : d < e => foe[d] # "Com"

EnemyActs ==
  /\ pc = "enemies"
  /\ \E e \in Standing : Strikes(e) /\ striker' = e
  /\ fMoved' = TRUE
  /\ pc' = "strike"
  /\ UNCHANGED <<result, partyVars, playerVars, cur, foeVars, fOnlyPuppet, itemVars>>

\* fDualMove, computed before the enemy performs: whether it may act twice,
\* which it may not when it does so for the second time.
Dual == SUBSET ({striker} \ second)

\* PAL_BattleEnemyPerformAction.  PAL_BattleEnemySelectTargetIndex draws
\* until it finds a player who is alive.  There is a check after the blow and
\* one after the poisons of the enemy, and scripts before each: those of
\* "old" have been there all the time, those of "new" have come, and "left"
\* is what the first check has found.  What is noted of the enemy that has
\* performed is noted though it may have gone.
Strike ==
  /\ pc = "strike" /\ alive # {}
  /\ \E party \in Harm \union Help : Becomes(party)
  /\ \E old \in SUBSET present : \E new \in SUBSET (Enemies \ old) :
       /\ present' = old \union new
       /\ drained' = {}
       /\ \E left \in {old, old \union new} : PostActionCheck(left)
       /\ \E dual \in Dual :
            /\ second' = (second \ (new \union {striker})) \union dual
            /\ foe' = [Anew(new) EXCEPT ![striker] = IF dual = {} THEN "Wait" ELSE "Com"]
            /\ turnStart' = (turnStart \ new) \union ({striker} \ dual)
  /\ result' \in {result, "Terminated"}
  /\ pc' = "rest"
  /\ UNCHANGED <<playerVars, fMoved, fOnlyPuppet, striker, itemVars>>

\* The other enemies of the loop: the meter of one in Wait may fill, unless the
\* party hides, and one in Com runs its script, which may end the battle.
EnemiesGetReady ==
  /\ pc \in {"enemies", "rest"}
  /\ LET done == IF pc = "rest" THEN {striker} ELSE {}
         ready == {e \in Standing \ done : foe[e] = "Com"}
         run == ready # {}
     IN  /\ \E field \in Field(run) :
              LET new == field.present \ present
                  waiting == {e \in field.present \ done : Anew(new)[e] = "Wait"}
              IN  /\ present' = field.present /\ drained' = field.drained
                  /\ \E full \in SUBSET waiting :
                       foe' = [e \in Enemies |-> IF e \in ready THEN "Act"
                                                ELSE IF e \in full THEN "Com"
                                                ELSE Anew(new)[e]]
                  /\ second' = second \ new /\ turnStart' = turnStart \ new
         /\ fMoved' = (fMoved \/ run)
         /\ \E party \in IF run THEN Harm ELSE Unhurt : Becomes(party)
         /\ result' \in IF run THEN {result, "Terminated"} ELSE {result}
  /\ fOnlyPuppet' = FALSE /\ striker' = 1    \* not read any more
  /\ pc' = "ui"
  /\ UNCHANGED <<playerVars, cur, cleared, itemVars>>

-----------------------------------------------------------------------------
(* PAL_BattleUIUpdate: who is asked for a command, and which one is given. *)

\* PAL_BattlePlayerCheckReady: nobody new is asked while someone is being
\* asked or a cooperative magic is under way; otherwise the player in Wait
\* whose meter is the highest, the first of equals.
Busy == \E p \in Players : \/ state[p] = "Com"
                           \/ state[p] = "Act" /\ action[p].kind = "Coop"

Fastest(p) ==
  /\ state[p] = "Wait" /\ meter[p] >= Hundred
  /\ \A q \in Players \ {p} :
       state[q] = "Wait" => \/ meter[q] < meter[p]
                            \/ (meter[q] = meter[p] /\ p < q)

\* PAL_BattleUIPlayerReady, for the first one in Com.
Ask(com) == IF com = {} THEN UNCHANGED cur
            ELSE cur' = CHOOSE p \in com : \A q \in com : p <= q

Commanded == {p \in Players : state[p] = "Com"}

CheckReady ==
  /\ pc = "ui" /\ cur = Nobody
  /\ \/ /\ cleared
        /\ UNCHANGED <<state, cur>>
     \/ /\ ~ cleared /\ ~ Busy
        /\ \E p \in Players : /\ Fastest(p)
                              /\ state' = [state EXCEPT ![p] = "Com"]
                              /\ Ask({p})
     \/ /\ ~ cleared /\ (Busy \/ \A p \in Players : ~ Fastest(p))
        /\ Ask(Commanded)
        /\ UNCHANGED state
  /\ pc' = "players"
  /\ UNCHANGED <<result, partyVars, meter, action, order, foeVars, frameVars, itemVars>>

\* PAL_BattleCommitAction, for the player who is being asked.  Only a magic
\* takes time, so that the others take their place in the order at once.
Casting == {"Magic", "Heal"}

Commit(kind, target) ==
  /\ action' = [action EXCEPT ![cur] = [kind |-> kind, target |-> target]]
  /\ state' = [state EXCEPT ![cur] = "Act"]
  /\ order' = Kept(Players \ {cur}) \union
              IF kind \in Casting THEN {} ELSE Behind(Players \ {cur}, cur)
  /\ cur' = Nobody
  /\ UNCHANGED meter

\* sTarget of an action that may come to be one against an enemy: the menu
\* stops at enemies that are there.  A cooperative magic may have been aimed
\* at a player, and where no menu set it, it is wSelectedIndex as it was.
Aimed == {"Attack", "Magic", "Throw", "Coop", "AttackMate"}

Targets(kind) ==
  {All} \union CASE kind \in {"Attack", "Magic", "Throw"} -> present
                 [] kind = "Coop" -> present \union Players
                 [] kind = "AttackMate" -> Enemies \union Players
                 [] OTHER -> {}

\* The commands that are not the player's own: a puppet attacks, the dead and
\* the sleeping pass, the confused turn on their own side.
Compelled ==
  \/ cur \in Puppets /\ \E t \in {All} \union present : Commit("Attack", t)
  \/ /\ cur \notin Puppets
     /\ cur \notin alive \/ "Sleep" \in status[cur]
     /\ Commit("Pass", All)
  \/ /\ cur \in alive /\ "Sleep" \notin status[cur] /\ "Confused" \in status[cur]
     /\ \E t \in Targets("AttackMate") : Commit("AttackMate", t)

Free == cur \in alive /\ status[cur] \intersect {"Sleep", "Confused"} = {}

\* Whatever the menus offer.  A magic that costs more MP than there are is
\* committed as an attack, on the enemy of index 0 if it was aimed at all of
\* them, or as a defence.
Offered == Kinds \ {"Repeat"}

Choose ==
  /\ Free
  /\ \E kind \in Offered : \E t \in Targets(kind) :
       \/ Commit(kind, t)
       \/ kind = "Magic" /\ Commit("Attack", IF t = All THEN 1 ELSE t)
       \/ kind = "Heal" /\ Commit("Defend", t)

\* The last action once more, at whatever it was aimed at, or an attack on all
\* enemies where the last one was a pass.
Repeat ==
  /\ Free /\ "Repeat" \in Kinds
  /\ \/ Commit("Attack", All)
     \/ \E kind \in Offered : \E t \in {All} \union IF kind \in Aimed THEN Enemies ELSE {} :
          Commit(kind, t)

\* kKeyMenu: the turn goes to the one in Wait whose meter is the lowest of
\* those not below 100, and the player who yields is put just behind.  The
\* comparison is with 100 and not with int2F(100): any meter above 0 counts.
\* That the meters grow by 100, a hundredth of a unit, is left out.
Counts(p) == meter[p] > 0

Yielder(p) ==
  /\ p # cur /\ Counts(p) /\ state[p] = "Wait"
  /\ \A q \in Players \ {cur, p} :
       Counts(q) /\ state[q] = "Wait" => \/ meter[p] < meter[q]
                                       \/ (meter[p] = meter[q] /\ p < q)

\* Buggy variant: the player who yields goes on being in Com.
Bug_StaysInCom == state

Yielded == [state EXCEPT ![cur] = "Wait"]

Yield ==
  /\ Free
  /\ \E p \in Players :
       /\ Yielder(p)
       /\ meter' = [meter EXCEPT ![cur] = meter[p] - (Hundred - 1)]
  /\ state' = Yielded
  /\ cur' = Nobody
  /\ UNCHANGED <<action, order>>

Undecided == Free /\ UNCHANGED <<playerVars, cur>>

Command ==
  /\ pc = "ui" /\ cur # Nobody
  /\ Compelled \/ Choose \/ Repeat \/ Yield \/ Undecided
  /\ pc' = "players"
  /\ UNCHANGED <<result, partyVars, foeVars, frameVars, itemVars>>

-----------------------------------------------------------------------------
(* The players.                                                            *)

\* The loop over the players: one who is out starts again from nothing, the
\* meter of one in Wait fills, and one in Act takes a place in the order
\* when the action's time has passed, which it has at once for the sleeping,
\* the confused, and a silenced caster.
Gains == 0 .. 1

Placeless(p) == ~ Out(p) /\ state[p] = "Act" /\ ~ HasTurn(p)

Overruled(p) ==
  IF state[p] # "Act" \/ Out(p) THEN action[p]
  ELSE IF "Sleep" \in status[p] THEN [action[p] EXCEPT !.kind = "Pass"]
  ELSE IF "Confused" \in status[p] THEN [action[p] EXCEPT !.kind = "AttackMate"]
  ELSE action[p]

\* Buggy variant: the places of those who are out are kept.
Bug_PlacesOfAll == order

In == {p \in Players : ~ Out(p)}

Places == Kept(In)

\* The loop gives those of S their places one after the other.
InOrder(S) == UNION {Behind(In, p) \union {<<q, p>> : q \in {q \in S : q < p}} : p \in S}

UpdatePlayers ==
  /\ pc = "players"
  /\ state' = [p \in Players |-> IF Out(p) THEN "Wait" ELSE state[p]]
  /\ \E gain \in [Players -> Gains] :
       meter' = [p \in Players |->
                   IF Out(p) THEN 0
                   ELSE IF state[p] = "Wait" /\ meter[p] + gain[p] <= MeterCap
                        THEN meter[p] + gain[p] ELSE meter[p]]
  /\ action' = [p \in Players |-> IF Out(p) THEN NoAction ELSE Overruled(p)]
  /\ \E done \in SUBSET {p \in Players : Placeless(p)} :
       /\ \A p \in Players : Placeless(p) /\ Overruled(p).kind \notin Casting => p \in done
       /\ order' = Places \union InOrder(done)
  /\ pc' = IF fMoved THEN "frame" ELSE "act"
  /\ fMoved' = FALSE
  /\ UNCHANGED <<result, partyVars, cur, foeVars, fOnlyPuppet, striker, itemVars>>

\* PAL_BattlePlayerValidateAction: what the action has become by the time it
\* is performed.
AbleToJoin(p) == /\ p \in alive
                 /\ status[p] \intersect {"Sleep", "Confused"} = {}
                 /\ Counts(p)

\* Buggy variant: the inventory is not looked at again.
Bug_NoAmount(p) == {action[p].kind}

Valid(p) ==
  LET kind == action[p].kind
  IN  CASE kind = "Magic" -> {"Magic", "Attack"}      \* no MP, or silenced
        [] kind = "Heal" -> {"Heal", "Defend"}
        [] kind = "Throw" /\ items = 0 -> {"Attack"}
        [] kind = "Use" /\ items = 0 -> {"Defend"}
        [] kind = "Coop" ->                            \* dying or silenced
             {"Attack"} \union
             IF \A q \in Players : AbleToJoin(q) /\ (q # p => state[q] # "Act")
             THEN {"Coop"} ELSE {}
        [] kind = "AttackMate" ->
             IF "Confused" \in status[p] /\ alive \ {p} # {}
             THEN {"AttackMate"} ELSE {"Attack"}
        [] OTHER -> {kind}

\* The assertion on sTarget: the enemy it is aimed at has gone, and
\* PAL_BattleSelectAutoTarget finds no other whose wHealth is above 0.
Target == present \ drained

NobodyLeft(p, kind) ==
  /\ kind \in Aimed \ {"AttackMate"}
  /\ action[p].target # All /\ action[p].target \notin present
  /\ Target = {}

\* A weapon that hits all is not aimed at anyone.
Performs(p, kind) == ~ NobodyLeft(p, kind) \/ kind = "Attack"

\* Whether a script is part of the action.
Scripted(kind) == kind \in {"Magic", "Heal", "Coop", "Throw", "Use"}

\* What it does to the party.
Effect(p, kind) ==
  CASE kind \in {"Heal", "Use"} -> Help \union Unhurt
    [] kind = "AttackMate" -> Unhurt \union
         {[alive |-> alive \ {q}, status |-> status] : q \in alive \ {p}}
    [] OTHER -> Unhurt

\* The end of the action: its poison may take the player, and the rounds of
\* the player's statuses may have run out.
Aftermath(p, party, left) ==
  {[alive |-> a, status |-> [party.status EXCEPT ![p] = s]] :
     a \in {party.alive} \union (IF left = {} THEN {} ELSE {party.alive \ {p}}),
     s \in SUBSET party.status[p]}

\* An item thrown is gone; one used is gone if it is consuming.
Consumed(kind) == IF kind = "Throw" THEN {1} ELSE IF kind = "Use" THEN {0, 1} ELSE {0}

\* PAL_AddItemToInventory stops at what there is.
Less(n) == IF n > items THEN 0 ELSE items - n

\* Those whose action may be performed, and the one whose turn it is: the
\* first of those with the lowest sTurnOrder.
Turns == {p \in Players : state[p] = "Act" /\ ~ Out(p) /\ HasTurn(p)}

First(p) == /\ p \in Turns
            /\ \A q \in Turns : /\ <<p, q>> \in order
                                /\ <<q, p>> \in order => p <= q

\* As for Strike, but for the poisons of the player, which are left out when
\* nobody is left, and after which there is no check.
EnemiesAfter(kind, left) ==
  \E old \in SUBSET present : \E new \in SUBSET (Enemies \ old) :
    /\ left = old \/ (Scripted(kind) /\ left = old \union new)
    /\ Scripted(kind) \/ old \intersect drained = {}
    /\ left = {} => new = {}
    /\ present' = old \union new
    /\ drained' \in IF left = {} THEN {{}} ELSE SUBSET present'
    /\ foe' = Anew(new)
    /\ second' = second \ new /\ turnStart' = turnStart \ new

Perform(p, kind) ==
  /\ \E left \in SUBSET Enemies :
       /\ EnemiesAfter(kind, left)
       /\ PostActionCheck(left)
       /\ \E party \in Effect(p, kind) :
            \E after \in Aftermath(p, party, left) : Becomes(after)
  /\ state' = [state EXCEPT ![p] = "Wait"]
  /\ meter' = [q \in Players |-> IF q = p \/ kind = "Coop" THEN 0 ELSE meter[q]]
  /\ action' = [action EXCEPT ![p] = NoAction]
  /\ order' = Kept(Players \ {p})
  /\ \E n \in Consumed(kind) : items' = Less(n) /\ spent' = spent + n
  /\ result' \in {result, "Terminated"} \union IF kind = "Flee" THEN {"Fleed"} ELSE {}
  /\ pc' = "frame"

Asserts(p, kind) == /\ NobodyLeft(p, kind)
                    /\ pc' = "abort"
                    /\ UNCHANGED <<result, partyVars, playerVars, cur, foeVars,
                                   itemVars>>

PlayerActs ==
  /\ pc = "act"
  /\ \E p \in Players :
       /\ First(p)
       /\ \E kind \in Valid(p) : \/ Performs(p, kind) /\ Perform(p, kind)
                                \/ Asserts(p, kind)
  /\ UNCHANGED frameVars

NobodyActs == /\ pc = "act" /\ Turns = {}
              /\ pc' = "frame"
              /\ UNCHANGED <<result, partyVars, playerVars, cur, foeVars,
                             frameVars, itemVars>>

Next == \/ StartFrame \/ EnemyActs \/ Strike \/ EnemiesGetReady
        \/ CheckReady \/ Command \/ UpdatePlayers \/ PlayerActs \/ NobodyActs

Spec == Init /\ [][Next]_vars

-----------------------------------------------------------------------------
TypeOK ==
  /\ pc \in {"frame", "enemies", "strike", "rest", "ui", "players", "act", "abort"}
  /\ result \in {"OnGoing", "Won", "Lost", "Fleed", "Terminated"}
  /\ alive \subseteq Players /\ status \in [Players -> SUBSET Statuses]
  /\ state \in [Players -> {"Wait", "Com", "Act"}]
  /\ meter \in [Players -> 1 - Hundred .. MeterCap]
  /\ action \in [Players -> [kind : Kinds \union {"Attack", "Defend", "Pass", "AttackMate"},
                             target : {All} \union Players \union Enemies]]
  /\ order \subseteq Players \X Players
  /\ \A p, q \in Players : <<p, q>> \in order => HasTurn(p) /\ HasTurn(q)
  /\ cur \in Players \union {Nobody}
  /\ drained \subseteq present /\ present \subseteq Enemies
  /\ foe \in [Enemies -> {"Wait", "Com", "Act"}]
  /\ second \subseteq Enemies /\ turnStart \subseteq Enemies
  /\ {cleared, fMoved, fOnlyPuppet} \subseteq BOOLEAN
  /\ striker \in Enemies /\ (pc = "strike" => striker \in present)
  /\ items \in 0 .. Stock /\ spent \in Nat

\* PAL_BattleEnemySelectTargetIndex ends: an enemy that performs finds a
\* player who is alive, although scripts of this frame may have killed
\* someone since fOnlyPuppet was computed.
EnemyFindsTarget == pc = "strike" => alive # {}

\* Only a player in Act has a place in the order, and of two who have one
\* exactly one comes first: a place left over from an earlier action would let
\* a later magic be cast without its time, and while anyone has a place to
\* perform, one of them is the first.
TurnOrderSound ==
  /\ \A p \in Players : HasTurn(p) => state[p] = "Act"
  /\ \A p, q \in Players :
       HasTurn(p) /\ HasTurn(q) /\ p # q => (<<p, q>> \in order <=> <<q, p>> \notin order)
  /\ \A p, q, r \in Players : <<p, q>> \in order /\ <<q, r>> \in order => <<p, r>> \in order

\* At most one player is in Com, and it is the one who is being asked, until
\* the battle is won; a second one would never be asked.
OneAsked == \A p \in Players :
              state[p] = "Com" => cleared \/ cur = p

\* assert(sTarget >= 0) of PAL_BattlePlayerValidateAction never fails.
NoAssertFails == pc # "abort"

\* Two players who have chosen the same last item do not both use it.
NothingFromNothing == items + spent = Stock
=============================================================================
