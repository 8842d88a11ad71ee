------------------------------- MODULE PalParty -------------------------------
(***************************************************************************)
(* Inventory, equipment and poisons of NEMU-PAL (nemu-pal/global/global.c) *)
(* under the commands that use them: the menus of ui/uigame.c, ui/itemmenu.c *)
(* and game/play.c, the operations of game/script.c and the end of a       *)
(* battle.                                                                 *)
(*                                                                         *)
(* rgInventory is an array in which the first wItem 0 ends every scan, so  *)
(* it is the sequence of the slots before it; a slot may hold nothing of   *)
(* its item.  What a script does besides, and the amounts in use of a      *)
(* battle, are left out.  A poison is a name; no poison is None.           *)
(***************************************************************************)
EXTENDS Integers, Sequences, FiniteSets

CONSTANTS Items, Roles,
          Body,         \* the parts of the body in the order of rgwEquipment
          Part,         \* the part of the body an item is worn on, or None
          Usable,       \* the items with kItemFlagUsable
          Price,
          Slots,        \* MAX_INVENTORY
          Cap,          \* 99
          Poisons,
          Level,        \* wPoisonLevel of each poison
          PoisonSlots,  \* MAX_POISONS
          Parties,      \* the orders in which a script sets the party
          Leader,       \* the role a new game begins with
          CashBound,    \* bound on the cash
          None

Parts == {Body[k] : k \in DOMAIN Body}
Wear == "Wear"

ASSUME PartyAssumption ==
  /\ {Slots, Cap, PoisonSlots, Price} \subseteq Nat \ {0} /\ CashBound \in Nat
  /\ Body \in Seq(Parts) /\ Wear \in Parts
  /\ \A j, k \in DOMAIN Body : Body[j] = Body[k] => j = k
  /\ Part \in [Items -> Parts \union {None}] /\ Usable \subseteq Items
  /\ None \notin Items \union Parts \union Poisons
  /\ Level \in [Poisons -> Nat]
  /\ \A party \in Parties : party \in Seq(Roles) /\ party # <<>>
  /\ <<Leader>> \in Parties

VARIABLES inventory,    \* [item, amount] of the slots in use
          worn,         \* PlayerRoles.rgwEquipment
          poisons,      \* rgPoisonStatus of the members of the party
          party,        \* rgParty
          cash,         \* dwCash
          wearing       \* wLastUnequippedItem while PAL_EquipItemMenu is open

partyState == <<inventory, worn, poisons, party, cash, wearing>>

Members == 1 .. Len(party)
Healthy == [k \in 1 .. PoisonSlots |-> None]

\* What may be worn on a part of the body.
Fitting(p) == {i \in Items : Part[i] = p} \union {None}

\* PAL_LoadDefaultGame.  What the roles wear is read from the game's data.
PartyInit ==
  /\ inventory = <<>> /\ cash = 0
  /\ worn \in [Roles -> [Parts -> Items \union {None}]]
  /\ \A r \in Roles, p \in Parts : worn[r][p] \in Fitting(p)
  /\ party = <<Leader>>
  /\ poisons = [m \in Members |-> Healthy]
  /\ wearing = None

-----------------------------------------------------------------------------
(* What is left of an array when only some of its entries are kept and     *)
(* close up.                                                               *)

Contents(s) == {s[k] : k \in DOMAIN s}

Rank(k, keep) == Cardinality({j \in keep : j <= k})

Only(s, keep) ==
  [n \in 1 .. Cardinality(keep) |-> s[CHOOSE k \in keep : Rank(k, keep) = n]]

-----------------------------------------------------------------------------
(* The inventory.                                                          *)

Least(a, b) == IF a < b THEN a ELSE b

\* The first slot of an item, or 0.
SlotOf(inv, i) ==
  IF \E k \in DOMAIN inv : inv[k].item = i
  THEN CHOOSE k \in DOMAIN inv : /\ inv[k].item = i
                                /\ \A j \in DOMAIN inv : inv[j].item = i => k <= j
  ELSE 0

Amount(inv, i) == LET k == SlotOf(inv, i)
                  IN  IF k = 0 THEN 0 ELSE inv[k].amount

\* PAL_AddItemToInventory with a positive number, and with a negative one.
\* Buggy variant: the amount of a slot in use is not limited.
Bug_Unlimited(inv, i, n) ==
  IF SlotOf(inv, i) # 0 THEN [inv EXCEPT ![SlotOf(inv, i)].amount = @ + n]
  ELSE IF Len(inv) < Slots THEN Append(inv, [item |-> i, amount |-> Least(n, Cap)])
  ELSE inv

\* Buggy variant: only an item that has a slot is added.
Bug_NoNewSlot(inv, i, n) ==
  IF SlotOf(inv, i) # 0
  THEN [inv EXCEPT ![SlotOf(inv, i)].amount = Least(@ + n, Cap)]
  ELSE inv

Added(inv, i, n) ==
  IF SlotOf(inv, i) # 0
  THEN [inv EXCEPT ![SlotOf(inv, i)].amount = Least(@ + n, Cap)]
  ELSE IF Len(inv) < Slots THEN Append(inv, [item |-> i, amount |-> Least(n, Cap)])
  ELSE inv

Removed(inv, i, n) ==
  IF SlotOf(inv, i) = 0 THEN inv
  ELSE [inv EXCEPT ![SlotOf(inv, i)].amount = IF @ < n THEN 0 ELSE @ - n]

Enough(inv, i, n) == Amount(inv, i) >= n /\ SlotOf(inv, i) # 0

\* Buggy variant: a slot with the last of its item is dropped.
Bug_LastDropped(inv) == Only(inv, {k \in DOMAIN inv : inv[k].amount > 1})

Compressed(inv) == Only(inv, {k \in DOMAIN inv : inv[k].amount > 0})

\* PAL_ItemSelectMenuInit: the menu of usable items also shows, in slots of
\* their own and as none, the ones that are worn.
WornBy(r) == [k \in DOMAIN Body |-> worn[r][Body[k]]]

Worn == [k \in 1 .. Len(party) * Len(Body) |->
           WornBy(party[((k - 1) \div Len(Body)) + 1])[((k - 1) % Len(Body)) + 1]]

WornToo == Only([k \in DOMAIN Worn |-> [item |-> Worn[k], amount |-> 0]],
                {k \in DOMAIN Worn : Worn[k] \in Usable})

Shown(usable) ==
  LET slots == Compressed(inventory) \o WornToo
  IN  IF usable THEN SubSeq(slots, 1, Least(Len(slots), Slots))
      ELSE Compressed(inventory)

-----------------------------------------------------------------------------
(* Poisons.                                                                *)

\* PAL_AddPoisonForPlayer: the scan ends at the first free slot.
Poisoned(list, p) ==
  [k \in 1 .. PoisonSlots |->
     IF list[k] = None /\ \A j \in 1 .. k - 1 : list[j] \notin {None, p} THEN p ELSE list[k]]

\* PAL_CurePoisonByKind and PAL_CurePoisonByLevel leave their slots free.
Cured(list, cured) == [k \in 1 .. PoisonSlots |-> IF list[k] \in cured THEN None ELSE list[k]]

OfLevel(max) == {p \in Poisons : Level[p] <= max}

\* PAL_RemoveEquipmentEffect for what is worn on the body: those of level 99
\* go, and the list ends at its first free slot.
CurseLevel == 99

Remaining(list) ==
  Only(list, {k \in 1 .. PoisonSlots :
                (\A j \in 1 .. k : list[j] # None) /\ Level[list[k]] < CurseLevel})

\* Buggy variant: the rest of the list is not cleared.
Bug_RestKept(list) ==
  [k \in 1 .. PoisonSlots |-> IF k <= Len(Remaining(list)) THEN Remaining(list)[k] ELSE list[k]]

Uncursed(list) ==
  [k \in 1 .. PoisonSlots |-> IF k <= Len(Remaining(list)) THEN Remaining(list)[k] ELSE None]

RemoveEquipmentEffect(who, parts) ==
  poisons' = [m \in Members |-> IF party[m] \in who /\ Wear \in parts
                               THEN Uncursed(poisons[m]) ELSE poisons[m]]

-----------------------------------------------------------------------------
(* Menus.                                                                  *)

Closed == wearing = None

BuyItem ==
  /\ Closed /\ cash >= Price
  /\ cash' = cash - Price
  /\ \E i \in Items : inventory' = Added(inventory, i, 1)
  /\ UNCHANGED <<worn, poisons, party, wearing>>

SellItem ==
  /\ Closed
  /\ \E i \in {s.item : s \in Contents(Shown(FALSE))} :
       /\ inventory' = Removed(Shown(FALSE), i, 1)
       /\ cash' = IF Enough(Shown(FALSE), i, 1) THEN cash + Price \div 2 ELSE cash
  /\ cash' <= CashBound
  /\ UNCHANGED <<worn, poisons, party, wearing>>

\* PAL_GameUseItem, where the menu is left, or an item is chosen and used up;
\* what its script does is an operation of its own.
UseItem ==
  /\ Closed
  /\ inventory' \in {Shown(TRUE)} \union
       {Removed(Shown(TRUE), i, 1) : i \in {s.item : s \in Contents(Shown(TRUE))} \intersect Usable}
  /\ UNCHANGED <<worn, poisons, party, cash, wearing>>

\* PAL_GameEquipItem opens PAL_EquipItemMenu for an item.
OpenEquipMenu ==
  /\ Closed
  /\ inventory' = Shown(FALSE)
  /\ \E s \in Contents(inventory') : Part[s.item] # None /\ wearing' = s.item
  /\ UNCHANGED <<worn, poisons, party, cash>>

CloseEquipMenu == /\ ~ Closed
                  /\ wearing' = None
                  /\ UNCHANGED <<inventory, worn, poisons, party, cash>>

\* Script operation 0x18: what is taken off is the next to be put on.
Swapped(inv, old, new) ==
  IF old = None THEN Removed(inv, new, 1) ELSE Added(Removed(inv, new, 1), old, 1)

Equip ==
  /\ ~ Closed
  /\ \E r \in Contents(party) :
       LET part == Part[wearing]
           old == worn[r][part]
       IN  /\ RemoveEquipmentEffect({r}, {part})
           /\ worn' = [worn EXCEPT ![r][part] = wearing]
           /\ IF old = wearing THEN UNCHANGED <<inventory, wearing>>
              ELSE /\ inventory' = Swapped(inventory, old, wearing)
                   /\ wearing' = old
  /\ UNCHANGED <<party, cash>>

-----------------------------------------------------------------------------
(* Operations of scripts, and the end of a battle.                         *)

\* 0x1F with its signed amount, of which 0 counts as 1; 0x34 and a theft in a
\* battle add one.
ReceiveItem ==
  /\ Closed
  /\ \E i \in Items, n \in -Cap .. Cap :
       inventory' = IF n < 0 THEN Removed(inventory, i, -n)
                    ELSE Added(inventory, i, IF n = 0 THEN 1 ELSE n)
  /\ UNCHANGED <<worn, poisons, party, cash, wearing>>

\* 0x1E with its signed amount, which jumps when there is less, and the cash
\* won or stolen in a battle; 0x88; 0x8F.
MostSpent == 5000

ChangeCash ==
  /\ Closed
  /\ \/ \E n \in -CashBound .. CashBound : ~ (n < 0 /\ cash < -n) /\ cash' = cash + n
     \/ cash' = cash - Least(cash, MostSpent)
     \/ cash' = cash \div 2
  /\ cash' <= CashBound
  /\ UNCHANGED <<inventory, worn, poisons, party, wearing>>

\* 0x20: when there are fewer than asked for, as many again are taken from
\* what the members of the party wear, the first member first.
GiveItemUp ==
  /\ Closed
  /\ \E i \in Items, n \in 1 .. Cap :
       LET wearers == {m \in Members : \E p \in Parts : worn[party[m]][p] = i}
           bared == IF Enough(inventory, i, n) THEN {}
                    ELSE {party[m] : m \in {m \in wearers : Rank(m, wearers) <= n}}
       IN  /\ inventory' = Removed(inventory, i, n)
           /\ worn' = [r \in Roles |-> [p \in Parts |->
                         IF r \in bared /\ worn[r][p] = i THEN None ELSE worn[r][p]]]
           /\ RemoveEquipmentEffect(bared, {Part[i]})
  /\ UNCHANGED <<party, cash, wearing>>

\* 0x23, for all parts of the body or for one.
Returned(inv, gone) ==
  LET rest[k \in 0 .. Len(gone)] == IF k = 0 THEN inv ELSE Added(rest[k - 1], gone[k], 1)
  IN  rest[Len(gone)]

TakeOff ==
  /\ Closed
  /\ \E r \in Roles, off \in {Parts} \union {{p} : p \in Parts} :
       LET gone == Only(WornBy(r), {k \in DOMAIN Body : Body[k] \in off /\ worn[r][Body[k]] # None})
       IN  /\ inventory' = Returned(inventory, gone)
           /\ worn' = [worn EXCEPT ![r] = [p \in Parts |-> IF p \in off THEN None ELSE @[p]]]
           /\ RemoveEquipmentEffect({r}, IF off = Parts THEN off
                                         ELSE {p \in off : worn[r][p] # None})
  /\ UNCHANGED <<party, cash, wearing>>

\* 0x29, for some of the party, whoever does not resist.
PoisonPlayers ==
  /\ \E p \in Poisons, hit \in SUBSET Members :
       poisons' = [m \in Members |-> IF m \in hit THEN Poisoned(poisons[m], p) ELSE poisons[m]]
  /\ UNCHANGED <<inventory, worn, party, cash, wearing>>

\* 0x2B and 0x2C, for one or for all.
CurePlayers ==
  /\ \E cured \in {{p} : p \in Poisons} \union {OfLevel(Level[p]) : p \in Poisons},
        who \in {Members} \union {{m} : m \in Members} :
       poisons' = [m \in Members |-> IF m \in who THEN Cured(poisons[m], cured) ELSE poisons[m]]
  /\ UNCHANGED <<inventory, worn, party, cash, wearing>>

\* PAL_StartBattle begins with PAL_UpdateEquipments, whose scripts take what
\* is worn off and put it on again ...
BattleStarts ==
  /\ Closed
  /\ RemoveEquipmentEffect({r \in Roles : worn[r][Wear] # None}, {Wear})
  /\ UNCHANGED <<inventory, worn, party, cash, wearing>>

\* ... and ends when gets over the poisons of level 3.
BattleEnds ==
  /\ Closed
  /\ poisons' = [m \in Members |-> Cured(poisons[m], OfLevel(3))]
  /\ UNCHANGED <<inventory, worn, party, cash, wearing>>

\* 0x75.  PAL_UpdateEquipments then runs the scripts of everything worn.
SetParty ==
  /\ Closed
  /\ party' \in Parties
  /\ poisons' = [m \in 1 .. Len(party') |-> Healthy]
  /\ UNCHANGED <<inventory, worn, cash, wearing>>

PartyNext == \/ BuyItem \/ SellItem \/ UseItem \/ OpenEquipMenu \/ CloseEquipMenu \/ Equip
        \/ ReceiveItem \/ ChangeCash \/ GiveItemUp \/ TakeOff
        \/ PoisonPlayers \/ CurePlayers \/ BattleStarts \/ BattleEnds \/ SetParty

PartySpec == PartyInit /\ [][PartyNext]_partyState

-----------------------------------------------------------------------------
\* Every variable keeps its type, no amount passes Cap, and a piece is worn
\* only where it belongs.
PartyTypeOK ==
  /\ inventory \in Seq([item : Items, amount : 0 .. Cap]) /\ Len(inventory) <= Slots
  /\ worn \in [Roles -> [Parts -> Items \union {None}]]
  /\ \A r \in Roles, p \in Parts : worn[r][p] \in Fitting(p)
  /\ party \in Parties
  /\ poisons \in [Members -> [1 .. PoisonSlots -> Poisons \union {None}]]
  /\ cash \in 0 .. CashBound
  /\ wearing \in {i \in Items : Part[i] # None} \union {None}

\* PalGoods behind the slots, which may be empty, doubled for what is worn, or
\* used up: PAL_GetItemAmount is the number of items carried.
held == [i \in Items |-> Amount(inventory, i)]
used == Len(inventory)
loose == IF wearing # None /\ held[wearing] = 0 THEN wearing ELSE None

Goods == INSTANCE PalGoods

\* No order of menus and scripts loses or doubles an item: one that is not
\* carried yet is lost when PAL_AddItemToInventory finds all the slots in use,
\* and never else.
ImplementsGoods == Goods!Spec

\* Every command changes what is carried as it says, and no more: opening or
\* sorting a menu, which writes into the slots, loses none of anything, and to
\* sell or use one thing takes one of that thing.
EachDoesItsOwn ==
  [][/\ BuyItem => Goods!Buy
     /\ SellItem => Goods!Sell
     /\ UseItem => Goods!Tidy \/ Goods!Use
     /\ OpenEquipMenu => Goods!Tidy
     /\ CloseEquipMenu => Goods!Leave
     /\ Equip => Goods!PutOn \/ UNCHANGED Goods!vars
     /\ ReceiveItem => Goods!Receive \/ Goods!Lose
     /\ ChangeCash => Goods!Pay
     /\ GiveItemUp => Goods!GiveUp
     /\ TakeOff => Goods!TakeOff]_partyState

\* A cursed piece of clothing does not go on poisoning who has changed it,
\* although the list of poisons may have gaps.
ChangeUncurses ==
  [][party' = party =>
       \A m \in Members :
         worn'[party[m]][Wear] # worn[party[m]][Wear] =>
           \A k \in 1 .. PoisonSlots :
             poisons'[m][k] # None => Level[poisons'[m][k]] < CurseLevel]_partyState
=============================================================================
