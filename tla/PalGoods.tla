------------------------------- MODULE PalGoods -------------------------------
(***************************************************************************)
(* What the inventory of NEMU-PAL promises the player: so many of each     *)
(* item carried, at most Cap, what everyone wears, and the cash.  Nothing  *)
(* appears from nowhere, and only want of room loses anything: a piece     *)
(* that is not carried yet is lost when all the slots are in use.  How     *)
(* many slots are in use is known, which items they are for is not.        *)
(***************************************************************************)
EXTENDS Integers, Sequences, FiniteSets

CONSTANTS Items, Roles, Parts, Part, Price, Slots, Cap, None

VARIABLES held,       \* how many of each item are carried
          used,       \* how many slots are in use
          worn,       \* what each role wears on each part of the body
          party,
          cash,
          loose       \* a piece just taken off that nobody has room for

vars == <<held, used, worn, party, cash, loose>>

Least(a, b) == IF a < b THEN a ELSE b
Most(a, b) == IF a > b THEN a ELSE b

Init == /\ held = [i \in Items |-> 0] /\ used = 0
        /\ worn \in [Roles -> [Parts -> Items \union {None}]]
        /\ party \in Seq(Roles)
        /\ cash = 0 /\ loose = None

\* n of each of what come to those in h.  A slot is taken into use only for a
\* piece that gets it, and a piece is lost only when no slot is left.
Gain(h, what, n) ==
  /\ used' \in used .. Slots /\ held' \in [Items -> 0 .. Cap]
  /\ used' # used => \E i \in what : h[i] = 0 /\ held'[i] > 0
  /\ \A i \in Items :
       \/ held'[i] = IF i \in what THEN Least(h[i] + n, Cap) ELSE h[i]
       \/ i \in what /\ h[i] = 0 /\ held'[i] = 0 /\ used' = Slots

Without(h, i, n) == [h EXCEPT ![i] = Most(@ - n, 0)]

Receive == /\ \E i \in Items, n \in 1 .. Cap : Gain(held, {i}, n)
           /\ UNCHANGED <<worn, party, cash, loose>>

Lose == /\ \E i \in Items, n \in 1 .. Cap : held' = Without(held, i, n)
        /\ UNCHANGED <<used, worn, party, cash, loose>>

\* Of n that are asked for, those carried are given up; when they are fewer,
\* the first n of the party who wear one give theirs too.
GiveUp ==
  /\ \E i \in Items, n \in 1 .. Cap :
       LET wearers == {m \in DOMAIN party : \E p \in Parts : worn[party[m]][p] = i}
           givers == {party[m] : m \in {m \in wearers :
                                          Cardinality({j \in wearers : j <= m}) <= n}}
       IN  /\ held' = Without(held, i, n)
           /\ worn' = IF held[i] >= n THEN worn
                      ELSE [r \in Roles |-> [p \in Parts |->
                              IF r \in givers /\ worn[r][p] = i THEN None ELSE worn[r][p]]]
  /\ UNCHANGED <<used, party, cash, loose>>

\* The menus may put slots in order; nothing else changes by that.
Tidy == used' \in 0 .. Slots /\ UNCHANGED <<held, worn, party, cash, loose>>

Use == /\ \E i \in Items : held' = Without(held, i, 1)
       /\ used' \in 0 .. Slots
       /\ UNCHANGED <<worn, party, cash, loose>>

Buy == /\ cash >= Price /\ cash' = cash - Price
       /\ \E i \in Items : Gain(held, {i}, 1)
       /\ UNCHANGED <<worn, party, loose>>

Sell == /\ \E i \in Items : held[i] > 0 /\ held' = Without(held, i, 1)
        /\ cash' = cash + Price \div 2 /\ used' \in 0 .. Slots
        /\ UNCHANGED <<worn, party, loose>>

\* Put i on: it is taken from what is carried, or is the loose piece, and what
\* it replaces is carried, or loose.
PutOn ==
  /\ \E r \in Roles, i \in {j \in Items : Part[j] # None} :
       LET old == worn[r][Part[i]]
           rest == Without(held, i, 1)
       IN  /\ old # i /\ (held[i] > 0 \/ loose = i)
           /\ worn' = [worn EXCEPT ![r][Part[i]] = i]
           /\ IF old = None THEN held' = rest /\ used' = used ELSE Gain(rest, {old}, 1)
           /\ loose' = IF old # None /\ held'[old] = 0 THEN old ELSE None
  /\ UNCHANGED <<party, cash>>

\* The loose piece is left behind.
Leave == loose' = None /\ UNCHANGED <<held, used, worn, party, cash>>

\* Take something off, or everything of one role.
TakeOff ==
  /\ \E r \in Roles, off \in SUBSET Parts :
       /\ worn' = [worn EXCEPT ![r] = [p \in Parts |-> IF p \in off THEN None ELSE @[p]]]
       /\ Gain(held, {worn[r][p] : p \in off} \ {None}, 1)
  /\ UNCHANGED <<party, cash, loose>>

\* Scripts and battles change the cash, and scripts the party.
Pay == cash' \in Nat /\ UNCHANGED <<held, used, worn, party, loose>>

Regroup == party' \in Seq(Roles) /\ UNCHANGED <<held, used, worn, cash, loose>>

Next == \/ Receive \/ Lose \/ GiveUp \/ Tidy \/ Use \/ Buy \/ Sell
        \/ PutOn \/ Leave \/ TakeOff \/ Pay \/ Regroup

Spec == Init /\ [][Next]_vars
=============================================================================
