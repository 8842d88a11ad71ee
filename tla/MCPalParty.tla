------------------------------ MODULE MCPalParty ------------------------------
(* The instance of PalParty that TLC checks: a robe, a charm and a hat to     *)
(* wear, the charm and the hat to use as well, fewer slots than things, and   *)
(* one cursing poison.                                                        *)
EXTENDS PalParty

CONSTANTS Robe, Charm, Hat, r1, r2, venom, curse

MCBody == <<"Head", Wear>>
MCPart == [i \in Items |-> IF i = Hat THEN "Head" ELSE Wear]
MCLevel == [p \in Poisons |-> IF p = curse THEN CurseLevel ELSE 1]
MCParties == {<<r1>>, <<r2, r1>>}

\* Bound: the poisoned are followed while only the first of the party is
\* poisoned, they have no cash and no hat, and at most one slot is in use.
Light == /\ \A m \in Members \ {1} : poisons[m] = Healthy
         /\ Len(inventory) <= 1 /\ cash = 0
         /\ \A r \in Roles : worn[r]["Head"] = None

Followed == Light \/ \A m \in Members : poisons[m] = Healthy
=============================================================================
