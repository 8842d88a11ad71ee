----------------------------- MODULE MCPalBattle -----------------------------
(* The instances of PalBattle that TLC checks. *)
EXTENDS PalBattle

\* Two players, of whom the first may be confused, against one enemy whose
\* health is not drained; nobody is a puppet.
OneFoe == /\ drained = {} /\ present \union second \union turnStart \subseteq {1}
          /\ foe[2] = "Wait"
          /\ "Puppet" \notin status[1] /\ status[2] = {}

\* One player, perhaps a puppet, against two enemies.
Alone == /\ 2 \notin alive /\ status[2] = {} /\ state[2] = "Wait" /\ meter[2] = 0
         /\ "Confused" \notin status[1]

\* Bound: a battle is followed as long as it is one of these.  It may turn
\* from one into the other and back.  Once its result is set, the rest of the
\* frame, which is as it would be without, is not followed.
Followed == result = "OnGoing" /\ (OneFoe \/ Alone)
=============================================================================
