----------------------------- MODULE MCSectorBuf -----------------------------
(***************************************************************************)
(* Three sectors of two words on two buffers: sectors 0 and 2 share a      *)
(* buffer and evict each other, sector 1 has its own.  All is read; the    *)
(* first word of each sector is written, the second tells sectors apart.   *)
(***************************************************************************)
EXTENDS SectorBuf

MCVal == {0, 1}

MCCalls == {r \in Request : r.op = "write" => r.word = 0}

\* One disk image.
MCInit == Init /\ disk = [p \in DOMAIN disk |-> IF p \in {1, 3} THEN 1 ELSE 0]
               /\ out = 0

MCSpec == MCInit /\ [][Next]_vars /\ Fairness

\* Bound: nothing is followed further once a write back has disturbed a
\* transfer.
Followed == ~ disturbed
=============================================================================
