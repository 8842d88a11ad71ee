------------------------------- MODULE MCDram -------------------------------
(***************************************************************************)
(* A memory of two banks of two rows of two bursts of two bytes.  The      *)
(* addresses accessed include each way an access can cross: a burst (1),   *)
(* a row (3), a bank (7) and the end of the memory (15), and one address   *)
(* beyond it (16).                                                         *)
(***************************************************************************)
EXTENDS Dram

MCAccess == {1, 3, 7, 15, 16}
MCLens   == {1, 2}
MCByte   == {0, 1}

\* The image load_entry leaves in memory: two of the possible ones, so that
\* the state space stays small; stores then reach the others.
Images == { [b \in Bank |-> [r \in Row |-> [c \in Col |-> 0]]],
            [b \in Bank |-> [r \in Row |-> [c \in Col |-> (b + r + c) % 2]]] }

MCInit == /\ dram \in Images
          /\ rowbufs = [b \in Bank |-> [buf |-> [c \in Col |-> 0],
                                        row_idx |-> 0, valid |-> FALSE]]
          /\ ret = <<>>
          /\ up = TRUE

MCSpec == MCInit /\ [][Next]_vars
=============================================================================
