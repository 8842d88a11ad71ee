-------------------------------- MODULE Links --------------------------------
(***************************************************************************)
(* Singly linked lists as C code keeps them, for the watchpoint pool of    *)
(* the debugger and the letters of the typing game: next maps every node   *)
(* to its successor, or to something that is no node (NULL) at the end.    *)
(***************************************************************************)

\* Following a link out of S does not leave S.
Closed(S, next) == \A w \in S : next[w] \in DOMAIN next => next[w] \in S

\* The nodes that a loop which starts at p and follows next meets: the least
\* set that holds p and is closed.
Walk(p, next) ==
  {w \in DOMAIN next :
     \A S \in SUBSET DOMAIN next :
       (p \in DOMAIN next => p \in S) /\ Closed(S, next) => w \in S}

\* The loop comes to an end.
Ends(p, next) ==
  p \notin DOMAIN next \/ \E w \in Walk(p, next) : next[w] \notin DOMAIN next
=============================================================================
