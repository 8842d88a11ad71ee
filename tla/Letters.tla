------------------------------- MODULE Letters -------------------------------
(***************************************************************************)
(* The falling letters of the typing game: the list and node pool that     *)
(* LINKLIST_IMPL of game/include/adt/linklist.h generates for fly_t, and   *)
(* the operations of game/src/typing/effect.c on it.  A node is its index  *)
(* in fly_pool.  Links are kept as the code keeps them, stale ones in free *)
(* nodes included.                                                         *)
(***************************************************************************)
EXTENDS Integers, Links

CONSTANTS SIZE,      \* letters the pool can hold, 1000 in the code
          Text,      \* the letters; 26 in the code
          Speed,     \* speeds of falling letters, random in the code
          UpSpeed,   \* speed of a letter that was hit, 3 in the code
          Bottom,    \* last x on the screen, SCR_HEIGHT - 7.9
          Null

ASSUME LettersAssumption ==
  /\ SIZE \in Nat \ {0}
  /\ UpSpeed \in Nat \ {0}
  /\ Speed \subseteq 1 .. UpSpeed
  /\ Bottom \in Nat
  /\ Null \notin 0 .. SIZE

VARIABLES fly,         \* fly_pool: the fields of every node
          free_head,   \* fly_free_head
          head,        \* the newest letter on the screen
          hit, miss    \* letters that left at the top and at the bottom

letterVars == <<fly, free_head, head, hit, miss>>

Node == 0 .. SIZE        \* node SIZE ends the free list, it is never given out
Ptr  == Node \union {Null}

LettersInit ==
  /\ \E c \in Text :
       fly = [i \in Node |-> [x |-> 0, v |-> 0, text |-> c,
                              prev |-> Null, next |-> Null]]
  /\ free_head = Null /\ head = Null
  /\ hit = 0 /\ miss = 0

-----------------------------------------------------------------------------
\* fly_next of every node.
links == [i \in Node |-> fly[i].next]

\* The nodes a walk along _next meets, from p on.
Chain(p) == Walk(p, links)

Flying == Chain(head)

\* fly_new links the pool when it is first called.
Pool == IF free_head = Null
        THEN [i \in Node |-> IF i < SIZE THEN [fly[i] EXCEPT !.next = i + 1]
                                         ELSE fly[i]]
        ELSE fly

NewNode == IF free_head = Null THEN 0 ELSE free_head

\* The assertion of fly_new.
PoolExhausted == Pool[NewNode].next = Null

\* create_new_letter: a new node in front of the list.
AddLetter(v, c) ==
  LET new == NewNode
  IN  /\ ~ PoolExhausted
      /\ free_head' = Pool[new].next
      /\ fly' = [i \in Node |->
                   IF i = new THEN [x |-> 0, v |-> v, text |-> c,
                                    prev |-> Null, next |-> head]
                   ELSE IF i = head THEN [Pool[i] EXCEPT !.prev = new]
                   ELSE Pool[i]]
      /\ head' = new
      /\ UNCHANGED <<hit, miss>>

\* The letter a key hits: of the falling ones with a pressed key the lowest,
\* and the newest of these.
Targets(pressed) ==
  {i \in Flying : fly[i].v > 0 /\ fly[i].x > -100 /\ pressed[fly[i].text]}

\* it is met before i on the walk from head.
Before(it, i) == i \in Chain(fly[it].next)

Target(pressed) ==
  CHOOSE it \in Targets(pressed) :
    \A i \in Targets(pressed) \ {it} :
      fly[it].x > fly[i].x \/ (fly[it].x = fly[i].x /\ Before(it, i))

HitLetter(it) ==
  /\ fly' = [fly EXCEPT ![it].v = - UpSpeed]
  /\ UNCHANGED <<free_head, head, hit, miss>>

\* fly_remove: the neighbours of it are linked to each other.
\* Buggy variant: the next letter keeps its _prev.
Bug_StalePrev(it) ==
  [i \in Node |-> IF i = fly[it].prev THEN [fly[i] EXCEPT !.next = fly[it].next]
                  ELSE fly[i]]

Removed(it) ==
  [i \in Node |->
     IF i = fly[it].prev THEN [fly[i] EXCEPT !.next = fly[it].next]
     ELSE IF i = fly[it].next THEN [fly[i] EXCEPT !.prev = fly[it].prev]
     ELSE fly[i]]

\* Head of the free list after fly_free.
\* Buggy variant: the letter is not freed.
Bug_Leak(it) == free_head

Freed(it) == it

\* One turn of the loop of update_letter_pos, for letter it: it moves, and a
\* letter that leaves the screen is counted and freed.
MoveLetter(it) ==
  LET x == fly[it].x + fly[it].v
      next == fly[it].next
  IN  \/ /\ x \in 0 .. Bottom
         /\ fly' = [fly EXCEPT ![it].x = x]
         /\ UNCHANGED <<free_head, head, hit, miss>>
      \/ /\ x \notin 0 .. Bottom
         /\ IF x < 0 THEN hit' = hit + 1 /\ miss' = miss
                     ELSE miss' = miss + 1 /\ hit' = hit
         /\ fly' = [Removed(it) EXCEPT ![it].x = x, ![it].next = free_head]
         /\ free_head' = Freed(it)
         /\ head' = IF it = head THEN next ELSE head

-----------------------------------------------------------------------------
LettersTypeOK ==
  /\ fly \in [Node -> [x : - UpSpeed .. Bottom + UpSpeed, v : Speed \union {0, - UpSpeed},
                       text : Text, prev : Ptr, next : Ptr]]
  /\ free_head \in Ptr /\ head \in Ptr
  /\ hit \in Nat /\ miss \in Nat
=============================================================================
