-------------------------- MODULE TypingGameProofs --------------------------
(***************************************************************************)
(* Proofs about Letters and TypingGame, for a pool of any size and any     *)
(* clock rates: the list of the letters on the screen and the free list    *)
(* share the pool between them while update_letter_pos frees the node it   *)
(* stands on, and every letter created is on the screen or counted.        *)
(***************************************************************************)
EXTENDS TypingGame, LinksProofs, FiniteSetTheorems

-----------------------------------------------------------------------------
(* The inductive invariant of the letters.                                 *)

FlyT == [x : - UpSpeed .. Bottom + UpSpeed, v : Speed \union {0, - UpSpeed},
         text : Text, prev : Ptr, next : Ptr]

\* The pool is not linked before the first letter is created.
Unused == free_head = Null => head = Null /\ fly[SIZE].next = Null

TwoLists ==
  free_head # Null => /\ Ends(head, links) /\ Ends(free_head, links)
                      /\ Flying \intersect Chain(free_head) = {}
                      /\ Flying \union Chain(free_head) = Node

\* _prev undoes _next.
Backward == /\ head # Null => fly[head].prev = Null
            /\ \A i \in Flying : fly[i].next # Null => fly[fly[i].next].prev = i

OnScreen == \A i \in Flying : /\ fly[i].x \in 0 .. Bottom
                              /\ fly[i].v \in Speed \union {- UpSpeed}

LInv == LettersTypeOK /\ Unused /\ TwoLists /\ Backward /\ OnScreen

-----------------------------------------------------------------------------
(* Facts about the pool.                                                   *)

LEMMA Numbers ==
  /\ SIZE \in Nat \ {0} /\ UpSpeed \in Nat \ {0} /\ Bottom \in Nat
  /\ Speed \subseteq 1 .. UpSpeed /\ Null \notin Node
  /\ SIZE \in Node /\ 0 \in Node
  BY LettersAssumption DEF Node

LEMMA Shape ==
  ASSUME LettersTypeOK
  PROVE  /\ DOMAIN links = Node
         /\ \A i \in Node : links[i] = fly[i].next
         /\ \A i \in Node : links[i] \in Node \/ links[i] = Null
         /\ Flying \subseteq Node
         /\ \A p : Chain(p) \subseteq Node
         /\ head # Null => head \in Flying
         /\ free_head # Null => free_head \in Chain(free_head)
<1>1. DOMAIN links = Node /\ \A i \in Node : links[i] = fly[i].next
  BY DEF links
<1>2. \A i \in Node : fly[i].next \in Ptr
  BY DEF LettersTypeOK
<1>3. (head # Null => head \in Node) /\ (free_head # Null => free_head \in Node)
  BY DEF LettersTypeOK, Ptr
<1> QED
  BY <1>1, <1>2, <1>3, WalkClosed DEF Chain, Flying, Ptr

\* The links of the pool fly_new takes a node from.
poolLinks == [i \in Node |-> Pool[i].next]

\* Whether or not it had to be linked first, the pool is a free list, from
\* NewNode on, and the letters on the screen.
LEMMA PoolFacts ==
  ASSUME LInv
  PROVE  /\ NewNode \in Node
         /\ Pool \in [Node -> FlyT]
         /\ \A i \in Node : /\ Pool[i].x = fly[i].x /\ Pool[i].v = fly[i].v
                            /\ Pool[i].prev = fly[i].prev
         /\ \A i \in Flying : poolLinks[i] = links[i]
         /\ Walk(head, poolLinks) = Flying /\ Ends(head, poolLinks)
         /\ Ends(NewNode, poolLinks)
         /\ Flying \intersect Walk(NewNode, poolLinks) = {}
         /\ Flying \union Walk(NewNode, poolLinks) = Node
<1>1. CASE free_head = Null
  <2>1. head = Null /\ fly[SIZE].next = Null /\ NewNode = 0
    BY <1>1 DEF LInv, Unused, NewNode
  <2>2. Pool = [i \in Node |-> IF i < SIZE THEN [fly[i] EXCEPT !.next = i + 1] ELSE fly[i]]
    BY <1>1 DEF Pool
  <2>3. fly \in [Node -> FlyT]
    BY DEF LInv, LettersTypeOK, FlyT
  <2>4. ASSUME NEW i \in Node
        PROVE  /\ Pool[i] \in FlyT
               /\ Pool[i].x = fly[i].x /\ Pool[i].v = fly[i].v /\ Pool[i].prev = fly[i].prev
               /\ i < SIZE => Pool[i].next = i + 1
               /\ i = SIZE => Pool[i].next = Null
    <3>1. fly[i] \in FlyT
      BY <2>3
    <3>2. CASE i < SIZE
      <4>1. i + 1 \in Ptr
        BY <3>2, Numbers DEF Node, Ptr
      <4>2. Pool[i] = [fly[i] EXCEPT !.next = i + 1]
        BY <2>2, <3>2
      <4>3. i # SIZE
        BY <3>2, Numbers
      <4> QED
        BY <3>1, <4>1, <4>2, <4>3 DEF FlyT
    <3>3. CASE ~ (i < SIZE)
      BY <2>1, <2>2, <3>1, <3>3, Numbers
    <3> QED
      BY <3>2, <3>3
  <2>5. DOMAIN poolLinks = 0 .. SIZE /\ poolLinks[SIZE] \notin 0 .. SIZE
    BY <2>4, Numbers DEF poolLinks, Node
  <2>6. \A i \in 0 .. SIZE : i < SIZE => poolLinks[i] = i + 1
    BY <2>4 DEF poolLinks, Node
  <2>7. Walk(0, poolLinks) = 0 .. SIZE /\ Ends(0, poolLinks)
    BY <2>5, <2>6, Numbers, ArrayLinked
  <2>8. Flying = {} /\ Walk(head, poolLinks) = {} /\ Ends(head, poolLinks)
    BY <2>1, <2>5, Numbers, Shape, WalkNull DEF LInv, Flying, Chain, Ends, Node
  <2>9. Pool \in [Node -> FlyT]
    BY <2>2, <2>4
  <2> QED
    BY <2>1, <2>4, <2>7, <2>8, <2>9, Numbers DEF Node
<1>2. CASE free_head # Null
  <2>1. Pool = fly /\ NewNode = free_head /\ poolLinks = links
    BY <1>2 DEF Pool, NewNode, poolLinks, links
  <2> QED
    BY <1>2, <2>1 DEF LInv, TwoLists, LettersTypeOK, FlyT, Ptr, Flying, Chain
<1> QED
  BY <1>1, <1>2

-----------------------------------------------------------------------------
(* The operations.                                                         *)

\* create_new_letter: the new node leaves the free list and heads the other.
LEMMA AddSound ==
  ASSUME LInv, NEW v \in Speed, NEW c \in Text, AddLetter(v, c)
  PROVE  /\ LInv'
         /\ NewNode \notin Flying
         /\ Flying' = Flying \union {NewNode}
         /\ UNCHANGED <<hit, miss>>
         /\ head' = NewNode /\ fly'[NewNode].x = 0 /\ fly'[NewNode].v = v
         /\ \A i \in Flying : /\ fly'[i].x = fly[i].x /\ fly'[i].v = fly[i].v
                              /\ Chain(i)' = Chain(i)
<1> DEFINE new == NewNode
<1>1. /\ new \in Node /\ ~ PoolExhausted
      /\ free_head' = Pool[new].next
      /\ head' = new
      /\ UNCHANGED <<hit, miss>>
      /\ fly' = [i \in Node |->
                   IF i = new THEN [x |-> 0, v |-> v, text |-> c,
                                    prev |-> Null, next |-> head]
                   ELSE IF i = head THEN [Pool[i] EXCEPT !.prev = new]
                   ELSE Pool[i]]
  BY PoolFacts DEF AddLetter
<1>2. /\ Pool \in [Node -> FlyT]
      /\ \A i \in Node : /\ Pool[i].x = fly[i].x /\ Pool[i].v = fly[i].v
                         /\ Pool[i].prev = fly[i].prev
      /\ \A i \in Flying : poolLinks[i] = links[i]
      /\ Walk(head, poolLinks) = Flying /\ Ends(head, poolLinks)
      /\ Ends(new, poolLinks)
      /\ Flying \intersect Walk(new, poolLinks) = {}
      /\ Flying \union Walk(new, poolLinks) = Node
      /\ DOMAIN poolLinks = Node /\ \A i \in Node : poolLinks[i] = Pool[i].next
  BY PoolFacts DEF poolLinks
<1>3. new \in Walk(new, poolLinks) /\ new \notin Flying /\ Flying \subseteq Node
  BY <1>1, <1>2, WalkClosed
<1>4. free_head' \in Node /\ free_head' = poolLinks[new]
  <2>1. Pool[new].next \in Ptr
    BY <1>1, <1>2 DEF FlyT
  <2> QED
    BY <1>1, <1>2, <2>1 DEF PoolExhausted, Ptr
<1>5. head \in Ptr /\ (head # Null => head \in Flying)
  BY Shape DEF LInv, LettersTypeOK
<1>6. fly' \in [Node -> FlyT]
  <2> SUFFICES ASSUME NEW i \in Node PROVE fly'[i] \in FlyT
    BY <1>1
  <2>0. Pool[i] \in FlyT /\ new \in Ptr /\ Null \in Ptr
    BY <1>1, <1>2 DEF Ptr
  <2>1. CASE i = new
    <3>1. 0 \in - UpSpeed .. Bottom + UpSpeed
      BY Numbers
    <3>2. fly'[i] = [x |-> 0, v |-> v, text |-> c, prev |-> Null, next |-> head]
      BY <1>1, <2>1
    <3> QED
      BY <1>5, <2>0, <3>1, <3>2 DEF FlyT
  <2>2. CASE i # new /\ i = head
    <3>1. fly'[i] = [Pool[i] EXCEPT !.prev = new]
      BY <1>1, <2>2
    <3> QED
      BY <2>0, <3>1 DEF FlyT
  <2>3. CASE i # new /\ i # head
    <3>1. fly'[i] = Pool[i]
      BY <1>1, <2>3
    <3> QED
      BY <2>0, <3>1
  <2> QED
    BY <2>1, <2>2, <2>3
<1>7. /\ fly'[new].x = 0 /\ fly'[new].v = v /\ fly'[new].prev = Null
      /\ fly'[new].next = head
  BY <1>1
<1>8. \A i \in Node \ {new} :
         /\ fly'[i].x = fly[i].x /\ fly'[i].v = fly[i].v
         /\ fly'[i].next = poolLinks[i]
         /\ fly'[i].prev = IF i = head THEN new ELSE fly[i].prev
  <2> SUFFICES ASSUME NEW i \in Node \ {new}
               PROVE  /\ fly'[i].x = fly[i].x /\ fly'[i].v = fly[i].v
                      /\ fly'[i].next = poolLinks[i]
                      /\ fly'[i].prev = IF i = head THEN new ELSE fly[i].prev
    OBVIOUS
  <2>1. Pool[i] \in FlyT /\ Pool[i].x = fly[i].x /\ Pool[i].v = fly[i].v
        /\ Pool[i].prev = fly[i].prev /\ Pool[i].next = poolLinks[i]
    BY <1>2
  <2>2. fly'[i] = IF i = head THEN [Pool[i] EXCEPT !.prev = new] ELSE Pool[i]
    BY <1>1
  <2> QED
    BY <2>1, <2>2 DEF FlyT
<1>9. /\ DOMAIN links' = Node /\ links'[new] = head
      /\ \A i \in Node \ {new} : links'[i] = poolLinks[i]
  BY <1>1, <1>7, <1>8 DEF links
<1>10. Walk(new, links') = Flying \union {new} /\ Ends(new, links')
  BY <1>1, <1>2, <1>3, <1>9, Push
<1>11. /\ Walk(poolLinks[new], poolLinks) = Walk(new, poolLinks) \ {new}
       /\ Ends(poolLinks[new], poolLinks)
  BY <1>1, <1>2, DropFirst
<1>12. Walk(free_head', links') = Walk(new, poolLinks) \ {new} /\ Ends(free_head', links')
  <2>1. \A w \in Walk(poolLinks[new], poolLinks) : links'[w] = poolLinks[w]
    BY <1>2, <1>9, <1>11
  <2>2. DOMAIN links' = DOMAIN poolLinks
    BY <1>2, <1>9
  <2> QED
    BY <1>4, <1>11, <2>1, <2>2, WalkSame
<1>13. Flying' = Flying \union {new} /\ Chain(free_head)' = Walk(new, poolLinks) \ {new}
  BY <1>1, <1>10, <1>12 DEF Flying, Chain
<1>14. LettersTypeOK'
  BY <1>1, <1>4, <1>6 DEF LInv, LettersTypeOK, FlyT, Ptr
<1>15. Unused' /\ TwoLists'
  <2>1. free_head' # Null
    BY <1>4, Numbers
  <2> QED
    BY <1>1, <1>2, <1>3, <1>10, <1>12, <1>13, <2>1 DEF Unused, TwoLists
<1>16. Backward'
  <2>1. head' # Null => fly'[head'].prev = Null
    BY <1>1, <1>7
  <2>2. ASSUME NEW i \in Flying', fly'[i].next # Null
        PROVE  fly'[fly'[i].next].prev = i
    <3>1. CASE i = new
      <4>1. head \in Flying /\ head # new
        BY <1>3, <1>5, <1>7, <2>2, <3>1
      <4> QED
        BY <1>3, <1>7, <1>8, <3>1, <4>1
    <3>2. CASE i # new
      <4>1. i \in Flying /\ fly'[i].next = links[i]
        BY <1>2, <1>3, <1>8, <1>13, <3>2
      <4>2. links[i] = fly[i].next /\ links[i] \in Node /\ DOMAIN links = Node
        BY <1>3, <2>2, <4>1, Shape DEF LInv
      <4>3. links[i] \in Flying
        BY <4>1, <4>2, WalkClosed DEF Flying, Chain, Closed
      <4>4. links[i] # head
        <5>1. free_head # Null
          BY <4>1, WalkNull, Shape, Numbers DEF LInv, Unused, Flying, Chain
        <5> QED
          BY <4>1, <5>1, FirstHasNone DEF LInv, TwoLists, Flying, Chain
      <4>5. fly'[links[i]].prev = fly[links[i]].prev
        BY <1>3, <1>8, <4>3, <4>4
      <4> QED
        BY <2>2, <4>1, <4>2, <4>5 DEF LInv, Backward
    <3> QED
      BY <3>1, <3>2
  <2> QED
    BY <2>1, <2>2 DEF Backward
<1>17. OnScreen'
  <2> SUFFICES ASSUME NEW i \in Flying'
               PROVE  fly'[i].x \in 0 .. Bottom /\ fly'[i].v \in Speed \union {- UpSpeed}
    BY DEF OnScreen
  <2>1. CASE i = new
    BY <1>7, <2>1, Numbers
  <2>2. CASE i # new
    <3>1. i \in Flying /\ fly'[i].x = fly[i].x /\ fly'[i].v = fly[i].v
      BY <1>3, <1>8, <1>13, <2>2
    <3> QED
      BY <3>1 DEF LInv, OnScreen
  <2> QED
    BY <2>1, <2>2
<1>18. ASSUME NEW i \in Flying
       PROVE  /\ fly'[i].x = fly[i].x /\ fly'[i].v = fly[i].v
              /\ Chain(i)' = Chain(i)
  <2>1. Walk(i, links) \subseteq Flying
    BY WalkFrom DEF Flying, Chain
  <2>2. DOMAIN links' = DOMAIN links /\ \A w \in Walk(i, links) : links'[w] = links[w]
    BY <1>2, <1>3, <1>9, <2>1, Shape DEF LInv
  <2>3. Walk(i, links') = Walk(i, links)
    BY <2>2, WalkSame
  <2> QED
    BY <1>3, <1>8, <2>3 DEF Chain
<1> QED
  BY <1>1, <1>3, <1>7, <1>13, <1>14, <1>15, <1>16, <1>17, <1>18 DEF LInv

\* A step that changes no link and no position off the screen.
LEMMA SameLinks ==
  ASSUME LInv, UNCHANGED <<free_head, head, hit, miss>>, fly' \in [Node -> FlyT],
         \A i \in Node : fly'[i].next = fly[i].next /\ fly'[i].prev = fly[i].prev,
         \A i \in Flying : /\ fly'[i].x \in 0 .. Bottom
                           /\ fly'[i].v \in Speed \union {- UpSpeed}
  PROVE  LInv' /\ Flying' = Flying /\ links' = links
<1>1. links' = links
  BY DEF links
<1>2. Flying' = Flying /\ Chain(free_head)' = Chain(free_head)
  BY <1>1 DEF Flying, Chain
<1>3. LettersTypeOK'
  BY DEF LInv, LettersTypeOK, FlyT
<1>4. Unused' /\ TwoLists'
  BY <1>1, <1>2, Numbers DEF LInv, Unused, TwoLists
<1>5. Backward'
  <2>1. head # Null => head \in Node
    BY Shape DEF LInv
  <2>2. \A i \in Flying : fly[i].next # Null => fly[i].next \in Node
    BY Shape DEF LInv
  <2>3. Flying \subseteq Node
    BY Shape DEF LInv
  <2> QED
    BY <1>2, <2>1, <2>2, <2>3 DEF LInv, Backward
<1>6. OnScreen'
  BY <1>2 DEF OnScreen
<1> QED
  BY <1>1, <1>2, <1>3, <1>4, <1>5, <1>6 DEF LInv

\* A letter that is hit turns round.
LEMMA HitSound ==
  ASSUME LInv, NEW i, HitLetter(i)
  PROVE  /\ LInv' /\ Flying' = Flying /\ links' = links /\ UNCHANGED <<hit, miss>>
         /\ \A j \in Flying : /\ fly'[j].x = fly[j].x
                              /\ fly'[j].v = IF j = i THEN - UpSpeed ELSE fly[j].v
<1>1. fly' = [fly EXCEPT ![i].v = - UpSpeed] /\ UNCHANGED <<free_head, head, hit, miss>>
  BY DEF HitLetter
<1>2. fly \in [Node -> FlyT]
  BY DEF LInv, LettersTypeOK, FlyT
<1>3. \A j \in Node : /\ fly'[j] \in FlyT
                      /\ fly'[j].next = fly[j].next /\ fly'[j].prev = fly[j].prev
                      /\ fly'[j].x = fly[j].x
                      /\ fly'[j].v = IF j = i THEN - UpSpeed ELSE fly[j].v
  BY <1>1, <1>2 DEF FlyT
<1>4. fly' \in [Node -> FlyT]
  BY <1>1, <1>2, <1>3
<1>5. \A j \in Flying : fly'[j].x \in 0 .. Bottom /\ fly'[j].v \in Speed \union {- UpSpeed}
  BY <1>3, Shape DEF LInv, OnScreen
<1>6. LInv' /\ Flying' = Flying /\ links' = links
  BY <1>1, <1>3, <1>4, <1>5, SameLinks
<1> QED
  BY <1>1, <1>3, <1>6, Shape DEF LInv

LEMMA NextField ==
  ASSUME NEW r \in FlyT, NEW q \in Ptr
  PROVE  [r EXCEPT !.next = q] \in FlyT /\ [r EXCEPT !.next = q].next = q
  BY DEF FlyT

\* update_letter_pos takes a letter that has left the screen off the list.
LEMMA RemoveSound ==
  ASSUME LInv, NEW i \in Flying, NEW x \in - UpSpeed .. Bottom + UpSpeed,
         fly' = [Removed(i) EXCEPT ![i].x = x, ![i].next = free_head],
         free_head' = i, head' = IF i = head THEN fly[i].next ELSE head,
         hit' \in Nat, miss' \in Nat
  PROVE  /\ LInv' /\ Flying' = Flying \ {i}
         /\ \A j \in Flying \ {i} : /\ fly'[j].x = fly[j].x /\ fly'[j].v = fly[j].v
                                    /\ Chain(j)' = Chain(j) \ {i}
<1> DEFINE u == fly[i].prev
           n == fly[i].next
<1>1. /\ fly \in [Node -> FlyT] /\ i \in Node /\ Flying \subseteq Node
      /\ DOMAIN links = Node /\ (\A j \in Node : links[j] = fly[j].next)
      /\ free_head # Null /\ free_head \in Ptr
  <2>1. fly \in [Node -> FlyT] /\ Flying \subseteq Node /\ free_head \in Ptr
    BY Shape DEF LInv, LettersTypeOK, FlyT
  <2>2. DOMAIN links = Node /\ (\A j \in Node : links[j] = fly[j].next)
    BY Shape DEF LInv
  <2>3. free_head = Null => Flying = {}
    BY <2>2, WalkNull, Numbers DEF LInv, Unused, Flying, Chain
  <2> QED
    BY <2>1, <2>2, <2>3
<1>2. /\ Ends(head, links) /\ Ends(free_head, links)
      /\ Flying \intersect Chain(free_head) = {}
      /\ Flying \union Chain(free_head) = Node
      /\ Flying = Walk(head, links) /\ Chain(free_head) = Walk(free_head, links)
  BY <1>1 DEF LInv, TwoLists, Flying, Chain
<1>3. u \in Ptr /\ n \in Ptr /\ n = links[i] /\ (n # Null => n \in Flying /\ fly[n].prev = i)
  <2>1. fly[i] \in FlyT
    BY <1>1
  <2>2. n # Null => n \in Node
    BY <2>1 DEF FlyT, Ptr
  <2>3. n # Null => n \in Flying
    BY <1>1, <1>2, <2>2, WalkClosed DEF Closed
  <2>4. n # Null => fly[n].prev = i
    BY DEF LInv, Backward
  <2> QED
    BY <1>1, <2>1, <2>3, <2>4 DEF FlyT
\* The predecessor is where _prev says, and there is none of the head.
<1>4. /\ i = head => u = Null
      /\ i # head => u \in Flying /\ links[u] = i
      /\ \A w \in Flying : links[w] = i => w = u /\ i # head
  <2>1. i = head => u = Null
    BY <1>1, Numbers DEF LInv, Backward
  <2>2. \A w \in Flying : links[w] = i => w = u
    BY <1>1, Numbers DEF LInv, Backward
  <2>3. i # head => \E w \in Flying : links[w] = i
    BY <1>2, HasPredecessor
  <2>4. \A w \in Flying : links[w] # head
    BY <1>2, FirstHasNone
  <2> QED
    BY <2>1, <2>2, <2>3, <2>4
<1>5. n # i /\ u # i /\ (u \in Node => u # n)
  <2>1. i \notin Walk(n, links)
    BY <1>2, <1>3, NoCycle
  <2>2. n \in Node => n \in Walk(n, links)
    BY <1>1, WalkClosed
  <2>3. n # i
    BY <1>1, <2>1, <2>2
  <2>4. u # i
    <3>1. i # head /\ u = i => links[i] = i
      BY <1>4
    <3>2. i = head => u # i
      BY <1>1, <1>4, Numbers
    <3> QED
      BY <1>3, <2>3, <3>1, <3>2
  <2>5. u \in Node => u # n
    <3> SUFFICES ASSUME u \in Node, u = n PROVE FALSE
      OBVIOUS
    <3>1. links[n] = i
      BY <1>4, Numbers
    <3>2. i \in Walk(n, links)
      BY <1>1, <2>2, <3>1, WalkClosed DEF Closed
    <3> QED
      BY <2>1, <3>2
  <2> QED
    BY <2>3, <2>4, <2>5
<1>6. ASSUME NEW j \in Node
      PROVE  /\ Removed(i)[j] \in FlyT
             /\ Removed(i)[j].next = IF j = u THEN n ELSE fly[j].next
             /\ Removed(i)[j].prev = IF j = n /\ j # u THEN u ELSE fly[j].prev
             /\ Removed(i)[j].x = fly[j].x
             /\ Removed(i)[j].v = fly[j].v
  <2>1. fly[j] \in FlyT
    BY <1>1
  <2>2. Removed(i)[j] = IF j = u THEN [fly[j] EXCEPT !.next = n]
                        ELSE IF j = n THEN [fly[j] EXCEPT !.prev = u]
                        ELSE fly[j]
    BY DEF Removed
  <2> QED
    BY <1>3, <2>1, <2>2 DEF FlyT
<1>7. fly' \in [Node -> FlyT]
      /\ fly'[i].next = free_head
      /\ \A j \in Node \ {i} :
           /\ fly'[j].next = IF j = u THEN n ELSE fly[j].next
           /\ fly'[j].prev = IF j = n /\ j # u THEN u ELSE fly[j].prev
           /\ fly'[j].x = fly[j].x
           /\ fly'[j].v = fly[j].v
  <2>0. DOMAIN Removed(i) = Node
    BY DEF Removed
  <2>1. \A j \in Node \ {i} : fly'[j] = Removed(i)[j]
    BY <2>0
  <2>2. fly'[i] = [[Removed(i)[i] EXCEPT !.x = x] EXCEPT !.next = free_head]
    BY <1>1, <2>0
  <2>3. fly'[i] \in FlyT /\ fly'[i].next = free_head
    <3>1. [Removed(i)[i] EXCEPT !.x = x] \in FlyT
      BY <1>1, <1>6 DEF FlyT
    <3>2. PICK r \in FlyT : fly'[i] = [r EXCEPT !.next = free_head]
      BY <2>2, <3>1
    <3>3. free_head \in Ptr
      BY <1>1
    <3> QED
      BY <3>2, <3>3, NextField
  <2>4. DOMAIN fly' = Node /\ fly' = [j \in Node |-> fly'[j]]
    BY <2>0
  <2>5. fly' \in [Node -> FlyT]
    BY <1>6, <2>1, <2>3, <2>4
  <2> QED
    BY <1>6, <2>1, <2>3, <2>5
<1> HIDE DEF u, n
<1>8. /\ DOMAIN links' = Node /\ links'[i] = free_head
      /\ \A j \in Node \ {i} : links'[j] = IF j = u THEN links[i] ELSE links[j]
  BY <1>1, <1>3, <1>7 DEF links
<1>9. Walk(i, links') = {i} \union Chain(free_head) /\ Ends(i, links')
  <2>1. \A w \in Chain(free_head) : links'[w] = links[w]
    <3>1. \A w \in Chain(free_head) : w \in Node /\ w # i /\ w \notin Flying
      BY <1>2
    <3>2. \A w \in Chain(free_head) : w # u
      BY <1>4, <3>1, Numbers
    <3> QED
      BY <1>8, <3>1, <3>2
  <2> QED
    BY <1>1, <1>2, <1>8, <2>1, Push
<1>10. Walk(head', links') = Flying \ {i} /\ Ends(head', links')
  <2>1. CASE i = head
    <3>1. \A w \in Flying \ {i} : links'[w] = links[w]
      BY <1>1, <1>4, <1>8, <2>1, Numbers
    <3>2. Walk(links[i], links) = Flying \ {i} /\ Ends(links[i], links)
      BY <1>1, <1>2, <2>1, DropFirst
    <3>3. head' = links[i]
      BY <1>3, <2>1 DEF n
    <3>4. DOMAIN links' = DOMAIN links
          /\ \A w \in Walk(links[i], links) : links'[w] = links[w]
      BY <1>1, <1>8, <3>1, <3>2
    <3>5. Walk(links[i], links') = Walk(links[i], links) /\ Ends(links[i], links')
      BY <3>2, <3>4, WalkSame
    <3> QED
      BY <3>2, <3>3, <3>5
  <2>2. CASE i # head
    <3>1. \A w \in Walk(head, links) \ {i} :
             links'[w] = IF links[w] = i THEN links[i] ELSE links[w]
      BY <1>1, <1>2, <1>4, <1>8, <2>2
    <3>2. DOMAIN links' = DOMAIN links /\ head' = head /\ i \in Walk(head, links)
      BY <1>1, <1>2, <1>8, <2>2
    <3>3. Walk(head, links') = Walk(head, links) \ {i} /\ Ends(head, links')
      BY <1>2, <2>2, <3>1, <3>2, Unlink
    <3> QED
      BY <1>2, <3>2, <3>3
  <2> QED
    BY <2>1, <2>2
<1>11. Flying' = Flying \ {i} /\ Chain(free_head)' = {i} \union Chain(free_head)
  BY <1>9, <1>10 DEF Flying, Chain
<1>12. LettersTypeOK'
  <2>1. head' \in Ptr /\ free_head' \in Ptr
    BY <1>1, <1>3 DEF LInv, LettersTypeOK, Ptr, n
  <2> QED
    BY <1>7, <2>1 DEF LettersTypeOK, FlyT
<1>13. Unused' /\ TwoLists'
  <2>1. free_head' # Null
    BY <1>1, Numbers
  <2> QED
    BY <1>1, <1>2, <1>9, <1>10, <1>11, <2>1 DEF Unused, TwoLists
<1>14. Backward'
  <2>1. ASSUME head' # Null
        PROVE  fly'[head'].prev = Null
    <3>1. CASE i = head
      <4>1. head' = n /\ n \in Flying /\ n # i
        BY <1>3, <1>5, <2>1, <3>1 DEF n
      <4> QED
        BY <1>1, <1>4, <1>7, <3>1, <4>1, Numbers
    <3>2. CASE i # head
      <4>1. head' = head /\ head \in Flying
        BY <2>1, <3>2, Shape DEF LInv
      <4>2. head # n
        BY <1>2, <1>3, FirstHasNone
      <4> QED
        BY <1>1, <1>7, <2>1, <3>2, <4>1, <4>2 DEF LInv, Backward
    <3> QED
      BY <3>1, <3>2
  <2>2. ASSUME NEW j \in Flying', fly'[j].next # Null
        PROVE  fly'[fly'[j].next].prev = j
    <3>1. j \in Flying /\ j # i /\ j \in Node
      BY <1>1, <1>11
    <3>2. CASE j = u
      <4>1. fly'[j].next = n /\ n \in Flying /\ n # i /\ n # u
        BY <1>3, <1>5, <1>7, <2>2, <3>1, <3>2
      <4>2. n \in Node \ {i}
        BY <1>1, <4>1
      <4>3. fly'[n].prev = u
        BY <1>7, <4>1, <4>2
      <4> QED
        BY <3>2, <4>1, <4>3
    <3>3. CASE j # u
      <4>1. fly'[j].next = links[j] /\ links[j] \in Flying /\ fly[links[j]].prev = j
        <5>1. fly'[j].next = fly[j].next /\ fly[j].next = links[j]
          BY <1>1, <1>7, <3>1, <3>3
        <5>2. links[j] \in Node
          BY <2>2, <3>1, <5>1, Shape DEF LInv
        <5>3. links[j] \in Flying
          BY <1>1, <1>2, <3>1, <5>2, WalkClosed DEF Closed
        <5> QED
          BY <2>2, <3>1, <5>1, <5>3 DEF LInv, Backward
      <4>2. links[j] # i
        BY <1>4, <3>1, <3>3
      <4>3. links[j] # n
        BY <1>1, <1>2, <1>3, <3>1, <4>1, OnePredecessor
      <4>4. links[j] \in Node \ {i}
        BY <1>1, <4>1, <4>2
      <4>5. fly'[links[j]].prev = fly[links[j]].prev
        BY <1>7, <4>3, <4>4
      <4> QED
        BY <4>1, <4>5
    <3> QED
      BY <3>2, <3>3
  <2> QED
    BY <2>1, <2>2 DEF Backward
<1>15. OnScreen'
  BY <1>1, <1>7, <1>11 DEF LInv, OnScreen
<1>16. ASSUME NEW j \in Flying \ {i}
       PROVE  /\ fly'[j].x = fly[j].x /\ fly'[j].v = fly[j].v
              /\ Chain(j)' = Chain(j) \ {i}
  <2>1. Walk(j, links) \subseteq Flying /\ j \in Walk(j, links)
    BY <1>1, <1>2, WalkFrom, WalkClosed
  <2>2. \A w \in Walk(j, links) \ {i} :
           links'[w] = IF links[w] = i THEN links[i] ELSE links[w]
    BY <1>1, <1>4, <1>8, <2>1, Numbers
  <2>3. DOMAIN links' = DOMAIN links
    BY <1>1, <1>8
  <2>4. CASE i \in Walk(j, links)
    <3>1. Ends(j, links)
      <4>1. PICK last \in Flying : links[last] \notin DOMAIN links
        BY <1>2, WalkNull DEF Ends
      <4>2. last \in Walk(j, links)
        BY <1>2, <4>1, LastReached
      <4> QED
        BY <4>1, <4>2 DEF Ends
    <3>2. Walk(j, links') = Walk(j, links) \ {i}
      BY <2>2, <2>3, <2>4, <3>1, Unlink
    <3> QED
      BY <1>1, <1>7, <3>2 DEF Chain
  <2>5. CASE i \notin Walk(j, links)
    <3>1. \A w \in Walk(j, links) : links[w] # i
      BY <1>1, <2>5, WalkClosed DEF Closed
    <3>2. Walk(j, links') = Walk(j, links)
      BY <2>2, <2>3, <2>5, <3>1, WalkSame
    <3> QED
      BY <1>1, <1>7, <2>5, <3>2 DEF Chain
  <2> QED
    BY <2>4, <2>5
<1> QED
  BY <1>11, <1>12, <1>13, <1>14, <1>15, <1>16 DEF LInv

-----------------------------------------------------------------------------
(* The inductive invariant of the game.                                    *)

\* update_letter_pos stands on a letter on the screen, main_loop elsewhere on
\* none.
Looping == it # Null => it \in Flying /\ pc \in {"letter", "dead"}

\* The game never runs ahead of the timer.
Clock == /\ now <= target /\ target <= tick
         /\ pc \in {"move", "letter", "step"} => now < target

\* The ticks for which a letter has been created.
Started == {t \in 0 .. MaxTick :
              /\ t % (HZ \div CHARACTER_PER_SECOND) = 0
              /\ t < now \/ (t = now /\ pc \in {"move", "letter", "step"})}

Counted == pc # "dead" => hit + miss + Cardinality(Flying) = Cardinality(Started)

IInv == TypeOK /\ LInv /\ Looping /\ Clock /\ Counted

LEMMA Finite ==
  ASSUME LInv, MaxTick \in Nat
  PROVE  /\ IsFiniteSet(Flying) /\ Cardinality(Flying) \in Nat
         /\ IsFiniteSet(Started) /\ Cardinality(Started) \in Nat
<1>1. IsFiniteSet(0 .. SIZE) /\ IsFiniteSet(0 .. MaxTick)
  BY Numbers, FS_Interval
<1>2. Flying \subseteq 0 .. SIZE /\ Started \subseteq 0 .. MaxTick
  BY Shape DEF LInv, Node, Started
<1>3. IsFiniteSet(Flying) /\ IsFiniteSet(Started)
  BY <1>1, <1>2, FS_Subset
<1> QED
  BY <1>3, FS_CardinalityType

\* What Started depends on.
LEMMA SameStarted ==
  ASSUME UNCHANGED now,
         pc \in {"move", "letter", "step"} <=> pc' \in {"move", "letter", "step"}
  PROVE  Started' = Started
  BY DEF Started

LEMMA InitIInv == ASSUME Init PROVE IInv
<1>1. /\ free_head = Null /\ head = Null /\ hit = 0 /\ miss = 0
      /\ pc = "hlt" /\ IF_ = TRUE /\ tick = 0 /\ now = 0 /\ target = 0
      /\ redraw = FALSE /\ num_draw = 0 /\ real_fps = 0 /\ it = Null
      /\ pressed = [c \in Text |-> FALSE]
  BY DEF Init, LettersInit
<1>2. PICK c \in Text : fly = [i \in Node |-> [x |-> 0, v |-> 0, text |-> c,
                                               prev |-> Null, next |-> Null]]
  BY DEF Init, LettersInit
<1>3. fly \in [Node -> FlyT]
  <2>1. 0 \in - UpSpeed .. Bottom + UpSpeed
    BY Numbers
  <2>2. [x |-> 0, v |-> 0, text |-> c, prev |-> Null, next |-> Null] \in FlyT
    BY <2>1 DEF FlyT, Ptr
  <2> QED
    BY <1>2, <2>2
<1>4. LettersTypeOK
  BY <1>1, <1>3 DEF LettersTypeOK, FlyT, Ptr
<1>5. Flying = {}
  BY <1>1, <1>4, Shape, Numbers, WalkNull DEF Flying, Chain
<1>6. Unused /\ TwoLists /\ Backward /\ OnScreen
  BY <1>1, <1>2, <1>5, Numbers DEF Unused, TwoLists, Backward, OnScreen
<1>7. LInv
  BY <1>4, <1>6 DEF LInv
<1>8. TypeOK
  <2>1. tick \in 0 .. MaxTick /\ now \in 0 .. MaxTick /\ target \in 0 .. MaxTick
    BY <1>1, GameAssumption
  <2>2. num_draw \in Nat /\ real_fps \in 0 .. FPS
    BY <1>1, GameAssumption
  <2>3. redraw \in BOOLEAN /\ IF_ \in BOOLEAN /\ it \in Ptr /\ pressed \in [Text -> BOOLEAN]
    BY <1>1 DEF Ptr
  <2> QED
    BY <1>1, <1>4, <2>1, <2>2, <2>3 DEF TypeOK
<1>9. Looping /\ Clock
  BY <1>1 DEF Looping, Clock
<1>10. Counted
  <2>1. Started = {}
    BY <1>1, GameAssumption DEF Started
  <2>2. Cardinality(Flying) = 0 /\ Cardinality(Started) = 0
    BY <1>5, <2>1, FS_EmptySet
  <2> QED
    BY <1>1, <2>2 DEF Counted
<1> QED
  BY <1>7, <1>8, <1>9, <1>10 DEF IInv

-----------------------------------------------------------------------------
(* The steps.                                                              *)

LEMMA SameLetters ==
  ASSUME LInv, UNCHANGED letterVars
  PROVE  LInv' /\ Flying' = Flying
BY DEF letterVars, LInv, LettersTypeOK, Unused, TwoLists, Backward, OnScreen,
       Flying, Chain, links

\* The count is kept by a step that creates and counts no letter.
LEMMA SameCount ==
  ASSUME IInv, pc # "dead", Flying' = Flying, UNCHANGED <<hit, miss>>,
         pc' = "dead" \/ Started' = Started
  PROVE  Counted'
  BY DEF IInv, Counted

\* The interrupts.
LEMMA InterruptIInv ==
  ASSUME IInv, Timer \/ \E c \in Text : Key(c)
  PROVE  IInv'
<1>1. /\ UNCHANGED <<letterVars, IF_, loopVars>> /\ pc # "dead"
      /\ pc' \in {pc, "dead"} \/ (pc = "asleep" /\ pc' = "check")
      /\ tick' \in {tick, tick + 1} /\ tick' \in 0 .. MaxTick
      /\ pressed' \in [Text -> BOOLEAN]
  <2>1. CASE Timer
    <3>1. tick' = IF tick < MaxTick THEN tick + 1 ELSE tick
      BY <2>1 DEF Timer
    <3>2. tick \in 0 .. MaxTick /\ MaxTick \in Nat
      BY GameAssumption DEF IInv, TypeOK
    <3>3. tick' \in {tick, tick + 1} /\ tick' \in 0 .. MaxTick
      BY <3>1, <3>2
    <3>4. UNCHANGED <<letterVars, IF_, loopVars, pressed>> /\ pc # "dead" /\ Wake
      BY <2>1 DEF Timer
    <3>5. pc' \in {pc, "dead"} \/ (pc = "asleep" /\ pc' = "check")
      BY <3>4 DEF Wake, Goto
    <3> QED
      BY <3>3, <3>4, <3>5 DEF IInv, TypeOK
  <2>2. CASE \E c \in Text : Key(c)
    <3>1. PICK c \in Text : Key(c)
      BY <2>2
    <3>2. UNCHANGED <<letterVars, IF_, tick, loopVars>> /\ pc # "dead"
      BY <3>1 DEF Key
    <3>3. \/ pressed' = [pressed EXCEPT ![c] = TRUE] /\ Wake
          \/ pc' = "dead" /\ UNCHANGED pressed
      BY <3>1 DEF Key
    <3>4. pressed' \in [Text -> BOOLEAN]
      BY <3>3 DEF IInv, TypeOK
    <3>5. pc' \in {pc, "dead"} \/ (pc = "asleep" /\ pc' = "check")
      BY <3>3 DEF Wake, Goto
    <3>6. tick' = tick /\ tick \in 0 .. MaxTick
      BY <3>2 DEF IInv, TypeOK
    <3> QED
      BY <3>2, <3>4, <3>5, <3>6
  <2> QED
    BY <2>1, <2>2
<1>2. LInv' /\ Flying' = Flying
  BY <1>1, SameLetters DEF IInv
<1>3. UNCHANGED <<hit, miss, now, target, redraw, num_draw, real_fps, it>>
  BY <1>1 DEF letterVars, loopVars
<1>4. pc' = "dead" \/ Started' = Started
  BY <1>1, <1>3, SameStarted
<1>5. Counted'
  BY <1>1, <1>2, <1>3, <1>4, SameCount
<1>6. TypeOK'
  <2>1. LettersTypeOK'
    BY <1>2 DEF LInv
  <2>2. pc' \in {"hlt", "asleep", "check", "keys", "frame", "move", "letter",
                 "step", "dead"}
    BY <1>1 DEF IInv, TypeOK
  <2> QED
    BY <1>1, <1>3, <2>1, <2>2 DEF IInv, TypeOK
<1>7. Clock'
  <2>1. now \in Int /\ target \in Int /\ tick \in Int
    BY DEF IInv, TypeOK
  <2>2. pc' \in {"move", "letter", "step"} => pc \in {"move", "letter", "step"}
    BY <1>1
  <2> QED
    BY <1>1, <1>3, <2>1, <2>2 DEF IInv, Clock
<1>8. Looping'
  BY <1>1, <1>2, <1>3 DEF IInv, Looping
<1> QED
  BY <1>2, <1>5, <1>6, <1>7, <1>8 DEF IInv

\* Steps of main_loop that leave the letters and the clock alone.
LEMMA WaitIInv ==
  ASSUME IInv, Hlt \/ CheckTick \/ Draw
  PROVE  IInv'
<1>1. /\ UNCHANGED <<letterVars, tick, now, real_fps, it, pressed>>
      /\ pc \in {"hlt", "check", "frame"}
      /\ pc' \in {"asleep", "hlt", "keys", "dead"}
      /\ IF_' \in {IF_, TRUE} /\ redraw' \in {redraw, FALSE}
      /\ num_draw' \in {num_draw, num_draw + 1}
      /\ target' = target \/ (target' = tick /\ now < tick)
  <2>1. CASE Hlt
    BY <2>1 DEF Hlt, Goto, loopVars
  <2>2. CASE CheckTick
    BY <2>2 DEF CheckTick, Goto, CatchUpTo
  <2>3. CASE Draw
    BY <2>3 DEF Draw, Goto
  <2> QED
    BY <2>1, <2>2, <2>3
<1>2. LInv' /\ Flying' = Flying
  BY <1>1, SameLetters DEF IInv
<1>3. UNCHANGED <<hit, miss>>
  BY <1>1 DEF letterVars
<1>4. Started' = Started
  BY <1>1, SameStarted
<1>5. Counted'
  BY <1>1, <1>2, <1>3, <1>4, SameCount
<1>6. TypeOK'
  <2>1. LettersTypeOK'
    BY <1>2 DEF LInv
  <2>2. num_draw' \in Nat
    BY <1>1 DEF IInv, TypeOK
  <2>3. target' \in 0 .. MaxTick
    BY <1>1 DEF IInv, TypeOK
  <2>4. pc' \in {"hlt", "asleep", "check", "keys", "frame", "move", "letter",
                 "step", "dead"}
    BY <1>1
  <2>5. IF_' \in BOOLEAN /\ redraw' \in BOOLEAN
    BY <1>1 DEF IInv, TypeOK
  <2> QED
    BY <1>1, <2>1, <2>2, <2>3, <2>4, <2>5 DEF IInv, TypeOK
<1>7. Clock'
  <2>1. now \in Int /\ target \in Int /\ tick \in Int
    BY DEF IInv, TypeOK
  <2> QED
    BY <1>1, <2>1 DEF IInv, Clock
<1>8. Looping'
  BY <1>1, <1>2 DEF IInv, Looping
<1> QED
  BY <1>2, <1>5, <1>6, <1>7, <1>8 DEF IInv

\* update_keypress: a letter that is hit stays on the list.
LEMMA KeypressIInv ==
  ASSUME IInv, UpdateKeypress
  PROVE  IInv'
<1>1. /\ UNCHANGED <<tick, loopVars>> /\ pc = "keys" /\ pc' \in {"keys", "frame"}
      /\ IF_' \in BOOLEAN /\ pressed' \in [Text -> BOOLEAN]
      /\ UNCHANGED letterVars \/ \E i : HitLetter(i)
  <2>1. pressed \in [Text -> BOOLEAN]
    BY DEF IInv, TypeOK
  <2>2. pressed' \in [Text -> BOOLEAN]
    BY <2>1 DEF UpdateKeypress
  <2> QED
    BY <2>2 DEF UpdateKeypress, Goto
<1>2. LInv' /\ Flying' = Flying /\ UNCHANGED <<hit, miss>>
  <2>1. CASE UNCHANGED letterVars
    BY <2>1, SameLetters DEF IInv, letterVars
  <2>2. CASE \E i : HitLetter(i)
    BY <2>2, HitSound DEF IInv
  <2> QED
    BY <1>1, <2>1, <2>2
<1>3. UNCHANGED <<now, target, redraw, num_draw, real_fps, it>>
  BY <1>1 DEF loopVars
<1>4. Started' = Started
  BY <1>1, <1>3, SameStarted
<1>5. Counted'
  BY <1>1, <1>2, <1>4, SameCount
<1>6. TypeOK'
  BY <1>1, <1>2, <1>3 DEF IInv, TypeOK, LInv
<1>7. Clock' /\ Looping'
  BY <1>1, <1>2, <1>3 DEF IInv, Clock, Looping
<1> QED
  BY <1>2, <1>5, <1>6, <1>7 DEF IInv

\* Head of the catch-up loop: a letter is created exactly when one is due.
LEMMA FrameIInv ==
  ASSUME IInv, Frame
  PROVE  IInv'
<1>1. /\ pc = "frame" /\ now < target /\ UNCHANGED <<IF_, tick, loopVars>>
      /\ \/ /\ ~ Due(CHARACTER_PER_SECOND) /\ pc' = "move"
            /\ UNCHANGED <<letterVars, pressed>>
         \/ /\ pc' = "dead" /\ UNCHANGED <<letterVars, pressed>>
         \/ /\ Due(CHARACTER_PER_SECOND) /\ pc' = "move"
            /\ \E v \in Speed, c \in Text :
                 AddLetter(v, c) /\ pressed' = [pressed EXCEPT ![c] = FALSE]
  BY DEF Frame, Goto
<1>2. UNCHANGED <<now, target, redraw, num_draw, real_fps, it, tick, IF_>>
  BY <1>1 DEF loopVars
<1>3. pressed' \in [Text -> BOOLEAN] /\ pc' \in {"move", "dead"}
  BY <1>1 DEF IInv, TypeOK
<1>4. now \in 0 .. MaxTick /\ now \in Int /\ hit \in Nat /\ miss \in Nat
  BY DEF IInv, TypeOK, LettersTypeOK
<1>5. it = Null
  BY <1>1 DEF IInv, Looping
<1>6. CASE pc' = "dead"
  <2>1. UNCHANGED <<letterVars, pressed>>
    BY <1>1, <1>6
  <2>2. LInv' /\ Flying' = Flying
    BY <2>1, SameLetters DEF IInv
  <2>3. TypeOK'
    BY <1>2, <1>3, <2>2 DEF IInv, TypeOK, LInv
  <2>4. Clock' /\ Looping' /\ Counted'
    BY <1>2, <1>5, <1>6 DEF IInv, Clock, Looping, Counted
  <2> QED
    BY <2>2, <2>3, <2>4 DEF IInv
<1>7. CASE pc' = "move" /\ ~ Due(CHARACTER_PER_SECOND)
  <2>1. UNCHANGED <<letterVars, pressed>>
    BY <1>1, <1>7
  <2>2. LInv' /\ Flying' = Flying /\ UNCHANGED <<hit, miss>>
    BY <2>1, SameLetters DEF IInv, letterVars
  <2>3. TypeOK'
    BY <1>2, <1>3, <2>2 DEF IInv, TypeOK, LInv
  <2>4. Started' = Started
    BY <1>1, <1>2, <1>7 DEF Started, Due
  <2>5. Counted'
    BY <1>1, <2>2, <2>4, SameCount
  <2>6. Clock' /\ Looping'
    BY <1>1, <1>2, <1>5 DEF IInv, Clock, Looping
  <2> QED
    BY <2>2, <2>3, <2>5, <2>6 DEF IInv
<1>8. CASE pc' = "move" /\ Due(CHARACTER_PER_SECOND)
  <2>1. PICK v \in Speed, c \in Text : AddLetter(v, c)
    BY <1>1, <1>8
  <2>2. /\ LInv' /\ NewNode \notin Flying /\ Flying' = Flying \union {NewNode}
        /\ UNCHANGED <<hit, miss>>
    BY <2>1, AddSound DEF IInv
  <2>3. TypeOK'
    BY <1>2, <1>3, <2>2 DEF IInv, TypeOK, LInv
  <2>4. Started' = Started \union {now} /\ now \notin Started
    BY <1>1, <1>2, <1>4, <1>8 DEF Started, Due
  <2>5. Counted'
    <3>1. /\ IsFiniteSet(Flying) /\ Cardinality(Flying) \in Nat
          /\ IsFiniteSet(Started) /\ Cardinality(Started) \in Nat
      BY Finite, GameAssumption DEF IInv
    <3>2. /\ Cardinality(Flying') = Cardinality(Flying) + 1
          /\ Cardinality(Started') = Cardinality(Started) + 1
      BY <2>2, <2>4, <3>1, FS_AddElement
    <3>3. hit + miss + Cardinality(Flying) = Cardinality(Started)
      BY <1>1 DEF IInv, Counted
    <3>4. hit + miss + (Cardinality(Flying) + 1) = Cardinality(Started) + 1
      BY <1>4, <3>1, <3>3
    <3> QED
      BY <2>2, <3>2, <3>4 DEF Counted
  <2>6. Clock' /\ Looping'
    BY <1>1, <1>2, <1>5 DEF IInv, Clock, Looping
  <2> QED
    BY <2>2, <2>3, <2>5, <2>6 DEF IInv
<1> QED
  BY <1>3, <1>6, <1>7, <1>8

\* The loop of update_letter_pos begins, or is skipped.
LEMMA MoveIInv ==
  ASSUME IInv, Move
  PROVE  IInv'
<1>1. /\ pc = "move" /\ pc' \in {"letter", "step"}
      /\ \/ it' = head /\ pc' = "letter"
         \/ it' = it
      /\ UNCHANGED <<letterVars, IF_, tick, now, target, redraw, num_draw,
                     real_fps, pressed>>
  BY DEF Move, Goto
<1>2. LInv' /\ Flying' = Flying /\ UNCHANGED <<hit, miss>>
  BY <1>1, SameLetters DEF IInv, letterVars
<1>3. Started' = Started
  BY <1>1, SameStarted
<1>4. Counted'
  BY <1>1, <1>2, <1>3, SameCount
<1>5. it = Null
  BY <1>1 DEF IInv, Looping
<1>6. head \in Ptr /\ (head # Null => head \in Flying)
  BY Shape DEF IInv, LInv, LettersTypeOK
<1>7. TypeOK'
  BY <1>1, <1>2, <1>6 DEF IInv, TypeOK, LInv
<1>8. Clock' /\ Looping'
  BY <1>1, <1>2, <1>5, <1>6 DEF IInv, Clock, Looping
<1> QED
  BY <1>2, <1>4, <1>7, <1>8 DEF IInv

\* The rest of the turn: the tick's letter stays counted.
LEMMA StepIInv ==
  ASSUME IInv, Step
  PROVE  IInv'
<1>1. /\ pc = "step" /\ pc' = "frame" /\ now' = now + 1
      /\ redraw' = (redraw \/ Due(FPS))
      /\ \/ real_fps' = Rate /\ num_draw' = 0
         \/ UNCHANGED <<real_fps, num_draw>>
      /\ UNCHANGED <<letterVars, IF_, tick, target, it, pressed>>
  BY DEF Step, Goto, NextNow
<1>2. LInv' /\ Flying' = Flying /\ UNCHANGED <<hit, miss>>
  BY <1>1, SameLetters DEF IInv, letterVars
<1>3. /\ now \in 0 .. MaxTick /\ target \in 0 .. MaxTick /\ tick \in 0 .. MaxTick
      /\ MaxTick \in Nat /\ now < target /\ target <= tick
  BY <1>1, GameAssumption DEF IInv, TypeOK, Clock
<1>4. now' \in 0 .. MaxTick /\ now' <= target
  BY <1>1, <1>3
<1>5. Started' = Started
  <2>1. \A t \in 0 .. MaxTick : t < now + 1 <=> t < now \/ t = now
    BY <1>3
  <2> QED
    BY <1>1, <2>1 DEF Started
<1>6. Counted'
  BY <1>1, <1>2, <1>5, SameCount
<1>7. real_fps' \in 0 .. FPS /\ num_draw' \in Nat
  <2>1. num_draw \in Nat /\ real_fps \in 0 .. FPS /\ FPS \in Nat
    BY GameAssumption DEF IInv, TypeOK
  <2>2. Rate \in 0 .. FPS
    BY <2>1 DEF Rate
  <2> QED
    BY <1>1, <2>1, <2>2
<1>8. TypeOK'
  <2>1. redraw' \in BOOLEAN
    BY <1>1
  <2> QED
    BY <1>1, <1>2, <1>4, <1>7, <2>1 DEF IInv, TypeOK, LInv
<1>9. Clock' /\ Looping'
  <2>1. it = Null
    BY <1>1 DEF IInv, Looping
  <2> QED
    BY <1>1, <1>3, <1>4, <2>1 DEF Clock, Looping
<1> QED
  BY <1>2, <1>6, <1>8, <1>9 DEF IInv

\* What one turn of the loop of update_letter_pos does to the letter it is at.
LEMMA TurnSound ==
  ASSUME LInv, NEW i \in Flying, MoveLetter(i)
  PROVE  /\ LInv'
         /\ \A j \in Flying \ {i} : fly'[j].x = fly[j].x /\ fly'[j].v = fly[j].v
         /\ \/ /\ Flying' = Flying /\ links' = links /\ UNCHANGED <<hit, miss>>
               /\ fly'[i].x = fly[i].x + fly[i].v /\ fly'[i].v = fly[i].v
               /\ fly'[i].x \in 0 .. Bottom
            \/ /\ Flying' = Flying \ {i}
               /\ hit' + miss' = hit + miss + 1
               /\ \A j \in Flying \ {i} : Chain(j)' = Chain(j) \ {i}
<1> DEFINE x == fly[i].x + fly[i].v
<1>1. /\ fly \in [Node -> FlyT] /\ i \in Node /\ Flying \subseteq Node
      /\ hit \in Nat /\ miss \in Nat
  BY Shape DEF LInv, LettersTypeOK, FlyT
<1>2. x \in - UpSpeed .. Bottom + UpSpeed
  <2>1. fly[i].x \in 0 .. Bottom /\ fly[i].v \in Speed \union {- UpSpeed}
    BY DEF LInv, OnScreen
  <2>2. fly[i].v \in - UpSpeed .. UpSpeed
    BY <2>1, Numbers
  <2> HIDE DEF x
  <2>3. x = fly[i].x + fly[i].v
    BY DEF x
  <2> QED
    BY <2>1, <2>2, <2>3, Numbers
<1>3. \/ /\ x \in 0 .. Bottom
         /\ fly' = [fly EXCEPT ![i].x = x]
         /\ UNCHANGED <<free_head, head, hit, miss>>
      \/ /\ fly' = [Removed(i) EXCEPT ![i].x = x, ![i].next = free_head]
         /\ free_head' = i
         /\ head' = IF i = head THEN fly[i].next ELSE head
         /\ \/ hit' = hit + 1 /\ miss' = miss
            \/ miss' = miss + 1 /\ hit' = hit
  BY DEF MoveLetter, Freed
<1> HIDE DEF x
<1>4. CASE /\ x \in 0 .. Bottom
           /\ fly' = [fly EXCEPT ![i].x = x]
           /\ UNCHANGED <<free_head, head, hit, miss>>
  <2>1. \A j \in Node : /\ fly'[j] \in FlyT
                        /\ fly'[j].next = fly[j].next /\ fly'[j].prev = fly[j].prev
                        /\ fly'[j].v = fly[j].v
                        /\ fly'[j].x = IF j = i THEN x ELSE fly[j].x
    BY <1>1, <1>2, <1>4 DEF FlyT
  <2>2. fly' \in [Node -> FlyT]
    BY <1>1, <1>4, <2>1
  <2>3. \A j \in Flying : fly'[j].x \in 0 .. Bottom /\ fly'[j].v \in Speed \union {- UpSpeed}
    BY <1>1, <1>4, <2>1 DEF LInv, OnScreen
  <2>4. LInv' /\ Flying' = Flying /\ links' = links
    BY <1>4, <2>1, <2>2, <2>3, SameLinks
  <2>5. fly'[i].x = fly[i].x + fly[i].v /\ fly'[i].x \in 0 .. Bottom
    BY <1>1, <1>4, <2>1 DEF x
  <2> QED
    BY <1>1, <1>4, <2>1, <2>4, <2>5
<1>5. CASE /\ fly' = [Removed(i) EXCEPT ![i].x = x, ![i].next = free_head]
           /\ free_head' = i
           /\ head' = IF i = head THEN fly[i].next ELSE head
           /\ \/ hit' = hit + 1 /\ miss' = miss
              \/ miss' = miss + 1 /\ hit' = hit
  <2>1. hit' \in Nat /\ miss' \in Nat /\ hit' + miss' = hit + miss + 1
    BY <1>1, <1>5
  <2>2. /\ LInv' /\ Flying' = Flying \ {i}
        /\ \A j \in Flying \ {i} : /\ fly'[j].x = fly[j].x /\ fly'[j].v = fly[j].v
                                   /\ Chain(j)' = Chain(j) \ {i}
    BY <1>2, <1>5, <2>1, RemoveSound
  <2> QED
    BY <2>1, <2>2
<1> QED
  BY <1>3, <1>4, <1>5

\* update_letter_pos goes on to a letter that is still on the list, though
\* the one it stood on may have been freed.
LEMMA LetterIInv ==
  ASSUME IInv, Letter
  PROVE  IInv'
<1>1. /\ pc = "letter"
      /\ \/ it # Null /\ MoveLetter(it) /\ it' = fly[it].next /\ pc' = pc
         \/ it = Null /\ pc' = "step" /\ UNCHANGED <<letterVars, it>>
      /\ UNCHANGED <<IF_, tick, now, target, redraw, num_draw, real_fps, pressed>>
  BY DEF Letter, Goto
<1>2. Started' = Started
  BY <1>1, SameStarted
<1>3. CASE it = Null
  <2>1. pc' = "step" /\ UNCHANGED <<letterVars, it>>
    BY <1>1, <1>3
  <2>2. LInv' /\ Flying' = Flying /\ UNCHANGED <<hit, miss>>
    BY <2>1, SameLetters DEF IInv, letterVars
  <2>3. Counted'
    BY <1>1, <1>2, <2>2, SameCount
  <2>4. TypeOK'
    BY <1>1, <2>1, <2>2 DEF IInv, TypeOK, LInv
  <2>5. Clock' /\ Looping'
    BY <1>1, <1>3, <2>1 DEF IInv, Clock, Looping
  <2> QED
    BY <2>2, <2>3, <2>4, <2>5 DEF IInv
<1>4. CASE it # Null
  <2>1. it \in Flying /\ MoveLetter(it) /\ it' = fly[it].next /\ pc' = "letter"
    BY <1>1, <1>4 DEF IInv, Looping
  <2>2. /\ LInv'
        /\ \/ Flying' = Flying /\ UNCHANGED <<hit, miss>>
           \/ Flying' = Flying \ {it} /\ hit' + miss' = hit + miss + 1
    BY <2>1, TurnSound DEF IInv
  <2>3. /\ it' \in Ptr
        /\ it' # Null => it' \in Flying /\ it' # it
    <3>1. DOMAIN links = Node /\ it \in Node /\ links[it] = fly[it].next
      BY <2>1, Shape DEF IInv, LInv
    <3>2. links[it] \in Node \/ links[it] = Null
      BY <3>1, Shape DEF IInv, LInv
    <3>3. links[it] \in Node => links[it] \in Flying
      BY <2>1, <3>1, WalkClosed DEF Closed, Flying, Chain
    <3>4. links[it] # it
      <4>1. free_head # Null
        BY <2>1, <3>1, WalkNull, Numbers DEF IInv, LInv, Unused, Flying, Chain
      <4>2. it \notin Walk(links[it], links)
        BY <2>1, <4>1, NoCycle DEF IInv, LInv, TwoLists, Flying, Chain
      <4> QED
        BY <3>1, <4>2, WalkClosed
    <3> QED
      BY <2>1, <3>1, <3>2, <3>3, <3>4 DEF Ptr
  <2>4. Counted'
    <3>1. IsFiniteSet(Flying) /\ Cardinality(Flying) \in Nat /\ hit \in Nat /\ miss \in Nat
      BY Finite, GameAssumption DEF IInv, LInv, LettersTypeOK
    <3>2. hit + miss + Cardinality(Flying) = Cardinality(Started)
      BY <1>1 DEF IInv, Counted
    <3>3. CASE Flying' = Flying \ {it} /\ hit' + miss' = hit + miss + 1
      <4>1. Cardinality(Flying') = Cardinality(Flying) - 1
        BY <2>1, <3>1, <3>3, FS_RemoveElement
      <4>2. hit + miss + 1 + (Cardinality(Flying) - 1) = Cardinality(Started)
        BY <3>1, <3>2
      <4> QED
        BY <1>2, <3>3, <4>1, <4>2 DEF Counted
    <3>4. CASE Flying' = Flying /\ UNCHANGED <<hit, miss>>
      BY <1>2, <3>2, <3>4 DEF Counted
    <3> QED
      BY <2>2, <3>3, <3>4
  <2>5. TypeOK'
    BY <1>1, <2>1, <2>2, <2>3 DEF IInv, TypeOK, LInv
  <2>6. Clock' /\ Looping'
    BY <1>1, <2>1, <2>2, <2>3 DEF IInv, Clock, Looping
  <2> QED
    BY <2>2, <2>4, <2>5, <2>6 DEF IInv
<1> QED
  BY <1>3, <1>4

LEMMA NextIInv == ASSUME IInv, [Next]_vars PROVE IInv'
<1>1. CASE Timer \/ \E c \in Text : Key(c)
  BY <1>1, InterruptIInv
<1>2. CASE Hlt \/ CheckTick \/ Draw
  BY <1>2, WaitIInv
<1>3. CASE UpdateKeypress
  BY <1>3, KeypressIInv
<1>4. CASE Frame
  BY <1>4, FrameIInv
<1>5. CASE Move
  BY <1>5, MoveIInv
<1>6. CASE Letter
  BY <1>6, LetterIInv
<1>7. CASE Step
  BY <1>7, StepIInv
<1>8. CASE UNCHANGED vars
  <2>1. UNCHANGED <<letterVars, loopVars, pc, IF_, tick, pressed>>
    BY <1>8 DEF vars
  <2>2. UNCHANGED <<hit, miss, now, target, redraw, num_draw, real_fps, it>>
    BY <2>1 DEF letterVars, loopVars
  <2>3. LInv' /\ Flying' = Flying /\ Started' = Started
    BY <2>1, <2>2, SameLetters, SameStarted DEF IInv
  <2>4. TypeOK'
    BY <2>1, <2>2, <2>3 DEF IInv, TypeOK, LInv
  <2>5. Clock' /\ Looping' /\ Counted'
    BY <2>1, <2>2, <2>3 DEF IInv, Clock, Looping, Counted
  <2> QED
    BY <2>3, <2>4, <2>5 DEF IInv
<1> QED
  BY <1>1, <1>2, <1>3, <1>4, <1>5, <1>6, <1>7, <1>8 DEF Next, MainLoop

-----------------------------------------------------------------------------
(* The theorems.                                                           *)

LEMMA Invariance == Spec => []IInv
  BY InitIInv, NextIInv, PTL DEF Spec

\* Every variable of the game keeps its type: a letter's position stays within
\* one move of the screen, and the frame rate shown within FPS.
THEOREM TypeCorrect == Spec => []TypeOK
<1>1. IInv => TypeOK
  BY DEF IInv
<1> QED
  BY <1>1, Invariance, PTL

\* The two lists of the pool are lists and share it between them, _prev undoes
\* _next, and update_letter_pos never stands on a freed node
\* (linklist.h:42-86, effect.c:33-65).
THEOREM ListsStaySound == Spec => []ListSound
<1>1. IInv => ListSound
  BY DEF IInv, LInv, TwoLists, Backward, Looping, ListSound
<1> QED
  BY <1>1, Invariance, PTL

\* No letter is lost and none is created twice, however late the ticks are
\* made up for (game.c:58-60).
THEOREM LettersCounted == Spec => []EveryLetterCounted
<1>1. IInv => EveryLetterCounted
  BY DEF IInv, Counted, Started, EveryLetterCounted
<1> QED
  BY <1>1, Invariance, PTL

-----------------------------------------------------------------------------
(* The pool is large enough.                                               *)

\* Division by a positive number, from its definition.
LEMMA Quotient ==
  ASSUME NEW a \in Nat, NEW d \in Nat \ {0}
  PROVE  /\ a \div d \in Nat
         /\ a % d \in 0 .. d - 1
         /\ a = d * (a \div d) + (a % d)
  OBVIOUS

LEMMA QuotientLess ==
  ASSUME NEW a \in Nat, NEW b \in Nat, NEW d \in Nat \ {0}, a + d <= b
  PROVE  a \div d + 1 <= b \div d
<1> DEFINE p == a \div d
           q == b \div d
<1>1. /\ p \in Nat /\ q \in Nat /\ a % d \in 0 .. d - 1 /\ b % d \in 0 .. d - 1
      /\ a = d * p + (a % d) /\ b = d * q + (b % d)
  BY Quotient
<1> HIDE DEF p, q
<1>2. SUFFICES ASSUME q <= p PROVE FALSE
  BY <1>1 DEF p, q
<1>3. d * q <= d * p
  <2>1. PICK k \in Nat : p = q + k
    BY <1>1, <1>2
  <2>2. d * p = d * q + d * k /\ d * k \in Nat
    BY <1>1, <2>1
  <2> QED
    BY <1>1, <2>2
<1>4. b < d * q + d /\ a >= d * p
  BY <1>1
<1> QED
  BY <1>1, <1>3, <1>4

LEMMA QuotientLe ==
  ASSUME NEW a \in Nat, NEW b \in Nat, NEW d \in Nat \ {0}, a <= b
  PROVE  a \div d <= b \div d
<1>1. a \div d \in Nat /\ b \div d \in Nat /\ (b + d) \div d \in Nat
  BY Quotient
<1>2. (b + d) \div d = b \div d + 1
  OBVIOUS
<1>3. a \div d + 1 <= (b + d) \div d
  BY QuotientLess
<1> QED
  BY <1>1, <1>2, <1>3

\* A multiple of a multiple.
LEMMA MultipleOf ==
  ASSUME NEW n \in Nat, NEW p \in Nat \ {0}, NEW u \in Nat \ {0}, p % u = 0, n % p = 0
  PROVE  n % u = 0
<1> DEFINE k == p \div u
           m == n \div p
<1>1. k \in Nat /\ m \in Nat /\ p = u * k /\ n = p * m
  BY Quotient
<1> HIDE DEF k, m
<1>2. PICK q \in Nat : n = u * q
  <2>1. k * m \in Nat /\ (u * k) * m = u * (k * m)
    BY <1>1
  <2> QED
    BY <1>1, <2>1
<1>3. (u * q) % u = 0
  OBVIOUS
<1> QED
  BY <1>2, <1>3

\* The moves a letter has before it at most.
Left(slowest, i) ==
  IF fly[i].v < 0 THEN fly[i].x \div UpSpeed + 1
                  ELSE (Bottom - fly[i].x) \div slowest + 1 + Bottom \div UpSpeed

\* The letters created after it are in front of it on the list.
Newer(i) == Flying \ Chain(i)

Behind(slowest, i) == Left(slowest, i) + Cardinality(Newer(i))

\* Whether letter i has still to make the move of a tick in which a letter is
\* created.
Waits(i) == \/ pc = "move" /\ Due(CHARACTER_PER_SECOND)
            \/ pc = "letter" /\ i \in Chain(it)

\* A letter has made a move for every newer letter.
Paced(slowest) ==
  \A i \in Flying :
    Behind(slowest, i) <= IF Waits(i) THEN Lifetime(slowest) ELSE Lifetime(slowest) - 1

LEMMA LeftFacts ==
  ASSUME LInv, NEW slowest \in 1 .. UpSpeed, Speed \subseteq slowest .. UpSpeed,
         NEW i \in Flying
  PROVE  /\ Left(slowest, i) \in Nat \ {0}
         /\ Lifetime(slowest) \in Nat
         /\ IsFiniteSet(Newer(i)) /\ Cardinality(Newer(i)) \in Nat
         /\ fly[i].x \in 0 .. Bottom
         /\ fly[i].v \in slowest .. UpSpeed \/ fly[i].v = - UpSpeed
<1>1. fly[i].x \in 0 .. Bottom /\ (fly[i].v \in slowest .. UpSpeed \/ fly[i].v = - UpSpeed)
  BY DEF LInv, OnScreen
<1>2. slowest \in Nat \ {0} /\ Bottom - fly[i].x \in Nat /\ fly[i].x \in Nat
  BY <1>1, Numbers
<1>3. /\ fly[i].x \div UpSpeed \in Nat /\ Bottom \div UpSpeed \in Nat
      /\ Bottom \div slowest \in Nat /\ (Bottom - fly[i].x) \div slowest \in Nat
  BY <1>2, Numbers, Quotient
<1>4. Left(slowest, i) \in Nat \ {0} /\ Lifetime(slowest) \in Nat
  BY <1>3 DEF Left, Lifetime
<1>5. IsFiniteSet(0 .. SIZE) /\ Newer(i) \subseteq 0 .. SIZE
  BY Numbers, FS_Interval, Shape DEF LInv, Newer, Node
<1>6. IsFiniteSet(Newer(i))
  BY <1>5, FS_Subset
<1> QED
  BY <1>1, <1>4, <1>6, FS_CardinalityType

\* A newly created letter.
LEMMA LeftAtFirst ==
  ASSUME NEW slowest \in 1 .. UpSpeed, NEW i, fly[i].x = 0, fly[i].v \in slowest .. UpSpeed
  PROVE  Left(slowest, i) = Lifetime(slowest)
<1>1. ~ (fly[i].v < 0) /\ Bottom - fly[i].x = Bottom
  BY Numbers
<1> QED
  BY <1>1 DEF Left, Lifetime

\* A move uses one up.
LEMMA LeftAfterMove ==
  ASSUME LInv, NEW slowest \in 1 .. UpSpeed, Speed \subseteq slowest .. UpSpeed,
         NEW i \in Flying,
         fly'[i].x = fly[i].x + fly[i].v, fly'[i].v = fly[i].v, fly'[i].x \in 0 .. Bottom
  PROVE  Left(slowest, i)' \in Nat /\ Left(slowest, i)' + 1 <= Left(slowest, i)
<1> DEFINE x == fly[i].x
           v == fly[i].v
<1>1. /\ x \in 0 .. Bottom /\ (v \in slowest .. UpSpeed \/ v = - UpSpeed)
      /\ slowest \in Nat \ {0}
  BY LeftFacts, Numbers
<1> HIDE DEF x, v
<1>2. fly'[i].x = x + v /\ fly'[i].v = v /\ x + v \in 0 .. Bottom
  BY DEF x, v
<1>3. CASE v = - UpSpeed
  <2>1. x + v \in Nat /\ x \in Nat /\ (x + v) + UpSpeed <= x /\ v < 0
    BY <1>1, <1>2, <1>3, Numbers
  <2>2. (x + v) \div UpSpeed + 1 <= x \div UpSpeed
    BY <2>1, QuotientLess, Numbers
  <2>3. (x + v) \div UpSpeed \in Nat /\ x \div UpSpeed \in Nat
    BY <2>1, Quotient, Numbers
  <2>4. /\ Left(slowest, i) = x \div UpSpeed + 1
        /\ Left(slowest, i)' = (x + v) \div UpSpeed + 1
    BY <1>2, <2>1 DEF Left, x, v
  <2> QED
    BY <2>2, <2>3, <2>4
<1>4. CASE v \in slowest .. UpSpeed
  <2> DEFINE b == Bottom - x
             c == Bottom - (x + v)
  <2>1. b \in Nat /\ c \in Nat /\ c + slowest <= b /\ ~ (v < 0)
    BY <1>1, <1>2, <1>4, Numbers
  <2> HIDE DEF b, c
  <2>2. c \div slowest + 1 <= b \div slowest
    BY <1>1, <2>1, QuotientLess
  <2>3. c \div slowest \in Nat /\ b \div slowest \in Nat /\ Bottom \div UpSpeed \in Nat
    BY <1>1, <2>1, Quotient, Numbers
  <2>4. /\ Left(slowest, i) = b \div slowest + 1 + Bottom \div UpSpeed
        /\ Left(slowest, i)' = c \div slowest + 1 + Bottom \div UpSpeed
    BY <1>2, <2>1 DEF Left, x, v, b, c
  <2> QED
    BY <2>2, <2>3, <2>4
<1> QED
  BY <1>1, <1>3, <1>4

\* To be hit takes none from it that it would not have lost.
LEMMA LeftAfterHit ==
  ASSUME LInv, NEW slowest \in 1 .. UpSpeed, Speed \subseteq slowest .. UpSpeed,
         NEW i \in Flying, fly'[i].x = fly[i].x, fly'[i].v \in {fly[i].v, - UpSpeed}
  PROVE  Left(slowest, i)' \in Nat /\ Left(slowest, i)' <= Left(slowest, i)
<1>1. /\ Left(slowest, i) \in Nat /\ fly[i].x \in 0 .. Bottom
      /\ slowest \in Nat \ {0}
      /\ fly[i].v \in slowest .. UpSpeed \/ fly[i].v = - UpSpeed
  BY LeftFacts, Numbers
<1>2. CASE fly'[i].v = fly[i].v
  BY <1>1, <1>2 DEF Left
<1>3. CASE fly'[i].v # fly[i].v
  <2>1. fly'[i].v < 0 /\ ~ (fly[i].v < 0)
    BY <1>1, <1>3, Numbers
  <2> DEFINE a == fly[i].x \div UpSpeed
             b == Bottom \div UpSpeed
             c == (Bottom - fly[i].x) \div slowest
  <2>0. /\ fly[i].x \in Nat /\ Bottom \in Nat /\ UpSpeed \in Nat \ {0}
        /\ fly[i].x <= Bottom
    BY <1>1, Numbers
  <2>2. a \in Nat /\ b \in Nat /\ a <= b
    BY <2>0, Quotient, QuotientLe
  <2>3. Bottom - fly[i].x \in Nat
    BY <1>1, Numbers
  <2>4. c \in Nat
    BY <1>1, <2>3, Quotient
  <2>5. Left(slowest, i)' = a + 1 /\ Left(slowest, i) = c + 1 + b
    BY <2>1 DEF Left
  <2> HIDE DEF a, b, c
  <2> QED
    BY <2>2, <2>4, <2>5
<1> QED
  BY <1>2, <1>3

\* What stands behind when no letter moves.
LEMMA SamePace ==
  ASSUME UNCHANGED <<fly, head>>
  PROVE  Flying' = Flying /\ \A s, i : Behind(s, i)' = Behind(s, i)
  BY DEF Behind, Left, Newer, Chain, Flying, links

\* The rates, as the code divides HZ by them.
LEMMA Periods ==
  ASSUME PoolLasts, NEW t \in Nat,
         t % (HZ \div CHARACTER_PER_SECOND) = 0
  PROVE  t % (HZ \div UPDATE_PER_SECOND) = 0
<1> DEFINE p == HZ \div CHARACTER_PER_SECOND
           u == HZ \div UPDATE_PER_SECOND
<1>0. /\ HZ \in Nat
      /\ CHARACTER_PER_SECOND \in Nat \ {0} /\ 0 + CHARACTER_PER_SECOND <= HZ
      /\ UPDATE_PER_SECOND \in Nat \ {0} /\ 0 + UPDATE_PER_SECOND <= HZ
  BY GameAssumption
<1>1. \A d \in Nat \ {0} : 0 \div d \in Nat /\ HZ \div d \in Nat
  BY <1>0, Quotient
<1>2. 0 \div CHARACTER_PER_SECOND + 1 <= p /\ 0 \div UPDATE_PER_SECOND + 1 <= u
  BY <1>0, QuotientLess
<1>3. p \in Nat \ {0} /\ u \in Nat \ {0}
  <2>1. p \in Nat /\ 0 \div CHARACTER_PER_SECOND \in Nat
    BY <1>0, <1>1
  <2>2. u \in Nat /\ 0 \div UPDATE_PER_SECOND \in Nat
    BY <1>0, <1>1
  <2> HIDE DEF p, u
  <2> QED
    BY <1>2, <2>1, <2>2
<1>4. p % u = 0 /\ t % p = 0
  BY DEF PoolLasts
<1> HIDE DEF p, u
<1>5. t % u = 0
  BY <1>3, <1>4, MultipleOf
<1> QED
  BY <1>5 DEF u

\* There is a node for the next letter, because the oldest letter has moved
\* once for each newer one.
LEMMA NodeLeft ==
  ASSUME LInv, NEW slowest \in 1 .. UpSpeed, Speed \subseteq slowest .. UpSpeed,
         Lifetime(slowest) <= SIZE, Paced(slowest), \A i \in Flying : ~ Waits(i)
  PROVE  ~ PoolExhausted
<1> SUFFICES ASSUME PoolExhausted PROVE FALSE
  OBVIOUS
<1>1. /\ NewNode \in Node /\ DOMAIN poolLinks = Node
      /\ poolLinks[NewNode] = Null
      /\ Flying \union Walk(NewNode, poolLinks) = Node
  BY PoolFacts DEF PoolExhausted, poolLinks
<1>2. Walk(NewNode, poolLinks) = {NewNode}
  BY <1>1, WalkStep, WalkNull, Numbers
<1>3. IsFiniteSet(Flying) /\ Cardinality(Flying) \in Nat
  <2>1. IsFiniteSet(0 .. SIZE) /\ Flying \subseteq 0 .. SIZE
    BY Numbers, FS_Interval, Shape DEF LInv, Node
  <2> QED
    BY <2>1, FS_Subset, FS_CardinalityType
<1>4. SIZE <= Cardinality(Flying)
  <2>1. Cardinality(Node) = SIZE + 1
    <3>1. Cardinality(0 .. SIZE) = IF 0 > SIZE THEN 0 ELSE SIZE - 0 + 1
      BY Numbers, FS_Interval
    <3> QED
      BY <3>1, Numbers DEF Node
  <2>2. Cardinality(Flying \union {NewNode}) \in {Cardinality(Flying), Cardinality(Flying) + 1}
    BY <1>3, FS_AddElement
  <2>3. Flying \union {NewNode} = Node
    BY <1>1, <1>2
  <2>4. SIZE + 1 \in {Cardinality(Flying), Cardinality(Flying) + 1}
    BY <2>1, <2>2, <2>3
  <2> QED
    BY <1>3, <2>4, Numbers
<1>5. Flying # {}
  BY <1>4, Numbers, FS_EmptySet
<1>6. PICK last \in Flying : links[last] \notin DOMAIN links
  <2>1. head \in DOMAIN links
    BY <1>5, WalkNull DEF Flying, Chain
  <2>2. free_head # Null
    BY <2>1, Shape, Numbers DEF LInv, Unused
  <2> QED
    BY <2>1, <2>2 DEF LInv, TwoLists, Ends, Flying, Chain
<1>7. Newer(last) = Flying \ {last}
  <2>1. last \in DOMAIN links
    BY WalkClosed DEF Flying, Chain
  <2> QED
    BY <1>6, <2>1, WalkStep, WalkNull DEF Newer, Chain
<1>8. Cardinality(Newer(last)) = Cardinality(Flying) - 1
  BY <1>3, <1>7, FS_RemoveElement
<1>9. Left(slowest, last) + Cardinality(Newer(last)) <= Lifetime(slowest) - 1
  BY DEF Paced, Behind
<1>10. Left(slowest, last) \in Nat \ {0} /\ Lifetime(slowest) \in Nat
  BY LeftFacts
<1> QED
  BY <1>3, <1>4, <1>8, <1>9, <1>10, Numbers

\* The steps that create and move no letter.
LEMMA QuietPace ==
  ASSUME IInv, NEW slowest \in 1 .. UpSpeed, Speed \subseteq slowest .. UpSpeed,
         Paced(slowest), PoolLasts, KeyboardHandled, pc # "dead",
         \/ Hlt \/ CheckTick \/ Draw \/ Move \/ Step
         \/ Timer \/ \E c \in Text : Key(c)
  PROVE  Paced(slowest)' /\ pc' # "dead"
<1>1. UNCHANGED letterVars
  BY DEF Hlt, CheckTick, Draw, Move, Step, Timer, Key
<1>2. UNCHANGED <<fly, head>>
  BY <1>1 DEF letterVars
<1>3. Flying' = Flying /\ \A s, i : Behind(s, i)' = Behind(s, i)
  BY <1>2, SamePace
<1>4. \A i \in Flying : /\ Behind(slowest, i) \in Int /\ Lifetime(slowest) \in Int
                        /\ i \in Node
  BY LeftFacts, Shape DEF IInv, LInv, Behind
<1>5. now \in Nat /\ tick \in Nat /\ target \in Nat
  BY GameAssumption DEF IInv, TypeOK
<1>6. pc' # "dead"
  <2>1. Hlt \/ Draw \/ Move \/ Step \/ Timer => pc' # "dead"
    BY DEF Hlt, Draw, Move, Step, Timer, Wake, Goto
  <2>2. CheckTick => pc' # "dead"
    <3>1. now <= tick
      BY <1>5 DEF IInv, Clock
    <3> QED
      BY <1>5, <3>1 DEF CheckTick, Goto
  <2>3. (\E c \in Text : Key(c)) => pc' # "dead"
    BY DEF Key, Wake, Goto
  <2> QED
    BY <2>1, <2>2, <2>3
<1>7. ASSUME NEW i \in Flying
      PROVE  Waits(i) => Waits(i)'
  <2>1. CASE Hlt \/ CheckTick \/ Draw \/ Step
    BY <2>1 DEF Hlt, CheckTick, Draw, Step, Waits
  <2>2. CASE Timer \/ \E c \in Text : Key(c)
    <3>1. UNCHANGED <<letterVars, loopVars>> /\ (pc \in {"move", "letter"} => pc' \in {pc, "dead"})
      BY <2>2 DEF Timer, Key, Wake, Goto
    <3>2. UNCHANGED <<fly, now, it>>
      BY <3>1 DEF letterVars, loopVars
    <3>3. Chain(it)' = Chain(it)
      BY <3>2 DEF Chain, links
    <3> QED
      BY <1>6, <3>1, <3>2, <3>3 DEF Waits, Due
  <2>3. CASE Move
    <3> SUFFICES ASSUME Waits(i) PROVE Waits(i)'
      OBVIOUS
    <3>1. pc = "move" /\ Due(CHARACTER_PER_SECOND)
      BY <2>3 DEF Move, Waits
    <3>2. Due(UPDATE_PER_SECOND)
      BY <1>5, <3>1, Periods DEF Due
    <3>3. pc' = "letter" /\ it' = head
      BY <2>3, <3>2 DEF Move, Goto
    <3>4. Chain(it)' = Flying
      BY <1>2, <3>3 DEF Chain, Flying, links
    <3> QED
      BY <3>3, <3>4 DEF Waits
  <2> QED
    BY <2>1, <2>2, <2>3
<1>8. Paced(slowest)'
  BY <1>3, <1>4, <1>7 DEF Paced, Lifetime
<1> QED
  BY <1>6, <1>8

LEMMA KeypressPace ==
  ASSUME IInv, NEW slowest \in 1 .. UpSpeed, Speed \subseteq slowest .. UpSpeed,
         Paced(slowest), UpdateKeypress
  PROVE  Paced(slowest)' /\ pc' # "dead"
<1>1. /\ pc = "keys" /\ pc' \in {"keys", "frame"}
      /\ UNCHANGED letterVars \/ \E i : HitLetter(i)
  BY DEF UpdateKeypress, Goto
<1>2. \A i \in Flying : ~ Waits(i) /\ ~ Waits(i)'
  BY <1>1 DEF Waits
<1>3. CASE UNCHANGED letterVars
  <2>1. Flying' = Flying /\ \A s, i : Behind(s, i)' = Behind(s, i)
    BY <1>3, SamePace DEF letterVars
  <2> QED
    BY <1>1, <1>2, <2>1 DEF Paced, Lifetime
<1>4. CASE \E i : HitLetter(i)
  <2>1. PICK k : HitLetter(k)
    BY <1>4
  <2>2. /\ Flying' = Flying /\ links' = links
        /\ \A j \in Flying : /\ fly'[j].x = fly[j].x
                             /\ fly'[j].v = IF j = k THEN - UpSpeed ELSE fly[j].v
    BY <2>1, HitSound DEF IInv
  <2>3. ASSUME NEW j \in Flying
        PROVE  Behind(slowest, j)' <= Lifetime(slowest) - 1
    <3>1. Newer(j)' = Newer(j)
      BY <2>2 DEF Newer, Chain
    <3>2. Left(slowest, j)' \in Nat /\ Left(slowest, j)' <= Left(slowest, j)
      BY <2>2, LeftAfterHit DEF IInv
    <3>3. /\ Left(slowest, j) \in Nat /\ Lifetime(slowest) \in Nat
          /\ Cardinality(Newer(j)) \in Nat
      BY LeftFacts DEF IInv
    <3>4. Left(slowest, j) + Cardinality(Newer(j)) <= Lifetime(slowest) - 1
      BY <1>2 DEF Paced, Behind
    <3>5. Behind(slowest, j)' = Left(slowest, j)' + Cardinality(Newer(j))
      BY <3>1 DEF Behind
    <3> QED
      BY <3>2, <3>3, <3>4, <3>5
  <2>4. Lifetime(slowest)' = Lifetime(slowest)
    BY DEF Lifetime
  <2> QED
    BY <1>1, <1>2, <2>2, <2>3, <2>4 DEF Paced
<1> QED
  BY <1>1, <1>3, <1>4

LEMMA FramePace ==
  ASSUME IInv, NEW slowest \in 1 .. UpSpeed, Speed \subseteq slowest .. UpSpeed,
         Lifetime(slowest) <= SIZE, Paced(slowest), Frame
  PROVE  Paced(slowest)' /\ pc' # "dead"
<1>1. /\ pc = "frame" /\ UNCHANGED loopVars
      /\ \/ ~ Due(CHARACTER_PER_SECOND) /\ pc' = "move" /\ UNCHANGED letterVars
         \/ PoolExhausted
         \/ /\ Due(CHARACTER_PER_SECOND) /\ pc' = "move"
            /\ \E v \in Speed, c \in Text : AddLetter(v, c)
  BY DEF Frame, Goto
<1>2. now' = now /\ Lifetime(slowest)' = Lifetime(slowest)
  BY <1>1 DEF loopVars, Lifetime
<1>3. \A i \in Flying : ~ Waits(i)
  BY <1>1 DEF Waits
<1>4. ~ PoolExhausted
  BY <1>3, NodeLeft DEF IInv
<1>5. CASE ~ Due(CHARACTER_PER_SECOND) /\ pc' = "move" /\ UNCHANGED letterVars
  <2>1. Flying' = Flying /\ \A s, i : Behind(s, i)' = Behind(s, i)
    BY <1>5, SamePace DEF letterVars
  <2>2. \A i : ~ Waits(i)'
    BY <1>2, <1>5 DEF Waits, Due
  <2> QED
    BY <1>2, <1>3, <1>5, <2>1, <2>2 DEF Paced
<1>6. CASE /\ Due(CHARACTER_PER_SECOND) /\ pc' = "move"
           /\ \E v \in Speed, c \in Text : AddLetter(v, c)
  <2>1. PICK v \in Speed, c \in Text : AddLetter(v, c)
    BY <1>6
  <2>0. PICK new : new = NewNode
    OBVIOUS
  <2>2. /\ new \notin Flying /\ Flying' = Flying \union {new}
        /\ head' = new /\ fly'[new].x = 0 /\ fly'[new].v = v
        /\ \A i \in Flying : /\ fly'[i].x = fly[i].x /\ fly'[i].v = fly[i].v
                             /\ Chain(i)' = Chain(i)
    BY <2>0, <2>1, AddSound DEF IInv
  <2>3. \A i : Waits(i)'
    BY <1>2, <1>6 DEF Waits, Due
  <2>4. Behind(slowest, new)' <= Lifetime(slowest)
    <3>1. Chain(head)' = Flying'
      BY DEF Flying, Chain
    <3>2. Newer(new)' = {}
      BY <2>2, <3>1 DEF Newer, Chain
    <3>3. Left(slowest, new)' = Lifetime(slowest)
      <4>1. ~ (fly'[new].v < 0) /\ Bottom - fly'[new].x = Bottom
        BY <2>2, Numbers
      <4> QED
        BY <4>1 DEF Left, Lifetime
    <3>4. Cardinality({}) = 0
      BY FS_EmptySet
    <3>5. Lifetime(slowest) \in Nat
      <4>1. slowest \in Nat \ {0}
        BY Numbers
      <4>2. Bottom \div UpSpeed \in Nat /\ Bottom \div slowest \in Nat
        BY <4>1, Quotient, Numbers
      <4> QED
        BY <4>2 DEF Lifetime
    <3>6. Behind(slowest, new)' = Lifetime(slowest) + 0
      BY <3>2, <3>3, <3>4 DEF Behind
    <3> QED
      BY <3>5, <3>6
  <2>5. ASSUME NEW i \in Flying
        PROVE  Behind(slowest, i)' <= Lifetime(slowest)
    <3>1. Left(slowest, i)' = Left(slowest, i)
      BY <2>2 DEF Left
    <3>2. i \in Chain(i)
      BY Shape, WalkClosed DEF IInv, LInv, Chain
    <3>3. Chain(i) \subseteq Flying
      BY WalkFrom DEF Flying, Chain
    <3>4. Newer(i)' = Newer(i) \union {new}
      BY <2>2, <3>3 DEF Newer
    <3>5. /\ Left(slowest, i) \in Nat /\ Lifetime(slowest) \in Nat
          /\ IsFiniteSet(Newer(i)) /\ Cardinality(Newer(i)) \in Nat
      BY LeftFacts DEF IInv
    <3>6. Cardinality(Newer(i) \union {new}) \in {Cardinality(Newer(i)), Cardinality(Newer(i)) + 1}
      BY <3>5, FS_AddElement
    <3>7. Left(slowest, i) + Cardinality(Newer(i)) <= Lifetime(slowest) - 1
      BY <1>3 DEF Paced, Behind
    <3>8. Left(slowest, i) + Cardinality(Newer(i) \union {new}) <= Lifetime(slowest)
      BY <3>5, <3>6, <3>7
    <3> QED
      BY <3>1, <3>4, <3>8 DEF Behind
  <2> QED
    BY <1>2, <1>6, <2>2, <2>3, <2>4, <2>5 DEF Paced
<1> QED
  BY <1>1, <1>4, <1>5, <1>6

\* A letter moved by the loop of update_letter_pos is one move further.
LEMMA LetterPace ==
  ASSUME IInv, NEW slowest \in 1 .. UpSpeed, Speed \subseteq slowest .. UpSpeed,
         Paced(slowest), Letter
  PROVE  Paced(slowest)' /\ pc' # "dead"
<1>1. /\ pc = "letter"
      /\ \/ it # Null /\ MoveLetter(it) /\ it' = fly[it].next /\ pc' = "letter"
         \/ it = Null /\ pc' = "step" /\ UNCHANGED <<letterVars, it>>
  BY DEF Letter, Goto
<1>2. Lifetime(slowest)' = Lifetime(slowest)
  BY DEF Lifetime
<1>3. \A i \in Flying : /\ Left(slowest, i) \in Nat \ {0} /\ Lifetime(slowest) \in Nat
                        /\ IsFiniteSet(Newer(i)) /\ Cardinality(Newer(i)) \in Nat
  BY LeftFacts DEF IInv
<1>4. CASE it = Null
  <2>1. pc' = "step" /\ UNCHANGED letterVars
    BY <1>1, <1>4
  <2>2. Flying' = Flying /\ \A s, i : Behind(s, i)' = Behind(s, i)
    BY <2>1, SamePace DEF letterVars
  <2>3. Chain(it) = {}
    BY <1>4, Shape, Numbers, WalkNull DEF IInv, LInv, Chain
  <2>4. \A i : ~ Waits(i) /\ ~ Waits(i)'
    BY <1>1, <2>1, <2>3 DEF Waits
  <2> QED
    BY <1>2, <2>1, <2>2, <2>4 DEF Paced
<1>5. CASE it # Null
  <2>1. PICK c \in Flying : c = it
    BY <1>1, <1>5 DEF IInv, Looping
  <2>0. MoveLetter(c) /\ it' = fly[c].next /\ pc' = "letter"
    BY <1>1, <1>5, <2>1
  <2>2. /\ \A j \in Flying \ {c} : fly'[j].x = fly[j].x /\ fly'[j].v = fly[j].v
        /\ \/ /\ Flying' = Flying /\ links' = links
              /\ fly'[c].x = fly[c].x + fly[c].v /\ fly'[c].v = fly[c].v
              /\ fly'[c].x \in 0 .. Bottom
           \/ /\ Flying' = Flying \ {c}
              /\ \A j \in Flying \ {c} : Chain(j)' = Chain(j) \ {c}
    BY <2>0, <2>1, TurnSound DEF IInv
  <2>3. /\ DOMAIN links = Node /\ c \in Node /\ links[c] = it'
        /\ Chain(c) = {c} \union Chain(it')
        /\ it' \in Node => it' \in Flying
        /\ it' \notin Node => Walk(it', links) = {} /\ Walk(it', links') = {}
        /\ c \notin Chain(it')
    <3>1. DOMAIN links = Node /\ c \in Node /\ links[c] = it' /\ DOMAIN links' = Node
      BY <2>0, <2>1, Shape DEF IInv, LInv, links
    <3>2. Chain(c) = {c} \union Chain(it')
      BY <3>1, WalkStep DEF Chain
    <3>3. it' \in Node => it' \in Flying
      BY <2>0, <2>1, <3>1, WalkClosed DEF Closed, Flying, Chain
    <3>4. it' \notin Node => Walk(it', links) = {} /\ Walk(it', links') = {}
      BY <3>1, WalkNull
    <3>5. free_head # Null
      BY <2>0, <2>1, <3>1, WalkNull, Numbers DEF IInv, LInv, Unused, Flying, Chain
    <3>6. c \notin Chain(it')
      BY <2>0, <2>1, <3>1, <3>5, NoCycle DEF IInv, LInv, TwoLists, Flying, Chain
    <3> QED
      BY <3>1, <3>2, <3>3, <3>4, <3>6
\* Those that wait are those the loop has still to come to.
  <2>4. Walk(it', links') = Chain(c) \ {c}
    <3>1. CASE it' \notin Node
      BY <2>3, <3>1 DEF Chain
    <3>2. CASE it' \in Node
      <4>1. it' \in Flying \ {c}
        <5>1. it' \in Chain(it')
          BY <2>3, <3>2, WalkClosed DEF Chain
        <5> QED
          BY <2>3, <3>2, <5>1
      <4>2. CASE links' = links
        BY <2>3, <4>2 DEF Chain
      <4>3. CASE \A j \in Flying \ {c} : Chain(j)' = Chain(j) \ {c}
        <5>1. \A j \in Flying \ {c} : Walk(j, links') = Walk(j, links) \ {c}
          BY <4>3 DEF Chain
        <5>2. Walk(it', links') = Walk(it', links) \ {c}
          BY <4>1, <5>1
        <5> QED
          BY <2>3, <5>2 DEF Chain
      <4> QED
        BY <2>2, <4>2, <4>3
    <3> QED
      BY <3>1, <3>2
  <2>5. \A i \in Flying \ {c} : Waits(i)' <=> Waits(i)
    BY <1>1, <2>0, <2>1, <2>4 DEF Waits, Chain
  <2>6. ~ Waits(c)' /\ Waits(c)
    BY <1>1, <2>0, <2>1, <2>3, <2>4 DEF Waits, Chain
  <2>7. ASSUME NEW i \in Flying \ {c}
        PROVE  Behind(slowest, i)' <= Behind(slowest, i)
    <3>1. Left(slowest, i)' = Left(slowest, i)
      BY <2>2 DEF Left
    <3>2. Newer(i)' \subseteq Newer(i)
      BY <2>2 DEF Newer, Chain
    <3>3. Cardinality(Newer(i)') \in Nat /\ Cardinality(Newer(i)') <= Cardinality(Newer(i))
      BY <1>3, <3>2, FS_Subset, FS_CardinalityType
    <3>4. Behind(slowest, i)' = Left(slowest, i) + Cardinality(Newer(i)')
      BY <3>1 DEF Behind
    <3> QED
      BY <1>3, <3>3, <3>4 DEF Behind
  <2>8. CASE Flying' = Flying \ {c}
    <3>1. \A i \in Flying \ {c} : Behind(slowest, i) \in Int
      BY <1>3 DEF Behind
    <3>2. \A i \in Flying \ {c} : Behind(slowest, i)' \in Int
      <4>1. \A i \in Flying' : Left(slowest, i)' \in Nat /\ Cardinality(Newer(i)') \in Nat
        <5> SUFFICES ASSUME NEW i \in Flying'
                     PROVE  Left(slowest, i)' \in Nat /\ Cardinality(Newer(i)') \in Nat
          OBVIOUS
        <5>1. Left(slowest, i)' = Left(slowest, i) /\ i \in Flying
          BY <2>2, <2>8 DEF Left
        <5>2. Newer(i)' \subseteq Newer(i)
          BY <2>2, <2>8 DEF Newer, Chain
        <5> QED
          BY <1>3, <5>1, <5>2, FS_Subset, FS_CardinalityType
      <4> QED
        BY <2>8, <4>1 DEF Behind
    <3>3. ASSUME NEW i \in Flying'
          PROVE  Behind(slowest, i)' <= IF Waits(i)' THEN Lifetime(slowest)
                                                     ELSE Lifetime(slowest) - 1
      <4>1. Behind(slowest, i) <= IF Waits(i) THEN Lifetime(slowest)
                                              ELSE Lifetime(slowest) - 1
        BY <2>8 DEF Paced
      <4>2. i \in Flying \ {c}
        BY <2>8
      <4> QED
        BY <1>3, <2>5, <2>7, <3>1, <3>2, <4>1, <4>2
    <3> QED
      BY <1>2, <2>0, <2>1, <3>3 DEF Paced
  <2>9. CASE /\ Flying' = Flying /\ links' = links
             /\ fly'[c].x = fly[c].x + fly[c].v /\ fly'[c].v = fly[c].v
             /\ fly'[c].x \in 0 .. Bottom
    <3>1. \A i : Newer(i)' = Newer(i)
      BY <2>9 DEF Newer, Chain
    <3>2. \A i \in Flying \ {c} : Behind(slowest, i)' = Behind(slowest, i)
      BY <2>2, <3>1 DEF Behind, Left
    <3>3. Behind(slowest, c)' <= Lifetime(slowest) - 1
      <4>1. Left(slowest, c)' \in Nat /\ Left(slowest, c)' + 1 <= Left(slowest, c)
        BY <2>0, <2>1, <2>9, LeftAfterMove DEF IInv
      <4>2. Left(slowest, c) + Cardinality(Newer(c)) <= Lifetime(slowest)
        BY <2>0, <2>1, <2>6 DEF Paced, Behind
      <4>3. Left(slowest, c)' + Cardinality(Newer(c)) <= Lifetime(slowest) - 1
        BY <1>3, <2>0, <2>1, <4>1, <4>2
      <4>4. Behind(slowest, c)' = Left(slowest, c)' + Cardinality(Newer(c))
        BY <3>1 DEF Behind
      <4> QED
        BY <4>3, <4>4
    <3> QED
      BY <1>2, <2>0, <2>1, <2>5, <2>6, <2>9, <3>2, <3>3 DEF Paced
  <2> QED
    BY <2>0, <2>1, <2>2, <2>8, <2>9
<1> QED
  BY <1>4, <1>5

LEMMA NextPace ==
  ASSUME IInv, [Next]_vars, PoolLasts, KeyboardHandled, pc # "dead",
         NEW slowest \in 1 .. UpSpeed, Speed \subseteq slowest .. UpSpeed,
         Lifetime(slowest) <= SIZE, Paced(slowest)
  PROVE  Paced(slowest)' /\ pc' # "dead"
<1>1. CASE Hlt \/ CheckTick \/ Draw \/ Move \/ Step \/ Timer \/ \E c \in Text : Key(c)
  BY <1>1, QuietPace
<1>2. CASE UpdateKeypress
  BY <1>2, KeypressPace
<1>3. CASE Frame
  BY <1>3, FramePace
<1>4. CASE Letter
  BY <1>4, LetterPace
<1>5. CASE UNCHANGED vars
  <2>1. UNCHANGED <<fly, head, pc, now, it>>
    BY <1>5 DEF vars, letterVars, loopVars
  <2>2. Flying' = Flying /\ \A s, i : Behind(s, i)' = Behind(s, i)
    BY <2>1, SamePace
  <2>3. \A i : Waits(i)' <=> Waits(i)
    BY <2>1 DEF Waits, Due, Chain, links
  <2> QED
    BY <2>1, <2>2, <2>3 DEF Paced, Lifetime
<1> QED
  BY <1>1, <1>2, <1>3, <1>4, <1>5 DEF Next, MainLoop

\* With a handler for the keyboard and a pool that lasts, neither the clock's
\* assertion (game.c:49) nor the pool's (linklist.h:56) ever fails: there are
\* never more letters than moves in the life of one.
THEOREM AssertionsHold == KeyboardHandled /\ PoolLasts => (Spec => []NoAssertFails)
<1> SUFFICES ASSUME KeyboardHandled, PoolLasts PROVE Spec => []NoAssertFails
  OBVIOUS
<1>1. PICK slowest \in 1 .. UpSpeed :
         Speed \subseteq slowest .. UpSpeed /\ Lifetime(slowest) <= SIZE
  BY DEF PoolLasts
<1> DEFINE Alive == pc # "dead" /\ Paced(slowest)
<1>2. Init => Alive
  <2> SUFFICES ASSUME Init PROVE Alive
    OBVIOUS
  <2>1. pc = "hlt" /\ head = Null
    BY DEF Init, LettersInit
  <2>2. LInv
    BY InitIInv DEF IInv
  <2>3. Flying = {}
    BY <2>1, <2>2, Shape, Numbers, WalkNull DEF Flying, Chain, LInv
  <2> QED
    BY <2>1, <2>3 DEF Paced
<1>3. IInv /\ Alive /\ [Next]_vars => Alive'
  BY <1>1, NextPace
<1>4. Alive => NoAssertFails
  BY DEF NoAssertFails
<1> HIDE DEF Alive
<1> QED
  BY <1>2, <1>3, <1>4, Invariance, PTL DEF Spec
=============================================================================
