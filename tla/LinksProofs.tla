----------------------------- MODULE LinksProofs -----------------------------
(***************************************************************************)
(* What the operations on a linked list do to the nodes a loop along it    *)
(* meets: appending, pushing and unlinking a node.  A loop is the least    *)
(* closed set (Links), so each fact is proved by naming a closed set.      *)
(***************************************************************************)
EXTENDS Links, Integers, WellFoundedInduction, TLAPS

-----------------------------------------------------------------------------
(* The walk as a least set.                                                *)

\* What a walk meets are nodes, the first among them, and it is closed.
LEMMA WalkClosed ==
  ASSUME NEW p, NEW next
  PROVE  /\ Walk(p, next) \subseteq DOMAIN next
         /\ p \in DOMAIN next => p \in Walk(p, next)
         /\ Closed(Walk(p, next), next)
  BY DEF Walk, Closed

\* A closed set that holds the first node holds the walk.
LEMMA WalkLeast ==
  ASSUME NEW p, NEW next, NEW S, Closed(S, next), p \in DOMAIN next => p \in S
  PROVE  Walk(p, next) \subseteq S
<1> DEFINE T == S \intersect DOMAIN next
<1>1. T \in SUBSET DOMAIN next /\ Closed(T, next) /\ (p \in DOMAIN next => p \in T)
  BY DEF Closed
<1> QED
  BY <1>1 DEF Walk

\* A walk from NULL meets nothing.
LEMMA WalkNull ==
  ASSUME NEW p, NEW next, p \notin DOMAIN next
  PROVE  Walk(p, next) = {}
<1>1. Closed({}, next)
  BY DEF Closed
<1> QED
  BY <1>1, WalkLeast

\* The rest of a walk is the walk from the second node.
LEMMA WalkStep ==
  ASSUME NEW p, NEW next, p \in DOMAIN next
  PROVE  Walk(p, next) = {p} \union Walk(next[p], next)
<1>1. Walk(p, next) \subseteq {p} \union Walk(next[p], next)
  <2>1. Closed({p} \union Walk(next[p], next), next)
    BY WalkClosed DEF Closed
  <2> QED
    BY <2>1, WalkLeast
<1>2. Walk(next[p], next) \subseteq Walk(p, next)
  <2>1. next[p] \in DOMAIN next => next[p] \in Walk(p, next)
    BY WalkClosed DEF Closed
  <2> QED
    BY <2>1, WalkClosed, WalkLeast
<1> QED
  BY <1>1, <1>2, WalkClosed

\* The walk from a node that is met is part of the walk.
LEMMA WalkFrom ==
  ASSUME NEW p, NEW next, NEW w \in Walk(p, next)
  PROVE  Walk(w, next) \subseteq Walk(p, next)
  BY WalkClosed, WalkLeast

\* Links that are not followed do not matter.
LEMMA WalkSame ==
  ASSUME NEW p, NEW next, NEW next2, DOMAIN next2 = DOMAIN next,
         \A w \in Walk(p, next) : next2[w] = next[w]
  PROVE  Walk(p, next2) = Walk(p, next) /\ (Ends(p, next) <=> Ends(p, next2))
<1>1. Walk(p, next2) \subseteq Walk(p, next)
  <2>1. Closed(Walk(p, next), next2)
    BY WalkClosed DEF Closed
  <2> QED
    BY <2>1, WalkClosed, WalkLeast
<1>2. Walk(p, next) \subseteq Walk(p, next2)
  <2>1. Closed(Walk(p, next2), next)
    BY <1>1, WalkClosed DEF Closed
  <2> QED
    BY <2>1, WalkClosed, WalkLeast
<1>3. Walk(p, next2) = Walk(p, next)
  BY <1>1, <1>2
<1> QED
  BY <1>3 DEF Ends

-----------------------------------------------------------------------------
(* A walk that ends meets every node once.                                 *)

\* The last node is met from every node of the walk.
LEMMA LastReached ==
  ASSUME NEW p, NEW next, NEW last \in Walk(p, next), next[last] \notin DOMAIN next,
         NEW w \in Walk(p, next)
  PROVE  last \in Walk(w, next)
<1> DEFINE S == {v \in Walk(p, next) : last \in Walk(v, next)}
<1>1. Closed(S, next)
  <2> SUFFICES ASSUME NEW v \in S, next[v] \in DOMAIN next
               PROVE  next[v] \in S
    BY DEF Closed
  <2>1. v # last /\ v \in DOMAIN next /\ next[v] \in Walk(p, next)
    BY WalkClosed DEF Closed
  <2>2. last \in Walk(next[v], next)
    BY <2>1, WalkStep
  <2> QED
    BY <2>1, <2>2
<1>2. p \in DOMAIN next => p \in S
  BY WalkClosed
<1>3. Walk(p, next) \subseteq S
  <2> HIDE DEF S
  <2> QED
    BY <1>1, <1>2, WalkLeast
<1> QED
  BY <1>3

\* There is one last node.
LEMMA LastUnique ==
  ASSUME NEW p, NEW next,
         NEW u \in Walk(p, next), next[u] \notin DOMAIN next,
         NEW v \in Walk(p, next), next[v] \notin DOMAIN next
  PROVE  u = v
<1>1. u \in DOMAIN next /\ v \in DOMAIN next
  BY WalkClosed
<1>2. u \in Walk(v, next)
  BY LastReached
<1>3. Walk(v, next) = {v}
  BY <1>1, WalkStep, WalkNull
<1> QED
  BY <1>2, <1>3

\* No node is met again after it.
LEMMA NoCycle ==
  ASSUME NEW p, NEW next, Ends(p, next), NEW w \in Walk(p, next)
  PROVE  w \notin Walk(next[w], next)
<1> SUFFICES ASSUME w \in Walk(next[w], next) PROVE FALSE
  OBVIOUS
<1> DEFINE S == {v \in Walk(w, next) : w \in Walk(v, next)}
<1>0. w \in DOMAIN next
  BY WalkClosed
<1>1. Closed(S, next)
  <2> SUFFICES ASSUME NEW v \in S, next[v] \in DOMAIN next
               PROVE  next[v] \in S
    BY DEF Closed
  <2>1. v \in DOMAIN next /\ next[v] \in Walk(w, next)
    BY WalkClosed DEF Closed
  <2>2. w \in Walk(next[v], next)
    BY <2>1, WalkStep
  <2> QED
    BY <2>1, <2>2
<1>2. w \in S
  BY <1>0, WalkClosed
<1>3. Walk(w, next) \subseteq S
  <2> HIDE DEF S
  <2> QED
    BY <1>1, <1>2, WalkLeast
<1>4. PICK last \in Walk(p, next) : next[last] \notin DOMAIN next
  BY WalkNull DEF Ends
<1>5. last \in Walk(w, next)
  BY <1>4, LastReached
<1>6. w \in Walk(last, next)
  BY <1>3, <1>5
<1>7. Walk(last, next) = {last}
  BY <1>4, WalkClosed, WalkStep, WalkNull
<1>8. Walk(next[w], next) = {}
  BY <1>4, <1>6, <1>7, WalkNull
<1> QED
  BY <1>8

\* Of two nodes of a walk one is met from the other.
LEMMA WalkLinear ==
  ASSUME NEW p, NEW next, NEW u \in Walk(p, next), NEW v \in Walk(p, next)
  PROVE  u \in Walk(v, next) \/ v \in Walk(u, next)
<1> DEFINE S == {w \in Walk(p, next) : v \in Walk(w, next) \/ w \in Walk(v, next)}
<1>1. Closed(S, next)
  <2> SUFFICES ASSUME NEW w \in S, next[w] \in DOMAIN next
               PROVE  next[w] \in S
    BY DEF Closed
  <2>1. w \in DOMAIN next /\ next[w] \in Walk(p, next)
    BY WalkClosed DEF Closed
  <2>2. CASE w \in Walk(v, next)
    BY <2>1, <2>2, WalkClosed DEF Closed
  <2>3. CASE v \in Walk(w, next)
    <3>1. v = w => next[w] \in Walk(v, next)
      BY <2>1, WalkClosed DEF Closed
    <3>2. v # w => v \in Walk(next[w], next)
      BY <2>1, <2>3, WalkStep
    <3> QED
      BY <2>1, <3>1, <3>2
  <2> QED
    BY <2>2, <2>3
<1>2. p \in DOMAIN next => p \in S
  BY WalkClosed
<1>3. Walk(p, next) \subseteq S
  <2> HIDE DEF S
  <2> QED
    BY <1>1, <1>2, WalkLeast
<1> QED
  BY <1>3

\* A node of a list has one predecessor, and the first has none.
LEMMA OnePredecessor ==
  ASSUME NEW p, NEW next, Ends(p, next),
         NEW u \in Walk(p, next), NEW v \in Walk(p, next), next[u] = next[v],
         next[u] \in DOMAIN next
  PROVE  u = v
<1> SUFFICES ASSUME u # v PROVE FALSE
  OBVIOUS
<1>1. u \in DOMAIN next /\ v \in DOMAIN next
  BY WalkClosed
<1>2. CASE u \in Walk(v, next)
  <2>1. u \in Walk(next[v], next)
    BY <1>1, <1>2, WalkStep
  <2> QED
    BY <2>1, NoCycle
<1>3. CASE v \in Walk(u, next)
  <2>1. v \in Walk(next[u], next)
    BY <1>1, <1>3, WalkStep
  <2> QED
    BY <2>1, NoCycle
<1> QED
  BY <1>2, <1>3, WalkLinear

\* A node that is not the first has a predecessor.
LEMMA HasPredecessor ==
  ASSUME NEW p, NEW next, NEW x \in Walk(p, next), x # p
  PROVE  \E u \in Walk(p, next) : next[u] = x
<1> SUFFICES ASSUME \A u \in Walk(p, next) : next[u] # x PROVE FALSE
  OBVIOUS
<1>1. Closed(Walk(p, next) \ {x}, next)
  BY WalkClosed DEF Closed
<1>2. p \in DOMAIN next => p \in Walk(p, next) \ {x}
  BY WalkClosed
<1>3. Walk(p, next) \subseteq Walk(p, next) \ {x}
  BY <1>1, <1>2, WalkLeast
<1> QED
  BY <1>3

LEMMA FirstHasNone ==
  ASSUME NEW p, NEW next, Ends(p, next), NEW u \in Walk(p, next)
  PROVE  next[u] # p
<1> SUFFICES ASSUME next[u] = p PROVE FALSE
  OBVIOUS
<1>1. u \notin Walk(p, next)
  BY NoCycle
<1> QED
  BY <1>1

-----------------------------------------------------------------------------
(* The operations.                                                         *)

\* Without its first node a list is the list from the second.
LEMMA DropFirst ==
  ASSUME NEW p, NEW next, Ends(p, next), p \in DOMAIN next
  PROVE  /\ Walk(next[p], next) = Walk(p, next) \ {p}
         /\ Ends(next[p], next)
<1>1. p \in Walk(p, next) /\ Walk(p, next) = {p} \union Walk(next[p], next)
  BY WalkClosed, WalkStep
<1>2. p \notin Walk(next[p], next)
  BY <1>1, NoCycle
<1> QED
  BY <1>1, <1>2 DEF Ends

\* A node is put in front of a list.
LEMMA Push ==
  ASSUME NEW p, NEW next, NEW next2, DOMAIN next2 = DOMAIN next, Ends(p, next),
         NEW new \in DOMAIN next, next2[new] = p,
         \A w \in Walk(p, next) : next2[w] = next[w]
  PROVE  /\ Walk(new, next2) = {new} \union Walk(p, next)
         /\ Ends(new, next2)
<1>1. Walk(p, next2) = Walk(p, next) /\ Ends(p, next2)
  BY WalkSame
<1>2. Walk(new, next2) = {new} \union Walk(p, next2)
  BY WalkStep
<1> QED
  BY <1>1, <1>2 DEF Ends

\* A node is put behind the last one.
LEMMA AppendNode ==
  ASSUME NEW p, NEW next, NEW next2, DOMAIN next2 = DOMAIN next,
         NEW last \in Walk(p, next), next[last] \notin DOMAIN next,
         NEW new \in DOMAIN next, new \notin Walk(p, next),
         next2[last] = new, next2[new] \notin DOMAIN next,
         \A w \in Walk(p, next) \ {last} : next2[w] = next[w]
  PROVE  /\ Walk(p, next2) = Walk(p, next) \union {new}
         /\ Ends(p, next2)
<1>0. p \in DOMAIN next
  BY WalkNull
<1>1. Walk(p, next2) \subseteq Walk(p, next) \union {new}
  <2>1. Closed(Walk(p, next) \union {new}, next2)
    BY WalkClosed DEF Closed
  <2> QED
    BY <1>0, <2>1, WalkClosed, WalkLeast
<1>2. Walk(p, next) \subseteq Walk(p, next2)
  <2> DEFINE S == Walk(p, next2) \intersect Walk(p, next)
  <2>1. Closed(S, next)
    <3> SUFFICES ASSUME NEW w \in S, next[w] \in DOMAIN next
                 PROVE  next[w] \in S
      BY DEF Closed
    <3>1. next2[w] = next[w] /\ next[w] \in Walk(p, next)
      BY WalkClosed DEF Closed
    <3> QED
      BY <3>1, WalkClosed DEF Closed
  <2>2. p \in S
    BY <1>0, WalkClosed
  <2>3. Walk(p, next) \subseteq S
    <3> HIDE DEF S
    <3> QED
      BY <2>1, <2>2, WalkLeast
  <2> QED
    BY <2>3
<1>3. new \in Walk(p, next2)
  BY <1>2, WalkClosed DEF Closed
<1>4. Ends(p, next2)
  BY <1>3 DEF Ends
<1> QED
  BY <1>1, <1>2, <1>3, <1>4

\* A node that is not the first is taken out: its predecessor gets its link.
LEMMA Unlink ==
  ASSUME NEW p, NEW next, NEW next2, DOMAIN next2 = DOMAIN next, Ends(p, next),
         NEW x \in Walk(p, next), x # p,
         \A w \in Walk(p, next) \ {x} :
            next2[w] = IF next[w] = x THEN next[x] ELSE next[w]
  PROVE  /\ Walk(p, next2) = Walk(p, next) \ {x}
         /\ Ends(p, next2)
<1>0. p \in DOMAIN next /\ x \in DOMAIN next
  BY WalkNull, WalkClosed
<1>1. next[x] # x
  BY <1>0, NoCycle, WalkClosed
<1>2. Walk(p, next2) \subseteq Walk(p, next) \ {x}
  <2>1. Closed(Walk(p, next) \ {x}, next2)
    BY <1>1, WalkClosed DEF Closed
  <2> QED
    BY <1>0, <2>1, WalkClosed, WalkLeast
<1>3. PICK u \in Walk(p, next2) : next[u] = x
  <2> SUFFICES ASSUME \A w \in Walk(p, next2) : next[w] # x PROVE FALSE
    OBVIOUS
  <2>1. Closed(Walk(p, next2), next)
    BY <1>2, WalkClosed DEF Closed
  <2>2. x \in Walk(p, next2)
    BY <2>1, <1>0, WalkClosed, WalkLeast
  <2> QED
    BY <2>2, <1>2
<1>4. next2[u] = next[x]
  BY <1>2, <1>3
<1>5. Walk(p, next) \subseteq Walk(p, next2) \union {x}
  <2>1. Closed(Walk(p, next2) \union {x}, next)
    <3> SUFFICES ASSUME NEW w \in Walk(p, next2) \union {x}, next[w] \in DOMAIN next
                 PROVE  next[w] \in Walk(p, next2) \union {x}
      BY DEF Closed
    <3>1. CASE w = x
      BY <3>1, <1>4, WalkClosed DEF Closed
    <3>2. CASE w # x /\ next[w] # x
      <4>1. next2[w] = next[w]
        BY <3>2, <1>2
      <4> QED
        BY <3>2, <4>1, WalkClosed DEF Closed
    <3> QED
      BY <3>1, <3>2
  <2> QED
    BY <2>1, <1>0, WalkClosed, WalkLeast
<1>6. Walk(p, next2) = Walk(p, next) \ {x}
  BY <1>2, <1>5
<1>7. Ends(p, next2)
  <2>1. PICK last \in Walk(p, next) : next[last] \notin DOMAIN next
    BY <1>0 DEF Ends
  <2>2. CASE last = x
    BY <1>4, <2>1, <2>2 DEF Ends
  <2>3. CASE last # x
    BY <1>0, <1>6, <2>1, <2>3 DEF Ends
  <2> QED
    BY <2>2, <2>3
<1> QED
  BY <1>6, <1>7

\* The links an array of nodes gets first: each points to the one after it.
LEMMA ArrayLinked ==
  ASSUME NEW n \in Nat, NEW next, DOMAIN next = 0 .. n,
         \A i \in 0 .. n : i < n => next[i] = i + 1,
         next[n] \notin 0 .. n
  PROVE  Walk(0, next) = 0 .. n /\ Ends(0, next)
<1> DEFINE Missed == (0 .. n) \ Walk(0, next)
<1>1. Missed = {}
  <2> SUFFICES ASSUME Missed # {} PROVE FALSE
    OBVIOUS
  <2> DEFINE less == OpToRel(<, Nat)
  <2>1. IsWellFoundedOn(less, Nat)
    BY NatLessThanWellFounded
  <2>2. \A i, j \in Nat : i < j => <<i, j>> \in less
    BY DEF OpToRel
  <2>3. Missed \subseteq Nat
    OBVIOUS
  <2> HIDE DEF less
  <2>4. PICK i \in Missed : \A j \in Missed : ~ (<<j, i>> \in less)
    <3> HIDE DEF Missed
    <3> QED
      BY <2>1, <2>3, WFMin
  <2>5. i # 0
    BY WalkClosed
  <2>6. i - 1 \in 0 .. n /\ i - 1 \in Walk(0, next) /\ next[i - 1] = i
    <3>1. i \in 1 .. n
      BY <2>5
    <3>2. <<i - 1, i>> \in less
      BY <2>2, <3>1
    <3>3. i - 1 \in 0 .. n /\ i - 1 < n /\ i - 1 + 1 = i
      BY <3>1
    <3>4. i - 1 \notin Missed
      BY <2>4, <3>2
    <3> QED
      BY <3>3, <3>4
  <2>7. i \in Walk(0, next)
    BY <2>6, WalkClosed DEF Closed
  <2> QED
    BY <2>7
<1>2. Walk(0, next) = 0 .. n
  BY <1>1, WalkClosed
<1> QED
  BY <1>2 DEF Ends
=============================================================================
