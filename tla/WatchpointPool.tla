--------------------------- MODULE WatchpointPool ---------------------------
(***************************************************************************)
(* The watchpoint pool of NEMU's debugger,                                 *)
(* nemu/src/monitor/debug/watchpoint.c: an array of NR_WP records threaded *)
(* into two singly linked lists, head (in use, oldest first) and free_.    *)
(* The links are modelled as they are, as a function from a watchpoint to  *)
(* the next, so that an unlinking mistake shows.                           *)
(***************************************************************************)
EXTENDS Integers, Links

CONSTANTS NR_WP,    \* NR_WP, 32 in the code
          Expr,     \* expressions the user watches
          Value,    \* values of an expression
          Zero,     \* the integer 0 among them
          Null,     \* the null pointer
          NoExpr    \* the expression of a watchpoint that is not in use

ASSUME PoolAssumption ==
  /\ NR_WP \in Nat \ {0}
  /\ Null \notin 0 .. NR_WP
  /\ NoExpr \notin Expr
  /\ Zero \in Value

VARIABLES nxt,             \* wp_pool[i].next
          head,            \* list of watchpoints in use
          free_,           \* list of unused watchpoints
          expr_watching,   \* wp_pool[i].expr_watching
          value_watching   \* wp_pool[i].value_watching

poolVars == <<nxt, head, free_, expr_watching, value_watching>>

\* A watchpoint is identified by its NO, the index init_wp_pool gives it.
WP  == 0 .. NR_WP - 1
Ptr == WP \union {Null}

\* The watchpoints a walk along next meets, from p on.
Chain(p) == Walk(p, nxt)

Active == Chain(head)

\* Buggy variant: the line that ends the free list is missing.
Bug_NoLast == [i \in WP |-> i + 1]

FirstLinks == [i \in WP |-> IF i = NR_WP - 1 THEN Null ELSE i + 1]

PoolInit == /\ nxt = FirstLinks
            /\ head = Null
            /\ free_ = 0
            /\ expr_watching = [i \in WP |-> NoExpr]
            /\ value_watching = [i \in WP |-> Zero]

\* new_wp and the assignments of set_watchpoint: the first free watchpoint is
\* appended to the list in use.  With free_ NULL the code dereferences it.
SetWatchpoint(e, v) ==
  LET wp == free_
      detached == [nxt EXCEPT ![wp] = Null]
  IN  /\ free_ # Null
      /\ free_' = nxt[wp]
      /\ IF head = Null
         THEN head' = wp /\ nxt' = detached
         ELSE \E last \in Active :
                /\ nxt[last] = Null
                /\ nxt' = [detached EXCEPT ![last] = wp]
                /\ head' = head
      /\ expr_watching' = [expr_watching EXCEPT ![wp] = e]
      /\ value_watching' = [value_watching EXCEPT ![wp] = v]

\* next pointers after wp, which is in use, has been unlinked.
\* Buggy variant: the predecessor keeps its pointer to wp.
Bug_Linked(wp) == nxt

Unlinked(wp) ==
  IF wp = head THEN nxt
  ELSE [p \in WP |-> IF p \in Active /\ nxt[p] = wp THEN nxt[wp] ELSE nxt[p]]

\* free_wp of a watchpoint in use.
FreeWp(wp) ==
  /\ head' = IF wp = head THEN nxt[head] ELSE head
  /\ nxt' = [Unlinked(wp) EXCEPT ![wp] = free_]
  /\ free_' = wp
  /\ value_watching' = [value_watching EXCEPT ![wp] = Zero]
  /\ expr_watching' = [expr_watching EXCEPT ![wp] = NoExpr]

-----------------------------------------------------------------------------
PoolTypeOK == /\ nxt \in [WP -> Ptr]
              /\ head \in Ptr /\ free_ \in Ptr
              /\ expr_watching \in [WP -> Expr \union {NoExpr}]
              /\ value_watching \in [WP -> Value]

\* Both lists end, they share no watchpoint, none is lost, and exactly the
\* watchpoints in use have an expression for check_ to evaluate.
PoolSound == /\ Ends(head, nxt) /\ Ends(free_, nxt)
             /\ Active \intersect Chain(free_) = {}
             /\ Active \union Chain(free_) = WP
             /\ Active = {w \in WP : expr_watching[w] # NoExpr}
=============================================================================
