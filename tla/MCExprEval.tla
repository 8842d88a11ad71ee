----------------------------- MODULE MCExprEval -----------------------------
(***************************************************************************)
(* All expressions of two levels of operations on a number, a register and *)
(* a symbol, so that operators of every two levels meet on either side,    *)
(* with unary operands and a hexadecimal number among them; before each,   *)
(* one that leaves a register in the third token.  The values are such     *)
(* that wrong splits show, and a byte holds every product; *40 and a       *)
(* quotient by !2 have no value.                                           *)
(***************************************************************************)
EXTENDS ExprEval

MCMem == [a \in 0 .. 31 |-> 1 + ((3 * a) % 32)]

Ops == {"+", "-", "*", "/", "==", "!=", "||", "&&"}

Leaves  == {Num(2), Register, Symbol}
Unaries == {Unary(op, form, 2) : op \in {"-", "!"}, form \in Literals}
             \union {Deref(Num(3)), Deref(Num(40)), Deref(Register)}

Combined(S) == {Binary(op, l, r) : op \in Ops, l \in S, r \in S}

Simple == Leaves \union {Hex(4)} \union Combined(Leaves)

MCEarlier == {Binary("+", Num(2), Register)}

MCLater == Simple \union Combined(Simple \union Unaries)
             \union {Deref(t) : t \in Simple} \union Unaries

IsLeaf(t) == Operands(t) = {}

MCTrees == MCLater \union {Num(3), Num(40)}

MCHeight == [t \in MCTrees |->
               IF IsLeaf(t) THEN 0 ELSE IF \A s \in Operands(t) : IsLeaf(s) THEN 1 ELSE 2]
=============================================================================
