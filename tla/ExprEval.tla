------------------------------ MODULE ExprEval ------------------------------
(***************************************************************************)
(* The expression evaluator of NEMU's debugger,                            *)
(* nemu/src/monitor/debug/expr.c: the array of tokens, which keeps what    *)
(* earlier expressions left behind the end of the present one, the change  *)
(* of `-' and `*' into unary operators, and the recursive evaluation that  *)
(* splits the tokens at the operator of lowest precedence.                 *)
(*                                                                         *)
(* What the user means is an expression tree; what the code sees are the   *)
(* tokens of a text of it.  Lexing by regular expressions is left out: a    *)
(* number token, decimal (NUM) or hexadecimal (HEX), has the value of its  *)
(* digits, which for HEX are in lower case (expr.c:308 misreads A .. F).   *)
(***************************************************************************)
EXTENDS Integers, FiniteSets, Sequences

CONSTANTS Width,       \* bits of an int, 32 in the code
          NrTokens,    \* length of the array tokens, 32 in the code
          Eax,         \* what $eax holds; it stands for every register
          SymbolAddr,  \* value of the one symbol of the program
          Mem,         \* the words of the program's memory, by address
          Height,      \* the expressions and their parts, with the levels of
                       \* operations in each
          Earlier,     \* bound: the expressions of the first call of expr
          Later        \* bound: those of the second and last call

Trees == DOMAIN Height
M     == 2 ^ Width
Word  == 0 .. M - 1
Index == 0 .. NrTokens - 1

ASSUME ExprAssumption ==
  /\ Width \in Nat \ {0, 1} /\ M \in Nat \ {0, 1}
  /\ NrTokens \in Nat \ {0}
  /\ {Eax, SymbolAddr} \union DOMAIN Mem \subseteq Word
  /\ \A a \in DOMAIN Mem : Mem[a] \in Word
  /\ Earlier \union Later \subseteq Trees

VARIABLES tokens,      \* tokens[0 .. NrTokens - 1]
          nr_token,
          calls,       \* calls of expr so far
          tree,        \* the last expression, and
          style        \* how its text was written

exprVars == <<tokens, nr_token, calls, tree, style>>

Abort == -1            \* a failed assertion or a fault of the host

Truth(b) == IF b THEN 1 ELSE 0

\* Conversion to uint32_t, and from it to int.
Wrap(x)   == x % M
Signed(x) == IF x >= M \div 2 THEN x - M ELSE x

\* The binary operators on two int values, except for &&.
Quot(a, b) == LET Abs(x) == IF x < 0 THEN - x ELSE x
                  q == Abs(a) \div Abs(b)
              IN  IF (a < 0) = (b < 0) THEN q ELSE - q

Apply(op, a, b) ==
  CASE op = "+"  -> Wrap(a + b)
    [] op = "-"  -> Wrap(a - b)
    [] op = "*"  -> Wrap(Signed(a) * Signed(b))
    [] op = "/"  -> IF b = 0 \/ (a = M \div 2 /\ b = M - 1) THEN Abort
                    ELSE Wrap(Quot(Signed(a), Signed(b)))
    [] op = "==" -> Truth(a = b)
    [] op = "!=" -> Truth(a # b)
    [] op = "||" -> Truth(a # 0 \/ b # 0)

\* swaddr_read; outside the memory its Assert fails.
Read(a) == IF a \in DOMAIN Mem THEN Mem[a] ELSE Abort

-----------------------------------------------------------------------------
(* Expressions and their texts.                                            *)

\* The two forms of a number.
Literals == {"NUM", "HEX"}

Literal(form, n)   == [kind |-> form, n |-> n]
Num(n)             == Literal("NUM", n)
Hex(n)             == Literal("HEX", n)
Register           == [kind |-> "REG"]
Symbol             == [kind |-> "VAR"]
Unary(op, form, n) == [kind |-> "unary", op |-> op, form |-> form, n |-> n]
Deref(a)           == [kind |-> "deref", arg |-> a]
Binary(op, l, r)   == [kind |-> "binary", op |-> op, left |-> l, right |-> r]

BinaryOps == {"*", "/", "+", "-", "==", "!=", "&&", "||"}

\* The trees are these, with parts of fewer levels.
IsTree(t) ==
  \/ t.kind \in Literals /\ t.n \in Word /\ t = Literal(t.kind, t.n)
  \/ t.kind = "REG" /\ t = Register
  \/ t.kind = "VAR" /\ t = Symbol
  \/ /\ t.kind = "unary" /\ t = Unary(t.op, t.form, t.n)
     /\ t.op \in {"-", "!"} /\ t.form \in Literals /\ t.n \in Word
  \/ /\ t.kind = "deref" /\ t = Deref(t.arg)
     /\ t.arg \in Trees /\ Height[t.arg] < Height[t]
  \/ /\ t.kind = "binary" /\ t.op \in BinaryOps /\ t = Binary(t.op, t.left, t.right)
     /\ t.left \in Trees /\ Height[t.left] < Height[t]
     /\ t.right \in Trees /\ Height[t.right] < Height[t]

ASSUME TreeAssumption == Height \in [Trees -> Nat] /\ \A t \in Trees : IsTree(t)

\* C does not evaluate the right operand of && and || when the left one decides.
Decides(op, a) == (op = "&&" /\ a = 0) \/ (op = "||" /\ a # 0)

\* The value of an expression in C, from those of its parts; Abort where C
\* gives it none.
ValueOf(value, t) ==
  CASE t.kind \in Literals -> t.n
    [] t.kind = "REG"      -> Eax
    [] t.kind = "VAR"      -> SymbolAddr
    [] t.kind = "unary"    -> IF t.op = "-" THEN Wrap(- t.n) ELSE Truth(t.n = 0)
    [] t.kind = "deref"    -> IF value[t.arg] = Abort THEN Abort ELSE Read(value[t.arg])
    [] t.kind = "binary"   ->
         LET a == value[t.left]
             b == value[t.right]
         IN  IF a = Abort THEN Abort
             ELSE IF Decides(t.op, a) THEN Truth(a # 0)
             ELSE IF b = Abort THEN Abort
             ELSE IF t.op = "&&" THEN Truth(b # 0)
             ELSE Apply(t.op, a, b)

Meaning(tr) == LET value[t \in Trees] == ValueOf(value, t) IN value[tr]

Operands(t) == CASE t.kind = "deref"  -> {t.arg}
                 [] t.kind = "binary" -> {t.left, t.right}
                 [] OTHER             -> {}

\* An expression and all its parts.
PartsOf(parts, t) == {t} \union UNION {parts[s] : s \in Operands(t)}

Parts(tr) == LET parts[t \in Trees] == PartsOf(parts, t) IN parts[tr]

Number(form, n) == [type |-> form, n |-> n]
Token(type)     == Number(type, 0)
Enclosed(ts)    == <<Token("(")>> \o ts \o <<Token(")")>>

\* How loosely an operator binds in C.
Level(op) == CASE op \in {"*", "/"}   -> 1
               [] op \in {"+", "-"}   -> 2
               [] op \in {"==", "!="} -> 3
               [] op = "&&"           -> 4
               [] op = "||"           -> 5

IsTighter(t, op) == t.kind = "binary" /\ Level(t.op) < Level(op)

\* Whether an operand is written without parentheses.  A plain text has
\* those that C needs; a guarded one has them around all but numbers and
\* operations that bind more tightly.
Bare(how, t, op, side) ==
  \/ t.kind \in Literals \/ IsTighter(t, op)
  \/ /\ how = "plain"
     /\ \/ t.kind # "binary"
        \/ side = "left" /\ Level(t.op) = Level(op)

InParentheses(bare, ts) == IF bare THEN ts ELSE Enclosed(ts)

TextOf(how, text, t) ==
  CASE t.kind \in Literals       -> <<Number(t.kind, t.n)>>
    [] t.kind \in {"REG", "VAR"} -> <<Token(t.kind)>>
    [] t.kind = "unary"          -> <<Token(t.op), Number(t.form, t.n)>>
    [] t.kind = "deref"          ->
         <<Token("*")>> \o InParentheses(\/ t.arg.kind \in Literals
                                         \/ how = "plain" /\ t.arg.kind # "binary",
                                         text[t.arg])
    [] t.kind = "binary"         ->
         InParentheses(Bare(how, t.left, t.op, "left"), text[t.left])
         \o <<Token(t.op)>>
         \o InParentheses(Bare(how, t.right, t.op, "right"), text[t.right])

Text(how, tr) == LET text[t \in Trees] == TextOf(how, text, t) IN text[tr]

Written(how, t) == IF how = "guarded" /\ t.kind \in {"unary", "deref"}
                   THEN Enclosed(Text(how, t)) ELSE Text(how, t)

-----------------------------------------------------------------------------
(* expr.c, on an array of tokens T.                                        *)

\* The type make_token records: && becomes NOTEQ, the others themselves.
TokenMade(k) == [k EXCEPT !.type = IF @ = "&&" THEN "!=" ELSE @]

\* make_token overwrites as many tokens as the text has.
MakeToken(ts) ==
  [i \in Index |-> IF i < Len(ts) THEN TokenMade(ts[i + 1]) ELSE tokens[i]]

\* A `*' or `-' that no operand precedes is unary.
EndsOperand(type) == type \in {"NUM", "HEX", ")"}

Retyped(T, nr) ==
  [i \in Index |->
     IF i < nr /\ T[i].type \in {"*", "-"} /\ (i = 0 \/ ~ EndsOperand(T[i - 1].type))
     THEN [T[i] EXCEPT !.type = IF @ = "*" THEN "POINT" ELSE "NEG"]
     ELSE T[i]]

\* Opening less closing parentheses in p .. q.
Depth(T, p, q) == Cardinality({i \in p .. q : T[i].type = "("})
                  - Cardinality({i \in p .. q : T[i].type = ")"})

\* The first parenthesis is closed by the last one.
CheckParentheses(T, p, q) ==
  /\ T[p].type = "(" \/ T[q].type = ")"
  /\ \A i \in p .. q - 1 : Depth(T, p, i) # 0
  /\ Depth(T, p, q) = 0

\* Buggy variant: * and / are not told from + and -.
Bug_OneLevel(type) == CASE type = "||" -> 9
                        [] type \in {"==", "!="} -> 7
                        [] type \in {"+", "-", "*", "/"} -> 6
                        [] OTHER -> 0

Priority(type) == CASE type = "||" -> 9
                    [] type \in {"==", "!="} -> 7
                    [] type \in {"+", "-"} -> 6
                    [] type \in {"*", "/"} -> 5
                    [] OTHER -> 0

\* The first operator of the lowest precedence outside parentheses, or -1.
DomiPosition(T, p, q) ==
  LET ops == {i \in p .. q : Depth(T, p, i) = 0 /\ Priority(T[i].type) > 0}
  IN  IF ops = {} THEN -1
      ELSE CHOOSE i \in ops : \A j \in ops \ {i} :
             \/ Priority(T[j].type) < Priority(T[i].type)
             \/ Priority(T[j].type) = Priority(T[i].type) /\ i < j

\* sscanf of %d on the token's text, into a result that was 0: of 0x10 it
\* reads the leading 0, and of a parenthesis or a name nothing.
Scanned(k) == IF k.type = "NUM" THEN k.n ELSE 0

\* eval of one token.  POINT and VAR are the same number, so that a POINT is
\* looked up as the symbol with the empty name.
Operand(k) == CASE k.type \in Literals -> k.n
                [] k.type = "REG"      -> Eax
                [] k.type = "VAR"      -> SymbolAddr
                [] k.type = "POINT"    -> 0
                [] OTHER               -> Abort

\* What follows a POINT: a register two tokens on decides, wherever the
\* operand ends; otherwise its value does.
Pointed(T, p, val) == IF T[p + 2].type = "REG" THEN Read(Eax) ELSE Read(val)

Window == (0 .. NrTokens) \X (-1 .. NrTokens - 1)

\* The value of tokens p .. q, from those of shorter stretches.  Both sides of
\* an operator are evaluated before it is looked at, those of || too.
EvalOf(T, eval, p, q) ==
  LET op  == DomiPosition(T, p, q)
      val == eval[<<p + 1, q>>]
      a   == eval[<<p, op - 1>>]
      b   == eval[<<op + 1, q>>]
  IN  IF p > q THEN Abort
      ELSE IF p = q THEN Operand(T[p])
      ELSE IF CheckParentheses(T, p, q) THEN eval[<<p + 1, q - 1>>]
      ELSE IF op = -1 /\ val = Abort THEN Abort
      ELSE IF op = -1 /\ T[p].type \in {"POINT", "VAR"} THEN Pointed(T, p, val)
      ELSE IF op = -1 /\ T[p].type = "NEG" THEN Wrap(- Scanned(T[q]))
      ELSE IF T[p].type = "!" THEN Truth(Scanned(T[q]) = 0)
      ELSE IF op = -1 \/ Abort \in {a, b} THEN Abort
      ELSE Apply(T[op].type, a, b)

Eval(T, p, q) == LET eval[r \in Window] == EvalOf(T, eval, r[1], r[2])
                 IN  eval[<<p, q>>]

-----------------------------------------------------------------------------
\* What expr returns of the tokens it has made.
Result == Eval(tokens, 0, nr_token - 1)

ExprInit == /\ tokens = [i \in Index |-> Token("none")]
            /\ nr_token = 0
            /\ calls = 0
            /\ tree = Num(0) /\ style = "plain"

\* One call of expr, from p, w, or check_ after each instruction: it leaves
\* the tokens behind and returns Result.
CallExpr(t, how) ==
  LET ts == Written(how, t)
  IN  /\ calls > 0 => Result # Abort
      /\ Len(ts) + 1 < NrTokens       \* a longer text overruns the array
      /\ tokens' = Retyped(MakeToken(ts), Len(ts))
      /\ nr_token' = Len(ts)
      /\ tree' = t /\ style' = how
      /\ calls' = calls + 1

ExprNext == \E how \in {"plain", "guarded"} :
              \/ calls = 0 /\ \E t \in Earlier : CallExpr(t, how)
              \/ calls = 1 /\ \E t \in Later : CallExpr(t, how)

ExprSpec == ExprInit /\ [][ExprNext]_exprVars

-----------------------------------------------------------------------------
\* What eval has a case for: it has none for &&, and reads the number after
\* a sign or a ! as a decimal one.
Understood(t) == /\ t.kind = "binary" => t.op # "&&"
                 /\ t.kind = "unary" => t.form = "NUM"

\* The evaluator gives an expression its value in C, and aborts exactly when
\* some part of it has none, even one that C would not evaluate, if each operand that
\* is neither a number nor an operation that binds more tightly is in
\* parentheses, and neither && nor a sign or a ! before a hexadecimal number
\* is used: whatever the nesting, and whatever earlier expressions left in
\* tokens (expr.c:222-458).
GuardedIsRight ==
  style = "guarded" /\ calls > 0 /\ (\A s \in Parts(tree) : Understood(s))
    => Result = IF \A s \in Parts(tree) : Meaning(s) # Abort
                THEN Meaning(tree) ELSE Abort
=============================================================================
