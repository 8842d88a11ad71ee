------------------------------ MODULE AluProofs ------------------------------
(***************************************************************************)
(* Proofs about Alu for every word size: only that the top bit of a word   *)
(* has a positive value Half is used, never how many bits there are.       *)
(***************************************************************************)
EXTENDS Alu, TLAPS

\* A conversion to DATA_TYPE gives a word.
LEMMA TruncType ==
  ASSUME NEW x \in Int
  PROVE  Trunc(x) \in Word
BY HalfAssumption DEF Trunc, Word, M

\* A word converts to itself, and one that has lost M gets it back.
LEMMA TruncOfWord ==
  ASSUME NEW x \in Int
  PROVE  /\ x \in 0 .. M - 1 => Trunc(x) = x
         /\ x \in (- M) .. -1 => Trunc(x) = x + M
BY HalfAssumption DEF Trunc, M

\* The subtraction of words.
LEMMA DifferenceOfWords ==
  ASSUME NEW d \in Word, NEW s \in Word
  PROVE  /\ Difference(d, s) \in Word
         /\ d >= s => Difference(d, s) = d - s
         /\ d < s  => Difference(d, s) = d - s + M
<1>1. d \in Int /\ s \in Int /\ M \in Int
  BY HalfAssumption DEF Word, M
<1>2. d - s \in Int
  BY <1>1
<1>3. d >= s => d - s \in 0 .. M - 1
  BY <1>1 DEF Word
<1>4. d < s => d - s \in (- M) .. -1
  BY <1>1 DEF Word
<1> QED
  BY <1>2, <1>3, <1>4, TruncOfWord, TruncType DEF Difference

\* The flags of sub and cmp decide the order of the operands: the heart of
\* CompareDecides.
LEMMA FlagsDecide ==
  ASSUME NEW d \in Word, NEW s \in Word,
         NEW f, f = ArithFlags(Difference(d, s), Borrow(d, Difference(d, s)),
                               Overflow(d, s, Difference(d, s))),
         flags \in Flags
  PROVE  Decides(f, d, s)
<1> DEFINE res == Difference(d, s)
<1>1. /\ f.ZF = (res = 0) /\ f.SF = Msb(res)
      /\ f.CF = (res > d)
      /\ f.OF = (Msb(d) # Msb(s) /\ Msb(d) # Msb(res))
  BY DEF ArithFlags, SignedResult, Flags, Borrow, Overflow
<1>2. /\ res \in Word
      /\ d >= s => res = d - s
      /\ d < s  => res = d - s + M
  BY DifferenceOfWords
<1> HIDE DEF res
<1>3. /\ d \in Int /\ s \in Int /\ res \in Int /\ Half \in Int /\ Half > 0
      /\ 0 <= d /\ d < 2 * Half /\ 0 <= s /\ s < 2 * Half
      /\ 0 <= res /\ res < 2 * Half
      /\ d >= s => res = d - s
      /\ d < s  => res = d - s + 2 * Half
  BY <1>2, HalfAssumption DEF Word, M
<1>4. (res = 0) <=> (d = s)
  BY <1>3
<1>5. (res > d) <=> (d < s)
  BY <1>3
<1>6. (Msb(res) # (Msb(d) # Msb(s) /\ Msb(d) # Msb(res))) <=> Signed(d) < Signed(s)
  BY <1>3 DEF Msb, Signed, M
<1>7. Signed(d) \in Int /\ Signed(s) \in Int /\ (Signed(d) = Signed(s) <=> d = s)
  BY <1>3 DEF Msb, Signed, M
<1>8. f.ZF <=> d = s
  BY <1>1, <1>4
<1>9. f.CF <=> d < s
  BY <1>1, <1>5
<1>10. (f.SF # f.OF) <=> Signed(d) < Signed(s)
  BY <1>1, <1>6
<1>12. /\ Je(f) <=> d = s
       /\ Jne(f) <=> d # s
       /\ Jl(f) <=> Signed(d) < Signed(s)
       /\ Jge(f) <=> ~ (Signed(d) < Signed(s))
  BY <1>8, <1>10 DEF Je, Jne, Jl, Jge
<1>13. Ja(f) <=> ~ (d = s) /\ ~ (d < s)
  BY <1>8, <1>9 DEF Ja
<1>14. Jg(f) <=> ~ (d = s) /\ ~ (Signed(d) < Signed(s))
  BY <1>8, <1>10 DEF Jg
<1>15. Jle(f) <=> d = s \/ Signed(d) < Signed(s)
  BY <1>8, <1>10 DEF Jle
<1>16. /\ (~ (d = s) /\ ~ (d < s)) <=> d > s
       /\ ~ (Signed(d) < Signed(s)) <=> Signed(d) >= Signed(s)
       /\ (~ (d = s) /\ ~ (Signed(d) < Signed(s))) <=> Signed(d) > Signed(s)
       /\ (d = s \/ Signed(d) < Signed(s)) <=> Signed(d) <= Signed(s)
  BY <1>3, <1>7
<1> QED
  BY <1>12, <1>13, <1>14, <1>15, <1>16 DEF Decides

-----------------------------------------------------------------------------
(* Types.                                                                  *)

\* The flags stay flags.
LEMMA FlagsType ==
  ASSUME flags \in Flags, NEW res, NEW c \in BOOLEAN, NEW o \in BOOLEAN
  PROVE  /\ SignedResult(flags, res) \in Flags
         /\ UnsignedResult(flags, res) \in Flags
         /\ ArithFlags(res, c, o) \in Flags
         /\ [SignedResult(flags, res) EXCEPT !.OF = o] \in Flags
<1>1. PF(res) \in BOOLEAN /\ (res = 0) \in BOOLEAN /\ Msb(res) \in BOOLEAN
  BY DEF PF, Msb
<1>2. SignedResult(flags, res) \in Flags
  BY <1>1 DEF SignedResult, Flags
<1>3. UnsignedResult(flags, res) \in Flags
  BY <1>1 DEF UnsignedResult, Flags
<1>4. [SignedResult(flags, res) EXCEPT !.OF = o] \in Flags
  BY <1>2 DEF Flags
<1>5. ArithFlags(res, c, o) \in Flags
  BY <1>2 DEF ArithFlags, Flags
<1> QED
  BY <1>2, <1>3, <1>4, <1>5

\* Writing a word to a register, or two to the pair.
LEMMA WriteType ==
  ASSUME reg \in [Reg -> Word], NEW r \in Reg, NEW res \in Word, Write(r, res)
  PROVE  reg' \in [Reg -> Word]
BY DEF Write

LEMMA SetPairType ==
  ASSUME reg \in [Reg -> Word], NEW hi \in Int, NEW lo \in Int, SetPair(hi, lo)
  PROVE  reg' \in [Reg -> Word]
<1>1. Trunc(hi) \in Word /\ Trunc(lo) \in Word
  BY TruncType
<1> QED
  BY <1>1 DEF SetPair

\* The history, after an instruction that no property speaks of and after one
\* that some property does.
History == [op : {"none", "add", "sub", "cmp", "mul", "cltd"}, on : Reg,
            src : Word, lo : Word, hi : Word]

LEMMA DoneType ==
  ASSUME Done
  PROVE  up' = up /\ last' \in History /\ last'.op = "none"
BY HalfAssumption DEF Done, Nothing, History, Reg, Word, M

LEMMA NotedType ==
  ASSUME reg \in [Reg -> Word], NEW r \in Reg, NEW s \in Word,
         NEW op \in {"add", "sub", "cmp", "mul", "cltd"}, Noted(op, r, s)
  PROVE  /\ up' = up /\ last' \in History
         /\ last'.op = op /\ last'.on = r /\ last'.src = s
         /\ last'.lo = reg["eax"] /\ last'.hi = reg["edx"]
BY DEF Noted, History, Reg

-----------------------------------------------------------------------------
(* The inductive invariant: types, and what the flags say of the operands  *)
(* that the history keeps.                                                 *)

Inv == TypeOK /\ CompareDecides

LEMMA InvInit == Init => Inv
<1> SUFFICES ASSUME Init PROVE Inv
  OBVIOUS
<1>1. 0 \in Word
  BY HalfAssumption DEF Word, M
<1>2. reg \in [Reg -> Word] /\ flags \in Flags /\ up \in BOOLEAN
  BY <1>1 DEF Init, Flags
<1>3. last \in History /\ last.op = "none"
  BY <1>1 DEF Init, Nothing, History, Reg
<1> QED
  BY <1>2, <1>3 DEF Inv, TypeOK, History, CompareDecides

\* An instruction leaves the invariant true if it leaves words in the
\* registers and flags in the flags, and the history speaks of cmp and sub
\* only when the flags decide.
LEMMA InvAfter ==
  ASSUME TypeOK, up' = up, reg' \in [Reg -> Word], flags' \in Flags,
         last' \in History,
         \/ last'.op \notin {"cmp", "sub"}
         \/ Decides(flags', IF last'.on = "eax" THEN last'.lo ELSE last'.hi, last'.src)
  PROVE  Inv'
<1>1. TypeOK'
  BY DEF TypeOK, History
<1>2. CompareDecides'
  BY DEF CompareDecides
<1> QED
  BY <1>1, <1>2 DEF Inv

\* sub and cmp.
LEMMA SubtractStep ==
  ASSUME Inv, NEW r \in Reg, NEW s \in Word, NEW op \in {"cmp", "sub"},
         Noted(op, r, s), reg' \in [Reg -> Word],
         flags' = ArithFlags(Difference(reg[r], s), Borrow(reg[r], Difference(reg[r], s)),
                             Overflow(reg[r], s, Difference(reg[r], s)))
  PROVE  Inv'
<1>1. TypeOK /\ reg \in [Reg -> Word] /\ flags \in Flags
  BY DEF Inv, TypeOK
<1>2. /\ up' = up /\ last' \in History
      /\ last'.on = r /\ last'.src = s /\ last'.lo = reg["eax"] /\ last'.hi = reg["edx"]
  BY <1>1, NotedType
<1>3. reg[r] \in Word
  BY <1>1
<1>4. flags' \in Flags
  <2>1. /\ Overflow(reg[r], s, Difference(reg[r], s)) \in BOOLEAN
        /\ Borrow(reg[r], Difference(reg[r], s)) \in BOOLEAN
    BY DEF Overflow, Borrow
  <2> QED BY <1>1, <2>1, FlagsType
<1>5. Decides(flags', reg[r], s)
  BY <1>1, <1>3, FlagsDecide
<1>6. reg[r] = IF last'.on = "eax" THEN last'.lo ELSE last'.hi
  BY <1>2 DEF Reg
<1> QED
  BY <1>1, <1>2, <1>4, <1>5, <1>6, InvAfter

\* An instruction of which the history keeps nothing.
LEMMA DoneStep ==
  ASSUME Inv, Done, reg' \in [Reg -> Word], flags' \in Flags
  PROVE  Inv'
<1>1. up' = up /\ last' \in History /\ last'.op = "none"
  BY DoneType
<1> QED
  BY <1>1, InvAfter DEF Inv

\* One that is kept, but is no comparison.
LEMMA NotedStep ==
  ASSUME Inv, NEW r \in Reg, NEW s \in Word, NEW op \in {"add", "mul", "cltd"},
         Noted(op, r, s), reg' \in [Reg -> Word], flags' \in Flags
  PROVE  Inv'
<1>1. /\ up' = up /\ last' \in History /\ last'.op = op
  BY NotedType DEF Inv, TypeOK
<1> QED
  BY <1>1, InvAfter DEF Inv

LEMMA BinaryStep ==
  ASSUME Inv, NEW r \in Reg, NEW s \in Word, Binary(r, s)
  PROVE  Inv'
<1>1. reg \in [Reg -> Word] /\ flags \in Flags /\ reg[r] \in Word
  BY DEF Inv, TypeOK
<1>2. reg[r] \in Int /\ s \in Int /\ CarryIn \in Int
  BY <1>1 DEF Word, CarryIn
<1>3. CASE Add(r, s)
  <2>1. Trunc(reg[r] + s) \in Word
    BY <1>2, TruncType
  <2>2. reg' \in [Reg -> Word] /\ Noted("add", r, s)
    BY <1>1, <1>3, <2>1, WriteType DEF Add
  <2>3. /\ Overflow(reg[r], s, Trunc(reg[r] + s)) \in BOOLEAN
        /\ (Trunc(reg[r] + s) > reg[r]) \in BOOLEAN
    BY DEF Overflow
  <2>4. flags' \in Flags
    BY <1>1, <1>3, <2>3, FlagsType DEF Add
  <2> QED BY <2>2, <2>4, NotedStep
<1>4. CASE Adc(r, s)
  <2>1. Trunc(reg[r] + s + CarryIn) \in Word
    BY <1>2, TruncType
  <2>2. reg' \in [Reg -> Word] /\ Done
    BY <1>1, <1>4, <2>1, WriteType DEF Adc
  <2>3. /\ OverflowWithCarry(reg[r], s, Trunc(reg[r] + s + CarryIn)) \in BOOLEAN
        /\ (Trunc(reg[r] + s + CarryIn) < reg[r]) \in BOOLEAN
    BY DEF OverflowWithCarry
  <2>4. flags' \in Flags
    BY <1>1, <1>4, <2>3, FlagsType DEF Adc
  <2> QED BY <2>2, <2>4, DoneStep
<1>5. CASE Sub(r, s)
  <2>1. Difference(reg[r], s) \in Word
    BY <1>1, DifferenceOfWords
  <2>2. reg' \in [Reg -> Word] /\ Noted("sub", r, s)
    BY <1>1, <1>5, <2>1, WriteType DEF Sub
  <2>3. flags' = ArithFlags(Difference(reg[r], s), Borrow(reg[r], Difference(reg[r], s)),
                            Overflow(reg[r], s, Difference(reg[r], s)))
    BY <1>5 DEF Sub
  <2> QED BY <2>2, <2>3, SubtractStep
<1>6. CASE Sbb(r, s)
  <2>1. DifferenceWithBorrow(reg[r], s) \in Word
    BY <1>2, TruncType DEF DifferenceWithBorrow
  <2>2. reg' \in [Reg -> Word] /\ Done
    BY <1>1, <1>6, <2>1, WriteType DEF Sbb
  <2>3. /\ OverflowWithCarry(reg[r], s, DifferenceWithBorrow(reg[r], s)) \in BOOLEAN
        /\ (DifferenceWithBorrow(reg[r], s) < reg[r]) \in BOOLEAN
    BY DEF OverflowWithCarry
  <2>4. flags' \in Flags
    BY <1>1, <1>6, <2>3, FlagsType DEF Sbb
  <2> QED BY <2>2, <2>4, DoneStep
<1>7. CASE Cmp(r, s)
  <2>1. /\ reg' \in [Reg -> Word] /\ Noted("cmp", r, s)
        /\ flags' = ArithFlags(Difference(reg[r], s), Borrow(reg[r], Difference(reg[r], s)),
                               Overflow(reg[r], s, Difference(reg[r], s)))
    BY <1>1, <1>7 DEF Cmp
  <2> QED BY <2>1, SubtractStep
<1>8. CASE And(r, s) \/ Or(r, s) \/ Xor(r, s)
  <2>1. PICK res \in Word : /\ Write(r, res) /\ Done
                            /\ flags' = ArithFlags(res, FALSE, FALSE)
    BY <1>8 DEF And, Or, Xor, Logic
  <2>2. reg' \in [Reg -> Word] /\ flags' \in Flags
    BY <1>1, <2>1, WriteType, FlagsType
  <2> QED BY <2>1, <2>2, DoneStep
<1>9. CASE Test(r, s)
  <2>1. PICK res \in Word : /\ Done /\ reg' = reg
                            /\ flags' = ArithFlags(res, FALSE, FALSE)
    BY <1>9 DEF Test
  <2>2. reg' \in [Reg -> Word] /\ flags' \in Flags
    BY <1>1, <2>1, FlagsType
  <2> QED BY <2>1, <2>2, DoneStep
<1>10. CASE Shl(r, s) \/ Shr(r, s) \/ Sar(r, s)
  <2>1. PICK res \in Word : /\ Write(r, res) /\ Done
                            /\ flags' \in {UnsignedResult(flags, res), SignedResult(flags, res)}
    BY <1>10 DEF Shl, Shr, Sar
  <2>2. reg' \in [Reg -> Word] /\ flags' \in Flags
    BY <1>1, <2>1, WriteType, FlagsType
  <2> QED BY <2>1, <2>2, DoneStep
<1> QED
  BY <1>3, <1>4, <1>5, <1>6, <1>7, <1>8, <1>9, <1>10 DEF Binary

LEMMA UnaryStep ==
  ASSUME Inv, NEW r \in Reg, Unary(r)
  PROVE  Inv'
<1>1. reg \in [Reg -> Word] /\ flags \in Flags /\ reg[r] \in Word
  BY DEF Inv, TypeOK
<1>2. reg[r] \in Int
  BY <1>1 DEF Word
<1>3. /\ Trunc(reg[r] + 1) \in Word /\ Trunc(reg[r] - 1) \in Word
      /\ Trunc(- reg[r]) \in Word
  BY <1>2, TruncType
<1>4. M - 1 - reg[r] \in Word
  BY <1>1, HalfAssumption DEF Word, M
<1>5. reg' \in [Reg -> Word] /\ Done
  BY <1>1, <1>3, <1>4, WriteType DEF Unary, Inc, Dec, Neg, Not
<1>6. flags' \in Flags
  <2>1. CASE Inc(r)
    BY <1>1, <2>1, FlagsType DEF Inc
  <2>2. CASE Dec(r)
    BY <1>1, <2>2, FlagsType DEF Dec
  <2>3. CASE Neg(r) \/ Not(r)
    BY <1>1, <2>3 DEF Neg, Not
  <2> QED BY <2>1, <2>2, <2>3 DEF Unary
<1> QED
  BY <1>5, <1>6, DoneStep

\* The instructions on the pair.  Quotients and remainders are integers.
LEMMA QuotType ==
  ASSUME NEW a \in Int, NEW b \in Int, b # 0
  PROVE  Quot(a, b) \in Int /\ Rem(a, b) \in Int
<1> DEFINE Abs(x) == IF x < 0 THEN - x ELSE x
<1>1. Abs(a) \in Int /\ Abs(b) \in Int /\ Abs(b) > 0
  OBVIOUS
<1>2. Abs(a) \div Abs(b) \in Int
  BY <1>1
<1> HIDE DEF Abs
<1>3. Quot(a, b) = IF (a < 0) = (b < 0) THEN Abs(a) \div Abs(b) ELSE - (Abs(a) \div Abs(b))
  BY DEF Quot, Abs
<1>4. Quot(a, b) \in Int
  BY <1>2, <1>3
<1> QED
  BY <1>4 DEF Rem

LEMMA SignedType ==
  ASSUME NEW x \in Word
  PROVE  Signed(x) \in Int /\ (x # 0 => Signed(x) # 0)
BY HalfAssumption DEF Signed, Word, M

LEMMA PairType ==
  ASSUME NEW hi \in Word, NEW lo \in Word
  PROVE  Pair(hi, lo) \in Int
BY HalfAssumption DEF Pair, Word, M

LEMMA HighHalfType ==
  ASSUME NEW product \in Int
  PROVE  HighHalf(product) \in Int
BY HalfAssumption DEF HighHalf, M

LEMMA PairStep ==
  ASSUME Inv, Cltd \/ Xchg \/ (\E s \in Word : Mul(s) \/ Imul(s))
                 \/ (\E s \in Word \ {0} : Div(s) \/ Idiv(s))
  PROVE  Inv'
<1>1. /\ reg \in [Reg -> Word] /\ flags \in Flags
      /\ reg["eax"] \in Word /\ reg["edx"] \in Word
  BY DEF Inv, TypeOK, Reg
<1>2. reg["eax"] \in Int /\ reg["edx"] \in Int /\ M \in Int
  BY <1>1, HalfAssumption DEF Word, M
<1>3. Pair(reg["edx"], reg["eax"]) \in Int
  BY <1>1, PairType
<1>4. "eax" \in Reg /\ "edx" \in Reg
  BY DEF Reg
<1>5. CASE Cltd
  <2>1. SignExtension \in Word
    <3>1. - (IF Msb(reg["eax"]) THEN 1 ELSE 0) \in Int
      OBVIOUS
    <3> QED BY <3>1, TruncType DEF SignExtension
  <2>2. reg' \in [Reg -> Word]
    BY <1>1, <1>4, <1>5, <2>1, WriteType DEF Cltd
  <2>3. Noted("cltd", "eax", 0) /\ flags' \in Flags /\ 0 \in Word
    BY <1>1, <1>5, HalfAssumption DEF Cltd, Word, M
  <2> QED BY <1>4, <2>2, <2>3, NotedStep
<1>6. CASE Xchg
  BY <1>1, <1>2, <1>6, SetPairType, DoneStep DEF Xchg
<1>7. CASE \E s \in Word : Mul(s)
  <2>1. PICK s \in Word : Mul(s)
    BY <1>7
  <2>2. reg["eax"] * s \in Int
    BY <1>2, <2>1 DEF Word
  <2>3. HighHalf(reg["eax"] * s) \in Int
    BY <2>2, HighHalfType
  <2>4. reg' \in [Reg -> Word] /\ flags' \in Flags
    BY <1>1, <2>1, <2>2, <2>3, SetPairType DEF Mul
  <2>5. Noted("mul", "eax", s)
    BY <2>1 DEF Mul
  <2> QED BY <1>4, <2>1, <2>4, <2>5, NotedStep
<1>8. CASE \E s \in Word : Imul(s)
  <2>1. PICK s \in Word : Imul(s)
    BY <1>8
  <2>2. Signed(reg["eax"]) * Signed(s) \in Int
    <3>1. Signed(reg["eax"]) \in Int /\ Signed(s) \in Int
      BY <1>1, <2>1, SignedType
    <3> QED BY <3>1
  <2>3. HighHalf(Signed(reg["eax"]) * Signed(s)) \in Int
    BY <2>2, HighHalfType
  <2>4. reg' \in [Reg -> Word] /\ flags' \in Flags /\ Done
    BY <1>1, <2>1, <2>2, <2>3, SetPairType DEF Imul
  <2> QED BY <2>4, DoneStep
<1>9. CASE \E s \in Word \ {0} : Div(s)
  <2>1. PICK s \in Word \ {0} : Div(s)
    BY <1>9
  <2>2. s \in Int /\ s > 0
    BY <2>1 DEF Word
  <2> DEFINE a == Pair(reg["edx"], reg["eax"])
  <2>3. a % s \in Int /\ a \div s \in Int
    BY <1>3, <2>2
  <2>4. reg' \in [Reg -> Word] /\ flags' \in Flags /\ Done
    BY <1>1, <2>1, <2>3, SetPairType DEF Div
  <2> QED BY <2>4, DoneStep
<1>10. CASE \E s \in Word \ {0} : Idiv(s)
  <2>1. PICK s \in Word \ {0} : Idiv(s)
    BY <1>10
  <2>2. Signed(s) \in Int /\ Signed(s) # 0
    BY <2>1, SignedType
  <2>3. Dividend \in Int
    BY <1>2, <1>3 DEF Dividend
  <2>4. Rem(Dividend, Signed(s)) \in Int /\ Quot(Dividend, Signed(s)) \in Int
    BY <2>2, <2>3, QuotType
  <2>5. reg' \in [Reg -> Word] /\ flags' \in Flags /\ Done
    BY <1>1, <2>1, <2>4, SetPairType DEF Idiv
  <2> QED BY <2>5, DoneStep
<1> QED
  BY <1>5, <1>6, <1>7, <1>8, <1>9, <1>10

\* Every step keeps the invariant, also the one that kills NEMU.
LEMMA InvNext == Inv /\ [Next]_vars => Inv'
<1> SUFFICES ASSUME Inv, [Next]_vars PROVE Inv'
  OBVIOUS
<1>1. CASE \E r \in Reg : Unary(r)
  BY <1>1, UnaryStep
<1>2. CASE \E r \in Reg, s \in Word : Binary(r, s)
  BY <1>2, BinaryStep
<1>3. CASE Cltd \/ Xchg \/ (\E s \in Word : Mul(s) \/ Imul(s))
                \/ (\E s \in Word \ {0} : Div(s) \/ Idiv(s))
  BY <1>3, PairStep
<1>4. CASE DivideFault
  BY <1>4 DEF DivideFault, Inv, TypeOK, CompareDecides
<1>5. CASE UNCHANGED vars
  BY <1>5 DEF vars, Inv, TypeOK, CompareDecides
<1> QED
  BY <1>1, <1>2, <1>3, <1>4, <1>5 DEF Next

\* The registers hold words and the flags flags, whatever is executed.
THEOREM TypeCorrect == Spec => []TypeOK
<1>1. Inv => TypeOK
  BY DEF Inv
<1> QED
  BY <1>1, InvInit, InvNext, PTL DEF Spec

\* After every cmp and sub, at every word size, the conditional jumps but jbe
\* decide the comparison of the two operands as their names say.
THEOREM ComparesRight == Spec => []CompareDecides
<1>1. Inv => CompareDecides
  BY DEF Inv
<1> QED
  BY <1>1, InvInit, InvNext, PTL DEF Spec

-----------------------------------------------------------------------------
(* Subtraction of double words.                                            *)

\* What sub leaves of its operands in eax, edx and the carry flag.
AfterSub ==
  last.op = "sub" /\ last.on = "eax"
    => /\ reg["eax"] = Difference(last.lo, last.src)
       /\ reg["edx"] = last.hi
       /\ flags.CF = (last.lo < last.src)

\* Only sub, mul and cltd leave a history of theirs.
LEMMA WhoNoted ==
  ASSUME Next, last'.op \in {"sub", "mul", "cltd"}, ~ UNCHANGED <<reg, flags, last>>
  PROVE  \/ last'.op = "sub" /\ \E r \in Reg, s \in Word : Sub(r, s)
         \/ last'.op = "mul" /\ \E s \in Word : Mul(s)
         \/ last'.op = "cltd" /\ Cltd
<1>1. ASSUME Done PROVE FALSE
  BY <1>1 DEF Done, Nothing
<1>2. ASSUME NEW op, NEW r, NEW s, Noted(op, r, s) PROVE last'.op = op
  BY <1>2 DEF Noted
<1>3. ASSUME NEW r \in Reg, Unary(r) PROVE FALSE
  BY <1>1, <1>3 DEF Unary, Inc, Dec, Neg, Not
<1>4. ASSUME NEW r \in Reg, NEW s \in Word, Binary(r, s) PROVE Sub(r, s) /\ last'.op = "sub"
  <2>1. CASE Add(r, s)
    BY <1>2, <2>1 DEF Add
  <2>2. CASE Adc(r, s) \/ Sbb(r, s)
    BY <1>1, <2>2 DEF Adc, Sbb
  <2>3. CASE Cmp(r, s)
    BY <1>2, <2>3 DEF Cmp
  <2>4. CASE And(r, s) \/ Or(r, s) \/ Xor(r, s)
    BY <1>1, <2>4 DEF And, Or, Xor, Logic
  <2>5. CASE Test(r, s)
    BY <1>1, <2>5 DEF Test
  <2>6. CASE Shl(r, s) \/ Shr(r, s) \/ Sar(r, s)
    BY <1>1, <2>6 DEF Shl, Shr, Sar
  <2>7. CASE Sub(r, s)
    BY <1>2, <2>7 DEF Sub
  <2> QED BY <1>4, <2>1, <2>2, <2>3, <2>4, <2>5, <2>6, <2>7 DEF Binary
<1>5. ASSUME Xchg PROVE FALSE
  BY <1>1, <1>5 DEF Xchg
<1>6. ASSUME Cltd PROVE last'.op = "cltd"
  BY <1>2, <1>6 DEF Cltd
<1>7. ASSUME NEW s \in Word, Imul(s) \/ Div(s) \/ Idiv(s) PROVE FALSE
  BY <1>1, <1>7 DEF Imul, Div, Idiv
<1>8. ASSUME NEW s \in Word, Mul(s) PROVE last'.op = "mul"
  BY <1>2, <1>8 DEF Mul
<1> QED
  BY <1>3, <1>4, <1>5, <1>6, <1>7, <1>8 DEF Next, DivideFault

LEMMA AfterSubNext == Inv /\ AfterSub /\ [Next]_vars => AfterSub'
<1> SUFFICES ASSUME Inv, AfterSub, [Next]_vars, last'.op = "sub", last'.on = "eax"
             PROVE  /\ reg'["eax"] = Difference(last'.lo, last'.src)
                    /\ reg'["edx"] = last'.hi
                    /\ flags'.CF = (last'.lo < last'.src)
  BY DEF AfterSub
<1>1. CASE UNCHANGED <<reg, flags, last>>
  BY <1>1 DEF AfterSub
<1>2. CASE \E r \in Reg, s \in Word : Sub(r, s)
  <2>1. PICK r \in Reg, s \in Word : Sub(r, s)
    BY <1>2
  <2>2. reg \in [Reg -> Word] /\ flags \in Flags /\ Noted("sub", r, s)
    BY <2>1 DEF Inv, TypeOK, Sub
  <2>3. last'.on = r /\ last'.src = s /\ last'.lo = reg["eax"] /\ last'.hi = reg["edx"]
    BY <2>2, NotedType
  <2>4. r = "eax" /\ reg["eax"] \in Word
    BY <2>2, <2>3
  <2> DEFINE res == Difference(reg["eax"], s)
  <2>5. /\ reg' = [reg EXCEPT !["eax"] = res]
        /\ flags' = ArithFlags(res, Borrow(reg["eax"], res), Overflow(reg["eax"], s, res))
    BY <2>1, <2>4 DEF Sub, Write
  <2>6. flags'.CF = (res > reg["eax"])
    BY <2>2, <2>5 DEF ArithFlags, SignedResult, Borrow, Flags
  <2>7. (res > reg["eax"]) <=> (reg["eax"] < s)
    <3>1. reg["eax"] \in Int /\ s \in Int /\ M \in Int /\ reg["eax"] < M /\ 0 <= s /\ s < M
      BY <2>4, HalfAssumption DEF Word, M
    <3> QED BY <2>4, <3>1, DifferenceOfWords
  <2>8. reg'["eax"] = res /\ reg'["edx"] = reg["edx"]
    BY <2>2, <2>5 DEF Reg
  <2> QED BY <2>3, <2>6, <2>7, <2>8
<1> QED
  BY <1>1, <1>2, WhoNoted DEF vars

\* The two words of a difference of double words are the difference of the low
\* words and that of the high words less the borrow.
LEMMA WideDifference ==
  ASSUME NEW h \in Word, NEW l \in Word, NEW s \in Word, NEW t \in Word,
         NEW c \in {0, 1}, c = IF l < t THEN 1 ELSE 0
  PROVE  Pair(Trunc(h - (s + c)), Difference(l, t))
           = (Pair(h, l) - Pair(s, t)) % (M * M)
<1> DEFINE N == M * M
           D == Pair(h, l) - Pair(s, t)
           lo == l - t + c * M
           x == h - s - c
<1>1. /\ h \in Int /\ l \in Int /\ s \in Int /\ t \in Int /\ c \in Int /\ M \in Int
      /\ M > 0 /\ 0 <= h /\ h < M /\ 0 <= l /\ l < M /\ 0 <= s /\ s < M /\ 0 <= t /\ t < M
  BY HalfAssumption DEF Word, M
<1>2. Difference(l, t) = lo /\ lo \in Int /\ 0 <= lo /\ lo < M
  BY <1>1, DifferenceOfWords
<1>3. x \in Int /\ h - (s + c) = x /\ - M <= x /\ x < M
  BY <1>1
<1>4. Trunc(h - (s + c)) = IF x >= 0 THEN x ELSE x + M
  BY <1>1, <1>3, TruncOfWord
<1>5. N \in Int /\ N > 0
  BY <1>1
<1>6. D = x * M + lo
  <2>1. (h - s - c) * M = h * M - s * M - c * M
    BY <1>1
  <2>2. h * M \in Int /\ s * M \in Int /\ c * M \in Int
    BY <1>1
  <2> QED BY <1>1, <2>1, <2>2 DEF Pair
<1>7. x * M \in Int
  BY <1>1, <1>3
<1> HIDE DEF N, D, lo, x
<1>8. CASE x >= 0
  <2>1. 0 <= x * M /\ x * M <= (M - 1) * M
    BY <1>1, <1>3, <1>8
  <2>2. (M - 1) * M = N - M
    BY <1>1 DEF N
  <2>3. D \in 0 .. N - 1
    BY <1>1, <1>2, <1>5, <1>6, <1>7, <2>1, <2>2
  <2>4. D % N = D
    BY <1>5, <2>3
  <2> QED BY <1>2, <1>4, <1>6, <1>8, <2>4 DEF Pair, N, D
<1>9. CASE x < 0
  <2>1. - N <= x * M /\ x * M <= - M
    <3>1. 0 <= (x + M) * M /\ 0 <= (-1 - x) * M
      BY <1>1, <1>3, <1>9
    <3>2. (x + M) * M = x * M + N /\ (-1 - x) * M = - M - x * M
      BY <1>1, <1>3 DEF N
    <3> QED BY <1>1, <1>5, <1>7, <3>1, <3>2
  <2>2. D \in (- N) .. -1
    BY <1>1, <1>2, <1>5, <1>6, <1>7, <2>1
  <2>3. D % N = D + N
    BY <1>5, <2>2
  <2>4. (x + M) * M + lo = D + N
    <3>1. (x + M) * M = x * M + N
      BY <1>1, <1>3 DEF N
    <3> QED BY <1>2, <1>5, <1>6, <1>7, <3>1
  <2> QED BY <1>2, <1>3, <1>4, <1>9, <2>3, <2>4 DEF Pair, N, D
<1> QED
  BY <1>3, <1>8, <1>9

\* sub of the low words and then sbb of the high words subtracts double words,
\* whatever the word size.
THEOREM SubtractsWide == Spec => WideSubtracts
<1>1. Init => AfterSub
  BY DEF Init, Nothing, AfterSub
<1>2. ASSUME Inv, AfterSub, last.op = "sub", last.on = "eax",
             NEW s \in Word, Sbb("edx", s)
      PROVE  Pair(reg'["edx"], reg'["eax"])
               = (Pair(last.hi, last.lo) - Pair(s, last.src)) % (M * M)
  <2>1. /\ reg \in [Reg -> Word] /\ flags \in Flags
        /\ last.lo \in Word /\ last.hi \in Word /\ last.src \in Word
    BY <1>2 DEF Inv, TypeOK
  <2>2. /\ reg["eax"] = Difference(last.lo, last.src)
        /\ reg["edx"] = last.hi
        /\ flags.CF = (last.lo < last.src)
    BY <1>2 DEF AfterSub
  <2>3. CarryIn \in {0, 1} /\ CarryIn = IF last.lo < last.src THEN 1 ELSE 0
    BY <2>2 DEF CarryIn
  <2>4. reg' = [reg EXCEPT !["edx"] = Trunc(last.hi - (s + CarryIn))]
    BY <1>2, <2>2 DEF Sbb, DifferenceWithBorrow, Write
  <2>5. /\ reg'["eax"] = Difference(last.lo, last.src)
        /\ reg'["edx"] = Trunc(last.hi - (s + CarryIn))
    BY <2>1, <2>2, <2>4 DEF Reg
  <2> QED BY <2>1, <2>3, <2>5, WideDifference
<1>3. Inv /\ AfterSub /\ [Next]_vars =>
        [ last.op = "sub" /\ last.on = "eax"
            => \A s \in Word :
                 Sbb("edx", s)
                   => Pair(reg'["edx"], reg'["eax"])
                        = (Pair(last.hi, last.lo) - Pair(s, last.src)) % (M * M) ]_vars
  BY <1>2
<1> QED
  BY <1>1, <1>3, InvInit, InvNext, AfterSubNext, PTL DEF Spec, WideSubtracts

-----------------------------------------------------------------------------
(* Multiplication and division.                                            *)

\* Division by a positive number, from its definition, and undone.
LEMMA Quotient ==
  ASSUME NEW a \in Nat, NEW b \in Nat \ {0}
  PROVE  a \div b \in Nat /\ a % b \in 0 .. b - 1 /\ a = b * (a \div b) + (a % b)
OBVIOUS

LEMMA QuotientOf ==
  ASSUME NEW q \in Nat, NEW b \in Nat \ {0}, NEW r \in 0 .. b - 1
  PROVE  (b * q + r) \div b = q /\ (b * q + r) % b = r
OBVIOUS

\* The two words of a product of words.
LEMMA ProductSplits ==
  ASSUME NEW x \in Word, NEW y \in Word
  PROVE  /\ HighHalf(x * y) \in Word
         /\ Pair(Trunc(HighHalf(x * y)), Trunc(x * y)) = x * y
<1> DEFINE p == x * y
           h == p \div M
           l == p % M
<1>1. /\ M \in Nat \ {0} /\ x \in Nat /\ y \in Nat /\ x < M /\ y < M
  BY HalfAssumption DEF Word, M
<1>2. p \in Nat
  BY <1>1
<1>3. h \in Nat /\ l \in 0 .. M - 1 /\ p = M * h + l
  <2> HIDE DEF p
  <2> QED BY <1>1, <1>2, Quotient
<1>4. p < M * M
  <2>1. x * y <= x * M
    <3>1. 0 <= x * (M - y) /\ x * (M - y) = x * M - x * y /\ x * M \in Int
      BY <1>1
    <3> QED BY <1>2, <3>1 DEF p
  <2>2. x * M < M * M
    <3>1. 0 < (M - x) * M /\ (M - x) * M = M * M - x * M /\ x * M \in Int /\ M * M \in Int
      BY <1>1
    <3> QED BY <3>1
  <2>3. x * M \in Int /\ M * M \in Int
    BY <1>1
  <2> QED BY <1>2, <2>1, <2>2, <2>3 DEF p
<1>5. HighHalf(p) = h /\ Trunc(p) = l
  BY DEF HighHalf, Trunc
<1> HIDE DEF h, l, p
<1>6. h < M
  <2> SUFFICES ASSUME h >= M PROVE FALSE
    BY <1>1, <1>3
  <2>1. M * h >= M * M
    <3>1. 0 <= M * (h - M) /\ M * (h - M) = M * h - M * M /\ M * h \in Int /\ M * M \in Int
      BY <1>1, <1>3
    <3> QED BY <3>1
  <2>2. M * h \in Int /\ M * M \in Int /\ l \in Int /\ l >= 0
    BY <1>1, <1>3
  <2> QED BY <1>2, <1>3, <1>4, <2>1, <2>2
<1>7. h \in Word
  BY <1>1, <1>3, <1>6 DEF Word
<1>8. Trunc(h) = h
  BY <1>7, <1>3, TruncOfWord DEF Word
<1>9. Pair(h, l) = p
  <2>1. h * M = M * h
    BY <1>1, <1>3
  <2> QED BY <1>3, <2>1 DEF Pair
<1> QED
  BY <1>5, <1>7, <1>8, <1>9 DEF p

\* What mul leaves in the pair.
AfterMul ==
  last.op = "mul" => Pair(reg["edx"], reg["eax"]) = last.lo * last.src

LEMMA AfterMulNext == Inv /\ AfterMul /\ [Next]_vars => AfterMul'
<1> SUFFICES ASSUME Inv, AfterMul, [Next]_vars, last'.op = "mul"
             PROVE  Pair(reg'["edx"], reg'["eax"]) = last'.lo * last'.src
  BY DEF AfterMul, Pair
<1>1. CASE UNCHANGED <<reg, flags, last>>
  BY <1>1 DEF AfterMul
<1>2. CASE \E s \in Word : Mul(s)
  <2>1. PICK s \in Word : Mul(s)
    BY <1>2
  <2>2. reg \in [Reg -> Word] /\ Noted("mul", "eax", s) /\ reg["eax"] \in Word
    BY <2>1 DEF Inv, TypeOK, Mul, Reg
  <2>3. last'.src = s /\ last'.lo = reg["eax"]
    BY <2>2 DEF Noted
  <2>4. /\ reg'["eax"] = Trunc(reg["eax"] * s)
        /\ reg'["edx"] = Trunc(HighHalf(reg["eax"] * s))
    BY <2>1, <2>2 DEF Mul, SetPair, Reg
  <2> QED BY <2>2, <2>3, <2>4, ProductSplits
<1> QED
  BY <1>1, <1>2, WhoNoted DEF vars

\* div by the second operand of a mul gives its first operand back, and no
\* remainder, whatever the word size: no bit of the product is lost between them.
THEOREM DivisionUndoes == Spec => MulThenDiv
<1>1. Init => AfterMul
  BY DEF Init, Nothing, AfterMul
<1>2. ASSUME Inv, AfterMul, last.op = "mul", last.src # 0, Div(last.src)
      PROVE  reg'["eax"] = last.lo /\ reg'["edx"] = 0
  <2>1. reg \in [Reg -> Word] /\ last.lo \in Word /\ last.src \in Word
    BY <1>2 DEF Inv, TypeOK
  <2>2. Pair(reg["edx"], reg["eax"]) = last.lo * last.src
    BY <1>2 DEF AfterMul
  <2>3. /\ last.lo \in Nat /\ last.src \in Nat \ {0} /\ last.lo \in Int
        /\ last.lo \in 0 .. M - 1 /\ M \in Nat \ {0} /\ 0 \in 0 .. M - 1
    BY <1>2, <2>1, HalfAssumption DEF Word, M
  <2>4. (last.lo * last.src) \div last.src = last.lo /\ (last.lo * last.src) % last.src = 0
    <3> DEFINE x == last.lo
               y == last.src
    <3>1. x \in Nat /\ y \in Nat \ {0}
      BY <2>3
    <3> HIDE DEF x, y
    <3>2. 0 \in 0 .. y - 1 /\ y * x + 0 = x * y
      BY <3>1
    <3>3. (y * x + 0) \div y = x /\ (y * x + 0) % y = 0
      BY <3>1, <3>2, QuotientOf
    <3> QED BY <3>2, <3>3 DEF x, y
  <2>5. reg' = [reg EXCEPT !["eax"] = Trunc(last.lo), !["edx"] = Trunc(0)]
    BY <1>2, <2>2, <2>4 DEF Div, SetPair
  <2>6. Trunc(last.lo) = last.lo /\ Trunc(0) = 0
    BY <2>3, TruncOfWord
  <2> QED BY <2>1, <2>5, <2>6 DEF Reg
<1>3. Inv /\ AfterMul /\ [Next]_vars =>
        [ last.op = "mul" /\ last.src # 0 /\ Div(last.src)
            => reg'["eax"] = last.lo /\ reg'["edx"] = 0 ]_vars
  BY <1>2
<1> QED
  BY <1>1, <1>3, InvInit, InvNext, AfterMulNext, PTL DEF Spec, MulThenDiv

\* The remainder of a division that rounds towards zero is smaller than the
\* divisor, whatever the signs.
LEMMA RemainderSmall ==
  ASSUME NEW a \in Int, NEW b \in Int, b # 0
  PROVE  /\ Rem(a, b) \in Int
         /\ b > 0 => - b < Rem(a, b) /\ Rem(a, b) < b
         /\ b < 0 => b < Rem(a, b) /\ Rem(a, b) < - b
<1> DEFINE Abs(x) == IF x < 0 THEN - x ELSE x
           q == Abs(a) \div Abs(b)
           r == Abs(a) % Abs(b)
<1>1. Abs(a) \in Nat /\ Abs(b) \in Nat \ {0}
  OBVIOUS
<1>2. q \in Nat /\ r \in 0 .. Abs(b) - 1 /\ Abs(a) = Abs(b) * q + r
  <2> HIDE DEF Abs
  <2> QED BY <1>1, Quotient
<1>3. Quot(a, b) = IF (a < 0) = (b < 0) THEN q ELSE - q
  BY DEF Quot
<1> HIDE DEF q, r
<1>4. b * q \in Int /\ b * (- q) = - (b * q) /\ (- b) * q = - (b * q) /\ r \in Int
  BY <1>1, <1>2
<1>5. Rem(a, b) = IF (a < 0) = (b < 0) THEN a - b * q ELSE a + b * q
  BY <1>3, <1>4 DEF Rem
<1>6. Rem(a, b) = IF a < 0 THEN - r ELSE r
  BY <1>2, <1>4, <1>5
<1>7. r < Abs(b) /\ r >= 0
  BY <1>1, <1>2
<1> QED
  BY <1>4, <1>6, <1>7

\* What cltd leaves: eax, and its sign in edx.
AfterCltd ==
  last.op = "cltd" => /\ reg["eax"] = last.lo
                      /\ reg["edx"] = IF Msb(last.lo) THEN M - 1 ELSE 0

LEMMA AfterCltdNext == Inv /\ AfterCltd /\ [Next]_vars => AfterCltd'
<1> SUFFICES ASSUME Inv, AfterCltd, [Next]_vars, last'.op = "cltd"
             PROVE  /\ reg'["eax"] = last'.lo
                    /\ reg'["edx"] = IF Msb(last'.lo) THEN M - 1 ELSE 0
  BY DEF AfterCltd, Msb
<1>1. CASE UNCHANGED <<reg, flags, last>>
  BY <1>1 DEF AfterCltd
<1>2. CASE Cltd
  <2>1. reg \in [Reg -> Word] /\ reg["eax"] \in Word /\ last'.lo = reg["eax"]
    BY <1>2 DEF Inv, TypeOK, Reg, Cltd, Noted
  <2>2. reg'["eax"] = reg["eax"] /\ reg'["edx"] = SignExtension
    BY <1>2, <2>1 DEF Cltd, Write, Reg
  <2>3. SignExtension = IF Msb(reg["eax"]) THEN M - 1 ELSE 0
    <3>1. Trunc(-1) = M - 1 /\ Trunc(0) = 0
      <4>1. /\ M \in Int /\ -1 \in (- M) .. -1 /\ 0 \in 0 .. M - 1
            /\ -1 + M = M - 1
        BY HalfAssumption DEF M
      <4> QED BY <4>1, TruncOfWord
    <3> DEFINE t == IF Msb(reg["eax"]) THEN 1 ELSE 0
    <3>2. t \in {0, 1}
      OBVIOUS
    <3>3. SignExtension = Trunc(- t)
      BY DEF SignExtension
    <3>4. (t = 0 <=> ~ Msb(reg["eax"])) /\ (t = 1 <=> Msb(reg["eax"]))
      OBVIOUS
    <3> HIDE DEF t
    <3>5. (t = 0 => - t = 0) /\ (t = 1 => - t = -1)
      BY <3>2
    <3> QED BY <3>1, <3>2, <3>3, <3>4, <3>5
  <2> QED BY <2>1, <2>2, <2>3
<1> QED
  BY <1>1, <1>2, WhoNoted DEF vars

\* cltd and then idiv is the division of signed longs: the dividend is what
\* eax held, and the remainder fits in edx.
THEOREM SignedDivides == Spec => SignedDivision
<1>1. Init => AfterCltd
  BY DEF Init, Nothing, AfterCltd
<1>2. ASSUME Inv, AfterCltd, last.op = "cltd", Width = LongWidth,
             NEW s \in Word \ {0}, Idiv(s)
      PROVE  /\ reg'["eax"] = Trunc(Quot(Signed(last.lo), Signed(s)))
             /\ Signed(reg'["edx"]) = Rem(Signed(last.lo), Signed(s))
  <2> DEFINE a == Signed(last.lo)
             b == Signed(s)
  <2>1. reg \in [Reg -> Word] /\ last.lo \in Word /\ s \in Word /\ s # 0
    BY <1>2 DEF Inv, TypeOK
  <2>2. /\ Half \in Nat \ {0} /\ M = 2 * Half
        /\ last.lo \in Int /\ 0 <= last.lo /\ last.lo < M
        /\ s \in Int /\ 0 < s /\ s < M
    BY <2>1, HalfAssumption DEF Word, M
  <2>3. Dividend = a
    <3>1. reg["eax"] = last.lo /\ reg["edx"] = IF Msb(last.lo) THEN M - 1 ELSE 0
      BY <1>2 DEF AfterCltd
    <3>2. CASE Msb(last.lo)
      <4>1. Msb(reg["edx"])
        BY <2>2, <3>1, <3>2 DEF Msb
      <4>2. Dividend = ((M - 1) * M + last.lo) - M * M
        BY <1>2, <3>1, <3>2, <4>1 DEF Dividend, Pair
      <4>3. (M - 1) * M = M * M - M /\ M * M \in Int
        BY <2>2
      <4> QED BY <2>2, <3>2, <4>2, <4>3 DEF Signed
    <3>3. CASE ~ Msb(last.lo)
      <4>1. ~ Msb(reg["edx"])
        BY <2>2, <3>1, <3>3 DEF Msb
      <4>2. Dividend = 0 * M + last.lo
        BY <3>1, <3>3, <4>1 DEF Dividend, Pair
      <4> QED BY <2>2, <3>3, <4>2 DEF Signed
    <3> QED BY <3>2, <3>3
  <2>4. a \in Int /\ b \in Int /\ b # 0 /\ - Half <= b /\ b < Half
    BY <2>2 DEF Signed, Msb
  <2> HIDE DEF a, b
  <2>5. /\ reg'["eax"] = Trunc(Quot(a, b)) /\ reg'["edx"] = Trunc(Rem(a, b))
    BY <1>2, <2>1, <2>3 DEF Idiv, SetPair, Reg, b
  <2>6. Rem(a, b) \in Int /\ - Half < Rem(a, b) /\ Rem(a, b) < Half
    <3>1. /\ Rem(a, b) \in Int
          /\ b > 0 => - b < Rem(a, b) /\ Rem(a, b) < b
          /\ b < 0 => b < Rem(a, b) /\ Rem(a, b) < - b
      BY <2>4, RemainderSmall
    <3> QED BY <2>2, <2>4, <3>1
  <2>7. Signed(Trunc(Rem(a, b))) = Rem(a, b)
    <3> DEFINE m == Rem(a, b)
    <3>1. m \in Int /\ - Half < m /\ m < Half
      BY <2>6
    <3> HIDE DEF m
    <3>2. CASE m >= 0
      <4>1. m \in 0 .. M - 1
        BY <2>2, <3>1, <3>2
      <4>2. Trunc(m) = m
        BY <3>1, <4>1, TruncOfWord
      <4> QED BY <2>2, <3>1, <4>2 DEF Signed, Msb, m
    <3>3. CASE m < 0
      <4>1. m \in (- M) .. -1
        BY <2>2, <3>1, <3>3
      <4>2. Trunc(m) = m + M
        BY <3>1, <4>1, TruncOfWord
      <4> QED BY <2>2, <3>1, <3>3, <4>2 DEF Signed, Msb, m
    <3> QED BY <3>1, <3>2, <3>3
  <2> QED BY <2>5, <2>7 DEF a, b
<1>3. Inv /\ AfterCltd /\ [Next]_vars =>
        [ last.op = "cltd" /\ Width = LongWidth
            => \A s \in Word \ {0} :
                 Idiv(s) => /\ reg'["eax"] = Trunc(Quot(Signed(last.lo), Signed(s)))
                            /\ Signed(reg'["edx"]) = Rem(Signed(last.lo), Signed(s)) ]_vars
  BY <1>2
<1> QED
  BY <1>1, <1>3, InvInit, InvNext, AfterCltdNext, PTL DEF Spec, SignedDivision
=============================================================================
