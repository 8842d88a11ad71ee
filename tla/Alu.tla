--------------------------------- MODULE Alu ---------------------------------
(***************************************************************************)
(* The arithmetic of NEMU's processor: the word and long forms of the      *)
(* instructions of nemu/src/cpu/exec/{arith,logic,data-mov} on a register  *)
(* pair, the flags of nemu/src/cpu/eflags.c, and the conditions of the     *)
(* jumps of nemu/src/cpu/exec/control.  Any instruction follows any other. *)
(* Words have Width bits and registers LongWidth; the upper bits of a      *)
(* register, which the word forms leave alone, are left out.               *)
(***************************************************************************)
EXTENDS Integers, FiniteSets

CONSTANTS Width,      \* 16 for the word forms, 32 for the long forms
          LongWidth,  \* 32
          Half        \* 2 ^ (Width - 1), the value of the top bit

ASSUME WidthAssumption ==
  /\ Width \in Nat \ {0} /\ LongWidth \in Nat
  /\ Width = LongWidth \/ Width + 1 < LongWidth

ASSUME HalfIsPower == Half = 2 ^ (Width - 1)

ASSUME HalfAssumption == Half \in Nat \ {0}

VARIABLES reg,     \* eax and edx
          flags,   \* cpu.eflags
          up,      \* FALSE after a division that kills NEMU
          last     \* history: the last instruction, its operand and the
                   \* registers before it, where a property refers to them

vars == <<reg, flags, up, last>>

Reg   == {"eax", "edx"}
M     == 2 * Half
Word  == 0 .. M - 1
Flags == [CF : BOOLEAN, OF : BOOLEAN, ZF : BOOLEAN, SF : BOOLEAN, PF : BOOLEAN]

Nothing == [op |-> "none", on |-> "eax", src |-> 0, lo |-> 0, hi |-> 0]

Init == /\ reg = [r \in Reg |-> 0]
        /\ flags = [CF |-> FALSE, OF |-> FALSE, ZF |-> FALSE, SF |-> FALSE,
                    PF |-> FALSE]
        /\ up = TRUE
        /\ last = Nothing

-----------------------------------------------------------------------------
(* Words.                                                                  *)

\* Conversion to DATA_TYPE.
Trunc(x)  == x % M
Msb(x)    == x >= Half
Signed(x) == IF Msb(x) THEN x - M ELSE x      \* conversion to DATA_TYPE_S

Bit(x, k) == (x \div 2 ^ k) % 2

\* w is the word whose bits are as the operator says.
HasBits(w, P(_)) == \A k \in 0 .. Width - 1 : (Bit(w, k) = 1) <=> P(k)

\* Division of C, which rounds towards zero.
Quot(a, b) == LET Abs(x) == IF x < 0 THEN - x ELSE x
                  q == Abs(a) \div Abs(b)
              IN  IF (a < 0) = (b < 0) THEN q ELSE - q

Rem(a, b) == a - b * Quot(a, b)

-----------------------------------------------------------------------------
(* Flags.                                                                  *)

\* parity_table as it is: the exclusive or of the even bits of the low byte.
PF(res) ==
  Cardinality({k \in 0 .. Width - 1 : k < 8 /\ k % 2 = 0 /\ Bit(res, k) = 1}) % 2 = 1

\* update_eflags_pf_zf_sf of a result extended with zeros to 32 bits.
UnsignedResult(f, res) ==
  [f EXCEPT !.PF = PF(res), !.ZF = (res = 0), !.SF = Msb(res) /\ Width = LongWidth]

\* update_eflags_pf_zf_sf of a result extended with its sign.
SignedResult(f, res) == [f EXCEPT !.PF = PF(res), !.ZF = (res = 0), !.SF = Msb(res)]

ArithFlags(res, carry, overflow) ==
  [SignedResult(flags, res) EXCEPT !.CF = carry, !.OF = overflow]


\* Buggy variant: the operands of an overflow have the same sign.
Bug_SameSign(d, s, res) == Msb(d) = Msb(s) /\ Msb(d) # Msb(res)

\* MSB((dest ^ src) & (dest ^ result)), of add, sub, cmp.
Overflow(d, s, res) == Msb(d) # Msb(s) /\ Msb(d) # Msb(res)

\* MSB(~(dest ^ src) & (dest ^ result)), of adc and sbb.
OverflowWithCarry(d, s, res) == Msb(d) = Msb(s) /\ Msb(d) # Msb(res)

CarryIn == IF flags.CF THEN 1 ELSE 0

-----------------------------------------------------------------------------
(* Instructions on two operands: register r and a value s, immediate or    *)
(* from any register or memory.                                            *)

Write(r, res) == reg' = [reg EXCEPT ![r] = res]

\* An instruction is executed while NEMU lives.  The history keeps it if a
\* property speaks of what it leaves.
Done == up /\ UNCHANGED up /\ last' = Nothing

Noted(op, r, s) ==
  /\ up /\ UNCHANGED up
  /\ last' = [op |-> op, on |-> r, src |-> s, lo |-> reg["eax"], hi |-> reg["edx"]]

Add(r, s) ==
  LET res == Trunc(reg[r] + s)
  IN  /\ Write(r, res)
      /\ flags' = ArithFlags(res, res > reg[r], Overflow(reg[r], s, res))
      /\ Noted("add", r, s)

Adc(r, s) ==
  LET res == Trunc(reg[r] + s + CarryIn)
  IN  /\ Write(r, res)
      /\ flags' = ArithFlags(res, res < reg[r], OverflowWithCarry(reg[r], s, res))
      /\ Done

\* CF of sub and cmp.
Borrow(d, res) == res > d

Difference(d, s) == Trunc(d - s)

Sub(r, s) ==
  LET res == Difference(reg[r], s)
  IN  /\ Write(r, res)
      /\ flags' = ArithFlags(res, Borrow(reg[r], res), Overflow(reg[r], s, res))
      /\ Noted("sub", r, s)

\* Buggy variant: the borrow of the low half is ignored.
Bug_NoBorrow(d, s) == Trunc(d - s)

DifferenceWithBorrow(d, s) == Trunc(d - (s + CarryIn))

Sbb(r, s) ==
  LET res == DifferenceWithBorrow(reg[r], s)
  IN  /\ Write(r, res)
      /\ flags' = ArithFlags(res, res < reg[r], OverflowWithCarry(reg[r], s, res))
      /\ Done

Cmp(r, s) ==
  LET res == Difference(reg[r], s)
  IN  /\ flags' = ArithFlags(res, Borrow(reg[r], res), Overflow(reg[r], s, res))
      /\ Noted("cmp", r, s)
      /\ UNCHANGED reg

\* and, or and xor.
Logic(op(_, _), r, s) ==
  \E res \in Word :
    /\ HasBits(res, LAMBDA k : op(Bit(reg[r], k) = 1, Bit(s, k) = 1))
    /\ Write(r, res)
    /\ flags' = ArithFlags(res, FALSE, FALSE)
    /\ Done

And(r, s) == Logic(LAMBDA p, q : p /\ q, r, s)
Or(r, s)  == Logic(LAMBDA p, q : p \/ q, r, s)
Xor(r, s) == Logic(LAMBDA p, q : p # q, r, s)

\* The parity it computes first is overwritten by update_eflags_pf_zf_sf.
Test(r, s) ==
  \E res \in Word :
    /\ HasBits(res, LAMBDA k : Bit(reg[r], k) = 1 /\ Bit(s, k) = 1)
    /\ flags' = ArithFlags(res, FALSE, FALSE)
    /\ Done
    /\ UNCHANGED reg

\* The shift count is masked with 0x1f.
Count(s) == s % LongWidth

Shl(r, s) ==
  \E res \in Word :
    /\ HasBits(res, LAMBDA k : k >= Count(s) /\ Bit(reg[r], k - Count(s)) = 1)
    /\ Write(r, res)
    /\ flags' = UnsignedResult(flags, res)
    /\ Done

Shr(r, s) ==
  \E res \in Word :
    /\ HasBits(res, LAMBDA k : Bit(reg[r], k + Count(s)) = 1)
    /\ Write(r, res)
    /\ flags' = UnsignedResult(flags, res)
    /\ Done

Sar(r, s) ==
  \E res \in Word :
    /\ HasBits(res, LAMBDA k : IF k + Count(s) < Width THEN Bit(reg[r], k + Count(s)) = 1
                                                      ELSE Msb(reg[r]))
    /\ Write(r, res)
    /\ flags' = SignedResult(flags, res)
    /\ Done

Binary(r, s) == \/ Add(r, s) \/ Adc(r, s) \/ Sub(r, s) \/ Sbb(r, s) \/ Cmp(r, s)
                \/ And(r, s) \/ Or(r, s) \/ Xor(r, s) \/ Test(r, s)
                \/ Shl(r, s) \/ Shr(r, s) \/ Sar(r, s)

-----------------------------------------------------------------------------
(* Instructions on one operand.                                            *)

\* OF by comparison with the 32-bit extremes, whatever the operand size.
Inc(r) ==
  LET res == Trunc(reg[r] + 1)
  IN  /\ Write(r, res)
      /\ flags' = [SignedResult(flags, res) EXCEPT !.OF = (res = 2 ^ (LongWidth - 1))]
      /\ Done

Dec(r) ==
  LET res == Trunc(reg[r] - 1)
  IN  /\ Write(r, res)
      /\ flags' = [SignedResult(flags, res) EXCEPT !.OF = (res = 2 ^ (LongWidth - 1) - 1)]
      /\ Done

Neg(r) == Write(r, Trunc(- reg[r])) /\ Done /\ UNCHANGED flags

Not(r) == Write(r, M - 1 - reg[r]) /\ Done /\ UNCHANGED flags

Unary(r) == Inc(r) \/ Dec(r) \/ Neg(r) \/ Not(r)

-----------------------------------------------------------------------------
(* Instructions on the pair edx:eax.                                       *)

Pair(hi, lo) == hi * M + lo

SetPair(hi, lo) == reg' = [reg EXCEPT !["eax"] = Trunc(lo), !["edx"] = Trunc(hi)]

\* Buggy variant: edx gets the low half too.
Bug_LowTwice(product) == product

HighHalf(product) == product \div M

Mul(s) ==
  LET product == reg["eax"] * s
  IN  /\ SetPair(HighHalf(product), product)
      /\ Noted("mul", "eax", s)
      /\ UNCHANGED flags

Imul(s) ==
  LET product == Signed(reg["eax"]) * Signed(s)
  IN  /\ SetPair(HighHalf(product), product)
      /\ Done
      /\ UNCHANGED flags

Div(s) ==
  LET a == Pair(reg["edx"], reg["eax"])
  IN  /\ SetPair(a % s, a \div s)
      /\ Done
      /\ UNCHANGED flags

\* A dividend of two longs fills the 64 bits and is signed; of two words it
\* is extended with zeros.
Dividend ==
  LET a == Pair(reg["edx"], reg["eax"])
  IN  IF Width = LongWidth /\ Msb(reg["edx"]) THEN a - M * M ELSE a

\* The quotient of the smallest dividend by -1 has no 64-bit representation.
QuotientFits(s) ==
  ~ (Width = LongWidth /\ Signed(s) = -1 /\ 2 * Dividend = - (M * M))

Idiv(s) ==
  /\ QuotientFits(s)
  /\ SetPair(Rem(Dividend, Signed(s)), Quot(Dividend, Signed(s)))
  /\ Done
  /\ UNCHANGED flags

\* edx becomes the sign of eax.
\* Buggy variant: it becomes zero.
Bug_ZeroExtend == 0

SignExtension == Trunc(- (IF Msb(reg["eax"]) THEN 1 ELSE 0))

Cltd == Write("edx", SignExtension) /\ Noted("cltd", "eax", 0) /\ UNCHANGED flags

Xchg == /\ SetPair(reg["eax"], reg["edx"])
        /\ Done
        /\ UNCHANGED flags

\* div or idiv divides in NEMU itself: by zero, or with a quotient that does
\* not fit in the host's 64 bits, it kills NEMU.
DivideFault ==
  /\ up /\ up' = FALSE
  /\ \E s \in Word : s = 0 \/ ~ QuotientFits(s)
  /\ UNCHANGED <<reg, flags, last>>

Next == \/ \E r \in Reg : Unary(r)
        \/ \E r \in Reg, s \in Word : Binary(r, s)
        \/ Cltd \/ Xchg
        \/ \E s \in Word : Mul(s) \/ Imul(s)
        \/ \E s \in Word \ {0} : Div(s) \/ Idiv(s)
        \/ DivideFault

Spec == Init /\ [][Next]_vars

-----------------------------------------------------------------------------
(* The conditional jumps: whether they add their displacement to eip.      *)

Je(f)  == f.ZF
Jne(f) == ~ f.ZF
Ja(f)  == ~ f.ZF /\ ~ f.CF
Jbe(f) == f.ZF /\ f.CF
Jg(f)  == ~ f.ZF /\ f.SF = f.OF
Jge(f) == f.SF = f.OF
Jl(f)  == f.SF # f.OF
Jle(f) == f.SF # f.OF \/ f.ZF
Js(f)  == f.SF
Jns(f) == ~ f.SF

-----------------------------------------------------------------------------
TypeOK == /\ reg \in [Reg -> Word]
          /\ flags \in Flags
          /\ up \in BOOLEAN
          /\ last \in [op : {"none", "add", "sub", "cmp", "mul", "cltd"}, on : Reg,
                       src : Word, lo : Word, hi : Word]

\* After cmp or sub of two words, signed or unsigned, every conditional jump
\* but jbe decides as its name says (cmp-template.h:7-9 with control/j*.h).
Decides(f, d, s) ==
  /\ Je(f) <=> d = s
  /\ Jne(f) <=> d # s
  /\ Ja(f) <=> d > s
  /\ Jg(f) <=> Signed(d) > Signed(s)
  /\ Jge(f) <=> Signed(d) >= Signed(s)
  /\ Jl(f) <=> Signed(d) < Signed(s)
  /\ Jle(f) <=> Signed(d) <= Signed(s)

CompareDecides ==
  last.op \in {"cmp", "sub"}
    => Decides(flags, IF last.on = "eax" THEN last.lo ELSE last.hi, last.src)

\* sub of the low words and then sbb of the high words is the subtraction of
\* double words (testcase/src/sub-longlong.c).
WideSubtracts ==
  [][ last.op = "sub" /\ last.on = "eax"
        => \A s \in Word :
             Sbb("edx", s)
               => Pair(reg'["edx"], reg'["eax"])
                    = (Pair(last.hi, last.lo) - Pair(s, last.src)) % (M * M) ]_vars

\* mul and then div by the same number gives the first operand back: mul
\* keeps the whole product, and div takes the whole dividend.
MulThenDiv ==
  [][ last.op = "mul" /\ last.src # 0 /\ Div(last.src)
        => reg'["eax"] = last.lo /\ reg'["edx"] = 0 ]_vars

\* cltd and then idiv is the signed division of C (its quotient as a word).
\* The long forms only: idiv of words does not extend its dividend's sign.
SignedDivision ==
  [][ last.op = "cltd" /\ Width = LongWidth
        => \A s \in Word \ {0} :
             Idiv(s) => /\ reg'["eax"] = Trunc(Quot(Signed(last.lo), Signed(s)))
                        /\ Signed(reg'["edx"]) = Rem(Signed(last.lo), Signed(s)) ]_vars
=============================================================================
