----------------------------- MODULE DramProofs -----------------------------
(***************************************************************************)
(* Proofs about Dram.tla, for every geometry that DramAssumption allows.   *)
(***************************************************************************)
EXTENDS Dram, TLAPS

-----------------------------------------------------------------------------
(* The address arithmetic of the union dram_addr.                          *)

\* Division with remainder, as the bit fields use it.
LEMMA DivMod ==
  ASSUME NEW a \in Nat, NEW b \in Nat \ {0}
  PROVE  /\ a \div b \in Nat
         /\ a % b \in 0 .. b - 1
         /\ a = b * (a \div b) + (a % b)
  OBVIOUS

\* Quotient and remainder are unique.
LEMMA DivModUnique ==
  ASSUME NEW q \in Nat, NEW b \in Nat \ {0}, NEW r \in 0 .. b - 1
  PROVE  (b * q + r) \div b = q /\ (b * q + r) % b = r
  OBVIOUS

\* Dividing by a product is dividing twice.
LEMMA DivDiv ==
  ASSUME NEW a \in Nat, NEW c \in Nat \ {0}, NEW r \in Nat \ {0}
  PROVE  a \div (c * r) = (a \div c) \div r
<1> DEFINE q == a \div c
           x == a % c
           u == q \div r
           v == q % r
<1>1. q \in Nat /\ x \in 0 .. c - 1 /\ a = c * q + x
  BY DivMod
<1>2. u \in Nat /\ v \in 0 .. r - 1 /\ q = r * u + v
  BY <1>1, DivMod
<1> HIDE DEF q, x, u, v
<1>3. c * v \in Nat /\ c * v + x \in 0 .. (c * r) - 1
  <2>1. c * (v + 1) <= c * r
    BY <1>2
  <2>2. c * (v + 1) = c * v + c /\ c * v \in Nat /\ c * r \in Nat
    BY <1>2
  <2> QED BY <2>1, <2>2, <1>1
<1>4. a = (c * r) * u + (c * v + x)
  <2>1. c * (r * u + v) = (c * r) * u + c * v
    BY <1>2
  <2>2. (c * r) * u \in Nat
    BY <1>2
  <2> QED BY <2>1, <2>2, <1>1, <1>2, <1>3
<1>5. c * r \in Nat \ {0}
  OBVIOUS
<1>6. a \div (c * r) = u
  BY <1>2, <1>3, <1>4, <1>5, DivModUnique
<1> QED
  BY <1>6 DEF u, q

\* The fields of an address index the arrays of the code without overrun.
LEMMA FieldTypes ==
  ASSUME NEW a \in Nat
  PROVE  BankOf(a) \in Bank /\ RowOf(a) \in Row /\ ColOf(a) \in Col
<1>1. NrCol * NrRow \in Nat \ {0}
  BY DramAssumption
<1>2. a \div (NrCol * NrRow) \in Nat /\ a \div NrCol \in Nat
  BY <1>1, DivMod, DramAssumption
<1> QED
  BY <1>2, DivMod, DramAssumption DEF BankOf, RowOf, ColOf, Bank, Row, Col

\* addr & ~BURST_MASK is the start of the burst that holds addr.
LEMMA AlignType ==
  ASSUME NEW a \in Nat
  PROVE  /\ Align(a) \in Nat
         /\ a = Align(a) + (a % BurstLen)
         /\ a % BurstLen \in 0 .. BurstLen - 1
         /\ Align(a) = BurstLen * (a \div BurstLen)
<1>1. /\ a \div BurstLen \in Nat /\ a % BurstLen \in 0 .. BurstLen - 1
      /\ a = BurstLen * (a \div BurstLen) + (a % BurstLen)
  BY DivMod, DramAssumption
<1>2. BurstLen * (a \div BurstLen) \in Nat
  BY <1>1, DramAssumption
<1> QED
  BY <1>1, <1>2, DramAssumption DEF Align

\* A burst lies inside one row: the j-th byte of the burst that holds a has
\* the row and the bank of its first byte, and the next column but j.
LEMMA BurstInRow ==
  ASSUME NEW a \in Nat, NEW j \in 0 .. BurstLen - 1
  PROVE  /\ Align(a) + j \in Nat
         /\ ColOf(Align(a)) + j \in Col
         /\ ColOf(Align(a) + j) = ColOf(Align(a)) + j
         /\ RowOf(Align(a) + j) = RowOf(Align(a))
         /\ BankOf(Align(a) + j) = BankOf(Align(a))
<1> DEFINE B == BurstLen
           s == Align(a)
           k == a \div B
           n == NrCol \div B
<1>1. B \in Nat \ {0} /\ NrCol \in Nat \ {0} /\ NrRow \in Nat \ {0}
  BY DramAssumption
<1>2. s \in Nat /\ s = B * k /\ k \in Nat
  BY AlignType, DivMod, <1>1
<1>3. n \in Nat \ {0} /\ NrCol = B * n
  <2>1. n \in Nat /\ NrCol = B * n + (NrCol % B) /\ NrCol % B = 0
    BY DivMod, <1>1, DramAssumption
  <2> QED BY <2>1, <1>1
<1> HIDE DEF s, k, n, B
\* s = NrCol * q + B * p with p < n, so the column of s is B * p.
<1> DEFINE q == k \div n
           p == k % n
<1>4. q \in Nat /\ p \in 0 .. n - 1 /\ k = n * q + p
  BY <1>2, <1>3, DivMod
<1> HIDE DEF q, p
<1>5. B * p \in Nat /\ B * p + B <= NrCol
  <2>1. B * (p + 1) <= B * n
    BY <1>1, <1>3, <1>4
  <2>2. B * (p + 1) = B * p + B /\ B * p \in Nat
    BY <1>1, <1>4
  <2> QED BY <2>1, <2>2, <1>3, <1>1
<1>6. s = NrCol * q + B * p
  <2>1. B * (n * q + p) = (B * n) * q + B * p
    BY <1>1, <1>3, <1>4
  <2> QED BY <2>1, <1>2, <1>3, <1>4
<1>7. \A i \in 0 .. B - 1 : /\ B * p + i \in 0 .. NrCol - 1
                            /\ (s + i) % NrCol = B * p + i
                            /\ (s + i) \div NrCol = q
  <2> SUFFICES ASSUME NEW i \in 0 .. B - 1
               PROVE  /\ B * p + i \in 0 .. NrCol - 1
                      /\ (s + i) % NrCol = B * p + i
                      /\ (s + i) \div NrCol = q
    OBVIOUS
  <2>1. B * p + i \in 0 .. NrCol - 1
    BY <1>1, <1>5
  <2>2. s + i = NrCol * q + (B * p + i)
    <3>1. NrCol * q \in Nat
      BY <1>1, <1>4
    <3> QED BY <1>1, <1>5, <1>6, <3>1
  <2> QED BY <2>1, <2>2, DivModUnique, <1>1, <1>4
\* The bank is a function of the row number q.
<1>8. \A i \in 0 .. B - 1 : (s + i) \div (NrCol * NrRow) = q \div NrRow
  <2> SUFFICES ASSUME NEW i \in 0 .. B - 1
               PROVE  (s + i) \div (NrCol * NrRow) = q \div NrRow
    OBVIOUS
  <2>1. s + i \in Nat
    BY <1>1, <1>2
  <2> QED BY <2>1, <1>1, <1>7, DivDiv
<1>9. j \in 0 .. B - 1 /\ 0 \in 0 .. B - 1 /\ s + 0 = s
  BY <1>1, <1>2 DEF B
<1>10. B * p + 0 = B * p
  BY <1>5
<1> QED
  <2>1. s + j \in Nat
    BY <1>2, <1>9, <1>1
  <2> QED BY <1>7, <1>8, <1>9, <1>10, <2>1 DEF ColOf, RowOf, BankOf, s, Col

\* Two addresses of the memory with the same fields are the same address.
LEMMA FieldsInjective ==
  ASSUME NEW a \in 0 .. HwMemSize - 1, NEW b \in 0 .. HwMemSize - 1,
         BankOf(a) = BankOf(b), RowOf(a) = RowOf(b), ColOf(a) = ColOf(b)
  PROVE  a = b
<1>1. /\ NrCol \in Nat \ {0} /\ NrRow \in Nat \ {0} /\ NrBank \in Nat \ {0}
      /\ a \in Nat /\ b \in Nat
      /\ HwMemSize \in Nat
  BY DramAssumption DEF HwMemSize
<1>2. \A x \in 0 .. HwMemSize - 1 :
        /\ x \div NrCol \in Nat
        /\ (x \div NrCol) \div NrRow \in Nat
        /\ BankOf(x) = (x \div NrCol) \div NrRow
  <2> SUFFICES ASSUME NEW x \in 0 .. HwMemSize - 1
               PROVE  /\ x \div NrCol \in Nat
                      /\ (x \div NrCol) \div NrRow \in Nat
                      /\ BankOf(x) = (x \div NrCol) \div NrRow
    OBVIOUS
  <2> DEFINE z == x \div (NrCol * NrRow)
  <2>1. x \in Nat /\ x < NrBank * NrRow * NrCol
    BY <1>1 DEF HwMemSize
  <2>2. x \div NrCol \in Nat
    BY <2>1, <1>1, DivMod
  <2>3. (x \div NrCol) \div NrRow \in Nat
    BY <2>2, <1>1, DivMod
  <2>4. z = (x \div NrCol) \div NrRow
    BY <2>1, <1>1, DivDiv
  <2>5. NrCol * NrRow \in Nat \ {0}
    BY <1>1
  <2>6. z \in Nat /\ x % (NrCol * NrRow) \in Nat
        /\ x = (NrCol * NrRow) * z + (x % (NrCol * NrRow))
    <3> DEFINE g == NrCol * NrRow
    <3>1. g \in Nat \ {0}
      BY <2>5
    <3> HIDE DEF g
    <3>2. x \div g \in Nat /\ x % g \in 0 .. g - 1
          /\ x = g * (x \div g) + (x % g)
      BY <2>1, <3>1, DivMod
    <3>3. x % g \in Nat
      BY <3>1, <3>2
    <3> QED BY <3>2, <3>3 DEF g
  <2>7. z < NrBank
    <3> SUFFICES ASSUME z >= NrBank PROVE FALSE
      BY <2>6, <1>1
    <3>1. (NrCol * NrRow) * z >= (NrCol * NrRow) * NrBank
      BY <2>5, <2>6, <1>1
    <3>2. (NrCol * NrRow) * NrBank = NrBank * NrRow * NrCol
      BY <1>1
    <3>3. (NrCol * NrRow) * z \in Nat /\ NrBank * NrRow * NrCol \in Nat
      BY <1>1, <2>6
    <3> HIDE DEF z
    <3> QED BY <2>1, <2>6, <3>1, <3>2, <3>3
  <2>8. z % NrBank = z
    <3> HIDE DEF z
    <3>1. z \in 0 .. NrBank - 1 /\ NrBank * 0 + z = z
      BY <2>6, <2>7, <1>1
    <3> QED BY <3>1, <1>1, DivModUnique
  <2> QED BY <2>2, <2>3, <2>4, <2>8 DEF BankOf
<1>3. a \div NrCol = b \div NrCol
  <2>1. \A y \in Nat : y = NrRow * (y \div NrRow) + (y % NrRow)
    BY <1>1, DivMod
  <2>2. (a \div NrCol) \div NrRow = (b \div NrCol) \div NrRow
    BY <1>2
  <2>3. (a \div NrCol) % NrRow = (b \div NrCol) % NrRow
    BY DEF RowOf
  <2> QED BY <2>1, <2>2, <2>3, <1>2
<1>4. \A y \in Nat : y = NrCol * (y \div NrCol) + (y % NrCol)
  BY <1>1, DivMod
<1> QED
  BY <1>1, <1>3, <1>4 DEF ColOf

-----------------------------------------------------------------------------
(* The inductive invariant: types, and coherent row buffers.               *)

IInv == TypeOK /\ RowBufCoherent

\* The same, for a memory in the middle of an access.
Sound(m) == /\ m \in [d : [Bank -> [Row -> [Col -> Byte]]], r : [Bank -> RB]]
            /\ \A b \in Bank : m.r[b].valid
                                 => m.r[b].buf = m.d[b][m.r[b].row_idx]

\* Opening a row yields a valid buffer that holds the addressed row.
LEMMA OpenedHolds ==
  ASSUME NEW m, Sound(m), NEW a \in Nat
  PROVE  /\ Opened(m, a) \in RB
         /\ Opened(m, a).valid
         /\ Opened(m, a).row_idx = RowOf(Align(a))
         /\ Opened(m, a).buf = m.d[BankOf(Align(a))][RowOf(Align(a))]
<1>1. Align(a) \in Nat
  BY AlignType
<1>2. BankOf(Align(a)) \in Bank /\ RowOf(Align(a)) \in Row
  BY <1>1, FieldTypes
<1> QED
  BY <1>2 DEF Opened, Hit, Sound, RB

\* A burst read keeps the memory sound and its array unchanged.
LEMMA ReadSound ==
  ASSUME NEW m, Sound(m), NEW a \in Nat
  PROVE  Sound(AfterRead(m, a)) /\ AfterRead(m, a).d = m.d
<1>1. Align(a) \in Nat
  BY AlignType
<1>2. BankOf(Align(a)) \in Bank /\ RowOf(Align(a)) \in Row
  BY <1>1, FieldTypes
<1> DEFINE b == BankOf(Align(a))
           o == Opened(m, a)
<1>3. o \in RB /\ o.valid /\ o.buf = m.d[b][o.row_idx]
  BY OpenedHolds
<1> HIDE DEF o, b
<1>4. AfterRead(m, a) = [d |-> m.d, r |-> [m.r EXCEPT ![b] = o]]
  BY DEF AfterRead, o, b
<1> QED
  BY <1>2, <1>3, <1>4 DEF Sound, b

\* So does a burst write whose masked bytes are bytes.
LEMMA WriteSound ==
  ASSUME NEW m, Sound(m), NEW a \in Nat, NEW data, NEW mask,
         \A j \in 0 .. BurstLen - 1 : mask[j] => data[j] \in Byte
  PROVE  Sound(AfterWrite(m, a, data, mask))
<1> DEFINE b   == BankOf(Align(a))
           w   == RowOf(Align(a))
           o   == Opened(m, a)
           buf == Masked(o.buf, ColOf(Align(a)), data, mask)
<1>1. Align(a) \in Nat
  BY AlignType
<1>2. b \in Bank /\ w \in Row /\ ColOf(Align(a)) \in Nat
  BY <1>1, FieldTypes, DramAssumption DEF Col
<1>3. o \in RB /\ o.valid /\ o.row_idx = w
  BY OpenedHolds
<1>4. buf \in [Col -> Byte]
  <2> SUFFICES ASSUME NEW c \in Col,
                      c \in ColOf(Align(a)) .. ColOf(Align(a)) + BurstLen - 1,
                      mask[c - ColOf(Align(a))]
               PROVE  data[c - ColOf(Align(a))] \in Byte
    BY <1>3 DEF Masked, RB
  <2>1. c - ColOf(Align(a)) \in 0 .. BurstLen - 1
    BY <1>2, DramAssumption DEF Col
  <2> QED BY <2>1
<1> HIDE DEF buf, o, b, w
<1>5. AfterWrite(m, a, data, mask)
        = [d |-> [m.d EXCEPT ![b][w] = buf],
           r |-> [m.r EXCEPT ![b] = [buf |-> buf, row_idx |-> w,
                                     valid |-> TRUE]]]
  BY <1>3 DEF AfterWrite, b, w, o, buf, RB
<1> QED
  BY <1>2, <1>3, <1>4, <1>5 DEF Sound, RB

\* The bytes dram_write marks in mask are bytes of the data.
LEMMA TempBytes ==
  ASSUME NEW a \in Nat, NEW len \in Lens, NEW data \in [0 .. len - 1 -> Byte]
  PROVE  LET t == WriteTemp(a, len, data)
             k == WriteMask(a, len)
         IN  \A j \in 0 .. BurstLen - 1 :
               /\ k[j] => t[j] \in Byte
               /\ Upper(k)[j] => Upper(t)[j] \in Byte
<1>1. BurstLen \in Nat \ {0} /\ len \in 1 .. BurstLen
  BY DramAssumption
<1>2. a % BurstLen \in 0 .. BurstLen - 1
  BY <1>1, DivMod
<1>3. \A j \in 0 .. 2 * BurstLen - 1 :
        WriteMask(a, len)[j] => WriteTemp(a, len, data)[j] \in Byte
  <2> SUFFICES ASSUME NEW j \in 0 .. 2 * BurstLen - 1, WriteMask(a, len)[j]
               PROVE  WriteTemp(a, len, data)[j] \in Byte
    OBVIOUS
  <2> DEFINE off == a % BurstLen
  <2>1. off \in Nat
    BY <1>1, <1>2
  <2>2. j \in off .. off + len - 1
    BY DEF WriteMask
  <2>3. WriteTemp(a, len, data)[j] = data[j - off]
    BY <2>2 DEF WriteTemp
  <2> HIDE DEF off
  <2>4. j - off \in 0 .. len - 1
    BY <2>1, <2>2, <1>1
  <2> QED BY <2>3, <2>4
<1>4. \A j \in 0 .. BurstLen - 1 : /\ j \in 0 .. 2 * BurstLen - 1
                                   /\ j + BurstLen \in 0 .. 2 * BurstLen - 1
  BY <1>1
<1> QED
  BY <1>3, <1>4 DEF Upper

LEMMA InitIInv == Init => IInv
<1> SUFFICES ASSUME Init PROVE IInv
  OBVIOUS
<1>1. TypeOK
  BY DEF Init, TypeOK
<1>2. RowBufCoherent
  BY DEF Init, RowBufCoherent
<1> QED
  BY <1>1, <1>2 DEF IInv

LEMMA IInvSound == IInv <=> Sound(Memory) /\ up \in BOOLEAN
BY DEF IInv, TypeOK, RowBufCoherent, Sound, Memory

\* Each step leaves a sound memory behind.
LEMMA NextIInv == IInv /\ [Next]_vars => IInv'
<1> SUFFICES ASSUME IInv, [Next]_vars PROVE IInv'
  OBVIOUS
<1>1. Sound(Memory) /\ up \in BOOLEAN
  BY IInvSound
<1>2. ASSUME NEW m, Sound(m), SetMemory(m), up' \in BOOLEAN
      PROVE  IInv'
  BY <1>2 DEF IInv, TypeOK, RowBufCoherent, Sound, SetMemory
<1>3. CASE UNCHANGED vars
  BY <1>3 DEF vars, IInv, TypeOK, RowBufCoherent
<1>4. ASSUME NEW a \in Access, NEW len \in Lens,
             \/ Load(a, len)
             \/ LoadFault(a, len)
             \/ \E data \in [0 .. len - 1 -> Byte] :
                  Store(a, len, data) \/ StoreFault(a, len, data)
      PROVE  IInv'
  <2>1. a \in Nat /\ a + BurstLen \in Nat
    BY DramAssumption
  <2>2. Sound(AfterRead(Memory, a))
    BY <1>1, <2>1, ReadSound
  <2>3. Sound(AfterRead(AfterRead(Memory, a), a + BurstLen))
    BY <2>1, <2>2, ReadSound
  <2>4. CASE Load(a, len)
    BY <1>1, <1>2, <2>2, <2>3, <2>4 DEF Load
  <2>5. CASE LoadFault(a, len)
    BY <1>1, <1>2, <2>2, <2>5 DEF LoadFault
  <2>6. ASSUME NEW data \in [0 .. len - 1 -> Byte],
               Store(a, len, data) \/ StoreFault(a, len, data)
        PROVE  IInv'
    <3> DEFINE t   == WriteTemp(a, len, data)
               k   == WriteMask(a, len)
               one == AfterWrite(Memory, a, t, k)
    <3>1. /\ \A j \in 0 .. BurstLen - 1 : k[j] => t[j] \in Byte
          /\ \A j \in 0 .. BurstLen - 1 : Upper(k)[j] => Upper(t)[j] \in Byte
      BY <2>1, TempBytes
    <3> HIDE DEF t, k
    <3>2. Sound(one)
      BY <1>1, <2>1, <3>1, WriteSound
    <3> HIDE DEF one
    <3>3. Sound(AfterWrite(one, a + BurstLen, Upper(t), Upper(k)))
      BY <2>1, <3>1, <3>2, WriteSound
    <3>4. CASE Store(a, len, data)
      BY <1>1, <1>2, <3>2, <3>3, <3>4 DEF Store, t, k, one
    <3>5. CASE StoreFault(a, len, data)
      BY <1>1, <1>2, <3>2, <3>5 DEF StoreFault, t, k, one
    <3> QED BY <2>6, <3>4, <3>5
  <2> QED BY <1>4, <2>4, <2>5, <2>6
<1> QED
  BY <1>3, <1>4 DEF Next

-----------------------------------------------------------------------------
(* Refinement: what the bursts do to the flat memory.                      *)

\* The bytes of a memory m at the addresses of the CPU.
FlatOf(m) ==
  [x \in 0 .. HwMemSize - 1 |-> m.d[BankOf(x)][RowOf(x)][ColOf(x)]]

\* The memory holds whole bursts.
LEMMA BurstInMemory ==
  ASSUME NEW a \in Nat
  PROVE  /\ HwMemSize \in Nat
         /\ a < HwMemSize  => Align(a) + BurstLen <= HwMemSize
         /\ a >= HwMemSize => Align(a) >= HwMemSize
         /\ Align(a + BurstLen) = Align(a) + BurstLen
         /\ (a + BurstLen) % BurstLen = a % BurstLen
<1> DEFINE B == BurstLen
           n == NrCol \div B
           k == a \div B
           r == a % B
           h == NrBank * NrRow * n
<1>1. /\ B \in Nat \ {0} /\ NrCol \in Nat \ {0}
      /\ NrRow \in Nat \ {0} /\ NrBank \in Nat \ {0}
  BY DramAssumption
<1>2. n \in Nat /\ NrCol = B * n
  BY <1>1, DivMod, DramAssumption
<1>3. k \in Nat /\ r \in 0 .. B - 1 /\ a = B * k + r /\ Align(a) = B * k
  BY <1>1, AlignType, DivMod
<1> HIDE DEF n, k, r, B
<1>4. h \in Nat /\ HwMemSize = B * h
  BY <1>1, <1>2 DEF HwMemSize
<1> HIDE DEF h
<1>5. ASSUME a < HwMemSize PROVE Align(a) + B <= HwMemSize
  <2>1. k < h
    <3> SUFFICES ASSUME k >= h PROVE FALSE
      BY <1>3, <1>4
    <3>1. B * k >= B * h
      BY <1>1, <1>3, <1>4
    <3>2. B * k \in Nat /\ B * h \in Nat
      BY <1>1, <1>3, <1>4
    <3> QED BY <3>1, <3>2, <1>3, <1>4, <1>5, <1>1
  <2>2. B * (k + 1) <= B * h
    BY <2>1, <1>1, <1>3, <1>4
  <2>3. B * (k + 1) = B * k + B
    BY <1>1, <1>3
  <2> QED BY <2>2, <2>3, <1>3, <1>4
<1>6. ASSUME a >= HwMemSize PROVE Align(a) >= HwMemSize
  <2>1. k >= h
    <3> SUFFICES ASSUME k + 1 <= h PROVE FALSE
      BY <1>3, <1>4
    <3>1. B * (k + 1) <= B * h
      BY <1>1, <1>3, <1>4
    <3>2. B * (k + 1) = B * k + B /\ B * k \in Nat /\ B * h \in Nat
      BY <1>1, <1>3, <1>4
    <3> QED BY <3>1, <3>2, <1>3, <1>4, <1>6, <1>1
  <2>2. B * k >= B * h
    BY <2>1, <1>1, <1>3, <1>4
  <2> QED BY <2>2, <1>3, <1>4
<1>7. (a + B) % B = r /\ Align(a + B) = Align(a) + B
  <2>1. B * (k + 1) + r = a + B /\ k + 1 \in Nat
    <3>1. B * (k + 1) = B * k + B /\ B * k \in Nat
      BY <1>1, <1>3
    <3> QED BY <3>1, <1>1, <1>3
  <2>2. (a + B) % B = r
    <3>1. (B * (k + 1) + r) % B = r
      BY <2>1, <1>1, <1>3, DivModUnique
    <3> QED BY <2>1, <3>1
  <2>3. Align(a) = a - r /\ Align(a + B) = (a + B) - ((a + B) % B)
    BY DEF Align, r, B
  <2>4. (a + B) - r = (a - r) + B
    BY <1>1, <1>3
  <2> QED BY <2>2, <2>3, <2>4
<1>8. HwMemSize \in Nat
  BY <1>1 DEF HwMemSize
<1> QED
  BY <1>5, <1>6, <1>7, <1>8 DEF B, r

\* A burst read returns the bytes of the flat memory.
LEMMA ReadFlat ==
  ASSUME NEW m, Sound(m), NEW a \in Nat, a < HwMemSize,
         NEW j \in 0 .. BurstLen - 1
  PROVE  /\ Align(a) + j \in 0 .. HwMemSize - 1
         /\ BurstRead(m, a)[j] = FlatOf(m)[Align(a) + j]
<1>1. Align(a) \in Nat /\ Align(a) + BurstLen <= HwMemSize /\ HwMemSize \in Nat
  BY AlignType, BurstInMemory
<1>2. Align(a) + j \in 0 .. HwMemSize - 1
  BY <1>1, DramAssumption
<1>3. Opened(m, a).buf = m.d[BankOf(Align(a))][RowOf(Align(a))]
  BY OpenedHolds
<1> QED
  BY <1>2, <1>3, BurstInRow DEF BurstRead, FlatOf

\* A burst write changes the masked bytes of its burst and no others.
LEMMA WriteFlat ==
  ASSUME NEW m, Sound(m), NEW a \in Nat, a < HwMemSize, NEW data, NEW mask
  PROVE  FlatOf(AfterWrite(m, a, data, mask))
           = [x \in 0 .. HwMemSize - 1 |->
                IF /\ x \in Align(a) .. Align(a) + BurstLen - 1
                   /\ mask[x - Align(a)]
                THEN data[x - Align(a)]
                ELSE FlatOf(m)[x]]
<1> DEFINE s   == Align(a)
           b   == BankOf(s)
           w   == RowOf(s)
           col == ColOf(s)
           buf == Masked(Opened(m, a).buf, col, data, mask)
           new == [m.d EXCEPT ![b][w] = buf]
<1> SUFFICES ASSUME NEW x \in 0 .. HwMemSize - 1
             PROVE  new[BankOf(x)][RowOf(x)][ColOf(x)]
                      = IF x \in s .. s + BurstLen - 1 /\ mask[x - s]
                        THEN data[x - s]
                        ELSE m.d[BankOf(x)][RowOf(x)][ColOf(x)]
  BY DEF FlatOf, AfterWrite
<1>1. /\ s \in Nat /\ s + BurstLen <= HwMemSize
      /\ HwMemSize \in Nat /\ BurstLen \in Nat \ {0} /\ x \in Nat
  BY AlignType, BurstInMemory, DramAssumption
<1>2. /\ b \in Bank /\ w \in Row /\ col \in Col
      /\ BankOf(x) \in Bank /\ RowOf(x) \in Row /\ ColOf(x) \in Col
  BY <1>1, FieldTypes
<1>3. m.d \in [Bank -> [Row -> [Col -> Byte]]] /\ Opened(m, a).buf = m.d[b][w]
  BY OpenedHolds DEF Sound
<1>4. \A j \in 0 .. BurstLen - 1 :
        /\ s + j \in 0 .. HwMemSize - 1
        /\ ColOf(s + j) = col + j /\ RowOf(s + j) = w /\ BankOf(s + j) = b
  BY <1>1, BurstInRow
<1> HIDE DEF s, b, w, col, buf, new
<1>5. CASE BankOf(x) = b /\ RowOf(x) = w
  <2>1. new[BankOf(x)][RowOf(x)] = buf
    BY <1>2, <1>3, <1>5 DEF new
  <2>2. buf[ColOf(x)] = IF /\ ColOf(x) \in col .. col + BurstLen - 1
                           /\ mask[ColOf(x) - col]
                        THEN data[ColOf(x) - col]
                        ELSE m.d[b][w][ColOf(x)]
    BY <1>2, <1>3 DEF buf, Masked
  <2>3. col \in Nat /\ ColOf(x) \in Nat
    BY <1>2, DramAssumption DEF Col
  <2>4. CASE ColOf(x) \in col .. col + BurstLen - 1
    <3>1. PICK j \in 0 .. BurstLen - 1 : ColOf(x) = col + j
      <4>1. ColOf(x) - col \in 0 .. BurstLen - 1
            /\ ColOf(x) = col + (ColOf(x) - col)
        BY <2>3, <2>4, <1>1
      <4> QED BY <4>1
    <3>2. x = s + j
      BY <3>1, <1>4, <1>5, FieldsInjective
    <3>3. x - s = j /\ ColOf(x) - col = j /\ x \in s .. s + BurstLen - 1
      BY <3>1, <3>2, <1>1, <2>3
    <3> QED BY <2>1, <2>2, <2>4, <3>3, <1>5
  <2>5. CASE ColOf(x) \notin col .. col + BurstLen - 1
    <3>1. x \notin s .. s + BurstLen - 1
      <4> SUFFICES ASSUME x \in s .. s + BurstLen - 1 PROVE FALSE
        OBVIOUS
      <4>1. x - s \in 0 .. BurstLen - 1 /\ x = s + (x - s)
        BY <1>1
      <4>2. ColOf(x) = col + (x - s)
        BY <4>1, <1>4
      <4> QED BY <4>1, <4>2, <2>3, <2>5, <1>1
    <3> QED BY <2>1, <2>2, <2>5, <3>1, <1>5
  <2> QED BY <2>4, <2>5
<1>6. CASE ~ (BankOf(x) = b /\ RowOf(x) = w)
  <2>1. x \notin s .. s + BurstLen - 1
    <3> SUFFICES ASSUME x \in s .. s + BurstLen - 1 PROVE FALSE
      OBVIOUS
    <3>1. x - s \in 0 .. BurstLen - 1 /\ x = s + (x - s)
      BY <1>1
    <3> QED BY <3>1, <1>4, <1>6
  <2>2. new[BankOf(x)][RowOf(x)] = m.d[BankOf(x)][RowOf(x)]
    BY <1>2, <1>3, <1>6 DEF new
  <2> QED BY <2>1, <2>2
<1> QED
  BY <1>5, <1>6

\* Where an access of len bytes at a lies: its i-th byte is in the burst of a,
\* or in the next one, which is used only when the access crosses into it.
LEMMA AccessSpan ==
  ASSUME NEW a \in Nat, NEW len \in Lens
  PROVE  LET off == a % BurstLen IN
         /\ off \in 0 .. BurstLen - 1 /\ a = Align(a) + off
         /\ Align(a) \in Nat /\ len \in 1 .. BurstLen
         /\ (a + len <= HwMemSize)
              <=> /\ InMemory(a)
                  /\ Crosses(a, len) => InMemory(a + BurstLen)
<1> DEFINE off == a % BurstLen
           s   == Align(a)
<1>1. BurstLen \in Nat \ {0} /\ len \in 1 .. BurstLen /\ HwMemSize \in Nat
  BY DramAssumption, BurstInMemory
<1>2. off \in 0 .. BurstLen - 1 /\ a = s + off /\ s \in Nat
  BY AlignType
<1>3. /\ a < HwMemSize  => s + BurstLen <= HwMemSize
      /\ a >= HwMemSize => s >= HwMemSize
      /\ a + BurstLen < HwMemSize  => (s + BurstLen) + BurstLen <= HwMemSize
      /\ a + BurstLen >= HwMemSize => s + BurstLen >= HwMemSize
  <2>1. a + BurstLen \in Nat
    BY <1>1
  <2>2. Align(a + BurstLen) = s + BurstLen
    BY BurstInMemory
  <2> QED BY <2>1, <2>2, BurstInMemory
<1> HIDE DEF off, s
<1>4. (a + len <= HwMemSize)
        <=> /\ a < HwMemSize
            /\ off + len > BurstLen => a + BurstLen < HwMemSize
  BY <1>1, <1>2, <1>3
<1> QED
  BY <1>1, <1>2, <1>4 DEF InMemory, Crosses, off, s

LEMMA InitFlat == Init => FM!Init
<1> SUFFICES ASSUME Init PROVE FM!Init
  OBVIOUS
<1>1. dram \in [Bank -> [Row -> [Col -> Byte]]]
  BY DEF Init
<1>2. \A x \in 0 .. HwMemSize - 1 :
        BankOf(x) \in Bank /\ RowOf(x) \in Row /\ ColOf(x) \in Col
  <2>1. HwMemSize \in Nat
    BY BurstInMemory
  <2> QED BY <2>1, FieldTypes
<1>3. Flat \in [0 .. HwMemSize - 1 -> Byte]
  BY <1>1, <1>2 DEF Flat
<1> QED
  BY <1>3 DEF FM!Init, FM!Addr, Init

\* A load of Dram is a load of the flat memory.
LEMMA LoadFlat ==
  ASSUME IInv, NEW a \in Access, NEW len \in Lens, Load(a, len)
  PROVE  FM!Load(a, len)
<1> DEFINE off == a % BurstLen
           one == AfterRead(Memory, a)
<1>1. a \in Nat /\ a + BurstLen \in Nat /\ BurstLen \in Nat \ {0}
  BY DramAssumption
<1>2. /\ off \in 0 .. BurstLen - 1 /\ a = Align(a) + off
      /\ Align(a) \in Nat /\ len \in 1 .. BurstLen
      /\ a + len <= HwMemSize
  BY <1>1, AccessSpan DEF Load
<1>3. Sound(Memory) /\ Sound(one) /\ one.d = dram
  BY <1>1, IInvSound, ReadSound DEF Memory
<1>4. Flat' = Flat
  <2>1. AfterRead(one, a + BurstLen).d = dram
    BY <1>1, <1>3, ReadSound
  <2>2. dram' = dram
    BY <1>3, <2>1 DEF Load, SetMemory
  <2> QED BY <2>2 DEF Flat
<1>5. FlatOf(Memory) = Flat /\ FlatOf(one) = Flat
  BY <1>3 DEF FlatOf, Flat, Memory
<1> HIDE DEF one, off
<1>6. ASSUME NEW i \in 0 .. len - 1
      PROVE  ReadTemp(a, len)[off + i] = Flat[a + i]
  <2>1. off + i \in 0 .. 2 * BurstLen - 1
    BY <1>1, <1>2
  <2>2. CASE off + i < BurstLen
    <3>1. off + i \in 0 .. BurstLen - 1 /\ Align(a) + (off + i) = a + i
      BY <1>1, <1>2, <2>2
    <3>2. ReadTemp(a, len)[off + i] = BurstRead(Memory, a)[off + i]
      <4>1. ~ (off + i >= BurstLen)
        BY <1>1, <1>2, <2>2
      <4> QED BY <2>1, <2>2, <4>1 DEF ReadTemp
    <3>3. a < HwMemSize
      BY DEF Load, InMemory
    <3> QED BY <1>1, <1>3, <1>5, <3>1, <3>2, <3>3, ReadFlat
  <2>3. CASE off + i >= BurstLen
    <3> DEFINE j == (off + i) - BurstLen
    <3>1. Crosses(a, len)
      BY <1>1, <1>2, <2>3 DEF Crosses, off
    <3>2. j \in 0 .. BurstLen - 1
          /\ (Align(a) + BurstLen) + j = a + i
          /\ ~ (off + i < BurstLen)
      BY <1>1, <1>2, <2>3
    <3>3. ReadTemp(a, len)[off + i] = BurstRead(one, a + BurstLen)[j]
      BY <2>1, <3>1, <3>2, <2>3 DEF ReadTemp, one
    <3>4. Align(a + BurstLen) = Align(a) + BurstLen
      BY <1>1, BurstInMemory
    <3>5. a + BurstLen < HwMemSize
      BY <3>1 DEF Load, InMemory
    <3> HIDE DEF j
    <3> QED BY <1>1, <1>3, <1>5, <3>2, <3>3, <3>4, <3>5, ReadFlat
  <2> QED BY <1>1, <1>2, <2>2, <2>3
<1> QED
  BY <1>2, <1>4, <1>6 DEF Load, FM!Load, off

\* A load that leaves the memory aborts and changes no byte.
LEMMA LoadFaultFlat ==
  ASSUME IInv, NEW a \in Access, NEW len \in Lens, LoadFault(a, len)
  PROVE  FM!Load(a, len)
<1>1. a \in Nat
  BY DramAssumption
<1>2. ~ (a + len <= HwMemSize)
  BY <1>1, AccessSpan DEF LoadFault
<1>3. Sound(Memory)
  BY IInvSound
<1>4. dram' = dram
  BY <1>1, <1>3, ReadSound DEF LoadFault, SetMemory, Memory
<1>5. up /\ up' = FALSE /\ ret' = ret
  BY DEF LoadFault
<1>6. (a + len <= HwMemSize) = FALSE
  BY <1>2
<1>7. Flat' = Flat
  BY <1>4 DEF Flat
<1>8. up' = (a + len <= HwMemSize)
  BY <1>5, <1>6
<1> QED
  BY <1>5, <1>7, <1>8 DEF FM!Load

\* The first burst of a store changes the bytes of the access that lie in it.
LEMMA FirstBurstFlat ==
  ASSUME NEW m, Sound(m), NEW a \in Nat, a < HwMemSize, NEW len \in Lens,
         NEW data \in [0 .. len - 1 -> Byte]
  PROVE  FlatOf(AfterWrite(m, a, WriteTemp(a, len, data), WriteMask(a, len)))
           = [x \in 0 .. HwMemSize - 1 |->
                IF x \in a .. a + len - 1 /\ x < Align(a) + BurstLen
                THEN data[x - a] ELSE FlatOf(m)[x]]
<1> DEFINE off == a % BurstLen
           s   == Align(a)
           t   == WriteTemp(a, len, data)
           k   == WriteMask(a, len)
<1>1. /\ off \in 0 .. BurstLen - 1 /\ a = s + off /\ s \in Nat
      /\ len \in 1 .. BurstLen /\ BurstLen \in Nat \ {0} /\ HwMemSize \in Nat
  BY AccessSpan, DramAssumption, BurstInMemory
<1>2. \A j \in 0 .. 2 * BurstLen - 1 :
        /\ k[j] <=> j \in off .. off + len - 1
        /\ k[j] => t[j] = data[j - off]
  BY DEF WriteMask, WriteTemp
<1> SUFFICES ASSUME NEW x \in 0 .. HwMemSize - 1
             PROVE  (IF x \in s .. s + BurstLen - 1 /\ k[x - s]
                     THEN t[x - s] ELSE FlatOf(m)[x])
                    = (IF x \in a .. a + len - 1 /\ x < s + BurstLen
                       THEN data[x - a] ELSE FlatOf(m)[x])
  BY WriteFlat
<1> HIDE DEF off, s, t, k
<1>3. CASE x \in s .. s + BurstLen - 1
  <2>1. x - s \in 0 .. 2 * BurstLen - 1 /\ (x - s) - off = x - a
    BY <1>1, <1>3
  <2>2. x - s \in off .. off + len - 1 <=> x \in a .. a + len - 1
    BY <1>1, <1>3
  <2>3. x < s + BurstLen
    BY <1>1, <1>3
  <2> QED BY <1>2, <1>3, <2>1, <2>2, <2>3
<1>4. CASE x \notin s .. s + BurstLen - 1
  <2>1. ~ (x \in a .. a + len - 1 /\ x < s + BurstLen)
    BY <1>1, <1>4
  <2> QED BY <1>4, <2>1
<1> QED
  BY <1>3, <1>4

\* The second burst of a store changes the others.
LEMMA SecondBurstFlat ==
  ASSUME NEW m, Sound(m), NEW a \in Nat, NEW c \in Nat, c < HwMemSize,
         Align(c) = Align(a) + BurstLen,
         NEW len \in Lens, NEW data \in [0 .. len - 1 -> Byte]
  PROVE  \A x \in 0 .. HwMemSize - 1 :
           FlatOf(AfterWrite(m, c, Upper(WriteTemp(a, len, data)),
                                   Upper(WriteMask(a, len))))[x]
             = IF x \in a .. a + len - 1 /\ x >= Align(a) + BurstLen
               THEN data[x - a] ELSE FlatOf(m)[x]
<1> DEFINE off == a % BurstLen
           s   == Align(a) + BurstLen
           t   == WriteTemp(a, len, data)
           k   == WriteMask(a, len)
<1>1. /\ off \in 0 .. BurstLen - 1 /\ a = (s - BurstLen) + off
      /\ s \in Nat /\ s >= BurstLen
      /\ len \in 1 .. BurstLen /\ BurstLen \in Nat \ {0} /\ HwMemSize \in Nat
      /\ Align(c) = s
  <2>1. /\ off \in 0 .. BurstLen - 1 /\ a = Align(a) + off
        /\ Align(a) \in Nat /\ len \in 1 .. BurstLen
    BY AccessSpan
  <2>2. BurstLen \in Nat \ {0} /\ HwMemSize \in Nat /\ Align(c) = s
    BY DramAssumption, BurstInMemory
  <2> HIDE DEF off
  <2>3. (s - BurstLen) + off = Align(a) + off /\ s \in Nat /\ s >= BurstLen
    BY <2>1, <2>2
  <2> QED BY <2>1, <2>2, <2>3
<1>2. \A j \in 0 .. BurstLen - 1 :
        /\ Upper(k)[j] <=> j + BurstLen \in off .. off + len - 1
        /\ Upper(k)[j] => Upper(t)[j] = data[(j + BurstLen) - off]
  <2>1. \A j \in 0 .. BurstLen - 1 : j + BurstLen \in 0 .. 2 * BurstLen - 1
    BY <1>1
  <2> QED BY <2>1 DEF WriteMask, WriteTemp, Upper
<1> SUFFICES ASSUME NEW x \in 0 .. HwMemSize - 1
             PROVE  (IF x \in s .. s + BurstLen - 1 /\ Upper(k)[x - s]
                     THEN Upper(t)[x - s] ELSE FlatOf(m)[x])
                    = (IF x \in a .. a + len - 1 /\ x >= s
                       THEN data[x - a] ELSE FlatOf(m)[x])
  <2>1. FlatOf(AfterWrite(m, c, Upper(t), Upper(k)))
          = [x \in 0 .. HwMemSize - 1 |->
               IF /\ x \in Align(c) .. Align(c) + BurstLen - 1
                  /\ Upper(k)[x - Align(c)]
               THEN Upper(t)[x - Align(c)] ELSE FlatOf(m)[x]]
    <3> HIDE DEF t, k, s
    <3> QED BY <1>1, WriteFlat
  <2> HIDE DEF s
  <2> QED BY <2>1, <1>1 DEF s
<1> HIDE DEF off, s, t, k
<1>3. CASE x \in s .. s + BurstLen - 1
  <2>1. x - s \in 0 .. BurstLen - 1 /\ ((x - s) + BurstLen) - off = x - a
    BY <1>1, <1>3
  <2>2. (x - s) + BurstLen \in off .. off + len - 1 <=> x \in a .. a + len - 1
    BY <1>1, <1>3
  <2>3. x >= s
    BY <1>1, <1>3
  <2> QED BY <1>2, <1>3, <2>1, <2>2, <2>3
<1>4. CASE x \notin s .. s + BurstLen - 1
  <2>1. ~ (x \in a .. a + len - 1 /\ x >= s)
    BY <1>1, <1>4
  <2> QED BY <1>4, <2>1
<1> QED
  BY <1>3, <1>4

\* A store of Dram is a store of the flat memory, and so is what is left of
\* one that leaves the memory.
LEMMA StoreFlat ==
  ASSUME IInv, NEW a \in Access, NEW len \in Lens,
         NEW data \in [0 .. len - 1 -> Byte],
         Store(a, len, data) \/ StoreFault(a, len, data)
  PROVE  FM!Store(a, len, data)
<1> DEFINE t   == WriteTemp(a, len, data)
           k   == WriteMask(a, len)
           one == AfterWrite(Memory, a, t, k)
           two == AfterWrite(one, a + BurstLen, Upper(t), Upper(k))
           e   == Align(a) + BurstLen
           new == [x \in 0 .. HwMemSize - 1 |->
                     IF x \in a .. a + len - 1 THEN data[x - a] ELSE Flat[x]]
<1>1. /\ a \in Nat /\ BurstLen \in Nat \ {0} /\ a + BurstLen \in Nat
      /\ HwMemSize \in Nat /\ len \in 1 .. BurstLen
      /\ e \in Nat /\ a < e
      /\ (~ Crosses(a, len)) <=> (a + len <= e)
      /\ (a + len <= HwMemSize)
           <=> InMemory(a) /\ (Crosses(a, len) => InMemory(a + BurstLen))
      /\ a + BurstLen >= HwMemSize => e >= HwMemSize
  <2>1. a \in Nat /\ BurstLen \in Nat \ {0}
    BY DramAssumption
  <2>2. /\ HwMemSize \in Nat /\ Align(a + BurstLen) = e
        /\ a + BurstLen \in Nat
        /\ a + BurstLen >= HwMemSize => Align(a + BurstLen) >= HwMemSize
    <3>1. a + BurstLen \in Nat
      BY <2>1
    <3>2. HwMemSize \in Nat /\ Align(a + BurstLen) = e
      BY <2>1, BurstInMemory
    <3>3. a + BurstLen >= HwMemSize => Align(a + BurstLen) >= HwMemSize
      BY <3>1, BurstInMemory
    <3> QED BY <3>1, <3>2, <3>3
  <2>3. /\ a % BurstLen \in 0 .. BurstLen - 1 /\ a = Align(a) + (a % BurstLen)
        /\ Align(a) \in Nat /\ len \in 1 .. BurstLen
        /\ (a + len <= HwMemSize)
             <=> InMemory(a) /\ (Crosses(a, len) => InMemory(a + BurstLen))
    BY <2>1, AccessSpan
  <2> DEFINE off == a % BurstLen
  <2>4. Crosses(a, len) <=> off + len > BurstLen
    BY DEF Crosses
  <2>5. off \in 0 .. BurstLen - 1 /\ a = Align(a) + off
    BY <2>3
  <2> HIDE DEF off
  <2>6. e \in Nat /\ a < e /\ ((~ Crosses(a, len)) <=> (a + len <= e))
    BY <2>1, <2>3, <2>4, <2>5
  <2> QED BY <2>1, <2>2, <2>3, <2>6
<1>2. Sound(Memory) /\ Sound(one)
  <2>1. Sound(Memory)
    BY IInvSound
  <2>2. \A j \in 0 .. BurstLen - 1 : k[j] => t[j] \in Byte
    BY <1>1, TempBytes
  <2> HIDE DEF t, k
  <2> QED BY <2>1, <2>2, <1>1, WriteSound
<1>3. FlatOf(Memory) = Flat
  BY DEF FlatOf, Flat, Memory
<1>4. ASSUME InMemory(a)
      PROVE  FlatOf(one) = [x \in 0 .. HwMemSize - 1 |->
                              IF x \in a .. a + len - 1 /\ x < e
                              THEN data[x - a] ELSE Flat[x]]
  BY <1>1, <1>2, <1>3, <1>4, FirstBurstFlat DEF InMemory
<1>5. ASSUME InMemory(a + BurstLen)
      PROVE  \A x \in 0 .. HwMemSize - 1 :
               FlatOf(two)[x] = IF x \in a .. a + len - 1 /\ x >= e
                                THEN data[x - a] ELSE FlatOf(one)[x]
  <2> DEFINE c == a + BurstLen
  <2>1. c \in Nat /\ c < HwMemSize /\ Align(c) = Align(a) + BurstLen
    BY <1>1, <1>5, BurstInMemory DEF InMemory
  <2>2. Sound(one) /\ a \in Nat
    BY <1>1, <1>2
  <2>3. ASSUME NEW m, Sound(m)
        PROVE  \A x \in 0 .. HwMemSize - 1 :
                 FlatOf(AfterWrite(m, c, Upper(t), Upper(k)))[x]
                   = IF x \in a .. a + len - 1 /\ x >= e
                     THEN data[x - a] ELSE FlatOf(m)[x]
    <3> HIDE DEF c
    <3> QED BY <2>1, <2>2, <2>3, SecondBurstFlat
  <2> HIDE DEF one, t, k, e
  <2> QED BY <2>2, <2>3
<1>6. ASSUME NEW m, SetMemory(m) PROVE Flat' = FlatOf(m)
  BY <1>6 DEF Flat, FlatOf, SetMemory
<1> HIDE DEF t, k, e, one, two
<1>7. up /\ ret' = ret
  BY DEF Store, StoreFault
<1>8. CASE Store(a, len, data)
  <2>1. up' = (a + len <= HwMemSize)
    BY <1>1, <1>8 DEF Store
  <2>2. CASE ~ Crosses(a, len)
    <3>1. Flat' = FlatOf(one)
      BY <1>6, <1>8, <2>2 DEF Store, one, t, k
    <3>2. FlatOf(one) = new
      BY <1>1, <1>4, <1>8, <2>2 DEF Store
    <3> QED BY <1>7, <2>1, <3>1, <3>2 DEF FM!Store, FM!Addr
  <2>3. CASE Crosses(a, len)
    <3>1. Flat' = FlatOf(two)
      BY <1>6, <1>8, <2>3 DEF Store, two, one, t, k
    <3>2. FlatOf(two) = new
      BY <1>1, <1>4, <1>5, <1>8, <2>3 DEF Store, FlatOf
    <3> QED BY <1>7, <2>1, <3>1, <3>2 DEF FM!Store, FM!Addr
  <2> QED BY <2>2, <2>3
<1>9. CASE StoreFault(a, len, data)
  <2>1. up' = (a + len <= HwMemSize)
    <3>1. ~ (a + len <= HwMemSize)
      BY <1>1, <1>9 DEF StoreFault
    <3>2. up' = FALSE
      BY <1>9 DEF StoreFault
    <3>3. (a + len <= HwMemSize) = FALSE
      BY <3>1
    <3> QED BY <3>2, <3>3
  <2>2. CASE ~ InMemory(a)
    <3>1. Flat' = Flat
      BY <1>3, <1>6, <1>9, <2>2 DEF StoreFault
    <3>2. Flat = new
      BY <1>1, <2>2 DEF Flat, InMemory
    <3> QED BY <1>7, <2>1, <3>1, <3>2 DEF FM!Store, FM!Addr
  <2>3. CASE InMemory(a)
    <3>1. Flat' = FlatOf(one)
      BY <1>6, <1>9, <2>3 DEF StoreFault, one, t, k
    <3>2. FlatOf(one) = new
      BY <1>1, <1>4, <1>9, <2>3 DEF StoreFault, InMemory
    <3> QED BY <1>7, <2>1, <3>1, <3>2 DEF FM!Store, FM!Addr
  <2> QED BY <2>2, <2>3
<1> QED
  BY <1>8, <1>9

\* Every step of Dram is a step of the flat memory.
LEMMA NextFlat == IInv /\ [Next]_vars => [FM!Next]_(FM!vars)
<1> SUFFICES ASSUME IInv, [Next]_vars PROVE [FM!Next]_(FM!vars)
  OBVIOUS
<1>1. CASE UNCHANGED vars
  BY <1>1 DEF vars, FM!vars, Flat
<1>2. ASSUME NEW a \in Access, NEW len \in Lens,
             \/ Load(a, len)
             \/ LoadFault(a, len)
             \/ \E data \in [0 .. len - 1 -> Byte] :
                  Store(a, len, data) \/ StoreFault(a, len, data)
      PROVE  FM!Next
  <2>1. CASE Load(a, len)
    BY <2>1, LoadFlat DEF FM!Next
  <2>2. CASE LoadFault(a, len)
    BY <2>2, LoadFaultFlat DEF FM!Next
  <2>3. ASSUME NEW data \in [0 .. len - 1 -> Byte],
               Store(a, len, data) \/ StoreFault(a, len, data)
        PROVE  FM!Next
    BY <2>3, StoreFlat DEF FM!Next
  <2> QED BY <1>2, <2>1, <2>2, <2>3
<1> QED
  BY <1>1, <1>2 DEF Next

\* In every reachable state, of a memory of any geometry, the arrays and the
\* row buffers hold bytes (dram.c:34-43).
THEOREM TypeCorrect == Spec => []TypeOK
<1>1. IInv => TypeOK
  BY DEF IInv
<1> QED
  BY InitIInv, NextIInv, <1>1, PTL DEF Spec

\* In every reachable state, of a memory of any geometry, each valid row
\* buffer equals the row it names: the write back of dram.c:96 is exact.
THEOREM Coherent == Spec => []RowBufCoherent
<1>1. IInv => RowBufCoherent
  BY DEF IInv
<1> QED
  BY InitIInv, NextIInv, <1>1, PTL DEF Spec

\* Row buffers, bursts, misaligned accesses and the Assert at the end of the
\* memory behave, for a memory of any geometry, as the flat array of bytes
\* hw_mem: ddr3_read and ddr3_write are invisible behind dram_read and
\* dram_write (dram.c:54-128).
THEOREM Refines == Spec => ImplementsFlatMemory
<1> QED
  BY InitIInv, NextIInv, InitFlat, NextFlat, PTL
     DEF Spec, ImplementsFlatMemory, FM!Spec

\* In every reachable state, of a memory of any geometry, the last load has
\* returned bytes of the memory, none of them a byte of temp that dram_read
\* left uninitialised (dram.c:101).
THEOREM LoadsInitialised == Spec => []NoUninitialisedByte
<1>1. Init => NoUninitialisedByte
  BY DEF Init, NoUninitialisedByte
<1>2. IInv /\ NoUninitialisedByte /\ [Next]_vars => NoUninitialisedByte'
  <2> SUFFICES ASSUME IInv, NoUninitialisedByte, [Next]_vars
               PROVE  NoUninitialisedByte'
    OBVIOUS
  <2>1. CASE ret' = ret
    BY <2>1 DEF NoUninitialisedByte
  <2>2. ASSUME NEW a \in Access, NEW len \in Lens, Load(a, len)
        PROVE  NoUninitialisedByte'
    <3>1. a \in Nat /\ len \in Nat /\ HwMemSize \in Nat
          /\ a + len <= HwMemSize
      BY <2>2, DramAssumption, BurstInMemory, AccessSpan DEF Load
    <3>2. up' /\ ret' = [i \in 0 .. len - 1 |-> Flat[a + i]]
      BY <2>2, LoadFlat DEF Load, FM!Load
    <3>3. Flat \in [0 .. HwMemSize - 1 -> Byte]
      <4>1. \A x \in 0 .. HwMemSize - 1 :
              BankOf(x) \in Bank /\ RowOf(x) \in Row /\ ColOf(x) \in Col
        BY <3>1, FieldTypes
      <4> QED BY <4>1 DEF Flat, IInv, TypeOK
    <3>4. \A i \in 0 .. len - 1 : a + i \in 0 .. HwMemSize - 1
      BY <3>1
    <3> QED BY <3>2, <3>3, <3>4 DEF NoUninitialisedByte
  <2> QED
    BY <2>1, <2>2 DEF Next, LoadFault, Store, StoreFault, vars
<1> QED
  BY InitIInv, NextIInv, <1>1, <1>2, PTL DEF Spec
=============================================================================
