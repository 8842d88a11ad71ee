-------------------------------- MODULE Dram --------------------------------
(***************************************************************************)
(* NEMU's simulated DDR3 memory: nemu/src/memory/dram.c under the accessor *)
(* functions of nemu/src/memory/memory.c.                                  *)
(*                                                                         *)
(* An address is split into column, row and bank (the rank bits only add   *)
(* banks).  Each bank has one row buffer.  Every access moves whole bursts *)
(* of BurstLen bytes through the row buffer of its bank, which is filled   *)
(* from the array when it holds another row; a write also copies the whole *)
(* buffer back to the array.  An access of at most BurstLen bytes that     *)
(* starts inside a burst needs a second burst when it crosses the boundary.*)
(***************************************************************************)
EXTENDS Integers

CONSTANTS BurstLen,  \* BURST_LEN, 8 in the code
          NrCol,     \* NR_COL: bytes of a row
          NrRow,     \* NR_ROW: rows of a bank
          NrBank,    \* NR_RANK * NR_BANK
          Byte,      \* the values of a byte
          NoByte,    \* a byte of a local buffer nobody has written
          Lens,      \* lengths of an access
          Access     \* addresses the CPU presents

\* A row holds whole bursts and no access is longer than a burst.
ASSUME DramAssumption ==
  /\ BurstLen \in Nat \ {0} /\ NrCol \in Nat \ {0}
  /\ NrRow \in Nat \ {0}    /\ NrBank \in Nat \ {0}
  /\ NrCol % BurstLen = 0
  /\ Byte # {} /\ NoByte \notin Byte
  /\ Lens \subseteq 1 .. BurstLen
  /\ Access \subseteq Nat

VARIABLES dram,      \* dram[bank][row][col]
          rowbufs,   \* the row buffer of each bank
          ret,       \* what the last completed load returned
          up         \* FALSE once the Assert on the address has failed

vars == <<dram, rowbufs, ret, up>>

HwMemSize == NrBank * NrRow * NrCol

Bank == 0 .. NrBank - 1
Row  == 0 .. NrRow - 1
Col  == 0 .. NrCol - 1

RB == [buf : [Col -> Byte], row_idx : Row, valid : BOOLEAN]

\* The fields of the union dram_addr.
BankOf(a) == (a \div (NrCol * NrRow)) % NrBank
RowOf(a)  == (a \div NrCol) % NrRow
ColOf(a)  == a % NrCol

Align(a)  == a - (a % BurstLen)        \* addr & ~BURST_MASK

(***************************************************************************)
(* One ddr3_read or ddr3_write, as a function of the memory m, a record of *)
(* the array d and the row buffers r.                                      *)
(***************************************************************************)
\* Buggy variant: a valid row buffer is taken for the right row.
Bug_AnyRow(m, a) == m.r[BankOf(Align(a))].valid

Hit(m, a) == LET rb == m.r[BankOf(Align(a))]
             IN  rb.valid /\ rb.row_idx = RowOf(Align(a))

\* The row buffer of a's bank once it holds a's row.
Opened(m, a) ==
  LET b == BankOf(Align(a))
      w == RowOf(Align(a))
  IN  IF Hit(m, a) THEN m.r[b]
                   ELSE [buf |-> m.d[b][w], row_idx |-> w, valid |-> TRUE]

AfterRead(m, a) ==
  [d |-> m.d, r |-> [m.r EXCEPT ![BankOf(Align(a))] = Opened(m, a)]]

BurstRead(m, a) ==
  [j \in 0 .. BurstLen - 1 |-> Opened(m, a).buf[ColOf(Align(a)) + j]]

\* memcpy_with_mask of one burst into the buffer of the open row.
Masked(buf, col, data, mask) ==
  [c \in Col |-> IF c \in col .. col + BurstLen - 1 /\ mask[c - col]
                 THEN data[c - col] ELSE buf[c]]

\* Buggy variant: the row is not copied back to the array (dram.c:96).
Bug_NoWriteBack(m, a, data, mask) ==
  LET b == BankOf(Align(a))
      o == Opened(m, a)
  IN  [d |-> m.d,
       r |-> [m.r EXCEPT ![b] =
                [buf |-> Masked(o.buf, ColOf(Align(a)), data, mask),
                 row_idx |-> o.row_idx, valid |-> o.valid]]]

AfterWrite(m, a, data, mask) ==
  LET b   == BankOf(Align(a))
      w   == RowOf(Align(a))
      o   == Opened(m, a)
      buf == Masked(o.buf, ColOf(Align(a)), data, mask)
  IN  [d |-> [m.d EXCEPT ![b][w] = buf],
       r |-> [m.r EXCEPT ![b] = [buf |-> buf, row_idx |-> o.row_idx,
                                 valid |-> o.valid]]]

-----------------------------------------------------------------------------
Memory == [d |-> dram, r |-> rowbufs]

SetMemory(m) == dram' = m.d /\ rowbufs' = m.r

InMemory(a) == a < HwMemSize

\* Buggy variant: the boundary test of dram.c:105 and 124 is off by one.
Bug_LateCross(a, len) == (a % BurstLen) + len > BurstLen + 1

Crosses(a, len) == (a % BurstLen) + len > BurstLen

\* The 2 * BURST_LEN bytes of the local array temp after dram_read's bursts.
ReadTemp(a, len) ==
  LET second == BurstRead(AfterRead(Memory, a), a + BurstLen)
  IN  [j \in 0 .. 2 * BurstLen - 1 |->
         CASE j < BurstLen      -> BurstRead(Memory, a)[j]
           [] j >= BurstLen /\ Crosses(a, len)
                                -> second[j - BurstLen]
           [] OTHER             -> NoByte]

\* temp of dram_write, and its mask: which of its bytes are to be stored.
WriteTemp(a, len, data) ==
  LET off == a % BurstLen
  IN  [j \in 0 .. 2 * BurstLen - 1 |->
         IF j \in off .. off + len - 1 THEN data[j - off] ELSE NoByte]

\* Buggy variant: one byte too many is marked in the mask (dram.c:120).
Bug_WideMask(a, len) ==
  [j \in 0 .. 2 * BurstLen - 1 |->
     j \in (a % BurstLen) .. (a % BurstLen) + len]

WriteMask(a, len) ==
  [j \in 0 .. 2 * BurstLen - 1 |->
     j \in (a % BurstLen) .. (a % BurstLen) + len - 1]

\* temp + BURST_LEN
Upper(t) == [j \in 0 .. BurstLen - 1 |-> t[j + BurstLen]]

-----------------------------------------------------------------------------
Init == /\ dram \in [Bank -> [Row -> [Col -> Byte]]]
        /\ rowbufs \in [Bank -> {rb \in RB : ~ rb.valid}]
        /\ ret = <<>>
        /\ up = TRUE

\* hwaddr_read: dram_read, then the mask that keeps the low len bytes.
Load(a, len) ==
  LET one == AfterRead(Memory, a)
  IN  /\ up
      /\ InMemory(a)
      /\ Crosses(a, len) => InMemory(a + BurstLen)
      /\ SetMemory(IF Crosses(a, len) THEN AfterRead(one, a + BurstLen)
                                      ELSE one)
      /\ ret' = [i \in 0 .. len - 1 |-> ReadTemp(a, len)[(a % BurstLen) + i]]
      /\ UNCHANGED up

\* hwaddr_write: dram_write.
Store(a, len, data) ==
  LET t   == WriteTemp(a, len, data)
      k   == WriteMask(a, len)
      one == AfterWrite(Memory, a, t, k)
  IN  /\ up
      /\ InMemory(a)
      /\ Crosses(a, len) => InMemory(a + BurstLen)
      /\ SetMemory(IF Crosses(a, len)
                   THEN AfterWrite(one, a + BurstLen, Upper(t), Upper(k))
                   ELSE one)
      /\ UNCHANGED <<ret, up>>

\* The Assert of the first or the second burst fails: the emulator aborts.
\* The first burst of a load or a store that crosses the end has been done.
LoadFault(a, len) ==
  /\ up
  /\ \/ ~ InMemory(a) /\ SetMemory(Memory)
     \/ /\ InMemory(a)
        /\ Crosses(a, len) /\ ~ InMemory(a + BurstLen)
        /\ SetMemory(AfterRead(Memory, a))
  /\ up' = FALSE
  /\ UNCHANGED ret

StoreFault(a, len, data) ==
  /\ up
  /\ \/ ~ InMemory(a) /\ SetMemory(Memory)
     \/ /\ InMemory(a)
        /\ Crosses(a, len) /\ ~ InMemory(a + BurstLen)
        /\ SetMemory(AfterWrite(Memory, a, WriteTemp(a, len, data),
                                           WriteMask(a, len)))
  /\ up' = FALSE
  /\ UNCHANGED ret

Next == \E a \in Access, len \in Lens :
          \/ Load(a, len)
          \/ LoadFault(a, len)
          \/ \E data \in [0 .. len - 1 -> Byte] :
               \/ Store(a, len, data)
               \/ StoreFault(a, len, data)

Spec == Init /\ [][Next]_vars

-----------------------------------------------------------------------------
TypeOK == /\ dram \in [Bank -> [Row -> [Col -> Byte]]]
          /\ rowbufs \in [Bank -> RB]
          /\ up \in BOOLEAN

\* A row buffer marked valid holds exactly the row of the array it names, so
\* that the write back of a whole row (dram.c:96) can never restore old bytes.
RowBufCoherent ==
  \A b \in Bank : rowbufs[b].valid => rowbufs[b].buf = dram[b][rowbufs[b].row_idx]

\* The bytes a load returns come from the memory: none of the bytes of temp
\* that dram_read leaves uninitialised survives the mask of hwaddr_read.
NoUninitialisedByte ==
  \A i \in DOMAIN ret : ret[i] \in Byte

\* The array seen through the addresses of the CPU.
Flat == [a \in 0 .. HwMemSize - 1 |-> dram[BankOf(a)][RowOf(a)][ColOf(a)]]

FM == INSTANCE FlatMemory WITH MemSize <- HwMemSize, mem <- Flat

\* Row buffers, bursts and misaligned accesses are invisible to the CPU.
ImplementsFlatMemory == FM!Spec
=============================================================================
