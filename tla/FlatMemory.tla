----------------------------- MODULE FlatMemory -----------------------------
(***************************************************************************)
(* What the physical memory of NEMU promises to the CPU: an array of bytes *)
(* (hw_mem in nemu/src/memory/dram.c), read and written in little pieces   *)
(* that may start at any address.  There are no rows, no row buffers and   *)
(* no bursts here.  Dram.tla is shown to implement this module.            *)
(***************************************************************************)
EXTENDS Integers

CONSTANTS MemSize,   \* HW_MEM_SIZE
          Byte,      \* the values of a byte
          Lens,      \* lengths of an access (1, 2 and 4 in swaddr_read)
          Access     \* addresses the CPU presents, some beyond the memory

VARIABLES mem,       \* the bytes of hw_mem
          ret,       \* what the last completed load returned
          up         \* FALSE once an Assert has aborted the emulator

vars == <<mem, ret, up>>

Addr == 0 .. MemSize - 1

Init == /\ mem \in [Addr -> Byte]
        /\ ret = <<>>
        /\ up = TRUE

\* A load returns the len bytes at a; one that leaves the memory aborts.
Load(a, len) ==
  /\ up
  /\ up' = (a + len <= MemSize)
  /\ ret' = IF up' THEN [i \in 0 .. len - 1 |-> mem[a + i]] ELSE ret
  /\ mem' = mem

\* A store changes the len bytes at a and no other; one that leaves the
\* memory stores the bytes that fit before it aborts.
Store(a, len, data) ==
  /\ up
  /\ up' = (a + len <= MemSize)
  /\ mem' = [x \in Addr |-> IF x \in a .. a + len - 1 THEN data[x - a]
                                                      ELSE mem[x]]
  /\ ret' = ret

Next == \E a \in Access, len \in Lens :
          \/ Load(a, len)
          \/ \E data \in [0 .. len - 1 -> Byte] : Store(a, len, data)

Spec == Init /\ [][Next]_vars
=============================================================================
