--------------------------- MODULE SectorBufProofs ---------------------------
(***************************************************************************)
(* Proofs about SectorBuf for disks, caches and sectors of any size, with  *)
(* the tick anywhere in the driver.  The invariant has two parts.  Base    *)
(* holds for ever: types, places, and what the device makes of commands    *)
(* that two contexts give it.  Calm holds until a write back has come into *)
(* a transfer: what main or the handler transfers is where its locals say, *)
(* and buffers and disk agree.  Whatever the handler writes while main is  *)
(* elsewhere in the driver leaves that alone, because a sector has one     *)
(* buffer and the buffer of a sector that main gives up has been written.  *)
(***************************************************************************)
EXTENDS SectorBuf, TLAPS

-----------------------------------------------------------------------------
(* The inductive invariant.                                                *)

Busy(c) == pc[c] \in {"wait", "ports", "command", "data"}

\* Where the contexts are.
Places ==
  /\ pc["main"] \notin {"scan", "written"}
  /\ pc["timer"] \in {"idle", "scan", "wait", "ports", "command", "data", "written"}
  /\ pc["main"] = "idle" <=> req = None
  /\ pc["timer"] = "idle" => counter < HZ
  /\ pc["timer"] \notin {"idle", "scan"} => wb \in Slot

\* What a transfer is for.
Purpose ==
  /\ Busy("main") => /\ xfer["main"].slot = MySlot
                     /\ xfer["main"].dir = "read" => xfer["main"].sector = req.sector
  /\ Busy("timer") => xfer["timer"].slot = wb /\ xfer["timer"].dir = "write"
  /\ pc["main"] = "filled" => xfer["main"].dir = "read"
  /\ \A c \in Ctx : Busy(c) /\ pc[c] # "data" => xfer[c].i = 0

\* c has words to write that the device waits for.
Writing(c) == pc[c] = "data" /\ xfer[c].dir = "write" /\ xfer[c].i < WordsPerSector

\* The device is in a sector.  It is busy while a context writes, and then the
\* handler does not come past waitdisk: main is never overtaken in the middle
\* of a write, but it may be in the middle of a read.
Device ==
  /\ \E s \in Sector : disk_pos = s * WordsPerSector + byte_cnt
  /\ status = "busy" => \E c \in Ctx : Writing(c)
  /\ Writing("main") => /\ status = "busy" /\ ide_write /\ byte_cnt = xfer["main"].i
                        /\ pc["timer"] \in {"idle", "scan", "wait"}
  /\ pc["main"] = "data" /\ xfer["main"].dir = "read" =>
       ide_write \/ byte_cnt = xfer["main"].i
  /\ pc["timer"] = "data" => ide_write /\ byte_cnt = xfer["timer"].i

Base == TypeOK /\ Places /\ Purpose /\ Device

\* The handler writes back only while main neither transfers nor has a buffer
\* under the wrong name.
Apart == Busy("timer") \/ pc["timer"] = "written" => ~ Critical

\* What is written out belongs to a buffer in use, and to its sector.
Outgoing(c) ==
  Busy(c) /\ xfer[c].dir = "write" =>
    buf[xfer[c].slot].used /\ xfer[c].sector = buf[xfer[c].slot].sector

\* How far a transfer has come, and the device with it.
Progress(c) ==
  /\ pc[c] = "command" => port_sector = xfer[c].sector
  /\ pc[c] = "data" =>
       /\ byte_cnt = xfer[c].i
       /\ disk_pos = xfer[c].sector * WordsPerSector + xfer[c].i
       /\ ide_write = (xfer[c].dir = "write")
       /\ \A w \in Word :
            w < xfer[c].i =>
              buf[xfer[c].slot].content[w] = disk[xfer[c].sector * WordsPerSector + w]

\* A buffer in use is the one its sector belongs to, and a dirty one is in use.
BuffersInPlace ==
  \A b \in Slot : /\ buf[b].dirty => buf[b].used
                  /\ buf[b].used => SlotOf(buf[b].sector) = b

\* Buffer b holds what the disk holds.
Current(b) == buf[b].content = OnDisk(buf[b].sector)

\* What the ends of the transfers leave, also when a write back follows.
Settled ==
  /\ pc["main"] \in {"wait", "ports"} /\ xfer["main"].dir = "read" =>
       (buf[MySlot].used => Current(MySlot))
  /\ pc["main"] = "evicted" => buf[MySlot].used /\ Current(MySlot)
  /\ pc["main"] = "filled" => buf[MySlot].content = OnDisk(req.sector)
  /\ pc["main"] = "clean" => BufHit(buf[MySlot]) /\ Current(MySlot)
  /\ pc["main"] \in {"use", "mark"} => BufHit(buf[MySlot])
  /\ pc["main"] = "mark" => req.op = "write"
  /\ pc["timer"] = "written" => buf[wb].used /\ Current(wb)

Calm == /\ up /\ Apart
        /\ \A c \in Ctx : Outgoing(c) /\ Progress(c)
        /\ BuffersInPlace /\ Settled
        /\ CleanMatches

IInv == Base /\ (disturbed \/ Calm)

(* Positions on the disk, and slots.                                       *)

LEMMA SlotType == \A s \in Sector : SlotOf(s) \in Slot
<1> SUFFICES ASSUME NEW s \in Sector PROVE SlotOf(s) \in Slot
  OBVIOUS
<1>1. s \in Nat /\ NR_SEC_BUF \in Nat \ {0}
  BY BufAssumption DEF Sector
<1> QED
  BY <1>1 DEF SlotOf, Slot

\* A later sector begins where the one before it has ended, or behind.
LEMMA SectorEnds ==
  ASSUME NEW s \in Nat, NEW t \in Nat, s < t
  PROVE  /\ s * WordsPerSector \in Nat /\ t * WordsPerSector \in Nat
         /\ s * WordsPerSector + WordsPerSector <= t * WordsPerSector
<1>1. WordsPerSector \in Nat /\ t - (s + 1) \in Nat
  BY DeviceAssumption
<1>2. PICK d \in Nat : t = s + 1 + d
  BY <1>1
<1>3. t * WordsPerSector = s * WordsPerSector + WordsPerSector + d * WordsPerSector
  BY <1>1, <1>2
<1>4. d * WordsPerSector \in Nat /\ s * WordsPerSector \in Nat
  BY <1>1
<1> QED
  BY <1>1, <1>3, <1>4

\* The words of a sector lie on the disk.
LEMMA Position ==
  ASSUME NEW s \in Sector
  PROVE  /\ s * WordsPerSector \in Nat
         /\ \A w \in Word : s * WordsPerSector + w \in 0 .. NrSector * WordsPerSector - 1
         /\ \A w \in 0 .. WordsPerSector :
              s * WordsPerSector + w \in 0 .. NrSector * WordsPerSector
<1>1. s \in Nat /\ NrSector \in Nat /\ s < NrSector /\ WordsPerSector \in Nat
  BY DeviceAssumption DEF Sector
<1>2. /\ s * WordsPerSector \in Nat /\ NrSector * WordsPerSector \in Nat
      /\ s * WordsPerSector + WordsPerSector <= NrSector * WordsPerSector
  BY <1>1, SectorEnds
<1> QED
  BY <1>1, <1>2 DEF Word

\* No two words of the disk have the same position.
LEMMA Distinct ==
  ASSUME NEW s \in Sector, NEW t \in Sector, NEW v \in Word, NEW w \in Word,
         s * WordsPerSector + v = t * WordsPerSector + w
  PROVE  s = t /\ v = w
<1>1. s \in Nat /\ t \in Nat /\ WordsPerSector \in Nat /\ v \in Nat /\ w \in Nat
      /\ v < WordsPerSector /\ w < WordsPerSector
  BY DeviceAssumption DEF Sector, Word
<1>2. s * WordsPerSector \in Nat /\ t * WordsPerSector \in Nat
  BY Position
<1>3. CASE s < t
  BY <1>1, <1>2, <1>3, SectorEnds
<1>4. CASE t < s
  BY <1>1, <1>2, <1>4, SectorEnds
<1>5. CASE s = t
  BY <1>1, <1>2, <1>5
<1> QED
  BY <1>1, <1>3, <1>4, <1>5

LEMMA OnDiskType ==
  ASSUME NEW s \in Sector, DevTypeOK
  PROVE  OnDisk(s) \in [Word -> Val]
BY Position DEF OnDisk, DevTypeOK

-----------------------------------------------------------------------------
(* What the types say, for the steps below.                                *)

LEMMA RequestType ==
  ASSUME TypeOK, req # None
  PROVE  /\ req \in Request /\ req.sector \in Sector /\ req.word \in Word
         /\ req.op \in {"read", "write"}
         /\ req.op = "write" => req.val \in Val
         /\ MySlot \in Slot
<1>1. req \in Request
  BY DEF TypeOK
<1>2. /\ req.sector \in Sector /\ req.word \in Word /\ req.op \in {"read", "write"}
      /\ req.op = "write" => req.val \in Val
  BY <1>1 DEF Request
<1> QED
  BY <1>1, <1>2, SlotType DEF MySlot

LEMMA BufType ==
  ASSUME TypeOK, NEW b \in Slot
  PROVE  /\ buf[b] \in SectorBufRec /\ buf[b].sector \in Sector
         /\ buf[b].used \in BOOLEAN /\ buf[b].dirty \in BOOLEAN
         /\ buf[b].content \in [Word -> Val]
BY DEF TypeOK, SectorBufRec

LEMMA XferType ==
  ASSUME TypeOK, NEW c \in Ctx
  PROVE  /\ xfer[c] \in Transfer /\ xfer[c].dir \in {"read", "write"}
         /\ xfer[c].slot \in Slot /\ xfer[c].sector \in Sector
         /\ xfer[c].i \in 0 .. WordsPerSector
BY DEF TypeOK, Transfer

LEMMA NoTransferType == NoTransfer \in Transfer /\ NoTransfer.dir = "read"
<1>1. 0 \in Sector /\ 0 \in Slot /\ 0 \in 0 .. WordsPerSector
  BY DeviceAssumption, BufAssumption DEF Sector, Slot
<1> QED
  BY <1>1 DEF NoTransfer, Transfer

\* A context goes to one of the labels: the other stays where it is.
LEMMA GotoType ==
  ASSUME TypeOK, NEW c \in Ctx, NEW label, Goto(c, label)
  PROVE  /\ pc'[c] = label
         /\ \A d \in Ctx : d # c => pc'[d] = pc[d]
BY DEF Goto, TypeOK

\* disk_do_read or disk_do_write is called.
LEMMA CallType ==
  ASSUME TypeOK, NEW c \in Ctx, NEW dir \in {"read", "write"}, NEW slot \in Slot,
         NEW s \in Sector, Call(c, dir, slot, s)
  PROVE  /\ xfer' \in [Ctx -> Transfer]
         /\ xfer'[c] = [dir |-> dir, slot |-> slot, sector |-> s, i |-> 0]
         /\ pc'[c] = "wait"
         /\ \A d \in Ctx : d # c => pc'[d] = pc[d] /\ xfer'[d] = xfer[d]
<1>1. [dir |-> dir, slot |-> slot, sector |-> s, i |-> 0] \in Transfer
  BY DeviceAssumption DEF Transfer
<1> QED
  BY <1>1 DEF Call, TypeOK

\* A word is put into a buffer.
Put(sl, w, word) == buf' = [buf EXCEPT ![sl].content[w] = word]

IsPut(sl, w, word) ==
  /\ buf' \in [Slot -> SectorBufRec]
  /\ \A b \in Slot : /\ b # sl => buf'[b] = buf[b]
                     /\ buf'[b].used = buf[b].used
                     /\ buf'[b].dirty = buf[b].dirty
                     /\ buf'[b].sector = buf[b].sector
  /\ buf'[sl].content = [buf[sl].content EXCEPT ![w] = word]

LEMMA ContentType ==
  ASSUME TypeOK, NEW sl \in Slot, NEW w \in Word, NEW word \in Val, Put(sl, w, word)
  PROVE  IsPut(sl, w, word)
<1> DEFINE content == [buf[sl].content EXCEPT ![w] = word]
           filled == [buf[sl] EXCEPT !.content = content]
<1>1. buf \in [Slot -> SectorBufRec] /\ buf[sl] \in SectorBufRec
  BY DEF TypeOK
<1>2. content \in [Word -> Val]
  BY <1>1 DEF SectorBufRec
<1>3. buf' = [buf EXCEPT ![sl] = filled]
  BY DEF Put
<1> HIDE DEF content
<1>4. /\ filled \in SectorBufRec /\ filled.content = content
      /\ filled.used = buf[sl].used /\ filled.dirty = buf[sl].dirty
      /\ filled.sector = buf[sl].sector
  BY <1>1, <1>2 DEF SectorBufRec
<1> HIDE DEF filled
<1>5. /\ buf'[sl] = filled /\ \A b \in Slot : b # sl => buf'[b] = buf[b]
      /\ buf' \in [Slot -> SectorBufRec]
  BY <1>1, <1>3, <1>4
<1> QED
  BY <1>4, <1>5 DEF content, IsPut

\* The steps of main that write into the fields of its buffer.
LEMMA FieldType ==
  ASSUME TypeOK, req # None, Filled \/ Clean \/ UseWrite \/ MarkDirty
  PROVE  /\ buf' \in [Slot -> SectorBufRec]
         /\ \A b \in Slot : b # MySlot => buf'[b] = buf[b]
         /\ Filled => /\ buf'[MySlot].used /\ buf'[MySlot].sector = req.sector
                      /\ buf'[MySlot].dirty = buf[MySlot].dirty
         /\ ~ Filled => /\ buf'[MySlot].used = buf[MySlot].used
                        /\ buf'[MySlot].sector = buf[MySlot].sector
         /\ ~ UseWrite => buf'[MySlot].content = buf[MySlot].content
         /\ Clean => ~ buf'[MySlot].dirty
         /\ MarkDirty => buf'[MySlot].dirty
         /\ UseWrite => /\ buf'[MySlot].dirty = buf[MySlot].dirty
                        /\ buf'[MySlot].content =
                             [buf[MySlot].content EXCEPT ![req.word] = req.val]
<1>1. /\ MySlot \in Slot /\ req.sector \in Sector /\ req.word \in Word
      /\ req.op = "write" => req.val \in Val
  BY RequestType
<1>2. buf \in [Slot -> SectorBufRec] /\ buf[MySlot] \in SectorBufRec
  BY <1>1 DEF TypeOK
<1>3. CASE Filled
  BY <1>1, <1>2, <1>3 DEF Filled, Clean, UseWrite, MarkDirty, SectorBufRec
<1>4. CASE Clean
  BY <1>1, <1>2, <1>4 DEF Filled, Clean, UseWrite, MarkDirty, SectorBufRec
<1>5. CASE MarkDirty
  BY <1>1, <1>2, <1>5 DEF Filled, Clean, UseWrite, MarkDirty, SectorBufRec
<1>6. CASE UseWrite
  <2>1. ~ Filled /\ ~ Clean /\ ~ MarkDirty
    BY <1>6 DEF Filled, Clean, UseWrite, MarkDirty
  <2>2. Put(MySlot, req.word, req.val) /\ req.val \in Val
    BY <1>1, <1>6 DEF UseWrite, Put
  <2>3. IsPut(MySlot, req.word, req.val)
    BY <1>1, <2>2, ContentType
  <2> QED
    BY <1>1, <2>1, <2>3 DEF IsPut
<1> QED
  BY <1>3, <1>4, <1>5, <1>6

\* The handler's step after a write back.
LEMMA WrittenType ==
  ASSUME TypeOK, wb \in Slot, Written
  PROVE  /\ buf' \in [Slot -> SectorBufRec]
         /\ \A b \in Slot : /\ b # wb => buf'[b] = buf[b]
                            /\ buf'[b].used = buf[b].used
                            /\ buf'[b].sector = buf[b].sector
                            /\ buf'[b].content = buf[b].content
         /\ ~ buf'[wb].dirty
         /\ wb' \in 0 .. NR_SEC_BUF
<1>1. /\ buf' = [buf EXCEPT ![wb].dirty = FALSE] /\ wb' = wb + 1
      /\ buf \in [Slot -> SectorBufRec] /\ wb \in Slot
  BY DEF Written, TypeOK
<1>2. wb' \in 0 .. NR_SEC_BUF
  BY <1>1, BufAssumption DEF Slot
<1> QED
  BY <1>1, <1>2 DEF SectorBufRec

-----------------------------------------------------------------------------
(* Base: types, places and the device, wherever the ticks come.            *)

LEMMA InitBase == Init => Base
<1> SUFFICES ASSUME Init PROVE Base
  OBVIOUS
<1>1. 0 \in Sector /\ 0 \in Slot /\ 0 \in 0 .. WordsPerSector
      /\ 0 \in 0 .. HZ /\ 0 \in 0 .. NR_SEC_BUF /\ 0 < HZ
      /\ 0 \in 0 .. NrSector * WordsPerSector
      /\ 0 * WordsPerSector + 0 = 0
  <2>1. NrSector * WordsPerSector \in Nat
    BY DeviceAssumption
  <2> QED
    BY <2>1, DeviceAssumption, BufAssumption DEF Sector, Slot
<1>2. PICK v \in Val :
        /\ buf = [b \in Slot |-> [sector |-> 0, used |-> FALSE, dirty |-> FALSE,
                                  content |-> [w \in Word |-> v]]]
        /\ out = v
  BY DEF Init
<1>3. DevTypeOK
  BY <1>1 DEF Init, DevInit, DevTypeOK
<1>4. buf \in [Slot -> SectorBufRec]
  BY <1>1, <1>2 DEF SectorBufRec
<1>5. xfer \in [Ctx -> Transfer]
  BY NoTransferType DEF Init
<1>6. TypeOK
  BY <1>1, <1>2, <1>3, <1>4, <1>5 DEF Init, TypeOK
<1>7. pc["main"] = "idle" /\ pc["timer"] = "idle" /\ req = None /\ counter = 0
  BY DEF Init, Ctx
<1>8. Places /\ Purpose
  BY <1>1, <1>7 DEF Places, Purpose, Busy, Ctx
<1>9. Device
  <2>1. disk_pos = 0 /\ byte_cnt = 0 /\ status = "ready"
    BY DEF Init, DevInit
  <2>2. disk_pos = 0 * WordsPerSector + byte_cnt
    BY <1>1, <2>1
  <2> QED
    BY <1>1, <1>7, <2>1, <2>2 DEF Device, Writing
<1> QED
  BY <1>6, <1>8, <1>9 DEF Base

\* A step that leaves the device and the transfers of words alone.
LEMMA DeviceKept ==
  ASSUME Device, UNCHANGED <<status, disk_pos, byte_cnt, ide_write>>,
         \A c \in Ctx : /\ pc'[c] = "data" <=> pc[c] = "data"
                        /\ pc[c] = "data" => xfer'[c] = xfer[c],
         Writing("main") => pc'["timer"] \in {"idle", "scan", "wait"}
  PROVE  Device'
<1>1. "main" \in Ctx /\ "timer" \in Ctx
  BY DEF Ctx
<1>2. \A c \in Ctx : Writing(c)' <=> Writing(c)
  BY DEF Writing
<1>3. (\E s \in Sector : disk_pos = s * WordsPerSector + byte_cnt)'
  BY DEF Device
<1>4. (status = "busy" => \E c \in Ctx : Writing(c))'
  BY <1>2 DEF Device
<1>5. (Writing("main") => /\ status = "busy" /\ ide_write /\ byte_cnt = xfer["main"].i
                          /\ pc["timer"] \in {"idle", "scan", "wait"})'
  <2>1. Writing("main")' => Writing("main") /\ xfer'["main"] = xfer["main"]
    BY <1>1, <1>2 DEF Writing
  <2> QED
    BY <2>1 DEF Device
<1>6. (pc["main"] = "data" /\ xfer["main"].dir = "read" =>
         ide_write \/ byte_cnt = xfer["main"].i)'
  BY <1>1 DEF Device
<1>7. (pc["timer"] = "data" => ide_write /\ byte_cnt = xfer["timer"].i)'
  BY <1>1 DEF Device
<1> QED
  BY <1>3, <1>4, <1>5, <1>6, <1>7 DEF Device

\* The steps of main outside disk_do_read and disk_do_write.
LEMMA MainDevice ==
  ASSUME Base, pc["timer"] = "idle", pc'["timer"] = "idle",
         pc["main"] # "data", pc'["main"] # "data", UNCHANGED devVars
  PROVE  Device'
<1>1. \A c \in Ctx : pc'[c] # "data" /\ pc[c] # "data"
  BY DEF Ctx
<1> QED
  BY <1>1, DeviceKept DEF Base, devVars

LEMMA CallBase ==
  ASSUME Base, disturbed' \in BOOLEAN, pc["timer"] = "idle",
         pc["main"] \in {"fetch", "evicted"},
         NEW dir \in {"read", "write"}, NEW s \in Sector,
         Call("main", dir, MySlot, s), dir = "read" => s = req.sector,
         UNCHANGED <<devVars, buf, req, out, counter, wb>>
  PROVE  Base'
<1>1. TypeOK /\ req # None /\ "main" \in Ctx /\ "timer" \in Ctx
  BY DEF Base, Places, Ctx
<1>2. MySlot \in Slot /\ MySlot' = MySlot
  BY <1>1, RequestType DEF MySlot
<1>3. /\ xfer' \in [Ctx -> Transfer]
      /\ xfer'["main"] = [dir |-> dir, slot |-> MySlot, sector |-> s, i |-> 0]
      /\ pc'["main"] = "wait" /\ pc'["timer"] = "idle"
  BY <1>1, <1>2, CallType
<1>4. TypeOK'
  BY <1>1, <1>3 DEF TypeOK, DevTypeOK, devVars, Call
<1>5. Places' /\ Purpose'
  BY <1>1, <1>2, <1>3 DEF Base, Places, Purpose, Busy, Ctx
<1>6. Device'
  BY <1>3, MainDevice
<1> QED
  BY <1>4, <1>5, <1>6 DEF Base

LEMMA MainBase ==
  ASSUME Base, disturbed' \in BOOLEAN, pc["timer"] = "idle",
         \/ \E r \in Calls : Begin(r)
         \/ BufFetch \/ Evicted \/ Filled \/ Clean \/ UseRead \/ UseWrite \/ MarkDirty
  PROVE  Base'
<1>1. TypeOK /\ "main" \in Ctx /\ "timer" \in Ctx
  BY DEF Base, Ctx
<1>2. ASSUME NEW label \in {"idle", "fetch", "clean", "use", "mark"},
             Goto("main", label), pc["main"] \in {"idle", "fetch", "filled", "clean", "use", "mark"},
             UNCHANGED <<devVars, xfer, counter, wb>>,
             req' \in Request \union {None}, out' \in Val, buf' \in [Slot -> SectorBufRec],
             label = "idle" <=> req' = None
      PROVE  Base'
  <2>1. pc'["main"] = label /\ pc'["timer"] = "idle"
    BY <1>1, <1>2, GotoType
  <2>2. TypeOK'
    BY <1>1, <1>2 DEF TypeOK, DevTypeOK, devVars, Goto
  <2>3. Places' /\ Purpose'
    BY <1>1, <1>2, <2>1 DEF Base, Places, Purpose, Busy, Ctx
  <2>4. Device'
    BY <1>2, <2>1, MainDevice
  <2> QED
    BY <2>2, <2>3, <2>4 DEF Base
<1>3. out \in Val /\ buf \in [Slot -> SectorBufRec] /\ req \in Request \union {None}
  BY <1>1 DEF TypeOK
<1>4. CASE \E r \in Calls : Begin(r)
  BY <1>2, <1>3, <1>4, CallsAssumption DEF Begin
<1>5. pc["main"] # "idle" => req # None
  BY DEF Base, Places
<1>6. CASE BufFetch
  <2>1. req # None /\ pc["main"] = "fetch"
    BY <1>5, <1>6 DEF BufFetch
  <2>2. MySlot \in Slot /\ req.sector \in Sector
    BY <1>1, <2>1, RequestType
  <2>3. buf[MySlot].sector \in Sector
    BY <1>1, <2>2, BufType
  <2>4. CASE Goto("main", "use") /\ UNCHANGED xfer
    BY <1>2, <1>3, <1>6, <2>1, <2>4 DEF BufFetch
  <2>5. CASE Call("main", "write", MySlot, buf[MySlot].sector)
    BY <1>6, <2>1, <2>3, <2>5, CallBase DEF BufFetch
  <2>6. CASE Call("main", "read", MySlot, req.sector)
    BY <1>6, <2>1, <2>2, <2>6, CallBase DEF BufFetch
  <2> QED
    BY <1>6, <2>4, <2>5, <2>6 DEF BufFetch
<1>7. CASE Evicted
  <2>1. req # None /\ pc["main"] = "evicted"
    BY <1>5, <1>7 DEF Evicted
  <2>2. req.sector \in Sector
    BY <1>1, <2>1, RequestType
  <2> QED
    BY <1>7, <2>1, <2>2, CallBase DEF Evicted
<1>8. CASE Filled \/ Clean \/ UseWrite \/ MarkDirty
  <2>1. /\ pc["main"] \in {"filled", "clean", "use", "mark"} /\ req # None
        /\ UNCHANGED <<devVars, xfer, out, counter, wb>>
    BY <1>5, <1>8 DEF Filled, Clean, UseWrite, MarkDirty
  <2>2. \/ Goto("main", "clean") /\ req' = req
        \/ Goto("main", "use") /\ req' = req
        \/ Goto("main", "mark") /\ req' = req
        \/ Goto("main", "idle") /\ req' = None
    BY <1>8 DEF Filled, Clean, UseWrite, MarkDirty
  <2>3. buf' \in [Slot -> SectorBufRec]
    BY <1>1, <1>8, <2>1, FieldType
  <2> QED
    BY <1>2, <1>3, <2>1, <2>2, <2>3
<1>9. CASE UseRead
  <2>1. /\ pc["main"] = "use" /\ req # None /\ req' = None /\ Goto("main", "idle")
        /\ out' = buf[MySlot].content[req.word]
        /\ UNCHANGED <<devVars, buf, xfer, counter, wb>>
    BY <1>5, <1>9 DEF UseRead
  <2>2. MySlot \in Slot /\ req.word \in Word
    BY <1>1, <2>1, RequestType
  <2>3. out' \in Val
    BY <1>1, <2>1, <2>2, BufType
  <2> QED
    BY <1>2, <1>3, <2>1, <2>3
<1> QED
  BY <1>4, <1>6, <1>7, <1>8, <1>9

\* The steps of the handler outside disk_do_write.
LEMMA TickBase ==
  ASSUME Base, Tick, disturbed' \in BOOLEAN
  PROVE  Base'
<1>1. /\ pc["timer"] = "idle" /\ counter < HZ
      /\ counter' = counter + 1 /\ counter' \in 0 .. HZ
      /\ UNCHANGED <<devVars, buf, xfer, req, out>>
      /\ TypeOK /\ "main" \in Ctx /\ "timer" \in Ctx
  BY BufAssumption DEF Tick, Base, Places, TypeOK, Ctx
<1>2. /\ pc'["main"] = pc["main"] /\ pc'["timer"] \in {"idle", "scan"}
      /\ pc'["timer"] = "idle" => counter' < HZ
      /\ pc' = [pc EXCEPT !["timer"] = pc'["timer"]]
      /\ wb' \in 0 .. NR_SEC_BUF
  <2>1. CASE counter' = HZ
    BY <1>1, <2>1, BufAssumption DEF Tick, Goto, TypeOK
  <2>2. CASE counter' # HZ
    BY <1>1, <2>2, BufAssumption DEF Tick, TypeOK
  <2> QED
    BY <2>1, <2>2
<1>3. TypeOK'
  BY <1>1, <1>2 DEF TypeOK, DevTypeOK, devVars
<1>4. Places' /\ Purpose'
  BY <1>1, <1>2 DEF Base, Places, Purpose, Busy, MySlot, Ctx
<1>5. Device'
  BY <1>1, <1>2, DeviceKept DEF Base, devVars, Ctx
<1> QED
  BY <1>3, <1>4, <1>5 DEF Base

LEMMA ScanBase ==
  ASSUME Base, Scan, disturbed' \in BOOLEAN
  PROVE  Base'
<1>1. /\ pc["timer"] = "scan" /\ UNCHANGED <<devVars, buf, req, out>>
      /\ TypeOK /\ "main" \in Ctx /\ "timer" \in Ctx
  BY DEF Scan, Base, Ctx
<1>2. ASSUME NEW label \in {"idle", "wait", "scan"}, pc'["timer"] = label,
             pc' = [pc EXCEPT !["timer"] = label],
             xfer' \in [Ctx -> Transfer], xfer'["main"] = xfer["main"],
             label = "wait" => /\ xfer'["timer"].slot = wb /\ xfer'["timer"].dir = "write"
                               /\ xfer'["timer"].i = 0 /\ wb \in Slot /\ wb' = wb,
             counter' \in 0 .. HZ, label = "idle" => counter' < HZ,
             wb' \in 0 .. NR_SEC_BUF
      PROVE  Base'
  <2>1. pc'["main"] = pc["main"]
    BY <1>1, <1>2
  <2>2. TypeOK'
    BY <1>1, <1>2 DEF TypeOK, DevTypeOK, devVars
  <2>3. Places' /\ Purpose'
    BY <1>1, <1>2, <2>1 DEF Base, Places, Purpose, Busy, MySlot, Ctx
  <2>4. Device'
    BY <1>1, <1>2, <2>1, DeviceKept DEF Base, devVars, Ctx
  <2> QED
    BY <2>2, <2>3, <2>4 DEF Base
<1>3. CASE ScanDone /\ Goto("timer", "idle") /\ counter' = 0 /\ UNCHANGED <<xfer, wb>>
  <2>1. /\ 0 < HZ /\ 0 \in 0 .. HZ /\ wb \in 0 .. NR_SEC_BUF /\ xfer \in [Ctx -> Transfer]
        /\ pc' = [pc EXCEPT !["timer"] = "idle"] /\ pc'["timer"] = "idle"
    BY <1>1, <1>3, BufAssumption DEF Goto, TypeOK
  <2> QED
    BY <1>2, <1>3, <2>1
<1>4. CASE /\ ~ ScanDone /\ buf[wb].dirty
           /\ Call("timer", "write", wb, buf[wb].sector)
           /\ UNCHANGED <<counter, wb>>
  <2>1. wb \in Slot /\ wb \in 0 .. NR_SEC_BUF /\ counter \in 0 .. HZ
    BY <1>1, <1>4, BufAssumption DEF ScanDone, Slot, TypeOK
  <2>2. buf[wb].sector \in Sector
    BY <1>1, <2>1, BufType
  <2>3. /\ xfer' \in [Ctx -> Transfer] /\ xfer'["main"] = xfer["main"]
        /\ xfer'["timer"] = [dir |-> "write", slot |-> wb, sector |-> buf[wb].sector, i |-> 0]
        /\ pc'["timer"] = "wait" /\ pc' = [pc EXCEPT !["timer"] = "wait"]
    BY <1>1, <1>4, <2>1, <2>2, CallType DEF Call
  <2> QED
    BY <1>2, <1>4, <2>1, <2>3
<1>5. CASE ~ ScanDone /\ wb' = wb + 1 /\ UNCHANGED <<pc, xfer, counter>>
  <2>1. /\ wb' \in 0 .. NR_SEC_BUF /\ xfer \in [Ctx -> Transfer] /\ counter \in 0 .. HZ
        /\ pc = [pc EXCEPT !["timer"] = "scan"]
    BY <1>1, <1>5, BufAssumption DEF ScanDone, TypeOK
  <2> QED
    BY <1>1, <1>2, <1>5, <2>1
<1> QED
  BY <1>3, <1>4, <1>5 DEF Scan, CounterAfterScan

LEMMA WrittenBase ==
  ASSUME Base, Written, disturbed' \in BOOLEAN
  PROVE  Base'
<1>1. /\ pc["timer"] = "written" /\ Goto("timer", "scan") /\ wb \in Slot
      /\ UNCHANGED <<devVars, xfer, req, out, counter>>
      /\ TypeOK /\ "main" \in Ctx /\ "timer" \in Ctx
  BY DEF Written, Base, Places, Ctx
<1>2. pc'["timer"] = "scan" /\ pc'["main"] = pc["main"]
  BY <1>1, GotoType
<1>3. buf' \in [Slot -> SectorBufRec] /\ wb' \in 0 .. NR_SEC_BUF
  BY <1>1, WrittenType
<1>4. TypeOK'
  BY <1>1, <1>3 DEF TypeOK, DevTypeOK, devVars, Goto
<1>5. Places' /\ Purpose'
  BY <1>1, <1>2 DEF Base, Places, Purpose, Busy, MySlot, Ctx
<1>6. Device'
  BY <1>1, <1>2, DeviceKept DEF Base, devVars, Ctx
<1> QED
  BY <1>4, <1>5, <1>6 DEF Base

\* The steps of disk_do_read and disk_do_write, in either context.

\* main does not run while the handler does.
Turn(c) == c = "main" => pc["timer"] = "idle"

LEMMA GotoBase ==
  ASSUME Base, NEW c \in Ctx, Turn(c), Busy(c),
         NEW label \in {"ports", "command", "data"}, Goto(c, label), pc[c] # "data",
         UNCHANGED <<buf, xfer, req, out, counter, wb>>,
         DevTypeOK', disturbed' \in BOOLEAN
  PROVE  /\ TypeOK' /\ Places' /\ Purpose'
         /\ pc'[c] = label /\ \A d \in Ctx : d # c => pc'[d] = pc[d]
<1>1. /\ TypeOK /\ pc' = [pc EXCEPT ![c] = label] /\ "main" \in Ctx /\ "timer" \in Ctx
  BY DEF Base, Goto, Ctx
<1>2. pc'[c] = label /\ \A d \in Ctx : d # c => pc'[d] = pc[d]
  BY <1>1, GotoType
<1>3. TypeOK'
  BY <1>1 DEF TypeOK
<1>4. CASE c = "main"
  <2>1. pc'["main"] = label /\ pc'["timer"] = "idle" /\ pc["timer"] = "idle"
    BY <1>1, <1>2, <1>4 DEF Turn
  <2>2. Places'
    BY <1>4, <2>1 DEF Base, Places, Busy
  <2>3. Purpose'
    BY <1>4, <2>1 DEF Base, Purpose, Busy, MySlot, Ctx
  <2> QED
    BY <1>2, <1>3, <2>2, <2>3
<1>5. CASE c = "timer"
  <2>1. pc'["timer"] = label /\ pc'["main"] = pc["main"]
    BY <1>1, <1>2, <1>5
  <2>2. Places'
    BY <1>5, <2>1 DEF Base, Places, Busy
  <2>3. Purpose'
    BY <1>5, <2>1 DEF Base, Purpose, Busy, MySlot, Ctx
  <2> QED
    BY <1>2, <1>3, <2>2, <2>3
<1> QED
  BY <1>4, <1>5 DEF Ctx

\* Before the command.
LEMMA PrepareBase ==
  ASSUME Base, NEW c \in Ctx, Turn(c), WaitDisk(c) \/ IdePrepare(c),
         disturbed' \in BOOLEAN
  PROVE  Base'
<1>1. /\ Busy(c) /\ pc[c] # "data" /\ TypeOK /\ "main" \in Ctx /\ "timer" \in Ctx
      /\ UNCHANGED <<buf, xfer, req, out, counter, wb>>
      /\ UNCHANGED <<disk, status, disk_pos, byte_cnt, ide_write, up>>
  BY DEF WaitDisk, IdePrepare, WriteSectorPorts, devVars, Busy, Base, Ctx
<1>2. PICK label \in {"ports", "command"} : Goto(c, label)
  BY DEF WaitDisk, IdePrepare
<1>3. DevTypeOK'
  <2>1. port_sector' \in Sector
    BY <1>1, XferType DEF WaitDisk, IdePrepare, WriteSectorPorts, devVars, TypeOK, DevTypeOK
  <2> QED
    BY <1>1, <2>1 DEF TypeOK, DevTypeOK
<1>4. /\ TypeOK' /\ Places' /\ Purpose'
      /\ pc'[c] = label /\ \A d \in Ctx : d # c => pc'[d] = pc[d]
  BY <1>1, <1>2, <1>3, GotoBase
\* The handler does not pass waitdisk while main writes.
<1>5. Writing("main") => pc'["timer"] \in {"idle", "scan", "wait"}
  <2> SUFFICES ASSUME Writing("main") PROVE pc'["timer"] \in {"idle", "scan", "wait"}
    OBVIOUS
  <2>1. pc["timer"] \in {"idle", "scan", "wait"} /\ status = "busy"
    BY DEF Base, Device
  <2>2. c # "timer"
    BY <2>1 DEF WaitDisk, IdePrepare
  <2> QED
    BY <1>1, <1>4, <2>1, <2>2
<1>6. Device'
  BY <1>1, <1>4, <1>5, DeviceKept DEF Base
<1> QED
  BY <1>4, <1>6 DEF Base

LEMMA IssueBase ==
  ASSUME Base, NEW c \in Ctx, Turn(c), Issue(c), disturbed' \in BOOLEAN
  PROVE  Base'
<1>1. /\ pc[c] = "command" /\ Goto(c, "data") /\ Busy(c)
      /\ UNCHANGED <<buf, xfer, req, out, counter, wb>>
      /\ disk_pos' = port_sector * WordsPerSector /\ byte_cnt' = 0
      /\ ide_write' = (xfer[c].dir = "write")
      /\ status' = IF xfer[c].dir = "read" THEN "ready" ELSE "busy"
      /\ UNCHANGED <<disk, port_sector, up>>
      /\ TypeOK /\ "main" \in Ctx /\ "timer" \in Ctx
  BY DEF Issue, Busy, WriteCommand, SeekTo, IsWrite, Base, Ctx
<1>2. /\ port_sector \in Sector /\ 0 \in 0 .. WordsPerSector /\ 0 < WordsPerSector
      /\ port_sector * WordsPerSector \in Nat
      /\ port_sector * WordsPerSector = port_sector * WordsPerSector + 0
      /\ port_sector * WordsPerSector + 0 \in 0 .. NrSector * WordsPerSector
  <2>1. port_sector \in Sector
    BY <1>1 DEF TypeOK, DevTypeOK
  <2>2. 0 \in 0 .. WordsPerSector /\ 0 < WordsPerSector
    BY DeviceAssumption
  <2>3. port_sector * WordsPerSector \in Nat
    BY <2>1, Position
  <2> QED
    BY <2>1, <2>2, <2>3, Position
<1>3. DevTypeOK'
  <2>1. disk_pos' \in 0 .. NrSector * WordsPerSector /\ byte_cnt' \in 0 .. WordsPerSector
    BY <1>1, <1>2
  <2>2. ide_write' \in BOOLEAN /\ status' \in {"ready", "busy"}
    BY <1>1
  <2> QED
    BY <1>1, <2>1, <2>2 DEF TypeOK, DevTypeOK
<1>4. /\ TypeOK' /\ Places' /\ Purpose'
      /\ pc'[c] = "data" /\ \A d \in Ctx : d # c => pc'[d] = pc[d]
  BY <1>1, <1>3, GotoBase
<1>5. xfer[c].i = 0 /\ xfer[c].dir \in {"read", "write"}
  BY <1>1, XferType DEF Base, Purpose
<1>6. (\E s \in Sector : disk_pos = s * WordsPerSector + byte_cnt)'
  <2>1. disk_pos' = port_sector * WordsPerSector + byte_cnt'
    BY <1>1, <1>2
  <2> QED
    BY <1>2, <2>1
<1>7. (status = "busy" => \E d \in Ctx : Writing(d))'
  BY <1>1, <1>2, <1>4, <1>5 DEF Writing
<1>8. CASE c = "main"
  <2>1. pc["timer"] = "idle" /\ pc'["timer"] = "idle"
    BY <1>1, <1>4, <1>8 DEF Turn
  <2> QED
    BY <1>1, <1>4, <1>5, <1>6, <1>7, <1>8, <2>1 DEF Base, Device, Writing
<1>9. CASE c = "timer"
  <2>1. xfer["timer"].dir = "write"
    BY <1>1, <1>9 DEF Base, Purpose
  <2>2. ide_write' /\ pc'["main"] = pc["main"]
    BY <1>1, <1>4, <1>9, <2>1
  <2>3. ~ Writing("main")
    BY <1>1, <1>9 DEF Base, Device
  <2>4. ~ Writing("main")'
    BY <1>1, <2>2, <2>3 DEF Writing
  <2> QED
    BY <1>1, <1>4, <1>5, <1>6, <1>7, <1>9, <2>2, <2>4 DEF Base, Device
<1> QED
  BY <1>8, <1>9 DEF Ctx

\* Where the next word is, if the device is at the word of the loop.
LEMMA NextWord ==
  ASSUME Base, NEW c \in Ctx, xfer[c].i < WordsPerSector, byte_cnt = xfer[c].i
  PROVE  /\ xfer[c].i \in Word /\ xfer[c].i + 1 \in 0 .. WordsPerSector
         /\ byte_cnt <= WordsPerSector
         /\ disk_pos \in 0 .. NrSector * WordsPerSector - 1
         /\ disk_pos + 1 \in 0 .. NrSector * WordsPerSector
         /\ \E s \in Sector : disk_pos + 1 = s * WordsPerSector + (byte_cnt + 1)
<1>1. xfer[c].i \in Nat /\ WordsPerSector \in Nat
  BY XferType, DeviceAssumption DEF Base
<1>2. xfer[c].i \in Word /\ xfer[c].i + 1 \in 0 .. WordsPerSector /\ byte_cnt <= WordsPerSector
  BY <1>1 DEF Word
<1>3. PICK s \in Sector : disk_pos = s * WordsPerSector + byte_cnt
  BY DEF Base, Device
<1>4. /\ s * WordsPerSector \in Nat
      /\ disk_pos \in 0 .. NrSector * WordsPerSector - 1
      /\ s * WordsPerSector + (xfer[c].i + 1) \in 0 .. NrSector * WordsPerSector
  BY <1>2, <1>3, Position
<1>5. disk_pos + 1 = s * WordsPerSector + (byte_cnt + 1)
  BY <1>1, <1>3, <1>4
<1> QED
  BY <1>2, <1>4, <1>5

\* The step to the next word, for either direction.
LEMMA WordBase ==
  ASSUME Base, NEW c \in Ctx, pc[c] = "data", xfer[c].i < WordsPerSector,
         UNCHANGED <<pc, req, out, counter, wb>>,
         xfer' = [xfer EXCEPT ![c].i = @ + 1], buf' \in [Slot -> SectorBufRec],
         DevTypeOK', disturbed' \in BOOLEAN
  PROVE  /\ TypeOK' /\ Places' /\ Purpose'
         /\ xfer' \in [Ctx -> Transfer] /\ xfer'[c].i = xfer[c].i + 1
         /\ \A d \in Ctx : /\ xfer'[d].dir = xfer[d].dir /\ xfer'[d].slot = xfer[d].slot
                           /\ xfer'[d].sector = xfer[d].sector
                           /\ d # c => xfer'[d] = xfer[d]
<1>1. TypeOK /\ xfer[c].i + 1 \in 0 .. WordsPerSector /\ "main" \in Ctx /\ "timer" \in Ctx
  BY XferType, DeviceAssumption DEF Base, Ctx
<1>2. /\ xfer' \in [Ctx -> Transfer] /\ xfer'[c].i = xfer[c].i + 1
      /\ \A d \in Ctx : /\ xfer'[d].dir = xfer[d].dir /\ xfer'[d].slot = xfer[d].slot
                        /\ xfer'[d].sector = xfer[d].sector
                        /\ d # c => xfer'[d] = xfer[d]
  BY <1>1 DEF TypeOK, Transfer
<1>3. TypeOK'
  BY <1>1, <1>2 DEF TypeOK
<1>4. Places' /\ Purpose'
  BY <1>1, <1>2 DEF Base, Places, Purpose, Busy, MySlot
<1> QED
  BY <1>2, <1>3, <1>4

\* A word read, or an assertion of the device that ends it.
LEMMA DataReadBase ==
  ASSUME Base, NEW c \in Ctx, Turn(c), DataRead(c), disturbed' \in BOOLEAN
  PROVE  Base'
<1>1. /\ pc[c] = "data" /\ xfer[c].dir = "read" /\ xfer[c].i < WordsPerSector
      /\ UNCHANGED <<pc, req, out, counter, wb>> /\ ReadData
      /\ xfer' = [xfer EXCEPT ![c].i = @ + 1]
      /\ buf' = [buf EXCEPT ![xfer[c].slot].content[xfer[c].i] =
                              IF up' THEN DataWord ELSE @]
      /\ TypeOK /\ "main" \in Ctx /\ "timer" \in Ctx
  BY DEF DataRead, Base, Ctx
<1>2. c = "main" /\ pc["timer"] = "idle" /\ ide_write \in BOOLEAN
  BY <1>1 DEF Base, Purpose, Busy, Turn, TypeOK, DevTypeOK, Ctx
<1>3. ide_write \/ byte_cnt = xfer["main"].i
  BY <1>1, <1>2 DEF Base, Device
<1>4. xfer["main"].i \in Word /\ xfer["main"].slot \in Slot
  BY <1>1, <1>2, XferType, DeviceAssumption DEF Word
<1>5. ~ Writing("main")
  BY <1>1, <1>2 DEF Writing
<1>6. ASSUME up' => disk_pos \in 0 .. NrSector * WordsPerSector - 1
      PROVE  buf' \in [Slot -> SectorBufRec]
  <2> DEFINE word == IF up' THEN DataWord ELSE buf[xfer[c].slot].content[xfer[c].i]
  <2>1. buf[xfer[c].slot].content \in [Word -> Val]
    BY <1>1, <1>2, <1>4, BufType
  <2>2. word \in Val
    BY <1>1, <1>2, <1>4, <1>6, <2>1 DEF DataWord, TypeOK, DevTypeOK
  <2>3. Put(xfer[c].slot, xfer[c].i, word)
    BY <1>1 DEF Put
  <2>4. xfer[c].slot \in Slot /\ xfer[c].i \in Word /\ TypeOK
    BY <1>1, <1>2, <1>4
  <2> HIDE DEF word
  <2>5. IsPut(xfer[c].slot, xfer[c].i, word)
    BY <2>2, <2>3, <2>4, ContentType
  <2> QED
    BY <2>5 DEF IsPut
<1>7. CASE ide_write
  <2>1. /\ up' = FALSE
        /\ UNCHANGED <<disk, status, port_sector, disk_pos, byte_cnt, ide_write>>
    BY <1>1, <1>7 DEF ReadData, Abort
  <2>2. DevTypeOK'
    BY <1>1, <2>1 DEF TypeOK, DevTypeOK
  <2>3. buf' \in [Slot -> SectorBufRec]
    BY <1>6, <2>1
  <2>4. /\ TypeOK' /\ Places' /\ Purpose' /\ xfer'["main"].dir = "read"
        /\ xfer'["timer"] = xfer["timer"]
    BY <1>1, <1>2, <2>2, <2>3, WordBase
  <2>5. ~ Writing("main")' /\ (Writing("timer")' <=> Writing("timer"))
    BY <1>1, <2>4 DEF Writing
  <2>6. (\E s \in Sector : disk_pos = s * WordsPerSector + byte_cnt)'
    BY <2>1 DEF Base, Device
  <2>7. (status = "busy" => \E d \in Ctx : Writing(d))'
    BY <1>5, <2>1, <2>5 DEF Base, Device, Ctx
  <2>8. Device'
    BY <1>1, <1>2, <1>7, <2>1, <2>5, <2>6, <2>7 DEF Device
  <2> QED
    BY <2>4, <2>8 DEF Base
<1>8. CASE ~ ide_write
  <2>1. byte_cnt = xfer["main"].i
    BY <1>3, <1>8
  <2>2. /\ byte_cnt <= WordsPerSector /\ xfer["main"].i + 1 \in 0 .. WordsPerSector
        /\ disk_pos \in 0 .. NrSector * WordsPerSector - 1
        /\ disk_pos + 1 \in 0 .. NrSector * WordsPerSector
        /\ \E s \in Sector : disk_pos + 1 = s * WordsPerSector + (byte_cnt + 1)
    BY <1>1, <1>2, <2>1, NextWord
  <2>3. /\ disk_pos' = disk_pos + 1 /\ byte_cnt' = byte_cnt + 1
        /\ status' \in {"ready", status} /\ UNCHANGED <<disk, port_sector, ide_write, up>>
    BY <1>1, <1>8, <2>2 DEF ReadData, StatusAfterWord
  <2>4. DevTypeOK'
    BY <1>1, <2>1, <2>2, <2>3 DEF TypeOK, DevTypeOK
  <2>5. buf' \in [Slot -> SectorBufRec]
    BY <1>6, <2>2
  <2>6. /\ TypeOK' /\ Places' /\ Purpose' /\ xfer'["main"].dir = "read"
        /\ xfer'["main"].i = xfer["main"].i + 1 /\ xfer'["timer"] = xfer["timer"]
    BY <1>1, <1>2, <2>4, <2>5, WordBase
  <2>7. ~ Writing("main")' /\ (Writing("timer")' <=> Writing("timer"))
    BY <1>1, <2>6 DEF Writing
  <2>8. (\E s \in Sector : disk_pos = s * WordsPerSector + byte_cnt)'
    BY <2>2, <2>3
  <2>9. (status = "busy" => \E d \in Ctx : Writing(d))'
    BY <1>5, <2>3, <2>7 DEF Base, Device, Ctx
  <2>10. Device'
    BY <1>1, <1>2, <2>1, <2>3, <2>6, <2>7, <2>8, <2>9 DEF Device
  <2> QED
    BY <2>6, <2>10 DEF Base
<1> QED
  BY <1>2, <1>7, <1>8

\* A word written never trips the device: nothing comes between the command
\* and the words of a write.
LEMMA DataWriteDevice ==
  ASSUME Base, NEW c \in Ctx, DataWrite(c)
  PROVE  /\ pc[c] = "data" /\ xfer[c].dir = "write" /\ xfer[c].i < WordsPerSector
         /\ ide_write /\ byte_cnt = xfer[c].i
         /\ disk' = [disk EXCEPT ![disk_pos] = buf[xfer[c].slot].content[xfer[c].i]]
         /\ disk_pos' = disk_pos + 1 /\ byte_cnt' = byte_cnt + 1
         /\ status' = StatusAfterWord /\ UNCHANGED <<port_sector, ide_write, up>>
         /\ buf[xfer[c].slot].content[xfer[c].i] \in Val
         /\ DevTypeOK'
<1>1. /\ pc[c] = "data" /\ xfer[c].dir = "write" /\ xfer[c].i < WordsPerSector
      /\ WriteData(buf[xfer[c].slot].content[xfer[c].i]) /\ TypeOK
  BY DEF DataWrite, Base
<1>2. ide_write /\ byte_cnt = xfer[c].i
  BY <1>1 DEF Base, Device, Writing, Ctx
<1>3. /\ byte_cnt <= WordsPerSector /\ xfer[c].i \in Word
      /\ xfer[c].i + 1 \in 0 .. WordsPerSector
      /\ disk_pos \in 0 .. NrSector * WordsPerSector - 1
      /\ disk_pos + 1 \in 0 .. NrSector * WordsPerSector
  BY <1>1, <1>2, NextWord
<1>4. buf[xfer[c].slot].content \in [Word -> Val]
  BY <1>1, XferType, BufType
<1>5. /\ disk' = [disk EXCEPT ![disk_pos] = buf[xfer[c].slot].content[xfer[c].i]]
      /\ disk_pos' = disk_pos + 1 /\ byte_cnt' = byte_cnt + 1
      /\ status' = StatusAfterWord /\ UNCHANGED <<port_sector, ide_write, up>>
  BY <1>1, <1>2, <1>3 DEF WriteData
<1>6. DevTypeOK'
  BY <1>1, <1>2, <1>3, <1>4, <1>5 DEF TypeOK, DevTypeOK, StatusAfterWord
<1> QED
  BY <1>1, <1>2, <1>3, <1>4, <1>5, <1>6

LEMMA DataWriteBase ==
  ASSUME Base, NEW c \in Ctx, Turn(c), DataWrite(c), disturbed' \in BOOLEAN
  PROVE  Base'
<1>1. /\ UNCHANGED <<buf, pc, req, out, counter, wb>>
      /\ xfer' = [xfer EXCEPT ![c].i = @ + 1]
      /\ TypeOK /\ buf \in [Slot -> SectorBufRec] /\ "main" \in Ctx /\ "timer" \in Ctx
  BY DEF DataWrite, Base, TypeOK, Ctx
<1>2. /\ pc[c] = "data" /\ xfer[c].dir = "write" /\ xfer[c].i < WordsPerSector
      /\ ide_write' /\ byte_cnt = xfer[c].i
      /\ disk_pos' = disk_pos + 1 /\ byte_cnt' = byte_cnt + 1
      /\ status' = StatusAfterWord /\ DevTypeOK' /\ byte_cnt \in Nat
      /\ WordsPerSector \in Nat
  BY DataWriteDevice, XferType, DeviceAssumption DEF Base
<1>3. /\ TypeOK' /\ Places' /\ Purpose' /\ xfer'[c].i = xfer[c].i + 1
      /\ \A d \in Ctx : /\ xfer'[d].dir = xfer[d].dir
                        /\ d # c => xfer'[d] = xfer[d]
  BY <1>1, <1>2, WordBase
<1>4. (\E s \in Sector : disk_pos = s * WordsPerSector + byte_cnt)'
  BY <1>2, NextWord
<1>5. byte_cnt' = xfer'[c].i /\ xfer'[c].i <= WordsPerSector
  BY <1>2, <1>3
\* The last word makes the device ready.
<1>6. (status = "busy" => Writing(c))'
  BY <1>1, <1>2, <1>3, <1>5 DEF StatusAfterWord, Writing
<1>7. Writing(c) /\ (Writing(c)' => status' = status)
  BY <1>1, <1>2, <1>3 DEF StatusAfterWord, Writing
<1>8. CASE c = "main"
  <2>1. pc["timer"] = "idle" /\ status = "busy"
    BY <1>7, <1>8 DEF Turn, Base, Device
  <2> QED
    BY <1>1, <1>2, <1>3, <1>4, <1>5, <1>6, <1>7, <1>8, <2>1 DEF Base, Device
<1>9. CASE c = "timer"
  <2>1. ~ Writing("main") /\ ~ Writing("main")'
    BY <1>1, <1>2, <1>3, <1>9 DEF Base, Device, Writing
  <2> QED
    BY <1>1, <1>2, <1>3, <1>4, <1>5, <1>6, <1>9, <2>1 DEF Base, Device
<1> QED
  BY <1>8, <1>9 DEF Ctx

LEMMA ReturnBase ==
  ASSUME Base, NEW c \in Ctx, Turn(c), Return(c), disturbed' \in BOOLEAN
  PROVE  Base'
<1> DEFINE place == IF c = "timer" THEN "written"
                    ELSE IF xfer[c].dir = "write" THEN "evicted" ELSE "filled"
<1>1. /\ pc[c] = "data" /\ xfer[c].i = WordsPerSector
      /\ Goto(c, place) /\ pc' = [pc EXCEPT ![c] = place]
      /\ xfer' = [xfer EXCEPT ![c] = NoTransfer]
      /\ UNCHANGED <<devVars, buf, req, out, counter, wb>>
      /\ TypeOK /\ "main" \in Ctx /\ "timer" \in Ctx
  BY DEF Return, Goto, Base, Ctx
<1>2. /\ pc'[c] = place /\ place \in {"written", "evicted", "filled"}
      /\ \A d \in Ctx : d # c => pc'[d] = pc[d]
  BY <1>1, GotoType
<1>3. /\ xfer' \in [Ctx -> Transfer] /\ xfer'[c].dir = "read"
      /\ \A d \in Ctx : d # c => xfer'[d] = xfer[d]
  BY <1>1, NoTransferType DEF TypeOK
<1>4. TypeOK'
  BY <1>1, <1>2, <1>3 DEF TypeOK, DevTypeOK, devVars
<1>5. Places' /\ Purpose'
  <2>1. CASE c = "main"
    BY <1>1, <1>2, <1>3, <2>1 DEF Base, Places, Purpose, Busy, MySlot, Turn, Ctx
  <2>2. CASE c = "timer"
    BY <1>1, <1>2, <1>3, <2>2 DEF Base, Places, Purpose, Busy, MySlot, Ctx
  <2> QED
    BY <2>1, <2>2 DEF Ctx
<1>6. /\ ~ Writing(c) /\ ~ Writing(c)'
      /\ \A d \in Ctx : d # c => (Writing(d)' <=> Writing(d))
  <2>1. ~ WordsPerSector < WordsPerSector
    BY DeviceAssumption
  <2> QED
    BY <1>1, <1>2, <1>3, <2>1 DEF Writing
<1>7. UNCHANGED <<status, disk_pos, byte_cnt, ide_write>>
  BY <1>1 DEF devVars
<1>8. /\ (\E s \in Sector : disk_pos = s * WordsPerSector + byte_cnt)'
      /\ (status = "busy" => \E d \in Ctx : Writing(d))'
  BY <1>6, <1>7 DEF Base, Device
<1>9. CASE c = "main"
  <2>1. pc["timer"] = "idle" /\ pc'["timer"] = "idle" /\ pc'["main"] # "data"
    BY <1>1, <1>2, <1>9 DEF Turn
  <2> QED
    BY <1>4, <1>5, <1>6, <1>8, <1>9, <2>1 DEF Base, Device
<1>10. CASE c = "timer"
  <2>1. /\ pc'["timer"] # "data" /\ pc'["main"] = pc["main"] /\ xfer'["main"] = xfer["main"]
        /\ ~ Writing("main") /\ ~ Writing("main")'
    BY <1>1, <1>2, <1>3, <1>6, <1>10 DEF Base, Device
  <2> QED
    BY <1>1, <1>4, <1>5, <1>7, <1>8, <2>1 DEF Base, Device
<1> QED
  BY <1>9, <1>10 DEF Ctx

LEMMA NextBase == Base /\ [Next]_vars => Base'
<1> SUFFICES ASSUME Base, [Next]_vars PROVE Base'
  OBVIOUS
<1>1. CASE Next
  <2>1. disturbed' \in BOOLEAN
    BY <1>1 DEF Next, Base, TypeOK
  <2>2. ASSUME NEW c \in Ctx, Turn(c), DiskRoutine(c) PROVE Base'
    BY <2>1, <2>2, PrepareBase, IssueBase, DataReadBase, DataWriteBase, ReturnBase
       DEF DiskRoutine
  <2>3. CASE \E r \in Calls : Begin(r) /\ pc["timer"] = "idle"
    BY <2>1, <2>3, MainBase
  <2>4. CASE Main
    BY <2>1, <2>2, <2>4, MainBase DEF Main, Turn, Ctx
  <2>5. CASE Tick
    BY <2>1, <2>5, TickBase
  <2>6. CASE Handler
    BY <2>1, <2>2, <2>6, ScanBase, WrittenBase DEF Handler, Turn, Ctx
  <2> QED
    BY <1>1, <2>3, <2>4, <2>5, <2>6 DEF Next
<1>2. CASE UNCHANGED vars
  <2>1. UNCHANGED <<disk, status, port_sector, disk_pos, byte_cnt, ide_write, up,
                    buf, pc, xfer, req, out, counter, wb, disturbed>>
    BY <1>2 DEF vars, driverVars, devVars
  <2>2. TypeOK' /\ Places' /\ Purpose'
    BY <2>1 DEF Base, TypeOK, DevTypeOK, Places, Purpose, Busy, MySlot
  <2>3. Device'
    BY <2>1 DEF Base, Device, Writing
  <2> QED
    BY <2>2, <2>3 DEF Base
<1> QED
  BY <1>1, <1>2

-----------------------------------------------------------------------------
(* Calm: until a write back comes into a transfer.                         *)

LEMMA InitCalm == Init => Calm
<1> SUFFICES ASSUME Init PROVE Calm
  OBVIOUS
<1>1. pc["main"] = "idle" /\ pc["timer"] = "idle" /\ up
  BY DEF Init, DevInit, Ctx
<1>2. BuffersInPlace /\ CleanMatches
  BY DEF Init, BuffersInPlace, CleanMatches
<1>3. Apart /\ Settled /\ \A c \in Ctx : Outgoing(c) /\ Progress(c)
  BY <1>1 DEF Apart, Settled, Outgoing, Progress, Busy, Ctx
<1> QED
  BY <1>1, <1>2, <1>3 DEF Calm

\* While nobody transfers there is nothing to say of the transfers.
LEMMA AtRest ==
  ASSUME pc'["timer"] = "idle",
         pc'["main"] \in {"idle", "fetch", "evicted", "filled", "clean", "use", "mark"}
  PROVE  Apart' /\ \A c \in Ctx : Outgoing(c)' /\ Progress(c)'
BY DEF Apart, Outgoing, Progress, Busy, Ctx

LEMMA CurrentKept ==
  ASSUME NEW b, UNCHANGED disk, buf'[b].sector = buf[b].sector,
         buf'[b].content = buf[b].content
  PROVE  Current(b)' <=> Current(b)
BY DEF Current, OnDisk

\* The steps of main outside disk_do_read and disk_do_write.
LEMMA BeginCalm ==
  ASSUME Base, Calm, NEW r \in Calls, Begin(r), pc["timer"] = "idle"
  PROVE  Calm'
<1>1. /\ pc["main"] = "idle" /\ Goto("main", "fetch") /\ UNCHANGED <<devVars, buf, xfer>>
      /\ UNCHANGED <<disk, up>> /\ TypeOK /\ "main" \in Ctx /\ "timer" \in Ctx
  BY DEF Begin, devVars, Base, Ctx
<1>2. pc'["main"] = "fetch" /\ pc'["timer"] = "idle"
  BY <1>1, GotoType
<1>3. Apart' /\ \A c \in Ctx : Outgoing(c)' /\ Progress(c)'
  BY <1>2, AtRest
<1>4. BuffersInPlace' /\ Settled' /\ up'
  BY <1>1, <1>2 DEF Calm, BuffersInPlace, Settled
<1>5. CleanMatches'
  BY <1>1, <1>2 DEF Calm, CleanMatches, Refilling, OnDisk
<1> QED
  BY <1>3, <1>4, <1>5 DEF Calm

LEMMA CallCalm ==
  ASSUME Base, Calm, pc["timer"] = "idle", pc["main"] \in {"fetch", "evicted"},
         NEW dir \in {"read", "write"}, NEW s \in Sector,
         Call("main", dir, MySlot, s),
         dir = "write" => buf[MySlot].used /\ s = buf[MySlot].sector,
         dir = "read" /\ buf[MySlot].used => Current(MySlot),
         UNCHANGED <<devVars, buf, req>>
  PROVE  Calm'
<1>1. TypeOK /\ req # None /\ "main" \in Ctx /\ "timer" \in Ctx /\ UNCHANGED <<disk, up>>
  BY DEF Base, Places, devVars, Ctx
<1>2. MySlot \in Slot /\ MySlot' = MySlot
  BY <1>1, RequestType DEF MySlot
<1>3. /\ xfer'["main"] = [dir |-> dir, slot |-> MySlot, sector |-> s, i |-> 0]
      /\ pc'["main"] = "wait" /\ pc'["timer"] = "idle"
  BY <1>1, <1>2, CallType
<1>4. \A b \in Slot : Current(b)' <=> Current(b)
  BY <1>1, CurrentKept
<1>5. Apart' /\ \A c \in Ctx : Outgoing(c)' /\ Progress(c)'
  BY <1>3 DEF Apart, Outgoing, Progress, Busy, Ctx
<1>6. BuffersInPlace' /\ up'
  BY <1>1 DEF Calm, BuffersInPlace
<1>7. Settled'
  BY <1>2, <1>3, <1>4 DEF Settled
<1>8. CleanMatches'
  BY <1>1, <1>3 DEF Calm, CleanMatches, Refilling, OnDisk
<1> QED
  BY <1>5, <1>6, <1>7, <1>8 DEF Calm

LEMMA BufFetchCalm ==
  ASSUME Base, Calm, BufFetch, pc["timer"] = "idle"
  PROVE  Calm'
<1>1. /\ pc["main"] = "fetch" /\ UNCHANGED <<devVars, buf, req>> /\ UNCHANGED <<disk, up>>
      /\ TypeOK /\ req # None /\ "main" \in Ctx /\ "timer" \in Ctx
  BY DEF BufFetch, devVars, Base, Places, Ctx
<1>2. MySlot \in Slot /\ MySlot' = MySlot /\ req.sector \in Sector
  BY <1>1, RequestType DEF MySlot
<1>3. buf[MySlot].sector \in Sector
  BY <1>1, <1>2, BufType
<1>4. CASE BufHit(buf[MySlot]) /\ Goto("main", "use")
  <2>1. pc'["main"] = "use" /\ pc'["timer"] = "idle"
    BY <1>1, <1>4, GotoType
  <2>2. Apart' /\ \A c \in Ctx : Outgoing(c)' /\ Progress(c)'
    BY <2>1, AtRest
  <2>3. BuffersInPlace' /\ up'
    BY <1>1 DEF Calm, BuffersInPlace
  <2>4. Settled'
    BY <1>1, <1>2, <1>4, <2>1 DEF Settled, BufHit
  <2>5. CleanMatches'
    BY <1>1, <2>1 DEF Calm, CleanMatches, Refilling, OnDisk
  <2> QED
    BY <2>2, <2>3, <2>4, <2>5 DEF Calm
<1>5. CASE MustWriteBack(buf[MySlot]) /\ Call("main", "write", MySlot, buf[MySlot].sector)
  BY <1>1, <1>3, <1>5, CallCalm DEF MustWriteBack
<1>6. CASE ~ MustWriteBack(buf[MySlot]) /\ Call("main", "read", MySlot, req.sector)
  <2>1. buf[MySlot].used => Current(MySlot)
    BY <1>1, <1>2, <1>6 DEF MustWriteBack, Calm, CleanMatches, Refilling, Current
  <2> QED
    BY <1>1, <1>2, <1>6, <2>1, CallCalm
<1> QED
  BY <1>4, <1>5, <1>6 DEF BufFetch

LEMMA EvictedCalm ==
  ASSUME Base, Calm, Evicted, pc["timer"] = "idle"
  PROVE  Calm'
<1>1. /\ pc["main"] = "evicted" /\ Call("main", "read", MySlot, req.sector)
      /\ UNCHANGED <<devVars, buf, req>> /\ req # None /\ TypeOK
      /\ Current(MySlot)
  BY DEF Evicted, Base, Places, Calm, Settled
<1>2. req.sector \in Sector
  BY <1>1, RequestType
<1> QED
  BY <1>1, <1>2, CallCalm

\* The steps that change fields of the buffer.
LEMMA FieldCalm ==
  ASSUME Base, Calm, Filled \/ Clean \/ UseWrite \/ MarkDirty, pc["timer"] = "idle"
  PROVE  Calm'
<1>1. /\ UNCHANGED <<devVars, xfer>> /\ UNCHANGED <<disk, up>>
      /\ TypeOK /\ req # None /\ "main" \in Ctx /\ "timer" \in Ctx
  BY DEF Filled, Clean, UseWrite, MarkDirty, devVars, Base, Places, Ctx
<1>2. MySlot \in Slot /\ req.sector \in Sector
  BY <1>1, RequestType
<1>3. /\ \A b \in Slot : b # MySlot => buf'[b] = buf[b]
      /\ Filled => /\ buf'[MySlot].used /\ buf'[MySlot].sector = req.sector
                   /\ buf'[MySlot].dirty = buf[MySlot].dirty
      /\ ~ Filled => /\ buf'[MySlot].used = buf[MySlot].used
                     /\ buf'[MySlot].sector = buf[MySlot].sector
      /\ ~ UseWrite => buf'[MySlot].content = buf[MySlot].content
      /\ Clean => ~ buf'[MySlot].dirty
      /\ MarkDirty => buf'[MySlot].dirty
      /\ UseWrite => buf'[MySlot].dirty = buf[MySlot].dirty
  BY <1>1, FieldType
<1>4. up'
  BY <1>1 DEF Calm
<1>5. \A b \in Slot : b # MySlot => (Current(b)' <=> Current(b))
  BY <1>1, <1>3 DEF Current, OnDisk
<1>6. CASE Filled
  <2>1. /\ pc["main"] = "filled" /\ req' = req /\ MySlot' = MySlot /\ Goto("main", "clean")
        /\ ~ UseWrite
    BY <1>6 DEF Filled, UseWrite, MySlot
  <2>2. pc'["main"] = "clean" /\ pc'["timer"] = "idle"
    BY <1>1, <2>1, GotoType
  <2>3. Current(MySlot)'
    BY <1>1, <1>3, <1>6, <2>1 DEF Calm, Settled, Current, OnDisk
  <2>4. Apart' /\ \A c \in Ctx : Outgoing(c)' /\ Progress(c)'
    BY <2>2, AtRest
  <2>5. BuffersInPlace'
    BY <1>2, <1>3, <1>6 DEF Calm, BuffersInPlace, MySlot
  <2>6. Settled'
    BY <1>3, <1>6, <2>1, <2>2, <2>3 DEF Settled, BufHit
  <2>7. CleanMatches'
    <3>1. ASSUME NEW b \in Slot, b # MySlot, buf'[b].used, ~ buf'[b].dirty
          PROVE  Current(b)'
      BY <1>3, <1>5, <2>1, <3>1 DEF Calm, CleanMatches, Refilling, Current
    <3> QED
      BY <2>1, <2>3, <3>1 DEF CleanMatches, Current
  <2> QED
    BY <1>4, <2>4, <2>5, <2>6, <2>7 DEF Calm
<1>7. CASE Clean
  <2>1. /\ pc["main"] = "clean" /\ req' = req /\ MySlot' = MySlot /\ Goto("main", "use")
        /\ ~ UseWrite /\ ~ Filled
    BY <1>7 DEF Clean, Filled, UseWrite, MySlot
  <2>2. pc'["main"] = "use" /\ pc'["timer"] = "idle"
    BY <1>1, <2>1, GotoType
  <2>3. Current(MySlot)'
    BY <1>1, <1>3, <2>1 DEF Calm, Settled, Current, OnDisk
  <2>4. Apart' /\ \A c \in Ctx : Outgoing(c)' /\ Progress(c)'
    BY <2>2, AtRest
  <2>5. BuffersInPlace'
    BY <1>2, <1>3, <1>7, <2>1 DEF Calm, BuffersInPlace
  <2>6. Settled'
    BY <1>3, <2>1, <2>2 DEF Calm, Settled, BufHit
  <2>7. CleanMatches'
    <3>1. ASSUME NEW b \in Slot, b # MySlot, buf'[b].used, ~ buf'[b].dirty
          PROVE  Current(b)'
      BY <1>3, <1>5, <2>1, <3>1 DEF Calm, CleanMatches, Refilling, Current
    <3> QED
      BY <2>1, <2>3, <3>1 DEF CleanMatches, Current
  <2> QED
    BY <1>4, <2>4, <2>5, <2>6, <2>7 DEF Calm
<1>8. CASE UseWrite
  <2>1. /\ pc["main"] = "use" /\ req' = req /\ MySlot' = MySlot /\ Goto("main", "mark")
        /\ req.op = "write" /\ ~ Filled
    BY <1>8 DEF UseWrite, Filled, MySlot
  <2>2. pc'["main"] = "mark" /\ pc'["timer"] = "idle"
    BY <1>1, <2>1, GotoType
  <2>3. Apart' /\ \A c \in Ctx : Outgoing(c)' /\ Progress(c)'
    BY <2>2, AtRest
  <2>4. BuffersInPlace'
    BY <1>2, <1>3, <1>8, <2>1 DEF Calm, BuffersInPlace
  <2>5. Settled'
    BY <1>3, <2>1, <2>2 DEF Calm, Settled, BufHit
  <2>6. CleanMatches'
    <3>1. ASSUME NEW b \in Slot, b # MySlot, buf'[b].used, ~ buf'[b].dirty
          PROVE  Current(b)'
      BY <1>3, <1>5, <2>1, <3>1 DEF Calm, CleanMatches, Refilling, Current
    <3> QED
      BY <2>1, <2>2, <3>1 DEF CleanMatches, Current
  <2> QED
    BY <1>4, <2>3, <2>4, <2>5, <2>6 DEF Calm
<1>9. CASE MarkDirty
  <2>1. pc["main"] = "mark" /\ Goto("main", "idle") /\ ~ Filled /\ buf[MySlot].used
    BY <1>9 DEF MarkDirty, Filled, Calm, Settled, BufHit
  <2>2. pc'["main"] = "idle" /\ pc'["timer"] = "idle"
    BY <1>1, <2>1, GotoType
  <2>3. Apart' /\ \A c \in Ctx : Outgoing(c)' /\ Progress(c)'
    BY <2>2, AtRest
  <2>4. BuffersInPlace'
    BY <1>2, <1>3, <1>9, <2>1 DEF Calm, BuffersInPlace
  <2>5. Settled'
    BY <2>2 DEF Settled
  <2>6. CleanMatches'
    <3>1. ASSUME NEW b \in Slot, b # MySlot, buf'[b].used, ~ buf'[b].dirty
          PROVE  Current(b)'
      BY <1>3, <1>5, <2>1, <3>1 DEF Calm, CleanMatches, Refilling, Current
    <3> QED
      BY <1>3, <1>9, <3>1 DEF CleanMatches, Current
  <2> QED
    BY <1>4, <2>3, <2>4, <2>5, <2>6 DEF Calm
<1> QED
  BY <1>6, <1>7, <1>8, <1>9

LEMMA UseReadCalm ==
  ASSUME Base, Calm, UseRead, pc["timer"] = "idle"
  PROVE  Calm'
<1>1. /\ pc["main"] = "use" /\ Goto("main", "idle") /\ UNCHANGED <<devVars, buf, xfer>>
      /\ UNCHANGED <<disk, up>> /\ TypeOK /\ "main" \in Ctx /\ "timer" \in Ctx
  BY DEF UseRead, devVars, Base, Ctx
<1>2. pc'["main"] = "idle" /\ pc'["timer"] = "idle"
  BY <1>1, GotoType
<1>3. Apart' /\ \A c \in Ctx : Outgoing(c)' /\ Progress(c)'
  BY <1>2, AtRest
<1>4. BuffersInPlace' /\ Settled' /\ up'
  BY <1>1, <1>2 DEF Calm, BuffersInPlace, Settled
<1>5. CleanMatches'
  BY <1>1, <1>2 DEF Calm, CleanMatches, Refilling, OnDisk
<1> QED
  BY <1>3, <1>4, <1>5 DEF Calm

\* The steps of the handler outside disk_do_write.
LEMMA TickCalm ==
  ASSUME Base, Calm, Tick
  PROVE  Calm'
<1>1. /\ pc["timer"] = "idle" /\ UNCHANGED <<devVars, buf, xfer, req>>
      /\ UNCHANGED <<disk, port_sector, disk_pos, byte_cnt, ide_write, up>>
      /\ TypeOK /\ "main" \in Ctx /\ "timer" \in Ctx
      /\ Goto("timer", "scan") \/ UNCHANGED pc
  BY DEF Tick, devVars, Base, Ctx
<1>2. pc'["main"] = pc["main"] /\ pc'["timer"] \in {"idle", "scan"}
  BY <1>1, GotoType
<1>3. MySlot' = MySlot /\ \A b : Current(b)' <=> Current(b)
  BY <1>1 DEF MySlot, Current, OnDisk
<1>4. up' /\ Apart' /\ BuffersInPlace'
  BY <1>1, <1>2 DEF Calm, Apart, Busy, BuffersInPlace
<1>5. \A c \in Ctx : Outgoing(c)' /\ Progress(c)'
  BY <1>1, <1>2 DEF Calm, Outgoing, Progress, Busy, Ctx
<1>6. Settled'
  BY <1>1, <1>2, <1>3 DEF Calm, Settled, BufHit, OnDisk
<1>7. CleanMatches'
  BY <1>1, <1>2, <1>3 DEF Calm, CleanMatches, Refilling, OnDisk
<1> QED
  BY <1>4, <1>5, <1>6, <1>7 DEF Calm

LEMMA ScanCalm ==
  ASSUME Base, Calm, Scan, WriteBackCalled => ~ Critical
  PROVE  Calm'
<1>1. /\ pc["timer"] = "scan" /\ UNCHANGED <<devVars, buf, req, out>>
      /\ UNCHANGED <<disk, port_sector, disk_pos, byte_cnt, ide_write, up>>
      /\ TypeOK /\ "main" \in Ctx /\ "timer" \in Ctx
  BY DEF Scan, devVars, Base, Ctx
<1>2. ASSUME pc'["main"] = pc["main"], xfer'["main"] = xfer["main"],
             \/ pc'["timer"] \in {"idle", "scan"}
             \/ /\ pc'["timer"] = "wait" /\ ~ Critical
                /\ buf[xfer'["timer"].slot].used
                /\ xfer'["timer"].sector = buf[xfer'["timer"].slot].sector
      PROVE  Calm'
  <2>1. MySlot' = MySlot /\ \A b : Current(b)' <=> Current(b)
    BY <1>1 DEF MySlot, Current, OnDisk
  <2>2. up' /\ Apart' /\ BuffersInPlace'
    BY <1>1, <1>2 DEF Calm, Apart, Busy, Critical, BuffersInPlace
  <2>3. \A c \in Ctx : Outgoing(c)' /\ Progress(c)'
    BY <1>1, <1>2 DEF Calm, Outgoing, Progress, Busy, Ctx
  <2>4. Settled'
    BY <1>1, <1>2, <2>1 DEF Calm, Settled, BufHit, OnDisk
  <2>5. CleanMatches'
    BY <1>1, <1>2, <2>1 DEF Calm, CleanMatches, Refilling, OnDisk
  <2> QED
    BY <2>2, <2>3, <2>4, <2>5 DEF Calm
<1>3. CASE ScanDone /\ Goto("timer", "idle") /\ UNCHANGED xfer
  <2>1. pc'["timer"] = "idle" /\ pc'["main"] = pc["main"]
    BY <1>1, <1>3, GotoType
  <2> QED
    BY <1>2, <1>3, <2>1
<1>4. CASE ~ ScanDone /\ buf[wb].dirty /\ Call("timer", "write", wb, buf[wb].sector)
  <2>1. wb \in Slot
    BY <1>1, <1>4, BufAssumption DEF ScanDone, Slot, TypeOK
  <2>2. buf[wb].sector \in Sector
    BY <1>1, <2>1, BufType
  <2>3. /\ xfer'["main"] = xfer["main"] /\ pc'["main"] = pc["main"]
        /\ xfer'["timer"] = [dir |-> "write", slot |-> wb, sector |-> buf[wb].sector, i |-> 0]
        /\ pc'["timer"] = "wait"
    BY <1>1, <1>4, <2>1, <2>2, CallType
  <2>4. ~ Critical /\ buf[wb].used
    BY <1>1, <1>4, <2>1, <2>3 DEF WriteBackCalled, Calm, BuffersInPlace
  <2> QED
    BY <1>2, <2>3, <2>4
<1>5. CASE UNCHANGED <<pc, xfer>>
  BY <1>1, <1>2, <1>5
<1> QED
  BY <1>3, <1>4, <1>5 DEF Scan

LEMMA WrittenCalm ==
  ASSUME Base, Calm, Written
  PROVE  Calm'
<1>1. /\ pc["timer"] = "written" /\ Goto("timer", "scan") /\ wb \in Slot
      /\ UNCHANGED <<devVars, xfer, req>>
      /\ UNCHANGED <<disk, port_sector, disk_pos, byte_cnt, ide_write, up>>
      /\ TypeOK /\ "main" \in Ctx /\ "timer" \in Ctx
      /\ req # None => MySlot \in Slot
  BY RequestType DEF Written, devVars, Base, Places, Ctx
<1>2. pc'["timer"] = "scan" /\ pc'["main"] = pc["main"] /\ MySlot' = MySlot
  BY <1>1, GotoType DEF MySlot
<1>3. \A b \in Slot : /\ b # wb => buf'[b] = buf[b]
                      /\ buf'[b].used = buf[b].used
                      /\ buf'[b].sector = buf[b].sector
                      /\ buf'[b].content = buf[b].content
  BY <1>1, WrittenType
<1>4. \A b \in Slot : Current(b)' <=> Current(b)
  BY <1>1, <1>3, CurrentKept
<1>5. buf[wb].used /\ Current(wb)
  BY <1>1 DEF Calm, Settled
<1>6. up' /\ Apart'
  BY <1>1, <1>2 DEF Calm, Apart, Busy
<1>7. BuffersInPlace'
  BY <1>1, <1>3, <1>5 DEF Calm, BuffersInPlace
<1>8. \A c \in Ctx : Outgoing(c)' /\ Progress(c)'
  <2>1. xfer["main"].slot \in Slot
    BY <1>1, XferType
  <2>2. Outgoing("main")' /\ Progress("main")'
    BY <1>1, <1>2, <1>3, <2>1 DEF Calm, Outgoing, Progress, Busy
  <2>3. Outgoing("timer")' /\ Progress("timer")'
    BY <1>2 DEF Outgoing, Progress, Busy
  <2> QED
    BY <2>2, <2>3 DEF Ctx
<1>9. Settled'
  <2>1. pc["main"] # "idle" => MySlot \in Slot
    BY <1>1 DEF Base, Places
  <2>2. MySlot \in Slot => /\ buf'[MySlot].used = buf[MySlot].used
                           /\ buf'[MySlot].sector = buf[MySlot].sector
                           /\ buf'[MySlot].content = buf[MySlot].content
                           /\ Current(MySlot)' <=> Current(MySlot)
    BY <1>1, <1>2, <1>3 DEF Current, OnDisk
  <2> QED
    BY <1>1, <1>2, <2>1, <2>2 DEF Calm, Settled, BufHit, OnDisk
<1>10. CleanMatches'
  <2>1. ASSUME NEW b \in Slot, buf'[b].used, ~ buf'[b].dirty, ~ Refilling(b)'
        PROVE  Current(b)' \/ (pc'["main"] = "mark" /\ b = MySlot')
    <3>1. CASE b = wb
      BY <1>4, <1>5, <3>1
    <3>2. CASE b # wb
      BY <1>1, <1>2, <1>3, <1>4, <2>1, <3>2 DEF Calm, CleanMatches, Refilling, Current
    <3> QED
      BY <3>1, <3>2
  <2> QED
    BY <2>1 DEF CleanMatches, Current
<1> QED
  BY <1>6, <1>7, <1>8, <1>9, <1>10 DEF Calm

\* The steps of disk_do_read and disk_do_write, in either context.

\* The handler's steps leave main where it is.
LEMMA MainKept ==
  ASSUME pc'["main"] = pc["main"], xfer'["main"] = xfer["main"], req' = req
  PROVE  /\ MySlot' = MySlot /\ (Critical' <=> Critical)
         /\ \A b : Refilling(b)' <=> Refilling(b)
BY DEF MySlot, Critical, Refilling

LEMMA PrepareCalm ==
  ASSUME Base, Calm, NEW c \in Ctx, Turn(c), WaitDisk(c) \/ IdePrepare(c)
  PROVE  Calm'
<1>1. /\ TypeOK /\ "main" \in Ctx /\ "timer" \in Ctx
      /\ UNCHANGED <<disk, up, buf, xfer, req, wb>>
      /\ \/ pc[c] = "wait" /\ Goto(c, "ports")
         \/ pc[c] = "ports" /\ Goto(c, "command") /\ port_sector' = xfer[c].sector
  BY DEF WaitDisk, IdePrepare, WriteSectorPorts, devVars, Base, Ctx
<1>2. /\ \A d \in Ctx : d # c => pc'[d] = pc[d]
      /\ \/ pc[c] = "wait" /\ pc'[c] = "ports"
         \/ pc[c] = "ports" /\ pc'[c] = "command" /\ port_sector' = xfer[c].sector
  BY <1>1, GotoType
<1>3. MySlot' = MySlot /\ \A b : Current(b)' <=> Current(b)
  BY <1>1 DEF MySlot, Current, OnDisk
<1>4. up' /\ BuffersInPlace'
  BY <1>1 DEF Calm, BuffersInPlace
<1>5. Outgoing(c)' /\ Progress(c)'
  BY <1>1, <1>2 DEF Calm, Outgoing, Progress, Busy
<1>6. CASE c = "main"
  <2>1. pc["timer"] = "idle" /\ pc'["timer"] = "idle"
    BY <1>1, <1>2, <1>6 DEF Turn
  <2>2. Apart' /\ Outgoing("timer")' /\ Progress("timer")'
    BY <2>1 DEF Apart, Outgoing, Progress, Busy
  <2>3. Settled'
    BY <1>1, <1>2, <1>3, <1>6, <2>1 DEF Calm, Settled
  <2>4. \A b \in Slot : Refilling(b)' <=> Refilling(b)
    BY <1>1, <1>2, <1>6 DEF Refilling, MySlot
  <2>5. CleanMatches'
    BY <1>1, <1>2, <1>6, <2>4 DEF Calm, CleanMatches, OnDisk
  <2> QED
    BY <1>4, <1>5, <1>6, <2>2, <2>3, <2>5 DEF Calm, Ctx
<1>7. CASE c = "timer"
  <2>1. ~ Critical /\ pc'["main"] = pc["main"]
    BY <1>1, <1>2, <1>7 DEF Calm, Apart, Busy
  <2>2. (Critical' <=> Critical) /\ \A b : Refilling(b)' <=> Refilling(b)
    BY <1>1, <2>1, MainKept
  <2>3. Apart' /\ Outgoing("main")' /\ Progress("main")'
    BY <1>1, <2>1, <2>2 DEF Calm, Apart, Critical, Outgoing, Progress, Busy
  <2>4. Settled'
    BY <1>1, <1>2, <1>3, <1>7, <2>1 DEF Calm, Settled, BufHit, OnDisk
  <2>5. CleanMatches'
    BY <1>1, <1>3, <2>1, <2>2 DEF Calm, CleanMatches, OnDisk
  <2> QED
    BY <1>4, <1>5, <1>7, <2>3, <2>4, <2>5 DEF Calm, Ctx
<1> QED
  BY <1>6, <1>7 DEF Ctx

LEMMA IssueCalm ==
  ASSUME Base, Calm, NEW c \in Ctx, Turn(c), Issue(c)
  PROVE  Calm'
<1>1. /\ pc[c] = "command" /\ Goto(c, "data") /\ TypeOK /\ "main" \in Ctx /\ "timer" \in Ctx
      /\ UNCHANGED <<buf, xfer, req, wb>> /\ UNCHANGED <<disk, up>>
      /\ disk_pos' = port_sector * WordsPerSector /\ byte_cnt' = 0
      /\ ide_write' = (xfer[c].dir = "write")
  BY DEF Issue, WriteCommand, SeekTo, IsWrite, Base, Ctx
<1>2. pc'[c] = "data" /\ \A d \in Ctx : d # c => pc'[d] = pc[d]
  BY <1>1, GotoType
<1>3. /\ port_sector = xfer[c].sector /\ xfer[c].i = 0 /\ xfer[c].sector \in Sector
      /\ \A w \in Word : ~ w < 0
  BY <1>1, XferType, DeviceAssumption DEF Base, Purpose, Calm, Progress, Busy, Word
<1>4. disk_pos' = xfer[c].sector * WordsPerSector + xfer[c].i
  <2>1. xfer[c].sector * WordsPerSector \in Nat
    BY <1>3, Position
  <2> QED
    BY <1>1, <1>3, <2>1
<1>5. MySlot' = MySlot /\ \A b : Current(b)' <=> Current(b)
  BY <1>1 DEF MySlot, Current, OnDisk
<1>6. up' /\ BuffersInPlace'
  BY <1>1 DEF Calm, BuffersInPlace
<1>7. Outgoing(c)' /\ Progress(c)'
  BY <1>1, <1>2, <1>3, <1>4 DEF Calm, Outgoing, Progress, Busy
<1>8. CASE c = "main"
  <2>1. pc["timer"] = "idle" /\ pc'["timer"] = "idle"
    BY <1>1, <1>2, <1>8 DEF Turn
  <2>2. Apart' /\ Outgoing("timer")' /\ Progress("timer")'
    BY <2>1 DEF Apart, Outgoing, Progress, Busy
  <2>3. Settled'
    BY <1>2, <1>8, <2>1 DEF Settled
  <2>4. \A b \in Slot : Refilling(b)' <=> Refilling(b)
    BY <1>1, <1>2, <1>8 DEF Refilling, MySlot
  <2>5. CleanMatches'
    BY <1>1, <1>2, <1>8, <2>4 DEF Calm, CleanMatches, OnDisk
  <2> QED
    BY <1>6, <1>7, <1>8, <2>2, <2>3, <2>5 DEF Calm, Ctx
<1>9. CASE c = "timer"
  <2>1. ~ Critical /\ pc'["main"] = pc["main"]
    BY <1>1, <1>2, <1>9 DEF Calm, Apart, Busy
  <2>2. (Critical' <=> Critical) /\ \A b : Refilling(b)' <=> Refilling(b)
    BY <1>1, <2>1, MainKept
  <2>3. Apart' /\ Outgoing("main")' /\ Progress("main")'
    BY <1>1, <2>1, <2>2 DEF Calm, Apart, Critical, Outgoing, Progress, Busy
  <2>4. Settled'
    BY <1>1, <1>2, <1>5, <1>9, <2>1 DEF Calm, Settled, BufHit, OnDisk
  <2>5. CleanMatches'
    BY <1>1, <1>5, <2>1, <2>2 DEF Calm, CleanMatches, OnDisk
  <2> QED
    BY <1>6, <1>7, <1>9, <2>3, <2>4, <2>5 DEF Calm, Ctx
<1> QED
  BY <1>8, <1>9 DEF Ctx

\* A word is about to be transferred: the device is where the loop is.
LEMMA AtWord ==
  ASSUME Base, Calm, NEW c \in Ctx, pc[c] = "data", xfer[c].i < WordsPerSector
  PROVE  /\ xfer[c].i \in Word /\ xfer[c].i + 1 \in 0 .. WordsPerSector
         /\ byte_cnt = xfer[c].i /\ byte_cnt <= WordsPerSector
         /\ disk_pos = xfer[c].sector * WordsPerSector + xfer[c].i
         /\ disk_pos \in 0 .. NrSector * WordsPerSector - 1
         /\ xfer[c].sector * WordsPerSector + (xfer[c].i + 1) = disk_pos + 1
         /\ ide_write = (xfer[c].dir = "write")
<1>1. /\ xfer[c].i \in Nat /\ WordsPerSector \in Nat /\ xfer[c].sector \in Sector
      /\ byte_cnt = xfer[c].i
      /\ disk_pos = xfer[c].sector * WordsPerSector + xfer[c].i
      /\ ide_write = (xfer[c].dir = "write")
  BY XferType, DeviceAssumption DEF Base, Calm, Progress
<1>2. /\ xfer[c].i \in Word /\ xfer[c].i + 1 \in 0 .. WordsPerSector
      /\ byte_cnt <= WordsPerSector
  BY <1>1 DEF Word
<1>3. /\ xfer[c].sector * WordsPerSector \in Nat
      /\ disk_pos \in 0 .. NrSector * WordsPerSector - 1
  BY <1>1, <1>2, Position
<1>4. xfer[c].sector * WordsPerSector + (xfer[c].i + 1) = disk_pos + 1
  BY <1>1, <1>3
<1> QED
  BY <1>1, <1>2, <1>3, <1>4

\* In either direction the loop comes to the next word, in the same transfer.
LEMMA NextXfer ==
  ASSUME Base, NEW c \in Ctx, xfer[c].i < WordsPerSector,
         xfer' = [xfer EXCEPT ![c].i = @ + 1]
  PROVE  /\ xfer'[c].i = xfer[c].i + 1
         /\ \A d \in Ctx : /\ xfer'[d].dir = xfer[d].dir /\ xfer'[d].slot = xfer[d].slot
                           /\ xfer'[d].sector = xfer[d].sector
                           /\ d # c => xfer'[d] = xfer[d]
BY XferType, DeviceAssumption DEF Base, TypeOK, Transfer

\* disk_do_read puts the next word of the sector into the buffer of main.
LEMMA DataReadPuts ==
  ASSUME Base, Calm, NEW c \in Ctx, Turn(c), DataRead(c)
  PROVE  /\ c = "main" /\ pc["timer"] = "idle" /\ req # None /\ MySlot \in Slot
         /\ xfer["main"].slot = MySlot /\ xfer["main"].sector = req.sector
         /\ IsPut(MySlot, xfer["main"].i, DataWord)
         /\ disk_pos' = disk_pos + 1 /\ byte_cnt' = byte_cnt + 1
         /\ UNCHANGED <<disk, port_sector, ide_write, up>>
<1>1. /\ pc[c] = "data" /\ xfer[c].dir = "read" /\ xfer[c].i < WordsPerSector
      /\ ReadData /\ TypeOK /\ up /\ "main" \in Ctx /\ "timer" \in Ctx
      /\ buf' = [buf EXCEPT ![xfer[c].slot].content[xfer[c].i] =
                              IF up' THEN DataWord ELSE @]
  BY DEF DataRead, Base, Calm, Ctx
<1>2. c = "main" /\ pc["timer"] = "idle" /\ req # None
  BY <1>1 DEF Base, Places, Purpose, Busy, Turn, Ctx
<1>3. /\ xfer["main"].slot = MySlot /\ MySlot \in Slot
      /\ xfer["main"].sector = req.sector
  BY <1>1, <1>2, RequestType DEF Base, Purpose, Busy
<1>4. /\ xfer["main"].i \in Word /\ byte_cnt <= WordsPerSector
      /\ disk_pos \in 0 .. NrSector * WordsPerSector - 1
      /\ ~ ide_write
  BY <1>1, <1>2, AtWord
<1>5. /\ disk_pos' = disk_pos + 1 /\ byte_cnt' = byte_cnt + 1
      /\ UNCHANGED <<disk, port_sector, ide_write, up>>
  BY <1>1, <1>4 DEF ReadData
<1>6. DataWord \in Val
  BY <1>1, <1>4 DEF DataWord, TypeOK, DevTypeOK
<1>7. Put(MySlot, xfer["main"].i, DataWord)
  BY <1>1, <1>2, <1>3, <1>5 DEF Put
<1>8. IsPut(MySlot, xfer["main"].i, DataWord)
  BY <1>1, <1>3, <1>4, <1>6, <1>7, ContentType
<1> QED
  BY <1>2, <1>3, <1>5, <1>8

LEMMA DataReadCalm ==
  ASSUME Base, Calm, NEW c \in Ctx, Turn(c), DataRead(c)
  PROVE  Calm'
<1>1. /\ pc[c] = "data" /\ xfer[c].dir = "read" /\ xfer[c].i < WordsPerSector
      /\ UNCHANGED <<pc, req>> /\ MySlot' = MySlot /\ TypeOK
      /\ xfer' = [xfer EXCEPT ![c].i = @ + 1]
  BY DEF DataRead, MySlot, Base
<1>2. /\ c = "main" /\ pc["timer"] = "idle" /\ req # None /\ MySlot \in Slot
      /\ xfer["main"].slot = MySlot /\ xfer["main"].sector = req.sector
      /\ disk_pos' = disk_pos + 1 /\ byte_cnt' = byte_cnt + 1
      /\ UNCHANGED <<disk, port_sector, ide_write, up>>
      /\ IsPut(MySlot, xfer["main"].i, DataWord)
  BY DataReadPuts
<1>3. /\ \A b \in Slot : /\ b # MySlot => buf'[b] = buf[b]
                         /\ buf'[b].used = buf[b].used /\ buf'[b].dirty = buf[b].dirty
                         /\ buf'[b].sector = buf[b].sector
      /\ buf'[MySlot].content = [buf[MySlot].content EXCEPT ![xfer["main"].i] = DataWord]
  BY <1>2 DEF IsPut
<1>4. /\ xfer'["main"].i = xfer["main"].i + 1
      /\ xfer'["main"].dir = "read" /\ xfer'["main"].slot = MySlot
      /\ xfer'["main"].sector = req.sector
  BY <1>1, <1>2, NextXfer
<1>5. /\ xfer["main"].i \in Word /\ byte_cnt = xfer["main"].i
      /\ disk_pos = req.sector * WordsPerSector + xfer["main"].i
      /\ req.sector * WordsPerSector + (xfer["main"].i + 1) = disk_pos + 1
      /\ ide_write = (xfer["main"].dir = "write")
  BY <1>1, <1>2, AtWord
<1>6. up' /\ BuffersInPlace'
  BY <1>2, <1>3 DEF Calm, BuffersInPlace
<1>7. Apart' /\ Settled' /\ Outgoing("timer")' /\ Progress("timer")' /\ Outgoing("main")'
  BY <1>1, <1>2, <1>4 DEF Apart, Settled, Outgoing, Progress, Busy
<1>8. Progress("main")'
  <2>1. ASSUME NEW w \in Word, w < xfer["main"].i + 1
        PROVE  buf'[MySlot].content[w] = disk[req.sector * WordsPerSector + w]
    <3>1. buf[MySlot].content \in [Word -> Val]
      BY <1>1, <1>2, BufType
    <3>2. CASE w = xfer["main"].i
      BY <1>3, <1>5, <3>1, <3>2 DEF DataWord
    <3>3. CASE w < xfer["main"].i
      <4>1. buf[MySlot].content[w] = disk[req.sector * WordsPerSector + w]
        BY <1>1, <1>2, <3>3 DEF Calm, Progress
      <4> QED
        BY <1>3, <1>5, <3>1, <3>3, <4>1 DEF Word
    <3> QED
      BY <1>5, <2>1, <3>2, <3>3 DEF Word
  <2>2. byte_cnt' = xfer'["main"].i /\ ide_write' = (xfer'["main"].dir = "write")
    BY <1>1, <1>2, <1>4, <1>5
  <2>3. disk_pos' = xfer'["main"].sector * WordsPerSector + xfer'["main"].i
    BY <1>2, <1>4, <1>5
  <2> QED
    BY <1>1, <1>2, <1>4, <2>1, <2>2, <2>3 DEF Progress
<1>9. CleanMatches'
  <2>1. \A b \in Slot : Refilling(b)' <=> b = MySlot
    BY <1>1, <1>2, <1>4 DEF Refilling
  <2>2. \A b \in Slot : Refilling(b) => b = MySlot
    BY DEF Refilling
  <2>3. ASSUME NEW b \in Slot, b # MySlot, buf[b].used, ~ buf[b].dirty
        PROVE  buf'[b].content = OnDisk(buf[b].sector)'
    <3>1. buf[b].content = OnDisk(buf[b].sector)
      BY <1>1, <1>2, <2>2, <2>3 DEF Calm, CleanMatches
    <3> QED
      BY <1>2, <1>3, <2>3, <3>1 DEF OnDisk
  <2> QED
    BY <1>3, <2>1, <2>3 DEF CleanMatches
<1> QED
  BY <1>6, <1>7, <1>8, <1>9 DEF Calm, Ctx

\* disk_do_write puts a word of a buffer where it belongs: the sector comes
\* closer to the buffer, and no other sector changes.
LEMMA DataWriteDisk ==
  ASSUME Base, Calm, NEW c \in Ctx, DataWrite(c)
  PROVE  /\ xfer[c].slot \in Slot /\ xfer[c].sector \in Sector
         /\ buf[xfer[c].slot].used /\ xfer[c].sector = buf[xfer[c].slot].sector
         /\ \A s \in Sector \ {xfer[c].sector} : OnDisk(s)' = OnDisk(s)
         /\ \A w \in Word :
              disk'[xfer[c].sector * WordsPerSector + w] =
                IF w = xfer[c].i THEN buf[xfer[c].slot].content[w]
                ELSE disk[xfer[c].sector * WordsPerSector + w]
         /\ \A b \in Slot : buf[b].used /\ Current(b) => Current(b)'
<1> DEFINE sl == xfer[c].slot
           v  == buf[sl].content[xfer[c].i]
<1>1. /\ pc[c] = "data" /\ xfer[c].dir = "write" /\ xfer[c].i < WordsPerSector
      /\ disk' = [disk EXCEPT ![disk_pos] = v] /\ v \in Val /\ UNCHANGED buf /\ TypeOK
  BY DataWriteDevice DEF DataWrite, Base
<1>2. /\ xfer[c].i \in Word /\ disk_pos = xfer[c].sector * WordsPerSector + xfer[c].i
      /\ disk_pos \in 0 .. NrSector * WordsPerSector - 1
  BY <1>1, AtWord
<1>3. sl \in Slot /\ xfer[c].sector \in Sector
  BY <1>1, XferType
<1>4. buf[sl].used /\ xfer[c].sector = buf[sl].sector
  BY <1>1 DEF Calm, Outgoing, Busy
<1>5. /\ disk'[disk_pos] = v
      /\ \A p \in 0 .. NrSector * WordsPerSector - 1 : p # disk_pos => disk'[p] = disk[p]
  BY <1>1, <1>2 DEF TypeOK, DevTypeOK
\* The words of the other sectors stay.
<1>6. ASSUME NEW s \in Sector, s # xfer[c].sector PROVE OnDisk(s)' = OnDisk(s)
  <2>1. ASSUME NEW w \in Word
        PROVE  disk'[s * WordsPerSector + w] = disk[s * WordsPerSector + w]
    <3>1. s * WordsPerSector + w \in 0 .. NrSector * WordsPerSector - 1
      BY Position
    <3>2. s * WordsPerSector + w # disk_pos
      BY <1>2, <1>3, <1>6, Distinct
    <3> QED
      BY <1>5, <3>1, <3>2
  <2> QED
    BY <2>1 DEF OnDisk
<1>7. ASSUME NEW w \in Word
      PROVE  disk'[xfer[c].sector * WordsPerSector + w] =
               IF w = xfer[c].i THEN buf[sl].content[w]
               ELSE disk[xfer[c].sector * WordsPerSector + w]
  <2>1. xfer[c].sector * WordsPerSector + w \in 0 .. NrSector * WordsPerSector - 1
    BY <1>3, Position
  <2>2. CASE w = xfer[c].i
    BY <1>2, <1>5, <2>2
  <2>3. CASE w # xfer[c].i
    <3>1. xfer[c].sector * WordsPerSector + w # disk_pos
      BY <1>2, <1>3, <2>3, Distinct
    <3> QED
      BY <1>5, <2>1, <2>3, <3>1
  <2> QED
    BY <2>2, <2>3
<1>8. ASSUME NEW b \in Slot, buf[b].used, Current(b) PROVE Current(b)'
  <2>1. CASE b = sl
    <3>1. \A w \in Word : buf[sl].content[w] = disk[xfer[c].sector * WordsPerSector + w]
      BY <1>4, <1>8, <2>1 DEF Current, OnDisk
    <3>2. \A w \in Word : disk'[xfer[c].sector * WordsPerSector + w] =
                            disk[xfer[c].sector * WordsPerSector + w]
      BY <1>7, <3>1
    <3>3. OnDisk(buf[b].sector)' = OnDisk(buf[b].sector)
      BY <1>1, <1>4, <2>1, <3>2 DEF OnDisk
    <3> QED
      BY <1>1, <1>8, <2>1, <3>3 DEF Current
  <2>2. CASE b # sl
    <3>1. buf[b].sector \in Sector
      BY <1>1, BufType
    <3>2. SlotOf(buf[b].sector) = b /\ SlotOf(buf[sl].sector) = sl
      BY <1>3, <1>4, <1>8 DEF Calm, BuffersInPlace
    <3>3. OnDisk(buf[b].sector)' = OnDisk(buf[b].sector)
      <4>1. buf[b].sector # xfer[c].sector
        BY <1>4, <2>2, <3>2
      <4> QED
        BY <1>1, <1>6, <3>1, <4>1 DEF OnDisk
    <3> QED
      BY <1>1, <1>8, <3>3 DEF Current
  <2> QED
    BY <2>1, <2>2
<1> QED
  BY <1>3, <1>4, <1>6, <1>7, <1>8

LEMMA DataWriteCalm ==
  ASSUME Base, Calm, NEW c \in Ctx, Turn(c), DataWrite(c)
  PROVE  Calm'
<1> DEFINE sl == xfer[c].slot
<1>1. /\ UNCHANGED <<buf, pc, req, wb>> /\ MySlot' = MySlot
      /\ xfer' = [xfer EXCEPT ![c].i = @ + 1]
      /\ TypeOK /\ "main" \in Ctx /\ "timer" \in Ctx
  BY DEF DataWrite, Base, MySlot, Ctx
<1>2. /\ pc[c] = "data" /\ xfer[c].dir = "write" /\ xfer[c].i < WordsPerSector
      /\ ide_write /\ byte_cnt = xfer[c].i
      /\ disk_pos' = disk_pos + 1 /\ byte_cnt' = byte_cnt + 1
      /\ UNCHANGED <<port_sector, ide_write, up>>
  BY DataWriteDevice
<1>3. /\ sl \in Slot /\ xfer[c].sector \in Sector
      /\ buf[sl].used /\ xfer[c].sector = buf[sl].sector
      /\ \A w \in Word : disk'[xfer[c].sector * WordsPerSector + w] =
                           IF w = xfer[c].i THEN buf[sl].content[w]
                           ELSE disk[xfer[c].sector * WordsPerSector + w]
      /\ \A b \in Slot : buf[b].used /\ Current(b) => Current(b)'
  BY DataWriteDisk
<1>4. /\ xfer'[c].i = xfer[c].i + 1
      /\ \A d \in Ctx : /\ xfer'[d].dir = xfer[d].dir /\ xfer'[d].slot = xfer[d].slot
                        /\ xfer'[d].sector = xfer[d].sector
                        /\ d # c => xfer'[d] = xfer[d]
  BY <1>1, <1>2, NextXfer
<1>5. /\ xfer[c].i \in Word
      /\ xfer[c].sector * WordsPerSector + (xfer[c].i + 1) = disk_pos + 1
      /\ ide_write = (xfer[c].dir = "write")
  BY <1>2, AtWord
<1>6. up' /\ BuffersInPlace' /\ Apart'
  BY <1>1, <1>2 DEF Calm, BuffersInPlace, Apart, Busy, Critical
<1>7. Outgoing("main")' /\ Outgoing("timer")'
  BY <1>1, <1>4 DEF Calm, Outgoing, Busy
<1>8. Progress(c)'
  <2>1. ASSUME NEW w \in Word, w < xfer[c].i + 1
        PROVE  buf[sl].content[w] = disk'[xfer[c].sector * WordsPerSector + w]
    <3>1. CASE w = xfer[c].i
      BY <1>3, <3>1
    <3>2. CASE w < xfer[c].i
      BY <1>2, <1>3, <1>5, <3>2 DEF Calm, Progress, Word
    <3> QED
      BY <1>5, <2>1, <3>1, <3>2 DEF Word
  <2>2. byte_cnt' = xfer'[c].i /\ ide_write' = (xfer'[c].dir = "write")
    BY <1>2, <1>4, <1>5
  <2>3. disk_pos' = xfer'[c].sector * WordsPerSector + xfer'[c].i
    BY <1>2, <1>4, <1>5
  <2> QED
    BY <1>1, <1>2, <1>4, <2>1, <2>2, <2>3 DEF Progress
<1>9. ASSUME NEW b \in Slot PROVE Refilling(b)' <=> Refilling(b)
  BY <1>1, <1>4 DEF Refilling
<1>10. CleanMatches'
  <2>1. ASSUME NEW b \in Slot, buf[b].used, ~ buf[b].dirty, ~ Refilling(b)
        PROVE  Current(b)' \/ (pc["main"] = "mark" /\ b = MySlot)
    BY <1>3, <2>1 DEF Calm, CleanMatches, Current
  <2> QED
    BY <1>1, <1>9, <2>1 DEF CleanMatches, Current
<1>11. CASE c = "main"
  <2>1. pc["timer"] = "idle"
    BY <1>11 DEF Turn
  <2>2. Settled' /\ Progress("timer")'
    BY <1>1, <1>2, <1>11, <2>1 DEF Settled, Progress
  <2> QED
    BY <1>6, <1>7, <1>8, <1>10, <1>11, <2>2 DEF Calm, Ctx
<1>12. CASE c = "timer"
  <2>1. ~ Critical /\ (pc["main"] # "idle" => MySlot \in Slot)
    BY <1>1, <1>2, <1>12, RequestType DEF Calm, Apart, Busy, Base, Places
  <2>2. Progress("main")'
    BY <1>1, <2>1 DEF Progress, Critical
  <2>3. Settled'
    <3>1. MySlot \in Slot /\ buf[MySlot].used /\ Current(MySlot) => Current(MySlot)'
      BY <1>1, <1>3 DEF Current
    <3> QED
      BY <1>1, <1>2, <1>4, <1>12, <2>1, <3>1 DEF Calm, Settled, BufHit, Critical
  <2> QED
    BY <1>6, <1>7, <1>8, <1>10, <1>12, <2>2, <2>3 DEF Calm, Ctx
<1> QED
  BY <1>11, <1>12 DEF Ctx

\* The buffer and the disk agree on the sector that has been transferred.
LEMMA ReturnCalm ==
  ASSUME Base, Calm, NEW c \in Ctx, Turn(c), Return(c)
  PROVE  Calm'
<1> DEFINE place == IF c = "timer" THEN "written"
                    ELSE IF xfer[c].dir = "write" THEN "evicted" ELSE "filled"
<1>1. /\ pc[c] = "data" /\ xfer[c].i = WordsPerSector /\ Goto(c, place)
      /\ xfer' = [xfer EXCEPT ![c] = NoTransfer]
      /\ UNCHANGED <<buf, req, wb>> /\ MySlot' = MySlot
      /\ UNCHANGED <<disk, port_sector, disk_pos, byte_cnt, ide_write, up>>
      /\ TypeOK /\ "main" \in Ctx /\ "timer" \in Ctx
  BY DEF Return, devVars, MySlot, Base, Ctx
<1>2. /\ pc'[c] = place /\ \A d \in Ctx : d # c => pc'[d] = pc[d]
  BY <1>1, GotoType
<1>3. /\ xfer'[c].dir = "read" /\ \A d \in Ctx : d # c => xfer'[d] = xfer[d]
  BY <1>1, NoTransferType DEF TypeOK
<1>4. buf[xfer[c].slot].content = OnDisk(xfer[c].sector)
  <2>1. buf[xfer[c].slot].content \in [Word -> Val]
    BY <1>1, XferType, BufType
  <2>2. \A w \in Word : w < xfer[c].i
    BY <1>1, DeviceAssumption DEF Word
  <2>3. \A w \in Word :
          buf[xfer[c].slot].content[w] = disk[xfer[c].sector * WordsPerSector + w]
    BY <1>1, <2>2 DEF Calm, Progress
  <2> QED
    BY <2>1, <2>3 DEF OnDisk
<1>5. xfer[c].dir = "write" => buf[xfer[c].slot].used /\ Current(xfer[c].slot)
  BY <1>1, <1>4 DEF Calm, Outgoing, Busy, Current
<1>6. \A b : Current(b)' <=> Current(b)
  BY <1>1 DEF Current, OnDisk
<1>7. up' /\ BuffersInPlace'
  BY <1>1 DEF Calm, BuffersInPlace
<1>8. CASE c = "main"
  <2>1. /\ pc["timer"] = "idle" /\ pc'["timer"] = "idle"
        /\ pc'["main"] = IF xfer["main"].dir = "write" THEN "evicted" ELSE "filled"
    BY <1>1, <1>2, <1>8 DEF Turn
  <2>2. /\ xfer["main"].slot = MySlot /\ xfer["main"].dir \in {"read", "write"}
        /\ xfer["main"].dir = "read" => xfer["main"].sector = req.sector
    BY <1>1, <1>8, XferType DEF Base, Purpose, Busy
  <2>3. Apart' /\ \A d \in Ctx : Outgoing(d)' /\ Progress(d)'
    BY <2>1, AtRest
  <2>4. Settled'
    <3>1. pc'["main"] = "evicted" => buf'[MySlot].used /\ Current(MySlot)'
      BY <1>1, <1>5, <1>6, <1>8, <2>1, <2>2
    <3>2. pc'["main"] = "filled" => (buf[MySlot].content = OnDisk(req.sector))'
      BY <1>1, <1>4, <1>8, <2>1, <2>2 DEF OnDisk
    <3> QED
      BY <1>1, <2>1, <3>1, <3>2 DEF Settled
  <2>5. \A b \in Slot : Refilling(b)' <=> Refilling(b)
    BY <1>1, <1>3, <1>8, <2>1, <2>2 DEF Refilling
  <2>6. CleanMatches'
    BY <1>1, <1>8, <2>1, <2>5 DEF Calm, CleanMatches, OnDisk
  <2> QED
    BY <1>7, <2>3, <2>4, <2>6 DEF Calm
<1>9. CASE c = "timer"
  <2>1. /\ pc'["timer"] = "written" /\ pc'["main"] = pc["main"]
        /\ xfer'["main"] = xfer["main"]
    BY <1>1, <1>2, <1>3, <1>9
  <2>2. xfer["timer"].slot = wb /\ xfer["timer"].dir = "write"
    BY <1>1, <1>9 DEF Base, Purpose, Busy
  <2>3. ~ Critical /\ (Critical' <=> Critical) /\ \A b : Refilling(b)' <=> Refilling(b)
    BY <1>1, <1>9, <2>1, MainKept DEF Calm, Apart, Busy
  <2>4. Apart'
    BY <2>3 DEF Apart
  <2>5. \A d \in Ctx : Outgoing(d)' /\ Progress(d)'
    BY <1>1, <2>1 DEF Calm, Outgoing, Progress, Busy, Ctx
  <2>6. Settled'
    BY <1>1, <1>5, <1>6, <1>9, <2>1, <2>2 DEF Calm, Settled, BufHit, OnDisk
  <2>7. CleanMatches'
    BY <1>1, <2>1, <2>3 DEF Calm, CleanMatches, OnDisk
  <2> QED
    BY <1>7, <2>4, <2>5, <2>6, <2>7 DEF Calm
<1> QED
  BY <1>8, <1>9 DEF Ctx

-----------------------------------------------------------------------------
LEMMA StutterCalm == ASSUME Calm, UNCHANGED vars PROVE Calm'
<1>1. UNCHANGED <<disk, status, port_sector, disk_pos, byte_cnt, ide_write, up,
                  buf, pc, xfer, req, out, counter, wb>>
  BY DEF vars, driverVars, devVars
<1>2. up' /\ Apart' /\ BuffersInPlace'
  BY <1>1 DEF Calm, Apart, Busy, Critical, BuffersInPlace
<1>3. Settled' /\ \A c \in Ctx : Outgoing(c)' /\ Progress(c)'
  BY <1>1 DEF Calm, Settled, Current, Outgoing, Progress, Busy, MySlot, BufHit, OnDisk
<1>4. CleanMatches'
  BY <1>1 DEF Calm, CleanMatches, Refilling, MySlot, OnDisk
<1> QED
  BY <1>2, <1>3, <1>4 DEF Calm

\* What a step of the driver keeps as long as it disturbs nothing.
LEMMA NextCalm ==
  ASSUME Base, Calm, [Next]_vars, ~ disturbed'
  PROVE  Calm'
<1>1. CASE Next
  <2>1. WriteBackCalled => ~ Critical
    BY <1>1 DEF Next
  <2>2. ASSUME NEW c \in Ctx, Turn(c), DiskRoutine(c) PROVE Calm'
    BY <2>2, PrepareCalm, IssueCalm, DataReadCalm, DataWriteCalm, ReturnCalm
       DEF DiskRoutine
  <2>3. CASE \E r \in Calls : Begin(r) /\ pc["timer"] = "idle"
    BY <2>3, BeginCalm
  <2>4. CASE Main
    BY <2>2, <2>4, BufFetchCalm, EvictedCalm, FieldCalm, UseReadCalm DEF Main, Turn, Ctx
  <2>5. CASE Tick
    BY <2>5, TickCalm
  <2>6. CASE Handler
    BY <2>1, <2>2, <2>6, ScanCalm, WrittenCalm DEF Handler, Turn, Ctx
  <2> QED
    BY <1>1, <2>3, <2>4, <2>5, <2>6 DEF Next
<1>2. CASE UNCHANGED vars
  BY <1>2, StutterCalm
<1> QED
  BY <1>1, <1>2

\* What has been disturbed stays so.
LEMMA StaysDisturbed ==
  ASSUME TypeOK, [Next]_vars, disturbed
  PROVE  disturbed'
BY DEF Next, vars

LEMMA InitIInv == Init => IInv
BY InitBase, InitCalm DEF IInv

LEMMA NextIInv == IInv /\ [Next]_vars => IInv'
<1> SUFFICES ASSUME IInv, [Next]_vars PROVE IInv'
  OBVIOUS
<1>1. Base /\ Base'
  BY NextBase DEF IInv
<1>2. CASE disturbed
  BY <1>1, <1>2, StaysDisturbed DEF IInv, Base
<1>3. CASE ~ disturbed
  <2>1. disturbed' \/ Calm'
    BY <1>1, <1>3, NextCalm DEF IInv
  <2> QED
    BY <1>1, <2>1 DEF IInv
<1> QED
  BY <1>2, <1>3

LEMMA Invariant == Spec => []IInv
BY InitIInv, NextIInv, PTL DEF Spec

\* The driver's variables keep to their types, wherever in it the ticks come:
\* the positions and the count of the device, the counter of ide_writeback and
\* the index of buf_writeback included.
THEOREM TypeCorrect == Spec => []TypeOK
<1>1. IInv => TypeOK
  BY DEF IInv, Base
<1> QED
  BY Invariant, <1>1, PTL

\* A buffer that buf_fetch takes for a hit and that is not dirty holds what the
\* disk holds, whatever the handler has written back while main was in the
\* driver, until a write back comes into a transfer.
THEOREM BuffersCurrent == Spec => []CleanIsOnDisk
<1>1. IInv => CleanIsOnDisk
  BY DEF IInv, Calm, CleanIsOnDisk
<1> QED
  BY Invariant, <1>1, PTL

\* Until then the port accesses of the driver trip no assertion of
\* ide_io_handler: every word goes in the direction of its command and within
\* the sector, also when main and the handler take turns.
THEOREM PortsUsedRight == Spec => []DeviceNotMisusedAlone
<1>1. IInv => DeviceNotMisusedAlone
  BY DEF IInv, Calm, DeviceNotMisusedAlone
<1> QED
  BY Invariant, <1>1, PTL

\* Until then nobody enters waitdisk on a device that only the interrupted
\* context could make ready.
THEOREM WaitEnds == Spec => []WaitdiskEnds
<1>1. IInv => WaitdiskEnds
  <2> SUFFICES ASSUME IInv, ~ disturbed, NEW c \in Ctx, pc[c] = "wait",
                      c = "main" => pc["timer"] = "idle"
               PROVE  status = "ready"
    BY DEF WaitdiskEnds
  <2>1. Base /\ Calm /\ status \in {"ready", "busy"}
    BY DEF IInv, Base, TypeOK, DevTypeOK
  <2>2. ASSUME NEW d \in Ctx PROVE pc[d] # "data"
    BY <2>1, <2>2 DEF Calm, Apart, Busy, Critical, Ctx
  <2>3. ~ \E d \in Ctx : Writing(d)
    BY <2>2 DEF Writing
  <2> QED
    BY <2>1, <2>3 DEF Base, Device
<1> QED
  BY Invariant, <1>1, PTL

-----------------------------------------------------------------------------
(* The refinement of SectorStore.                                          *)

LEMMA ViewType ==
  ASSUME TypeOK, NEW s \in Sector
  PROVE  View(s) \in [Word -> Val]
<1>1. SlotOf(s) \in Slot /\ OnDisk(s) \in [Word -> Val]
  BY SlotType, OnDiskType DEF TypeOK
<1> QED
  BY <1>1, BufType DEF View

\* A buffer that keeps its label, its content and its place in the refilling
\* shows the sectors as before.
LEMMA ViewKept ==
  ASSUME NEW s \in Sector, UNCHANGED disk,
         \A b \in Slot : /\ buf'[b].used = buf[b].used
                         /\ buf'[b].sector = buf[b].sector
                         /\ buf'[b].content = buf[b].content
                         /\ Refilling(b)' <=> Refilling(b)
  PROVE  View(s)' = View(s)
<1>1. SlotOf(s) \in Slot
  BY SlotType
<1> QED
  BY <1>1 DEF View, OnDisk

LEMMA InitStore == Init => SS!Init
<1> SUFFICES ASSUME Init PROVE SS!Init
  OBVIOUS
<1>1. TypeOK
  BY InitBase DEF Base
<1>2. pc["main"] = "idle" /\ req = None
  BY DEF Init, Ctx
<1>3. [s \in Sector |-> View(s)] \in [Sector -> [Word -> Val]]
  BY <1>1, ViewType
<1> QED
  BY <1>1, <1>2, <1>3 DEF SS!Init, TypeOK

\* A step that shows callers the same is a stuttering step of the store.
LEMMA Unseen ==
  ASSUME \A s \in Sector : View(s)' = View(s), UNCHANGED <<req, out>>,
         (pc'["main"] = "mark") = (pc["main"] = "mark")
  PROVE  UNCHANGED SS!vars
BY DEF SS!vars

LEMMA BeginStore ==
  ASSUME Base, NEW r \in Calls, Begin(r)
  PROVE  SS!Next
<1>1. /\ pc["main"] = "idle" /\ req' = r /\ Goto("main", "fetch") /\ TypeOK
      /\ UNCHANGED <<disk, buf, xfer, out>> /\ req = None /\ "main" \in Ctx
  BY DEF Begin, devVars, Base, Places, Ctx
<1>2. pc'["main"] = "fetch" /\ r \in SS!Request
  BY <1>1, GotoType, CallsAssumption DEF Request, SS!Request
<1>3. \A s \in Sector : View(s)' = View(s)
  BY <1>1, <1>2, ViewKept DEF Refilling
<1>4. SS!Begin(r)
  BY <1>1, <1>2, <1>3 DEF SS!Begin
<1> QED
  BY <1>2, <1>4 DEF SS!Next

\* A call to disk_do_read changes where a sector is looked up, but not what is
\* found: the buffer given up holds what the disk holds.
LEMMA CallStore ==
  ASSUME Base, NEW dir \in {"read", "write"}, NEW s \in Sector,
         Call("main", dir, MySlot, s), pc["main"] \in {"fetch", "evicted"},
         UNCHANGED <<devVars, buf, req, out>>,
         dir = "read" /\ buf[MySlot].used => Current(MySlot)
  PROVE  UNCHANGED SS!vars
<1>1. req # None /\ TypeOK /\ "main" \in Ctx /\ UNCHANGED disk
  BY DEF Base, Places, devVars, Ctx
<1>2. MySlot \in Slot /\ MySlot' = MySlot
  BY <1>1, RequestType DEF MySlot
<1>3. pc'["main"] = "wait" /\ xfer'["main"].dir = dir
  <2>1. /\ pc'["main"] = "wait"
        /\ xfer'["main"] = [dir |-> dir, slot |-> MySlot, sector |-> s, i |-> 0]
    BY <1>1, <1>2, CallType
  <2> QED
    BY <2>1
<1>4. \A b \in Slot : /\ ~ Refilling(b)
                      /\ Refilling(b)' <=> b = MySlot /\ dir = "read"
  BY <1>1, <1>2, <1>3 DEF Refilling
<1>5. ASSUME NEW t \in Sector PROVE View(t)' = View(t)
  <2>1. SlotOf(t) \in Slot
    BY SlotType
  <2>2. CASE SlotOf(t) = MySlot /\ dir = "read"
    BY <1>1, <1>4, <2>1, <2>2 DEF View, OnDisk, Current
  <2>3. CASE ~ (SlotOf(t) = MySlot /\ dir = "read")
    BY <1>1, <1>4, <2>1, <2>3 DEF View, OnDisk
  <2> QED
    BY <2>2, <2>3
<1> QED
  BY <1>3, <1>5, Unseen

LEMMA BufFetchStore ==
  ASSUME Base, Calm, BufFetch
  PROVE  UNCHANGED SS!vars
<1>1. /\ pc["main"] = "fetch" /\ UNCHANGED <<devVars, buf, req, out>>
      /\ UNCHANGED disk /\ req # None /\ TypeOK /\ "main" \in Ctx
  BY DEF BufFetch, devVars, Base, Places, Ctx
<1>2. MySlot \in Slot /\ req.sector \in Sector
  BY <1>1, RequestType
<1>3. buf[MySlot].sector \in Sector
  BY <1>1, <1>2, BufType
<1>4. CASE Goto("main", "use") /\ UNCHANGED xfer
  <2>1. pc'["main"] = "use"
    BY <1>1, <1>4, GotoType
  <2>2. \A s \in Sector : View(s)' = View(s)
    BY <1>1, <2>1, ViewKept DEF Refilling
  <2> QED
    BY <1>1, <2>1, <2>2, Unseen
<1>5. CASE Call("main", "write", MySlot, buf[MySlot].sector)
  BY <1>1, <1>3, <1>5, CallStore
<1>6. CASE ~ MustWriteBack(buf[MySlot]) /\ Call("main", "read", MySlot, req.sector)
  <2>1. buf[MySlot].used => Current(MySlot)
    BY <1>1, <1>2, <1>6 DEF MustWriteBack, Calm, CleanMatches, Refilling, Current
  <2> QED
    BY <1>1, <1>2, <1>6, <2>1, CallStore
<1> QED
  BY <1>4, <1>5, <1>6 DEF BufFetch

LEMMA EvictedStore ==
  ASSUME Base, Calm, Evicted
  PROVE  UNCHANGED SS!vars
<1>1. /\ pc["main"] = "evicted" /\ UNCHANGED <<devVars, buf, req, out>>
      /\ req # None /\ Call("main", "read", MySlot, req.sector)
      /\ Current(MySlot) /\ TypeOK
  BY DEF Evicted, Base, Places, Calm, Settled
<1>2. req.sector \in Sector
  BY <1>1, RequestType
<1> QED
  BY <1>1, <1>2, CallStore

\* The buffer that has been filled shows the sector it now names as the disk
\* has it, and no longer the one before.
LEMMA FilledStore ==
  ASSUME Base, Calm, Filled
  PROVE  UNCHANGED SS!vars
<1>1. /\ pc["main"] = "filled" /\ Goto("main", "clean") /\ TypeOK /\ "main" \in Ctx
      /\ UNCHANGED <<disk, xfer, req, out>> /\ req # None /\ ~ UseWrite
      /\ xfer["main"].dir = "read" /\ buf[MySlot].content = OnDisk(req.sector)
  BY DEF Filled, UseWrite, devVars, Base, Places, Purpose, Calm, Settled, Ctx
<1>2. pc'["main"] = "clean" /\ MySlot \in Slot
  BY <1>1, GotoType, RequestType
<1>3. /\ \A b \in Slot : b # MySlot => buf'[b] = buf[b]
      /\ buf'[MySlot].used /\ buf'[MySlot].sector = req.sector
      /\ buf'[MySlot].content = buf[MySlot].content
  BY <1>1, FieldType
<1>4. \A b \in Slot : ~ Refilling(b)' /\ (Refilling(b) <=> b = MySlot)
  BY <1>1, <1>2 DEF Refilling
<1>5. ASSUME NEW s \in Sector PROVE View(s)' = View(s)
  <2>1. SlotOf(s) \in Slot
    BY SlotType
  <2>2. CASE SlotOf(s) = MySlot
    BY <1>1, <1>3, <1>4, <2>1, <2>2 DEF View, OnDisk
  <2>3. CASE SlotOf(s) # MySlot
    BY <1>1, <1>3, <1>4, <2>1, <2>3 DEF View, OnDisk
  <2> QED
    BY <2>2, <2>3
<1> QED
  BY <1>1, <1>2, <1>5, Unseen

LEMMA CleanStore ==
  ASSUME Base, Clean
  PROVE  UNCHANGED SS!vars
<1>1. /\ pc["main"] = "clean" /\ Goto("main", "use") /\ TypeOK /\ "main" \in Ctx
      /\ UNCHANGED <<disk, xfer, req, out>> /\ req # None /\ ~ UseWrite /\ ~ Filled
  BY DEF Clean, UseWrite, Filled, devVars, Base, Places, Ctx
<1>2. pc'["main"] = "use"
  BY <1>1, GotoType
<1>3. \A b \in Slot : /\ buf'[b].used = buf[b].used /\ buf'[b].sector = buf[b].sector
                      /\ buf'[b].content = buf[b].content
  BY <1>1, FieldType
<1>4. \A s \in Sector : View(s)' = View(s)
  BY <1>1, <1>2, <1>3, ViewKept DEF Refilling
<1> QED
  BY <1>1, <1>2, <1>4, Unseen

LEMMA UseReadStore ==
  ASSUME Base, Calm, UseRead
  PROVE  SS!Next
<1>1. /\ pc["main"] = "use" /\ Goto("main", "idle") /\ TypeOK /\ "main" \in Ctx
      /\ UNCHANGED <<disk, buf, xfer>> /\ req # None /\ req' = None /\ req.op = "read"
      /\ out' = buf[MySlot].content[req.word] /\ BufHit(buf[MySlot])
  BY DEF UseRead, devVars, Base, Places, Calm, Settled, Ctx
<1>2. pc'["main"] = "idle" /\ MySlot \in Slot /\ req.sector \in Sector
  BY <1>1, GotoType, RequestType
<1>3. \A s \in Sector : View(s)' = View(s)
  BY <1>1, <1>2, ViewKept DEF Refilling
<1>4. View(req.sector) = buf[MySlot].content
  BY <1>1, <1>2 DEF View, BufHit, MySlot, Refilling
<1>5. SS!Finish
  BY <1>1, <1>2, <1>3, <1>4 DEF SS!Finish
<1> QED
  BY <1>5 DEF SS!Next

LEMMA UseWriteStore ==
  ASSUME Base, Calm, UseWrite
  PROVE  SS!Next
<1>1. /\ pc["main"] = "use" /\ Goto("main", "mark") /\ TypeOK /\ "main" \in Ctx
      /\ UNCHANGED <<disk, xfer, req, out>> /\ req # None /\ req.op = "write"
      /\ BufHit(buf[MySlot]) /\ ~ Filled
  BY DEF UseWrite, Filled, devVars, Base, Places, Calm, Settled, Ctx
<1>2. /\ pc'["main"] = "mark" /\ MySlot \in Slot /\ MySlot' = MySlot
      /\ req.sector \in Sector /\ req.word \in Word /\ req.val \in Val
  BY <1>1, GotoType, RequestType DEF MySlot
<1>3. /\ \A b \in Slot : /\ b # MySlot => buf'[b] = buf[b]
                         /\ buf'[b].used = buf[b].used /\ buf'[b].sector = buf[b].sector
      /\ buf'[MySlot].content = [buf[MySlot].content EXCEPT ![req.word] = req.val]
  BY <1>1, FieldType
<1>4. \A b \in Slot : ~ Refilling(b)' /\ ~ Refilling(b)
  BY <1>1, <1>2 DEF Refilling
<1>5. View(req.sector)' = [View(req.sector) EXCEPT ![req.word] = req.val]
  BY <1>1, <1>2, <1>3, <1>4 DEF View, BufHit, MySlot
<1>6. ASSUME NEW s \in Sector, s # req.sector PROVE View(s)' = View(s)
  <2>1. SlotOf(s) \in Slot
    BY SlotType
  <2> QED
    BY <1>1, <1>2, <1>3, <1>4, <1>6, <2>1 DEF View, BufHit, OnDisk
<1>7. [s \in Sector |-> View(s)]' =
        [[s \in Sector |-> View(s)] EXCEPT ![req.sector][req.word] = req.val]
  BY <1>1, <1>2, <1>5, <1>6
<1>8. SS!Finish
  BY <1>1, <1>2, <1>7 DEF SS!Finish
<1> QED
  BY <1>8 DEF SS!Next

LEMMA MarkDirtyStore ==
  ASSUME Base, MarkDirty
  PROVE  UNCHANGED SS!vars
<1>1. /\ pc["main"] = "mark" /\ Goto("main", "idle") /\ TypeOK /\ "main" \in Ctx
      /\ UNCHANGED <<disk, xfer, out>> /\ req # None /\ req' = None
      /\ ~ UseWrite /\ ~ Filled
  BY DEF MarkDirty, UseWrite, Filled, devVars, Base, Places, Ctx
<1>2. pc'["main"] = "idle"
  BY <1>1, GotoType
<1>3. \A b \in Slot : /\ buf'[b].used = buf[b].used /\ buf'[b].sector = buf[b].sector
                      /\ buf'[b].content = buf[b].content
  BY <1>1, FieldType
<1>4. \A s \in Sector : View(s)' = View(s)
  BY <1>1, <1>2, <1>3, ViewKept DEF Refilling
<1> QED
  BY <1>1, <1>2, <1>4 DEF SS!vars

\* The handler, where it does not transfer, touches only dirty marks.
LEMMA HandlerStore ==
  ASSUME Base, Tick \/ Scan \/ Written
  PROVE  UNCHANGED SS!vars
<1>1. /\ pc'["main"] = pc["main"] /\ xfer'["main"] = xfer["main"]
      /\ UNCHANGED <<disk, req, out>>
  <2>1. TypeOK /\ "main" \in Ctx /\ "timer" \in Ctx
    BY DEF Base, Ctx
  <2>2. CASE Tick
    BY <2>1, <2>2, GotoType DEF Tick, devVars
  <2>3. CASE Scan
    BY <2>1, <2>3 DEF Scan, Goto, Call, devVars, TypeOK
  <2>4. CASE Written
    BY <2>1, <2>4, GotoType DEF Written, devVars
  <2> QED
    BY <2>2, <2>3, <2>4
<1>2. \A b \in Slot : /\ buf'[b].used = buf[b].used /\ buf'[b].sector = buf[b].sector
                      /\ buf'[b].content = buf[b].content
  <2>1. CASE Tick \/ Scan
    BY <2>1 DEF Tick, Scan
  <2>2. CASE Written
    BY <2>2, WrittenType DEF Written, Base, Places
  <2> QED
    BY <2>1, <2>2
<1>3. \A s \in Sector : View(s)' = View(s)
  BY <1>1, <1>2, MainKept, ViewKept
<1> QED
  BY <1>1, <1>3, Unseen

\* disk_do_read and disk_do_write change a buffer that main is refilling, or
\* the sector of a buffer that callers look into, or of one that main is about
\* to refill and that has been written before: callers see neither.
LEMMA TransferStore ==
  ASSUME Base, Calm, NEW c \in Ctx, Turn(c), DiskRoutine(c)
  PROVE  UNCHANGED SS!vars
<1>1. /\ Busy(c) /\ UNCHANGED <<req, out>> /\ TypeOK /\ "main" \in Ctx /\ "timer" \in Ctx
  BY DEF DiskRoutine, WaitDisk, IdePrepare, Issue, DataRead, DataWrite, Return, Busy,
         Base, Ctx
<1>2. CASE WaitDisk(c) \/ IdePrepare(c) \/ Issue(c)
  <2>1. /\ UNCHANGED <<disk, buf, xfer>>
        /\ \/ pc[c] = "wait" /\ Goto(c, "ports")
           \/ pc[c] = "ports" /\ Goto(c, "command")
           \/ pc[c] = "command" /\ Goto(c, "data")
    BY <1>2 DEF WaitDisk, IdePrepare, Issue, WriteSectorPorts, WriteCommand, devVars
  <2>2. pc'[c] \in {"ports", "command", "data"} /\ \A d \in Ctx : d # c => pc'[d] = pc[d]
    BY <1>1, <2>1, GotoType
  <2>3. /\ (pc'["main"] = "mark") = (pc["main"] = "mark")
        /\ \A b \in Slot : Refilling(b)' <=> Refilling(b)
    <3>1. CASE c = "main"
      BY <1>1, <2>1, <2>2, <3>1 DEF Busy, Refilling, MySlot
    <3>2. CASE c = "timer"
      BY <1>1, <2>1, <2>2, <3>2, MainKept
    <3> QED
      BY <3>1, <3>2 DEF Ctx
  <2>4. \A s \in Sector : View(s)' = View(s)
    BY <2>1, <2>3, ViewKept
  <2> QED
    BY <1>1, <2>3, <2>4, Unseen
<1>3. CASE DataRead(c)
  <2>1. /\ pc[c] = "data" /\ xfer[c].dir = "read" /\ xfer[c].i < WordsPerSector
        /\ UNCHANGED pc /\ xfer' = [xfer EXCEPT ![c].i = @ + 1]
    BY <1>3 DEF DataRead
  <2>2. /\ c = "main" /\ req # None /\ MySlot \in Slot /\ UNCHANGED disk
        /\ \A b \in Slot : b # MySlot => buf'[b] = buf[b]
    BY <1>3, DataReadPuts DEF IsPut
  <2>3. xfer'["main"].dir = "read"
    BY <2>1, <2>2, NextXfer
  <2>4. \A b \in Slot : /\ Refilling(b)' <=> b = MySlot
                        /\ Refilling(b) <=> b = MySlot
    BY <1>1, <2>1, <2>2, <2>3 DEF Refilling, MySlot
  <2>5. ASSUME NEW s \in Sector PROVE View(s)' = View(s)
    <3>1. SlotOf(s) \in Slot
      BY SlotType
    <3>2. CASE SlotOf(s) = MySlot
      BY <2>2, <2>4, <3>1, <3>2 DEF View, OnDisk
    <3>3. CASE SlotOf(s) # MySlot
      BY <2>2, <2>4, <3>1, <3>3 DEF View, OnDisk
    <3> QED
      BY <3>2, <3>3
  <2> QED
    BY <1>1, <2>1, <2>5, Unseen
<1>4. CASE DataWrite(c)
  <2> DEFINE sl == xfer[c].slot
  <2>1. /\ pc[c] = "data" /\ xfer[c].dir = "write" /\ xfer[c].i < WordsPerSector
        /\ UNCHANGED <<buf, pc>> /\ xfer' = [xfer EXCEPT ![c].i = @ + 1]
    BY <1>4 DEF DataWrite
  <2>2. /\ sl \in Slot /\ xfer[c].sector \in Sector
        /\ buf[sl].used /\ xfer[c].sector = buf[sl].sector
        /\ \A s \in Sector \ {xfer[c].sector} : OnDisk(s)' = OnDisk(s)
        /\ \A b \in Slot : buf[b].used /\ Current(b) => Current(b)'
    BY <1>4, DataWriteDisk
  <2>3. SlotOf(xfer[c].sector) = sl
    BY <2>2 DEF Calm, BuffersInPlace
  <2>4. \A b \in Slot : Refilling(b)' <=> Refilling(b)
    <3>1. xfer'["main"].dir = xfer["main"].dir
      BY <1>1, <2>1, NextXfer
    <3> QED
      BY <1>1, <2>1, <3>1 DEF Refilling, MySlot
  \* The handler writes a buffer that main is about to refill: once more.
  <2>5. Refilling(sl) => Current(sl)
    <3>1. CASE c = "main"
      BY <2>1, <3>1 DEF Refilling
    <3>2. CASE c = "timer"
      <4>1. ~ Critical
        BY <2>1, <3>2 DEF Calm, Apart, Busy
      <4> QED
        BY <2>2, <4>1 DEF Refilling, Critical, Calm, Settled
    <3> QED
      BY <3>1, <3>2 DEF Ctx
  <2>6. ASSUME NEW s \in Sector PROVE View(s)' = View(s)
    <3>1. SlotOf(s) \in Slot
      BY SlotType
    <3>2. CASE s # xfer[c].sector
      <4>1. OnDisk(s)' = OnDisk(s)
        BY <2>2, <3>2
      <4> QED
        BY <2>1, <2>4, <3>1, <4>1 DEF View
    <3>3. CASE s = xfer[c].sector /\ ~ Refilling(sl)
      BY <2>1, <2>2, <2>3, <2>4, <3>1, <3>3 DEF View
    <3>4. CASE s = xfer[c].sector /\ Refilling(sl)
      <4>1. PICK b \in Slot : b = sl /\ buf[b].used /\ buf[b].sector = s /\ Current(b)
        BY <2>2, <2>5, <3>4
      <4>2. Current(b)'
        BY <2>2, <4>1
      <4>3. OnDisk(s)' = OnDisk(s)
        BY <2>1, <4>1, <4>2 DEF Current, OnDisk
      <4> QED
        BY <2>1, <2>3, <2>4, <3>1, <3>4, <4>3 DEF View
    <3> QED
      BY <3>2, <3>3, <3>4
  <2> QED
    BY <1>1, <2>1, <2>6, Unseen
<1>5. CASE Return(c)
  <2>1. /\ UNCHANGED <<disk, buf>> /\ pc[c] = "data"
        /\ Goto(c, IF c = "timer" THEN "written"
                   ELSE IF xfer[c].dir = "write" THEN "evicted" ELSE "filled")
        /\ xfer' = [xfer EXCEPT ![c] = NoTransfer]
    BY <1>5 DEF Return, devVars
  <2>2. /\ xfer'[c].dir = "read" /\ xfer[c].dir \in {"read", "write"}
        /\ \A d \in Ctx : d # c => xfer'[d] = xfer[d]
    BY <1>1, <2>1, NoTransferType, XferType DEF TypeOK
  <2>3. /\ pc'[c] = IF c = "timer" THEN "written"
                    ELSE IF xfer[c].dir = "write" THEN "evicted" ELSE "filled"
        /\ \A d \in Ctx : d # c => pc'[d] = pc[d]
    BY <1>1, <2>1, GotoType
  <2>4. /\ (pc'["main"] = "mark") = (pc["main"] = "mark")
        /\ \A b \in Slot : Refilling(b)' <=> Refilling(b)
    <3>1. CASE c = "main"
      BY <1>1, <2>1, <2>2, <2>3, <3>1 DEF Refilling, MySlot
    <3>2. CASE c = "timer"
      BY <1>1, <2>2, <2>3, <3>2, MainKept
    <3> QED
      BY <3>1, <3>2 DEF Ctx
  <2>5. \A s \in Sector : View(s)' = View(s)
    BY <2>1, <2>4, ViewKept
  <2> QED
    BY <1>1, <2>4, <2>5, Unseen
<1> QED
  BY <1>2, <1>3, <1>4, <1>5 DEF DiskRoutine

LEMMA NextStore ==
  ASSUME Base, Calm, [Next]_vars
  PROVE  [SS!Next]_(SS!vars)
<1>1. CASE Next
  <2>1. ASSUME NEW c \in Ctx, Turn(c), DiskRoutine(c) PROVE UNCHANGED SS!vars
    BY <2>1, TransferStore
  <2>2. CASE \E r \in Calls : Begin(r)
    BY <2>2, BeginStore
  <2>3. CASE Main
    BY <2>1, <2>3, BufFetchStore, EvictedStore, FilledStore, CleanStore, UseReadStore,
       UseWriteStore, MarkDirtyStore DEF Main, Turn, Ctx
  <2>4. CASE Tick \/ Handler
    BY <2>1, <2>4, HandlerStore DEF Handler, Turn, Ctx
  <2> QED
    BY <1>1, <2>2, <2>3, <2>4 DEF Next
<1>2. CASE UNCHANGED vars
  <2>1. UNCHANGED <<disk, buf, pc, xfer, req, out>>
    BY <1>2 DEF vars, driverVars, devVars
  <2>2. \A s \in Sector : View(s)' = View(s)
    BY <2>1 DEF View, OnDisk, Refilling, MySlot
  <2> QED
    BY <2>1, <2>2, Unseen
<1> QED
  BY <1>1, <1>2

\* read_byte and write_byte act on the disk as on an array of sectors: the
\* buffers, the evictions and the write backs of the handler, which come at any
\* moment, cannot be seen through them until one comes into a transfer.
THEOREM Refines == Spec => ImplementsSectorStore
<1>1. IInv /\ [Next]_vars => [SS!Next \/ disturbed']_(SS!vars)
  BY NextStore, StaysDisturbed DEF IInv, Base
<1> QED
  BY <1>1, InitStore, Invariant, PTL DEF Spec, ImplementsSectorStore
=============================================================================
