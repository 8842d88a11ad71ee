------------------------------ MODULE SectorBuf ------------------------------
(***************************************************************************)
(* The sector cache of the kernel's IDE driver                             *)
(* (kernel/src/driver/ide/{buffer,disk,ide}.c, PIO mode) on the device of  *)
(* IdeDevice.  Two contexts run its code: "main", the kernel that calls    *)
(* read_byte and write_byte, and "timer", the handler of IRQ 0, which      *)
(* writes the dirty buffers back every HZ ticks.  Nothing keeps the tick   *)
(* out of the driver: the handler interrupts main between any two of its   *)
(* steps here, and runs to its end, because its gate is an interrupt gate. *)
(* A write back that finds main between the command it prepares and the    *)
(* fields of the buffer it fills takes the device away from it; disturbed  *)
(* records that this has happened.                                         *)
(***************************************************************************)
EXTENDS IdeDevice

CONSTANTS NR_SEC_BUF,    \* 128 in the code
          HZ,            \* ticks between two write backs
          None,
          Calls          \* the calls that are made, some of Request

ASSUME BufAssumption == NR_SEC_BUF \in Nat \ {0} /\ HZ \in Nat \ {0}

VARIABLES buf,       \* the sector buffers
          pc,        \* where each context is
          xfer,      \* disk_do_read or disk_do_write of each context
          req,       \* the read_byte or write_byte call in progress
          out,       \* what the last read_byte returned
          counter,   \* static counter of ide_writeback
          wb,        \* i, the loop variable of buf_writeback
          disturbed  \* a write back has come into a transfer of main; a
                     \* history variable, which no step looks at

driverVars == <<devVars, buf, pc, xfer, req, out, counter, wb>>
vars == <<driverVars, disturbed>>

Ctx  == {"main", "timer"}
Slot == 0 .. NR_SEC_BUF - 1

SlotOf(s) == s % NR_SEC_BUF

Request == [op : {"read"}, sector : Sector, word : Word]
             \union [op : {"write"}, sector : Sector, word : Word, val : Val]

ASSUME CallsAssumption == Calls \subseteq Request /\ None \notin Request

SectorBufRec == [sector : Sector, used : BOOLEAN, dirty : BOOLEAN,
                 content : [Word -> Val]]

Transfer == [dir : {"read", "write"}, slot : Slot, sector : Sector,
             i : 0 .. WordsPerSector]

NoTransfer == [dir |-> "read", slot |-> 0, sector |-> 0, i |-> 0]

Init == /\ DevInit
        /\ \E v \in Val :
             /\ buf = [b \in Slot |-> [sector |-> 0, used |-> FALSE,
                                       dirty |-> FALSE,
                                       content |-> [w \in Word |-> v]]]
             /\ out = v
        /\ pc = [c \in Ctx |-> "idle"]
        /\ xfer = [c \in Ctx |-> NoTransfer]
        /\ req = None
        /\ counter = 0
        /\ wb = 0
        /\ disturbed = FALSE

-----------------------------------------------------------------------------
(* disk_do_read and disk_do_write, for either context.                     *)

Call(c, dir, slot, s) ==
  /\ pc' = [pc EXCEPT ![c] = "wait"]
  /\ xfer' = [xfer EXCEPT ![c] = [dir |-> dir, slot |-> slot, sector |-> s,
                                  i |-> 0]]

Goto(c, label) == pc' = [pc EXCEPT ![c] = label]

\* waitdisk spins until the status port shows ready.
WaitDisk(c) ==
  /\ pc[c] = "wait"
  /\ status = "ready"
  /\ Goto(c, "ports")
  /\ UNCHANGED <<devVars, buf, xfer, req, out, counter, wb>>

\* The outs of ide_prepare (in one step: they differ only in which bits of
\* the sector number they carry).
IdePrepare(c) ==
  /\ pc[c] = "ports"
  /\ WriteSectorPorts(xfer[c].sector)
  /\ Goto(c, "command")
  /\ UNCHANGED <<buf, xfer, req, out, counter, wb>>

Issue(c) ==
  /\ pc[c] = "command"
  /\ WriteCommand(xfer[c].dir)
  /\ Goto(c, "data")
  /\ UNCHANGED <<buf, xfer, req, out, counter, wb>>

\* One turn of the loop over the words of the sector.
DataRead(c) ==
  /\ pc[c] = "data" /\ xfer[c].dir = "read" /\ xfer[c].i < WordsPerSector
  /\ ReadData
  /\ buf' = [buf EXCEPT ![xfer[c].slot].content[xfer[c].i] =
                          IF up' THEN DataWord ELSE @]
  /\ xfer' = [xfer EXCEPT ![c].i = @ + 1]
  /\ UNCHANGED <<pc, req, out, counter, wb>>

DataWrite(c) ==
  /\ pc[c] = "data" /\ xfer[c].dir = "write" /\ xfer[c].i < WordsPerSector
  /\ WriteData(buf[xfer[c].slot].content[xfer[c].i])
  /\ xfer' = [xfer EXCEPT ![c].i = @ + 1]
  /\ UNCHANGED <<buf, pc, req, out, counter, wb>>

\* The loop has ended, the routine returns to where it was called.
Return(c) ==
  /\ pc[c] = "data" /\ xfer[c].i = WordsPerSector
  /\ Goto(c, IF c = "timer" THEN "written"
             ELSE IF xfer[c].dir = "write" THEN "evicted" ELSE "filled")
  /\ xfer' = [xfer EXCEPT ![c] = NoTransfer]       \* its locals are gone
  /\ UNCHANGED <<devVars, buf, req, out, counter, wb>>

DiskRoutine(c) == \/ WaitDisk(c) \/ IdePrepare(c) \/ Issue(c)
                  \/ DataRead(c) \/ DataWrite(c) \/ Return(c)

-----------------------------------------------------------------------------
(* The main context: read_byte and write_byte around buf_fetch.            *)

MySlot == SlotOf(req.sector)

Begin(r) ==
  /\ pc["main"] = "idle"
  /\ req' = r
  /\ Goto("main", "fetch")
  /\ UNCHANGED <<devVars, buf, xfer, out, counter, wb>>

BufHit(b) == b.used /\ b.sector = req.sector

\* Buggy variant: the dirty flag is not consulted.
Bug_DropDirty(b) == FALSE

MustWriteBack(b) == b.used /\ b.dirty

BufFetch ==
  LET b == buf[MySlot]
  IN  /\ pc["main"] = "fetch"
      /\ \/ /\ BufHit(b)
            /\ Goto("main", "use")
            /\ UNCHANGED xfer
         \/ /\ ~ BufHit(b) /\ MustWriteBack(b)
            /\ Call("main", "write", MySlot, b.sector)
         \/ /\ ~ BufHit(b) /\ ~ MustWriteBack(b)
            /\ Call("main", "read", MySlot, req.sector)
      /\ UNCHANGED <<devVars, buf, req, out, counter, wb>>

Evicted ==
  /\ pc["main"] = "evicted"
  /\ Call("main", "read", MySlot, req.sector)
  /\ UNCHANGED <<devVars, buf, req, out, counter, wb>>

\* ptr->used = true; ptr->sector = sector;
Filled ==
  /\ pc["main"] = "filled"
  /\ buf' = [buf EXCEPT ![MySlot].used = TRUE, ![MySlot].sector = req.sector]
  /\ Goto("main", "clean")
  /\ UNCHANGED <<devVars, xfer, req, out, counter, wb>>

\* ptr->dirty = false;
Clean ==
  /\ pc["main"] = "clean"
  /\ buf' = [buf EXCEPT ![MySlot].dirty = FALSE]
  /\ Goto("main", "use")
  /\ UNCHANGED <<devVars, xfer, req, out, counter, wb>>

UseRead ==
  /\ pc["main"] = "use" /\ req.op = "read"
  /\ out' = buf[MySlot].content[req.word]
  /\ req' = None
  /\ Goto("main", "idle")
  /\ UNCHANGED <<devVars, buf, xfer, counter, wb>>

UseWrite ==
  /\ pc["main"] = "use" /\ req.op = "write"
  /\ buf' = [buf EXCEPT ![MySlot].content[req.word] = req.val]
  /\ Goto("main", "mark")
  /\ UNCHANGED <<devVars, xfer, req, out, counter, wb>>

MarkDirty ==
  /\ pc["main"] = "mark"
  /\ buf' = [buf EXCEPT ![MySlot].dirty = TRUE]
  /\ req' = None
  /\ Goto("main", "idle")
  /\ UNCHANGED <<devVars, xfer, out, counter, wb>>

\* main runs while no handler does.
Main == /\ pc["timer"] = "idle"
        /\ \/ BufFetch \/ Evicted \/ Filled \/ Clean
           \/ UseRead \/ UseWrite \/ MarkDirty
           \/ DiskRoutine("main")

-----------------------------------------------------------------------------
(* The timer context: ide_writeback and buf_writeback.                     *)

\* Buggy variant: the counter is never reset, and passes HZ.
Bug_KeepCounter == counter + 1

CounterAfterScan == 0

\* Buggy variant: the last buffer is left out.
Bug_LastLeftOut == wb = NR_SEC_BUF - 1

ScanDone == wb = NR_SEC_BUF

Tick ==
  /\ pc["timer"] = "idle"
  /\ counter' = counter + 1
  /\ IF counter' = HZ THEN Goto("timer", "scan") /\ wb' = 0
                      ELSE UNCHANGED <<pc, wb>>
  /\ UNCHANGED <<devVars, buf, xfer, req, out>>

Scan ==
  /\ pc["timer"] = "scan"
  /\ \/ /\ ScanDone
        /\ Goto("timer", "idle")
        /\ counter' = CounterAfterScan
        /\ UNCHANGED <<xfer, wb>>
     \/ /\ ~ ScanDone /\ buf[wb].dirty
        /\ Call("timer", "write", wb, buf[wb].sector)
        /\ UNCHANGED <<counter, wb>>
     \/ /\ ~ ScanDone /\ ~ buf[wb].dirty
        /\ wb' = wb + 1
        /\ UNCHANGED <<pc, xfer, counter>>
  /\ UNCHANGED <<devVars, buf, req, out>>

Written ==
  /\ pc["timer"] = "written"
  /\ buf' = [buf EXCEPT ![wb].dirty = FALSE]
  /\ wb' = wb + 1
  /\ Goto("timer", "scan")
  /\ UNCHANGED <<devVars, xfer, req, out, counter>>

Handler == Scan \/ Written \/ DiskRoutine("timer")

\* main has written the ports of a command, transfers, or has a sector in a
\* buffer whose fields still name another.
Critical == pc["main"] \in {"command", "data", "filled"}

\* The handler calls disk_do_write.
WriteBackCalled == pc["timer"] = "scan" /\ pc'["timer"] = "wait"

\* After an assertion of the device has failed, NEMU is gone.
Next == /\ up
        /\ \/ \E r \in Calls : Begin(r) /\ pc["timer"] = "idle"
           \/ Main
           \/ Tick
           \/ Handler
        /\ disturbed' = (disturbed \/ (WriteBackCalled /\ Critical))

\* Both contexts go on executing, and a tick waits in the interrupt
\* controller until it is taken.
Fairness == WF_driverVars(Main) /\ WF_driverVars(Handler) /\ SF_driverVars(Tick)

Spec == Init /\ [][Next]_vars /\ Fairness

-----------------------------------------------------------------------------
TypeOK == /\ DevTypeOK
          /\ buf \in [Slot -> SectorBufRec]
          /\ pc \in [Ctx -> {"idle", "fetch", "wait", "ports", "command", "data",
                             "evicted", "filled", "clean", "use", "mark",
                             "scan", "written"}]
          /\ xfer \in [Ctx -> Transfer]
          /\ req \in Request \union {None}
          /\ out \in Val
          /\ counter \in 0 .. HZ
          /\ wb \in 0 .. NR_SEC_BUF
          /\ disturbed \in BOOLEAN

\* main is reading a sector into slot b, whose fields still name the old one.
Refilling(b) ==
  /\ req # None
  /\ b = MySlot
  /\ xfer["main"].dir = "read"
  /\ pc["main"] \in {"wait", "ports", "command", "data", "filled"}

\* Sector s as the callers of the driver see it.
View(s) == LET b == SlotOf(s)
           IN  IF buf[b].used /\ buf[b].sector = s /\ ~ Refilling(b)
               THEN buf[b].content ELSE OnDisk(s)

\* A buffer that counts as a hit and is not dirty holds what is on the disk
\* (buffer.c:37-38), unless it has just been changed and not yet marked.
CleanMatches ==
  \A b \in Slot :
    buf[b].used /\ ~ buf[b].dirty /\ ~ Refilling(b)
      => \/ buf[b].content = OnDisk(buf[b].sector)
         \/ pc["main"] = "mark" /\ b = MySlot

\* That holds until a write back has come into a transfer.
CleanIsOnDisk == disturbed \/ CleanMatches

\* No data access in the wrong direction, and none past the end of a sector:
\* the assertions of ide_io_handler hold (ide.c:21, 26 and 72).
DeviceNotMisused == up

\* They hold as long as no write back comes into a transfer, wherever else in
\* the driver the ticks find main.
DeviceNotMisusedAlone == disturbed \/ up

\* waitdisk (disk.c:15) is never entered on a device that nobody will make
\* ready: the handler, which main waits for, does not spin for ever.
WaitdiskEnds ==
  disturbed \/
  \A c \in Ctx : pc[c] = "wait" /\ (c = "main" => pc["timer"] = "idle") => status = "ready"

\* What is written reaches the disk: the timer cleans every dirty buffer
\* (ide.c:3, "writeback buf for every 1 second").
DirtyIsWrittenBack ==
  \A b \in Slot : buf[b].dirty ~> ~ buf[b].dirty \/ disturbed

SS == INSTANCE SectorStore
        WITH data <- [s \in Sector |-> View(s)],
             req  <- IF pc["main"] = "mark" THEN None ELSE req

\* The cache, its evictions and its write backs are invisible to the callers,
\* up to the first write back that comes into a transfer.
ImplementsSectorStore == SS!Init /\ [][SS!Next \/ disturbed']_(SS!vars)
=============================================================================
