------------------------------ MODULE IdeDevice ------------------------------
(***************************************************************************)
(* The IDE controller NEMU emulates, nemu/src/device/ide.c, in its PIO     *)
(* mode.  The port accesses of the guest are atomic: each is one guest     *)
(* instruction, whose callback ide_io_handler runs to its end.             *)
(* The disk is the file disk_fp, here an array of words; a sector is       *)
(* WordsPerSector of them (128 in the code).                               *)
(***************************************************************************)
EXTENDS Integers

CONSTANTS NrSector, WordsPerSector, Val

ASSUME DeviceAssumption ==
  NrSector \in Nat \ {0} /\ WordsPerSector \in Nat \ {0} /\ Val # {}

VARIABLES disk,         \* the words of the file
          status,       \* port 7: "ready" is 0x40, "busy" the command 0x30
          port_sector,  \* ports 3 to 6
          disk_pos,     \* file position, in words
          byte_cnt,     \* words transferred by the current command
          ide_write,    \* direction of the current command
          up            \* FALSE once an assertion of the device has failed

devVars == <<disk, status, port_sector, disk_pos, byte_cnt, ide_write, up>>

Sector == 0 .. NrSector - 1
Word   == 0 .. WordsPerSector - 1

\* init_ide; the statics of the file are zero.
DevInit == /\ disk \in [0 .. NrSector * WordsPerSector - 1 -> Val]
           /\ status = "ready"
           /\ port_sector = 0
           /\ disk_pos = 0
           /\ byte_cnt = 0
           /\ ide_write = FALSE
           /\ up = TRUE

Abort == up' = FALSE /\ UNCHANGED <<disk, status, port_sector, disk_pos,
                                    byte_cnt, ide_write>>

\* Out to ports 1 to 6: no callback action, the bytes stay in the ports.
WriteSectorPorts(s) ==
  /\ port_sector' = s
  /\ UNCHANGED <<disk, status, disk_pos, byte_cnt, ide_write, up>>

\* fseek(disk_fp, sector << 9): the position the command seeks to.
\* Buggy variant: the command does not seek.
Bug_NoSeek == disk_pos

SeekTo == port_sector * WordsPerSector

\* Buggy variant: the direction of the previous command is kept.
Bug_OldDirection(dir) == ide_write

IsWrite(dir) == dir = "write"

\* Out to port 7: commands 0x20 (read) and 0x30 (write).  Seeking and the
\* transfer count start anew; a read is ready at once.
WriteCommand(dir) ==
  /\ disk_pos' = SeekTo
  /\ byte_cnt' = 0
  /\ ide_write' = IsWrite(dir)
  /\ status' = IF dir = "read" THEN "ready" ELSE "busy"
  /\ UNCHANGED <<disk, port_sector, up>>

\* The next word of the file, for an in from port 0.
DataWord == disk[disk_pos]

\* Buggy variant: the count is tested before the word is counted.
Bug_NotYetCounted == IF byte_cnt = WordsPerSector THEN "ready" ELSE status

StatusAfterWord == IF byte_cnt + 1 = WordsPerSector THEN "ready" ELSE status

\* In from port 0: assert(!ide_write).
ReadData ==
  IF byte_cnt <= WordsPerSector /\ ~ ide_write
  THEN /\ disk_pos' = disk_pos + 1
       /\ byte_cnt' = byte_cnt + 1
       /\ status' = StatusAfterWord
       /\ UNCHANGED <<disk, port_sector, ide_write, up>>
  ELSE Abort

\* Out to port 0: assert(ide_write).
WriteData(v) ==
  IF byte_cnt <= WordsPerSector /\ ide_write
  THEN /\ disk' = [disk EXCEPT ![disk_pos] = v]
       /\ disk_pos' = disk_pos + 1
       /\ byte_cnt' = byte_cnt + 1
       /\ status' = StatusAfterWord
       /\ UNCHANGED <<port_sector, ide_write, up>>
  ELSE Abort

\* Sector s as the file has it.
OnDisk(s) == [w \in Word |-> disk[s * WordsPerSector + w]]

DevTypeOK ==
  /\ disk \in [0 .. NrSector * WordsPerSector - 1 -> Val]
  /\ status \in {"ready", "busy"}
  /\ port_sector \in Sector
  /\ disk_pos \in 0 .. NrSector * WordsPerSector
  /\ byte_cnt \in 0 .. WordsPerSector
  /\ ide_write \in BOOLEAN
  /\ up \in BOOLEAN
=============================================================================
