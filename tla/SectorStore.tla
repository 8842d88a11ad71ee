----------------------------- MODULE SectorStore -----------------------------
(***************************************************************************)
(* What the IDE driver of the kernel promises to ide_read and ide_write:   *)
(* the disk is an array of sectors of words; a call reads or writes one    *)
(* element of it, at one moment between its start and its return.          *)
(***************************************************************************)
CONSTANTS Sector, Word, Val,
          None      \* no call in progress

VARIABLES data,     \* the sectors
          req,      \* the call in progress
          out       \* what the last read returned

vars == <<data, req, out>>

Request == [op : {"read"}, sector : Sector, word : Word]
             \union [op : {"write"}, sector : Sector, word : Word, val : Val]

Init == /\ data \in [Sector -> [Word -> Val]]
        /\ req = None
        /\ out \in Val

Begin(r) == req = None /\ req' = r /\ UNCHANGED <<data, out>>

Finish ==
  /\ req # None
  /\ req' = None
  /\ \/ /\ req.op = "read"
        /\ out' = data[req.sector][req.word]
        /\ UNCHANGED data
     \/ /\ req.op = "write"
        /\ data' = [data EXCEPT ![req.sector][req.word] = req.val]
        /\ UNCHANGED out

Next == Finish \/ \E r \in Request : Begin(r)

Spec == Init /\ [][Next]_vars
=============================================================================
