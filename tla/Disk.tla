-------------------------------- MODULE Disk --------------------------------
(***************************************************************************)
(* What the SD card driver (c/emmc.c, c/sd.c) promises to hs/FAT32.hs: an  *)
(* array of sectors.  A transfer that reports success has happened as a    *)
(* whole, one that reports failure may have written some of its sectors,   *)
(* and nothing else is ever written.                                       *)
(***************************************************************************)
EXTENDS Integers, Sequences

CONSTANTS NSectors, Value

VARIABLES
  mem,        \* the sectors
  req         \* the request: kind, first sector, data, and how it ended

Sector   == 0..NSectors - 1
Range(r) == r.lba..r.lba + Len(r.data) - 1
OnDisk(r) == \A i \in 1..Len(r.data) : mem[r.lba + i - 1] = r.data[i]

Init == mem \in [Sector -> Value] /\ req.result # "busy"

(* A call is taken, or refused as empty.                                   *)
Call ==
  /\ req.result # "busy" /\ req'.result \in {"busy", "failed"}
  /\ UNCHANGED mem

(* Any part of the request happens: sectors written, or come into the     *)
(* buffer.                                                                 *)
Written ==
  \A s \in Sector : \/ mem'[s] = mem[s]
                    \/ req.kind = "write" /\ s \in Range(req) /\ mem'[s] = req.data[s - req.lba + 1]
Filled ==
  /\ Len(req'.data) = Len(req.data)
  /\ \A i \in 1..Len(req.data) : \/ req'.data[i] = req.data[i]
                                 \/ req.kind = "read" /\ req'.data[i] = mem[req.lba + i - 1]
Part ==
  /\ req.result = "busy" /\ Written /\ Filled
  /\ req'.kind = req.kind /\ req'.lba = req.lba

(* Success tells what is on the disk: the data read, or written.           *)
Answer ==
  /\ Part
  /\ req'.result \in {"ok", "failed"}
  /\ (req'.result = "ok" /\ req.kind # "init") => OnDisk(req)'
Goes == Part /\ req'.result = "busy"

Step == Call \/ Goes \/ Answer
Spec == Init /\ [][Step]_<<mem, req>>
=============================================================================
