-------------------------------- MODULE Fat32 --------------------------------
(***************************************************************************)
(* The file operations of hs/FAT32.hs on the disk: the copies of the FAT,  *)
(* one directory (a sector of entries) and the data clusters.  Every       *)
(* sector write is a step, with the reads that lead to it; the power can   *)
(* fail between any two, and mountFS then finds what is on the disk.       *)
(* Reading a file is a step for every number followChain has in hand; a    *)
(* power failure there loses nothing and is left out.                      *)
(*                                                                         *)
(* A cluster holds one Chunk of data, sizes count clusters.  Sector writes *)
(* do not fail.  Names are the ones that formatSFN and parseSFN give back  *)
(* as typed (no trailing dot).                                             *)
(***************************************************************************)
EXTENDS Integers, Sequences, FiniteSetsExt

CONSTANTS
  LastCluster, \* fsNEntries - 1: the FAT has the entries 0..LastCluster
  NFats,       \* bpbNumFATs
  NSlots,      \* entries in the directory
  Name, Chunk,
  ZERO,        \* what a buffer fresh from alloc holds
  NoFile,      \* no file of that name
  Data,        \* the contents that are written (bound)
  MaxCuts      \* power failures (bound)

Cluster == 3..LastCluster
Copy    == 1..NFats
Slot    == 1..NSlots

(* From 0x0FFFFFF8 on, a FAT entry is an end mark (isValidCluster 290);    *)
(* the first byte of a used name is neither 0 nor 0xE5.                    *)
ASSUME FatAssumption ==
  /\ LastCluster \in Nat /\ LastCluster < 268435448
  /\ NFats \in Nat \ {0} /\ NSlots \in Nat
  /\ Data \subseteq Seq(Chunk) /\ MaxCuts \in Nat /\ ZERO \notin Chunk
  /\ "0x00" \notin Name /\ "0xE5" \notin Name
  /\ NoFile \notin [data : Seq(Chunk \cup {ZERO}), held : Nat]

VARIABLES
  fat,        \* the copies of the FAT
  dir,        \* the directory entries
  disk,       \* the contents of the clusters
  op,         \* the operation in progress and its locals
  pend, copy, \* FAT entries still to write, and the copy that is next
  reading,    \* what followChain has in hand; 0 if nothing is being read
  cuts, hurt, \* history: power failures, and whether one hit a bad moment
  seen        \* history: the files as they were when no operation ran

store    == <<fat, dir, disk>>
hist     == <<cuts, hurt, seen>>
diskVars == <<store, op, pend, copy, hist>>
vars     == <<diskVars, reading>>

FREE      == 0
EOC       == 268435455            \* 0x0FFFFFFF
Valid(c)  == c \in Cluster        \* isValidCluster (2 is the directory)
UNUSED    == [name |-> "0x00", cluster |-> 0, size |-> 0]
DELETED   == [name |-> "0xE5", cluster |-> 0, size |-> 0]
Entry(n, c, s) == [name |-> n, cluster |-> c, size |-> s]
Live(s)   == dir[s].name \in Name
Least(S)  == IF S = {} THEN 0 ELSE Min(S)

(* findEntry looks at every entry, findDirEntrySlot stops at the first     *)
(* that was never used; 0 if there is none.                                *)
FindEntry(n) == Least({s \in Slot : dir[s].name = n})
FindSlot(n)  == Least({s \in Slot : dir[s].name = n /\ \A i \in 1..s : dir[i] # UNUSED})
FreeSlot     == Least({s \in Slot : ~Live(s)})

(* readFATEntry reads the first copy.                                      *)
Next(c)       == fat[1][c]
FreeTo(last)  == Least({c \in 3..last : Next(c) = FREE})
FreeCluster   == FreeTo(LastCluster)

(* followChain: from c on while the numbers are valid; after the first one *)
(* that is not, the walk stays invalid.                                    *)
Most     == LastCluster + 1
After(c) == IF Valid(c) THEN Next(c) ELSE EOC
Walk(c)  == LET walk[i \in 1..Most] == IF i = 1 THEN c ELSE After(walk[i - 1]) IN walk
Chain(c) ==
  LET walk == Walk(c)
  IN  [i \in 1..Cardinality({i \in 1..Most : Valid(walk[i])}) |-> walk[i]]
ChainOf(s) == LET ch == Chain(dir[s].cluster) IN {ch[i] : i \in 1..Len(ch)}

(* readFileBytes: a short chain leaves the end of the buffer as it was.    *)
Read(s) ==
  LET ch == Chain(dir[s].cluster)
  IN  [i \in 1..dir[s].size |-> IF i <= Len(ch) THEN disk[ch[i]] ELSE ZERO]

----------------------------------------------------------------------------
(* What the caller sees: for refinement.                                   *)
FilesNow ==
  [n \in Name |-> IF FindEntry(n) = 0 THEN NoFile
                  ELSE LET s == FindEntry(n)
                       IN  [data |-> Read(s), held |-> Len(Chain(dir[s].cluster))]]
LostNow ==
  Cardinality({c \in Cluster : Next(c) # FREE} \ UNION {ChainOf(s) : s \in {t \in Slot : Live(t)}})
Now     == [files |-> FilesNow, lost |-> LostNow]
Settles == seen' = Now'

Idle == op.pc = "idle"
Op(p, k, n, d, s, c) ==
  [pc |-> p, kind |-> k, name |-> n, data |-> d, slot |-> s,
   start |-> c, cl |-> c, rest |-> d]
NoOp     == Op("idle", "none", NoFile, <<>>, 0, 0)
Fails    == UNCHANGED diskVars
Begins(o, p) ==
  /\ op' = o /\ pend' = p
  /\ UNCHANGED <<store, copy, hist>>

Init ==
  /\ fat  = [i \in Copy |-> [c \in Cluster |-> FREE]]
  /\ dir  = [s \in Slot |-> UNUSED]
  /\ disk = [c \in Cluster |-> ZERO]
  /\ op   = NoOp
  /\ pend = <<>> /\ copy = 1 /\ reading = 0
  /\ cuts = 0 /\ hurt = FALSE /\ seen = Now

----------------------------------------------------------------------------
(* createFile and renameFile: one directory sector.                        *)
OneSector(s, e) ==
  /\ dir' = [dir EXCEPT ![s] = e]
  /\ UNCHANGED <<fat, disk, op, pend, copy, cuts, hurt>>
  /\ Settles
CreateFile(n) ==
  /\ Idle
  /\ IF FindEntry(n) # 0 \/ FreeSlot = 0
       THEN Fails
       ELSE OneSector(FreeSlot, Entry(n, 0, 0))
RenameOver(o, n) ==     \* mutant: the target is not looked for
  /\ Idle
  /\ IF FindSlot(o) = 0
       THEN Fails
       ELSE OneSector(FindSlot(o), [dir[FindSlot(o)] EXCEPT !.name = n])
RenameFile(o, n) ==
  /\ Idle
  /\ IF FindEntry(n) # 0 \/ FindSlot(o) = 0
       THEN Fails
       ELSE OneSector(FindSlot(o), [dir[FindSlot(o)] EXCEPT !.name = n])

(* deleteFile: free the chain, then mark the entry.                        *)
DeleteFile(n) ==
  /\ Idle
  /\ IF FindSlot(n) = 0
       THEN Fails
       ELSE Begins(Op("free", "delete", n, <<>>, FindSlot(n), dir[FindSlot(n)].cluster), <<>>)

(* writeFile: an empty one frees the chain; otherwise write from the first *)
(* cluster on, which is allocated if there is none.                        *)
WriteFile(n, d) ==
  /\ Idle
  /\ LET s    == FindSlot(n)
         c    == dir[s].cluster
         W(p, cl) == Op(p, "write", n, d, s, cl) IN
     IF s = 0 THEN Fails
     ELSE CASE d = <<>>        -> Begins([W("free", c) EXCEPT !.start = 0], <<>>)
            [] d # <<>> /\ Valid(c)      -> Begins(W("data", c), <<>>)
            [] d # <<>> /\ ~Valid(c)     ->
                 IF FreeCluster = 0
                   THEN Begins(W("dirent", 0), <<>>)
                   ELSE Begins(W("data", FreeCluster), << <<FreeCluster, EOC>> >>)

(* writeFATEntry: a copy at a time.                                        *)
WriteFat ==
  /\ pend # <<>>
  /\ fat' = [fat EXCEPT ![copy][pend[1][1]] = pend[1][2]]
  /\ IF copy < NFats THEN copy' = copy + 1 /\ UNCHANGED pend
                     ELSE copy' = 1 /\ pend' = Tail(pend)
  /\ UNCHANGED <<dir, disk, op, hist>>

At(p) == op.pc = p /\ pend = <<>>

(* writeDataChain: write a cluster, then end the chain there and free the  *)
(* rest of it, or go on in the next cluster, an old or a new one.  With    *)
(* the disk full the loop just ends.                                       *)
GoesOn(p, c, r) == [op EXCEPT !.pc = p, !.cl = c, !.rest = r]
AfterData(next, rest) ==
  CASE rest = <<>>                -> /\ op' = GoesOn("free", next, rest)
                                     /\ pend' = << <<op.cl, EOC>> >>
    [] rest # <<>> /\ Valid(next) -> op' = GoesOn("data", next, rest) /\ UNCHANGED pend
    [] rest # <<>> /\ ~Valid(next) ->
         IF FreeCluster = 0
           THEN op' = GoesOn("dirent", next, rest) /\ UNCHANGED pend
           ELSE /\ op' = GoesOn("data", FreeCluster, rest)
                /\ pend' = << <<op.cl, FreeCluster>>, <<FreeCluster, EOC>> >>
WriteDataLeaves ==       \* mutant: a shorter file keeps its old clusters
  /\ At("data")
  /\ disk' = [disk EXCEPT ![op.cl] = Head(op.rest)]
  /\ LET rest == Tail(op.rest) IN
     IF rest = <<>> THEN /\ op' = GoesOn("dirent", EOC, rest)
                         /\ pend' = << <<op.cl, EOC>> >>
                    ELSE AfterData(Next(op.cl), rest)
  /\ UNCHANGED <<fat, dir, copy, hist>>
WriteDataOpen ==        \* mutant: the last cluster goes on to itself
  /\ At("data")
  /\ disk' = [disk EXCEPT ![op.cl] = Head(op.rest)]
  /\ IF Len(op.rest) > 1 THEN AfterData(Next(op.cl), Tail(op.rest))
                         ELSE op' = GoesOn("free", Next(op.cl), <<>>) /\ pend' = << <<op.cl, op.cl>> >>
  /\ UNCHANGED <<fat, dir, copy, hist>>
WriteData ==
  /\ At("data")
  /\ disk' = [disk EXCEPT ![op.cl] = Head(op.rest)]
  /\ AfterData(Next(op.cl), Tail(op.rest))
  /\ UNCHANGED <<fat, dir, copy, hist>>

(* freeChain: read the next cluster, then clear the entry.                 *)
FreeNext ==
  /\ At("free")
  /\ IF Valid(op.cl)
       THEN pend' = << <<op.cl, FREE>> >> /\ op' = GoesOn("free", Next(op.cl), <<>>)
       ELSE op' = GoesOn("dirent", op.cl, <<>>) /\ UNCHANGED pend
  /\ UNCHANGED <<store, copy, hist>>

(* readFile and followChain: read entries while the numbers are valid.     *)
Reading   == Valid(reading)
GoesTo(c) == reading' = (IF Valid(c) THEN c ELSE 0)
ReadFile(n) ==
  /\ Idle /\ ~Reading
  /\ FindEntry(n) # 0 /\ GoesTo(dir[FindEntry(n)].cluster)
FollowChain == Reading /\ GoesTo(Next(reading))

(* The directory entry comes last.                                         *)
WriteDirentOld ==       \* mutant: the first cluster is not reset
  /\ At("dirent")
  /\ dir' = [dir EXCEPT ![op.slot] =
               IF op.kind = "delete" THEN DELETED ELSE Entry(@.name, IF @.cluster = 0 THEN op.start ELSE @.cluster, Len(op.data))]
  /\ op' = NoOp
  /\ UNCHANGED <<fat, disk, pend, copy, cuts, hurt>>
  /\ Settles
WriteDirent ==
  /\ At("dirent")
  /\ dir' = [dir EXCEPT ![op.slot] =
               IF op.kind = "delete" THEN DELETED ELSE Entry(@.name, op.start, Len(op.data))]
  /\ op' = NoOp
  /\ UNCHANGED <<fat, disk, pend, copy, cuts, hurt>>
  /\ Settles

----------------------------------------------------------------------------
(* The bad moments: the chain of a live entry has lost its first cluster,  *)
(* or its last cluster has been linked to one that is still marked free.   *)
Clearing == op.kind = "delete" \/ op.data = <<>>
Linking  == /\ dir[op.slot].cluster # 0
            /\ pend # <<>> /\ pend[Len(pend)] = <<op.cl, EOC>> /\ Next(op.cl) = FREE
            /\ Len(pend) = 1 \/ copy > 1

(* The power fails in an operation (between two of them nothing is lost).  *)
PowerFails ==
  /\ ~Idle /\ cuts < MaxCuts
  /\ cuts' = cuts + 1
  /\ hurt' = (hurt \/ Clearing \/ Linking)
  /\ op' = NoOp
  /\ pend' = <<>> /\ copy' = 1
  /\ UNCHANGED store
  /\ Settles

Calls ==
  \E n \in Name :
    \/ CreateFile(n) \/ DeleteFile(n)
    \/ \E o \in Name : RenameFile(o, n)
    \/ \E d \in Data : WriteFile(n, d)
Steps  == WriteFat \/ WriteData \/ FreeNext \/ WriteDirent
Writes == ((~Reading /\ Calls) \/ Steps \/ PowerFails) /\ UNCHANGED reading
Follow == FollowChain /\ UNCHANGED diskVars
Reads  == Follow \/ ((\E n \in Name : ReadFile(n)) /\ UNCHANGED diskVars)

Spec     == Init /\ [][Writes \/ Reads]_vars
(* An operation runs until it is through: the driver is synchronous.       *)
FairSpec == Spec /\ WF_vars((Steps /\ UNCHANGED reading) \/ Follow)

----------------------------------------------------------------------------
FatTypeOK ==
  /\ fat  \in [Copy -> [Cluster -> Cluster \cup {FREE, EOC}]]
  /\ dir  \in [Slot -> [name : Name \cup {"0x00", "0xE5"}, cluster : Cluster \cup {0},
                        size : {Len(d) : d \in Data \cup {<<>>}}]]
  /\ disk \in [Cluster -> Chunk \cup {ZERO}]
  /\ op.pc \in {"idle", "data", "free", "dirent"} /\ op.slot \in Slot \cup {0}
  /\ op.cl \in Cluster \cup {FREE, EOC} /\ op.data \in Data \cup {<<>>}
  /\ Len(pend) <= 2 /\ copy \in Copy /\ cuts \in 0..MaxCuts
  /\ reading \in Cluster \cup {0}

(* No two files share a cluster, and no file runs into a free one, which   *)
(* the next allocation would give away, whatever is written, deleted and   *)
(* renamed, and wherever the power fails, bar the two bad moments.         *)
ChainsApart ==
  Idle /\ ~hurt =>
    \A s, t \in {u \in Slot : Live(u)} :
      /\ s # t => ChainOf(s) \cap ChainOf(t) = {}
      /\ \A c \in ChainOf(s) : Next(c) # FREE

(* "updates all FAT copies" (271): between operations the copies are the   *)
(* same, but for one entry per power failure.                              *)
CopiesAgree ==
  Idle => \A i \in Copy : Cardinality({c \in Cluster : fat[i][c] # Next(c)}) <= cuts

(* A name is found by findEntry if and only if findDirEntrySlot finds it,  *)
(* and it stands in the directory once: createFile and renameFile ask the  *)
(* one, writeFile and deleteFile the other.                                *)
NamesAreUnique ==
  \A n \in Name :
    /\ FindEntry(n) = FindSlot(n)
    /\ \A s, t \in Slot : dir[s].name = n /\ dir[t].name = n => s = t

(* The operations are those of Files, each in one go; nothing is lost but  *)
(* by a power cut, and an operation spoils no other file.                  *)
A == INSTANCE Files WITH
       Capacity <- Cardinality(Cluster), sound <- ~hurt,
       files <- seen.files, lost <- seen.lost
ImplementsFiles == A!Spec

(* Writing and deleting come to an end on any disk: they write what they   *)
(* are given, and freeChain clears every entry it goes over.  Reading,     *)
(* which has only the chain to end it, comes to an end as long as no cut   *)
(* came at a bad moment: no chain is circular till then.                   *)
OperationsEnd == []<>(Idle /\ (Reading => hurt))

(* What the second rests on: from every entry followChain comes to the end *)
(* of the chain in no more steps than there are clusters.                  *)
ChainsEnd ==
  Idle /\ ~hurt =>
    \A s \in {u \in Slot : Live(u)} : Len(Chain(dir[s].cluster)) <= Cardinality(Cluster)

(* Without that condition ("Follow an entire FAT chain", 293) it does not  *)
(* hold: after a cut at a bad moment an entry's chain runs into a cluster  *)
(* that is marked free; a longer write takes that cluster to follow it     *)
(* itself, and a second cut leaves it so.                                  *)
ReadsEnd == Reading ~> ~Reading

(* "Wrote" (Shell.hs 318): a write that returns True has stored the data.  *)
WroteIsThere ==
  [][WriteDirent /\ op.kind = "write" => FilesNow'[op.name].data = op.data]_vars
============================================================================
