-------------------------------- MODULE Files --------------------------------
(***************************************************************************)
(* What the file operations of hs/FAT32.hs promise to their caller: a map  *)
(* from names to contents.  Every operation happens at once; space is      *)
(* limited; a power cut spoils at most the file being worked on.           *)
(***************************************************************************)
EXTENDS Naturals, Sequences, FiniteSets

CONSTANTS Name, Data, ZERO, NoFile, Capacity

VARIABLES
  files,      \* per name, the contents and the number of clusters held
  lost,       \* clusters that nobody owns any more
  sound       \* FALSE once a power cut has broken the promise

Held(n)   == IF files[n] = NoFile THEN 0 ELSE files[n].held
Smaller(a, b) == IF a < b THEN a ELSE b

(* The clusters of the other files, as file and place; those a write of n  *)
(* can use are the rest, the ones it has included.                         *)
Others(n) == {x \in (Name \ {n}) \X (1..Capacity) : x[2] <= Held(x[1])}
Room(n)   == Capacity - lost - Cardinality(Others(n))

Becomes(n, f) == files' = [files EXCEPT ![n] = f] /\ UNCHANGED <<lost, sound>>

Init == files = [n \in Name |-> NoFile] /\ lost = 0 /\ sound = TRUE

Create(n) == files[n] = NoFile /\ Becomes(n, [data |-> <<>>, held |-> 0])
Delete(n) == files[n] # NoFile /\ Becomes(n, NoFile)
Rename(o, n) ==
  /\ files[o] # NoFile /\ files[n] = NoFile
  /\ files' = [files EXCEPT ![n] = files[o], ![o] = NoFile]
  /\ UNCHANGED <<lost, sound>>

(* A write stores what there is room for, and zeros stand for the rest.    *)
Write(n, d) ==
  /\ files[n] # NoFile
  /\ LET k == Smaller(Len(d), Room(n)) IN
     Becomes(n, [data |-> [i \in 1..Len(d) |-> IF i <= k THEN d[i] ELSE ZERO], held |-> k])

(* A cut in an operation on n.                                             *)
Cut(n) ==
  /\ files[n] # NoFile
  /\ files'[n] # NoFile
  /\ DOMAIN files' = Name /\ \A m \in Name \ {n} : files'[m] = files[m]
  /\ Len(files'[n].data) = Len(files[n].data)
  /\ lost' \in lost..Capacity
  /\ sound' = TRUE

Step ==
  \E n \in Name :
    \/ Create(n) \/ Delete(n) \/ Cut(n)
    \/ \E o \in Name : Rename(o, n)
    \/ \E d \in Data : Write(n, d)

Spec == Init /\ [][sound => (Step \/ ~sound')]_<<files, lost, sound>>
============================================================================
