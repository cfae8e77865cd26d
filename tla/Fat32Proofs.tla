----------------------------- MODULE Fat32Proofs -----------------------------
(***************************************************************************)
(* The file operations on any disk, for any names, contents and number of  *)
(* power failures: the names of a directory are unique; as long as no      *)
(* power failure came at one of the two bad moments, every chain belongs   *)
(* to one file and runs into no free cluster; and as long as that is so,   *)
(* the operations do to the files what Files says.                         *)
(*                                                                         *)
(* The types come first, then the names, which need nothing of the FAT.    *)
(* For the chains the clusters are given owners and places (Laid): lemmas  *)
(* about such a map alone say what freeing, cutting, joining and extending *)
(* a chain does to it, then one lemma per action shows that a map remains. *)
(* What followChain walks through is then exactly what the map gives to    *)
(* the entry, in order.  Last the refinement: one lemma per action keeps   *)
(* the books (what is lost, what is written of the data), and each         *)
(* transition of the disk is a transition of Files or shows nothing.       *)
(***************************************************************************)
EXTENDS Fat32, TLAPS, FiniteSetTheorems, WellFoundedInduction

(* A set of numbers that is not empty has a smallest one, and Min gives it. *)
LEMMA LeastNat ==
  ASSUME NEW T, T \subseteq Nat, T # {}
  PROVE  \E x \in T : \A y \in T : x <= y
<1>1. PICK x \in T : \A y \in T : ~(<<y, x>> \in OpToRel(<, Nat))
  BY NatLessThanWellFounded, WFMin
<1>2. \A y \in T : ~(y < x)
  BY <1>1 DEF OpToRel
<1>3. QED BY <1>2

LEMMA LeastIs ==
  ASSUME NEW T, T \subseteq Nat \ {0}
  PROVE  /\ Least(T) = 0 <=> T = {}
         /\ T # {} => Least(T) \in T /\ \A y \in T : Least(T) <= y
<1>1. CASE T = {}
  BY <1>1 DEF Least
<1>2. CASE T # {}
  <2>1. \E x \in T : \A y \in T : x <= y
    BY <1>2, LeastNat
  <2>2. Min(T) \in T /\ \A y \in T : Min(T) <= y
    BY <2>1 DEF Min
  <2>3. QED BY <1>2, <2>2 DEF Least
<1>3. QED BY <1>1, <1>2

(* What the searches of the directory and of the FAT find.                 *)
LEMMA FindsEntry ==
  ASSUME NEW n
  PROVE  /\ FindEntry(n) = 0 <=> \A s \in Slot : dir[s].name # n
         /\ FindEntry(n) # 0 => FindEntry(n) \in Slot /\ dir[FindEntry(n)].name = n
<1> DEFINE T == {s \in Slot : dir[s].name = n}
<1>1. T \subseteq Nat \ {0}
  BY DEF Slot
<1>2. /\ Least(T) = 0 <=> T = {}
      /\ T # {} => Least(T) \in T
  <2> HIDE DEF T
  <2> QED BY <1>1, LeastIs
<1>3. QED BY <1>2 DEF FindEntry

LEMMA FindsSlot ==
  ASSUME NEW n, FindSlot(n) # 0
  PROVE  FindSlot(n) \in Slot /\ dir[FindSlot(n)].name = n
<1> DEFINE T == {s \in Slot : dir[s].name = n /\ \A i \in 1..s : dir[i] # UNUSED}
<1>1. T \subseteq Nat \ {0}
  BY DEF Slot
<1>2. Least(T) # 0 => Least(T) \in T
  <2> HIDE DEF T
  <2> QED BY <1>1, LeastIs
<1>3. QED BY <1>2 DEF FindSlot

LEMMA FindsFree ==
  ASSUME FreeSlot # 0
  PROVE  /\ FreeSlot \in Slot /\ ~Live(FreeSlot)
         /\ \A s \in Slot : s < FreeSlot => Live(s)
<1> DEFINE T == {s \in Slot : ~Live(s)}
<1>1. T \subseteq Nat \ {0}
  BY DEF Slot
<1>2. Least(T) # 0 => Least(T) \in T /\ \A y \in T : Least(T) <= y
  <2> HIDE DEF T
  <2> QED BY <1>1, LeastIs
<1>3. FreeSlot \in T /\ \A y \in T : FreeSlot <= y
  BY <1>2 DEF FreeSlot
<1>4. QED BY <1>3 DEF Slot

LEMMA FindsCluster ==
  ASSUME FreeCluster # 0
  PROVE  FreeCluster \in Cluster /\ Next(FreeCluster) = FREE
<1> DEFINE T == {c \in Cluster : Next(c) = FREE}
<1>1. T \subseteq Nat \ {0}
  BY DEF Cluster
<1>2. Least(T) # 0 => Least(T) \in T
  <2> HIDE DEF T
  <2> QED BY <1>1, LeastIs
<1>3. QED BY <1>2 DEF FreeCluster, FreeTo, Cluster

----------------------------------------------------------------------------
(* What a FAT entry holds, what is pending for one, and the sizes of files. *)
Marks  == Cluster \cup {FREE, EOC}
Todo   == Cluster \X Marks
Sizes  == {Len(d) : d \in Data \cup {<<>>}}
InHand == NSlots + 1     \* an owner that is no entry: the operation

Kinds ==
  /\ fat  \in [Copy -> [Cluster -> Marks]]
  /\ dir  \in [Slot -> [name : Name \cup {"0x00", "0xE5"}, cluster : Cluster \cup {0},
                        size : Sizes]]
  /\ disk \in [Cluster -> Chunk \cup {ZERO}]
  /\ op   \in [pc : {"idle", "data", "free", "dirent"}, kind : {"none", "write", "delete"},
               name : Name \cup {NoFile}, data : Data \cup {<<>>}, slot : Slot \cup {0},
               start : Cluster \cup {0}, cl : Marks, rest : Seq(Chunk)]
  /\ \/ pend = <<>>
     \/ \E e \in Todo : pend = <<e>>
     \/ \E e, f \in Todo : pend = <<e, f>>
  /\ copy \in Copy /\ cuts \in 0..MaxCuts
Busy ==
  /\ Idle => op = NoOp /\ pend = <<>>
  /\ ~Idle => op.slot \in Slot /\ Live(op.slot) /\ op.kind \in {"write", "delete"}
  /\ op.pc = "data" => Valid(op.cl) /\ op.rest # <<>> /\ ~Clearing
TypeInv == Kinds /\ Busy

LEMMA Numbers ==
  /\ 1 \in Copy
  /\ FREE \in Marks /\ EOC \in Marks /\ FREE \notin Cluster /\ EOC \notin Cluster
  /\ 0 \notin Cluster /\ Cluster \subseteq Nat /\ Cluster \subseteq Marks
  /\ FREE # EOC /\ FREE = 0
  /\ Slot \subseteq Nat /\ 0 \notin Slot /\ InHand \notin Slot /\ InHand \in Nat \ {0}
BY FatAssumption DEF Copy, Marks, FREE, EOC, Cluster, Slot, InHand

LEMMA NextTypes ==
  ASSUME TypeInv, NEW c \in Cluster
  PROVE  Next(c) \in Marks
<1>1. 1 \in Copy
  BY Numbers
<1>2. fat \in [Copy -> [Cluster -> Marks]]
  BY DEF TypeInv, Kinds
<1>3. QED BY <1>1, <1>2 DEF Next

LEMMA InitTypes == Init => TypeInv
<1> SUFFICES ASSUME Init PROVE TypeInv
  OBVIOUS
<1>1. Len(<<>>) \in Sizes /\ 0 \in Sizes
  BY DEF Sizes
<1>2. UNUSED \in [name : Name \cup {"0x00", "0xE5"}, cluster : Cluster \cup {0}, size : Sizes]
  BY <1>1 DEF UNUSED
<1>3. Kinds
  BY <1>2, Numbers, FatAssumption DEF Init, Kinds, NoOp, Op, Copy
<1>4. Busy
  BY DEF Init, Busy, Idle, NoOp, Op
<1>5. QED BY <1>3, <1>4 DEF TypeInv

LEMMA OneSectorTypes ==
  ASSUME TypeInv, NEW s \in Slot, NEW e, OneSector(s, e), Idle,
         e \in [name : Name \cup {"0x00", "0xE5"}, cluster : Cluster \cup {0}, size : Sizes]
  PROVE  TypeInv'
<1>1. Kinds'
  BY DEF TypeInv, Kinds, OneSector
<1>2. Busy'
  BY DEF TypeInv, Busy, OneSector, Idle, NoOp, Op
<1>3. QED BY <1>1, <1>2 DEF TypeInv

LEMMA CreateFileTypes ==
  ASSUME TypeInv, NEW n \in Name, CreateFile(n)
  PROVE  TypeInv' \/ UNCHANGED diskVars
<1>1. CASE FindEntry(n) # 0 \/ FreeSlot = 0
  BY <1>1 DEF CreateFile, Fails
<1>2. CASE ~(FindEntry(n) # 0 \/ FreeSlot = 0)
  <2>1. OneSector(FreeSlot, Entry(n, 0, 0)) /\ Idle
    BY <1>2 DEF CreateFile
  <2>2. FreeSlot \in Slot
    BY <1>2, FindsFree
  <2>3. Len(<<>>) \in Sizes /\ Len(<<>>) = 0
    BY DEF Sizes
  <2>4. Entry(n, 0, 0) \in [name : Name \cup {"0x00", "0xE5"}, cluster : Cluster \cup {0}, size : Sizes]
    BY <2>3 DEF Entry
  <2>5. QED BY <2>1, <2>2, <2>4, OneSectorTypes
<1>3. QED BY <1>1, <1>2

LEMMA RenameFileTypes ==
  ASSUME TypeInv, NEW o \in Name, NEW n \in Name, RenameFile(o, n)
  PROVE  TypeInv' \/ UNCHANGED diskVars
<1>1. CASE FindEntry(n) # 0 \/ FindSlot(o) = 0
  BY <1>1 DEF RenameFile, Fails
<1>2. CASE ~(FindEntry(n) # 0 \/ FindSlot(o) = 0)
  <2>1. OneSector(FindSlot(o), [dir[FindSlot(o)] EXCEPT !.name = n]) /\ Idle
    BY <1>2 DEF RenameFile
  <2>2. FindSlot(o) \in Slot
    BY <1>2, FindsSlot
  <2>3. [dir[FindSlot(o)] EXCEPT !.name = n] \in
          [name : Name \cup {"0x00", "0xE5"}, cluster : Cluster \cup {0}, size : Sizes]
    BY <2>2 DEF TypeInv, Kinds
  <2>4. QED BY <2>1, <2>2, <2>3, OneSectorTypes
<1>3. QED BY <1>1, <1>2

OpTypes == [pc : {"idle", "data", "free", "dirent"}, kind : {"none", "write", "delete"},
            name : Name \cup {NoFile}, data : Data \cup {<<>>}, slot : Slot \cup {0},
            start : Cluster \cup {0}, cl : Marks, rest : Seq(Chunk)]

LEMMA BeginsTypes ==
  ASSUME TypeInv, Idle, NEW o \in OpTypes, NEW p, Begins(o, p),
         p = <<>> \/ \E e \in Todo : p = <<e>>,
         o.pc # "idle", o.slot \in Slot, Live(o.slot), o.kind \in {"write", "delete"},
         o.pc = "data" => Valid(o.cl) /\ o.rest # <<>> /\ o.kind = "write" /\ o.data # <<>>
  PROVE  TypeInv'
<1>1. Kinds'
  BY DEF TypeInv, Kinds, Begins, OpTypes, store, hist
<1>2. Busy'
  BY DEF TypeInv, Busy, Begins, Idle, Clearing, Live, Valid, store
<1>3. QED BY <1>1, <1>2 DEF TypeInv

LEMMA DeleteFileTypes ==
  ASSUME TypeInv, NEW n \in Name, DeleteFile(n)
  PROVE  TypeInv' \/ UNCHANGED diskVars
<1>1. CASE FindSlot(n) = 0
  BY <1>1 DEF DeleteFile, Fails
<1>2. CASE FindSlot(n) # 0
  <2> DEFINE o == Op("free", "delete", n, <<>>, FindSlot(n), dir[FindSlot(n)].cluster)
  <2>1. Begins(o, <<>>) /\ Idle
    BY <1>2 DEF DeleteFile
  <2>2. FindSlot(n) \in Slot /\ Live(FindSlot(n))
    BY <1>2, FindsSlot DEF Live
  <2>3. dir[FindSlot(n)].cluster \in Cluster \cup {0}
    BY <2>2 DEF TypeInv, Kinds
  <2>4. o \in OpTypes
    BY <2>2, <2>3, Numbers DEF Op, OpTypes, Marks
  <2>5. /\ o.pc = "free" /\ o.slot = FindSlot(n) /\ o.kind = "delete"
    BY DEF Op
  <2> HIDE DEF o
  <2>6. QED BY <2>1, <2>2, <2>4, <2>5, BeginsTypes
<1>3. QED BY <1>1, <1>2

LEMMA WriteFileTypes ==
  ASSUME TypeInv, NEW n \in Name, NEW d \in Data, WriteFile(n, d)
  PROVE  TypeInv' \/ UNCHANGED diskVars
<1> DEFINE s == FindSlot(n)
           c == dir[s].cluster
           W(p, cl) == Op(p, "write", n, d, s, cl)
<1>0. d \in Seq(Chunk)
  BY FatAssumption
<1>1. CASE s = 0
  BY <1>1 DEF WriteFile, Fails
<1>2. CASE s # 0
  <2>1. s \in Slot /\ Live(s) /\ Idle
    BY <1>2, FindsSlot DEF Live, WriteFile
  <2>2. c \in Cluster \cup {0}
    BY <2>1 DEF TypeInv, Kinds
  <2>3. ASSUME NEW p \in {"data", "free", "dirent"}, NEW cl \in Cluster \cup {0}
        PROVE  /\ W(p, cl) \in OpTypes /\ W(p, cl).pc = p /\ W(p, cl).slot = s
               /\ W(p, cl).kind = "write" /\ W(p, cl).cl = cl /\ W(p, cl).rest = d
               /\ W(p, cl).data = d
    BY <2>1, <1>0, Numbers DEF Op, OpTypes, Marks
  <2>4. CASE d = <<>>
    <3> DEFINE o == [W("free", c) EXCEPT !.start = 0]
    <3>1. Begins(o, <<>>)
      BY <2>4, <1>2 DEF WriteFile
    <3>2. o \in OpTypes /\ o.pc = "free" /\ o.slot = s /\ o.kind = "write"
      BY <2>1, <2>2, <1>0, Numbers DEF Op, OpTypes, Marks
    <3> HIDE DEF o, s
    <3>3. QED BY <3>1, <3>2, <2>1, BeginsTypes
  <2>5. CASE d # <<>> /\ Valid(c)
    <3>1. Begins(W("data", c), <<>>)
      BY <2>5, <1>2 DEF WriteFile
    <3> HIDE DEF W, c, s
    <3>2. QED BY <3>1, <2>1, <2>2, <2>3, <2>5, BeginsTypes
  <2>6. CASE d # <<>> /\ ~Valid(c) /\ FreeCluster = 0
    <3>1. Begins(W("dirent", 0), <<>>)
      BY <2>6, <1>2 DEF WriteFile
    <3> HIDE DEF W, c, s
    <3>2. QED BY <3>1, <2>1, <2>3, BeginsTypes
  <2>7. CASE d # <<>> /\ ~Valid(c) /\ FreeCluster # 0
    <3> DEFINE x == FreeCluster
    <3>1. Begins(W("data", x), << <<x, EOC>> >>)
      BY <2>7, <1>2 DEF WriteFile
    <3>2. x \in Cluster
      BY <2>7, FindsCluster
    <3>3. \E e \in Todo : << <<x, EOC>> >> = <<e>>
      BY <3>2, Numbers DEF Todo
    <3> HIDE DEF W, c, s, x
    <3>4. Valid(x)
      BY <3>2 DEF Valid
    <3>5. QED BY <3>1, <3>2, <3>3, <3>4, <2>1, <2>3, <2>7, BeginsTypes
  <2>8. QED BY <2>4, <2>5, <2>6, <2>7
<1>3. QED BY <1>1, <1>2

LEMMA WriteFatTypes ==
  ASSUME TypeInv, WriteFat
  PROVE  TypeInv'
<1>1. \A e \in Todo : e[1] \in Cluster /\ e[2] \in Marks
  BY DEF Todo
<1>2. pend[1] \in Todo
  BY DEF WriteFat, TypeInv, Kinds
<1>3. fat' \in [Copy -> [Cluster -> Marks]]
  BY <1>1, <1>2 DEF WriteFat, TypeInv, Kinds
<1>4. copy' \in Copy
  BY Numbers, FatAssumption DEF WriteFat, TypeInv, Kinds, Copy
<1>5. \/ pend' = <<>>
      \/ \E e \in Todo : pend' = <<e>>
      \/ \E e, f \in Todo : pend' = <<e, f>>
  <2>1. CASE pend' = pend
    BY <2>1 DEF TypeInv, Kinds
  <2>2. CASE pend' = Tail(pend)
    <3>1. CASE \E e \in Todo : pend = <<e>>
      BY <2>2, <3>1
    <3>2. CASE \E e, f \in Todo : pend = <<e, f>>
      <4>1. PICK e \in Todo, f \in Todo : pend = <<e, f>>
        BY <3>2
      <4>2. Tail(pend) = <<f>>
        BY <4>1
      <4>3. QED BY <2>2, <4>2
    <3>3. QED BY <3>1, <3>2 DEF TypeInv, Kinds, WriteFat
  <2>3. QED BY <2>1, <2>2 DEF WriteFat
<1>6. Kinds'
  BY <1>3, <1>4, <1>5 DEF WriteFat, TypeInv, Kinds, hist
<1>7. Busy'
  BY DEF TypeInv, Busy, WriteFat, Idle, Clearing, Live, Valid
<1>8. QED BY <1>6, <1>7 DEF TypeInv

LEMMA GoesOnTypes ==
  ASSUME TypeInv, NEW p \in {"data", "free", "dirent"}, NEW c \in Marks, NEW r \in Seq(Chunk)
  PROVE  /\ GoesOn(p, c, r) \in OpTypes
         /\ GoesOn(p, c, r).pc = p /\ GoesOn(p, c, r).cl = c /\ GoesOn(p, c, r).rest = r
         /\ GoesOn(p, c, r).slot = op.slot /\ GoesOn(p, c, r).kind = op.kind
         /\ GoesOn(p, c, r).data = op.data /\ GoesOn(p, c, r).start = op.start
         /\ GoesOn(p, c, r).name = op.name
BY DEF TypeInv, Kinds, GoesOn, OpTypes

(* What a step of an operation leaves for the type invariant to show.      *)
LEMMA StepTypes ==
  ASSUME TypeInv, ~Idle, NEW p \in {"data", "free", "dirent"}, NEW c \in Marks, NEW r \in Seq(Chunk),
         op' = GoesOn(p, c, r), dir' = dir, fat' = fat, copy' = copy, cuts' = cuts,
         disk' \in [Cluster -> Chunk \cup {ZERO}],
         \/ pend' = <<>>
         \/ \E e \in Todo : pend' = <<e>>
         \/ \E e, f \in Todo : pend' = <<e, f>>,
         p = "data" => Valid(c) /\ r # <<>> /\ ~Clearing
  PROVE  TypeInv'
<1>1. /\ op' \in OpTypes /\ op'.pc = p /\ op'.cl = c /\ op'.rest = r
      /\ op'.slot = op.slot /\ op'.kind = op.kind /\ op'.data = op.data
  BY GoesOnTypes
<1>2. Kinds'
  BY <1>1 DEF TypeInv, Kinds, OpTypes
<1>3. Busy'
  BY <1>1 DEF TypeInv, Busy, Idle, Clearing, Live, Valid
<1>4. QED BY <1>2, <1>3 DEF TypeInv

LEMMA WriteDataTypes ==
  ASSUME TypeInv, WriteData
  PROVE  TypeInv'
<1> DEFINE next == Next(op.cl)
           rest == Tail(op.rest)
<1>1. /\ op.cl \in Cluster /\ op.rest # <<>> /\ ~Clearing /\ pend = <<>> /\ ~Idle
      /\ op.rest \in Seq(Chunk)
  BY DEF WriteData, At, TypeInv, Busy, Kinds, Valid, Idle
<1>2. Head(op.rest) \in Chunk /\ rest \in Seq(Chunk)
  BY <1>1
<1>3. disk' \in [Cluster -> Chunk \cup {ZERO}]
  BY <1>2 DEF WriteData, TypeInv, Kinds
<1>4. next \in Marks
  BY <1>1, NextTypes
<1>5. /\ dir' = dir /\ fat' = fat /\ copy' = copy /\ cuts' = cuts /\ AfterData(next, rest)
  BY DEF WriteData, hist
<1> HIDE DEF next, rest
<1>6. CASE rest = <<>>
  <2>1. op' = GoesOn("free", next, rest) /\ pend' = << <<op.cl, EOC>> >>
    BY <1>5, <1>6 DEF AfterData
  <2>2. <<op.cl, EOC>> \in Todo
    BY <1>1, Numbers DEF Todo
  <2>3. QED BY <2>1, <2>2, <1>1, <1>2, <1>3, <1>4, <1>5, StepTypes
<1>7. CASE rest # <<>> /\ Valid(next)
  <2>1. op' = GoesOn("data", next, rest) /\ pend' = pend
    BY <1>5, <1>7 DEF AfterData
  <2>2. QED BY <2>1, <1>1, <1>2, <1>3, <1>4, <1>5, <1>7, StepTypes
<1>8. CASE rest # <<>> /\ ~Valid(next) /\ FreeCluster = 0
  <2>1. op' = GoesOn("dirent", next, rest) /\ pend' = pend
    BY <1>5, <1>8 DEF AfterData
  <2>2. QED BY <2>1, <1>1, <1>2, <1>3, <1>4, <1>5, StepTypes
<1>9. CASE rest # <<>> /\ ~Valid(next) /\ FreeCluster # 0
  <2> DEFINE x == FreeCluster
  <2>1. op' = GoesOn("data", x, rest) /\ pend' = << <<op.cl, x>>, <<x, EOC>> >>
    BY <1>5, <1>9 DEF AfterData
  <2>2. x \in Cluster
    BY <1>9, FindsCluster
  <2> HIDE DEF x
  <2>3. <<op.cl, x>> \in Todo /\ <<x, EOC>> \in Todo /\ x \in Marks /\ Valid(x)
    BY <1>1, <2>2, Numbers DEF Todo, Valid
  <2>4. QED BY <2>1, <2>3, <1>1, <1>2, <1>3, <1>5, <1>9, StepTypes
<1>10. QED BY <1>6, <1>7, <1>8, <1>9

LEMMA FreeNextTypes ==
  ASSUME TypeInv, FreeNext
  PROVE  TypeInv'
<1>1. /\ ~Idle /\ op.cl \in Marks /\ pend = <<>> /\ <<>> \in Seq(Chunk)
      /\ disk \in [Cluster -> Chunk \cup {ZERO}]
  BY DEF FreeNext, At, Idle, TypeInv, Kinds
<1>2. /\ dir' = dir /\ fat' = fat /\ copy' = copy /\ cuts' = cuts /\ disk' = disk
  BY DEF FreeNext, store, hist
<1>3. CASE Valid(op.cl)
  <2>1. /\ pend' = << <<op.cl, FREE>> >> /\ op' = GoesOn("free", Next(op.cl), <<>>)
    BY <1>3 DEF FreeNext
  <2>2. <<op.cl, FREE>> \in Todo
    BY <1>3, Numbers DEF Todo, Valid
  <2>3. Next(op.cl) \in Marks
    BY <1>3, NextTypes DEF Valid
  <2>4. QED BY <2>1, <2>2, <2>3, <1>1, <1>2, StepTypes
<1>4. CASE ~Valid(op.cl)
  <2>1. op' = GoesOn("dirent", op.cl, <<>>) /\ pend' = pend
    BY <1>4 DEF FreeNext
  <2>2. QED BY <2>1, <1>1, <1>2, StepTypes
<1>5. QED BY <1>3, <1>4

LEMMA NoOpTypes ==
  NoOp \in OpTypes /\ NoOp.pc = "idle" /\ NoOp.data = <<>> /\ NoOp.kind = "none" /\ NoOp.slot = 0
BY Numbers DEF NoOp, Op, OpTypes, Marks

LEMMA WriteDirentTypes ==
  ASSUME TypeInv, WriteDirent
  PROVE  TypeInv'
<1>1. ~Idle /\ pend = <<>> /\ op' = NoOp /\ pend' = pend
  BY DEF WriteDirent, At, Idle
<1>2. /\ DELETED \in [name : Name \cup {"0x00", "0xE5"}, cluster : Cluster \cup {0}, size : Sizes]
  <2>1. Len(<<>>) \in Sizes /\ Len(<<>>) = 0
    BY DEF Sizes
  <2>2. QED BY <2>1 DEF DELETED
<1>3. Entry(dir[op.slot].name, op.start, Len(op.data)) \in
        [name : Name \cup {"0x00", "0xE5"}, cluster : Cluster \cup {0}, size : Sizes]
  <2>1. op.start \in Cluster \cup {0} /\ Len(op.data) \in Sizes
    BY DEF TypeInv, Kinds, Sizes
  <2>2. op.slot \in Slot
    BY <1>1 DEF TypeInv, Busy
  <2>3. QED BY <2>1, <2>2 DEF TypeInv, Kinds, Entry
<1>4. dir' \in [Slot -> [name : Name \cup {"0x00", "0xE5"}, cluster : Cluster \cup {0}, size : Sizes]]
  BY <1>2, <1>3 DEF WriteDirent, TypeInv, Kinds
<1>5. Kinds'
  BY <1>1, <1>4, NoOpTypes DEF TypeInv, Kinds, WriteDirent, OpTypes
<1>6. Busy'
  BY <1>1, NoOpTypes DEF Busy, Idle
<1>7. QED BY <1>5, <1>6 DEF TypeInv

LEMMA PowerFailsTypes ==
  ASSUME TypeInv, PowerFails
  PROVE  TypeInv'
<1>1. Kinds'
  BY NoOpTypes, Numbers, FatAssumption DEF TypeInv, Kinds, PowerFails, store, OpTypes
<1>2. Busy'
  BY NoOpTypes DEF Busy, Idle, PowerFails
<1>3. QED BY <1>1, <1>2 DEF TypeInv

LEMMA StutterTypes ==
  ASSUME TypeInv, UNCHANGED diskVars
  PROVE  TypeInv'
<1>1. UNCHANGED <<fat, dir, disk, op, pend, copy, cuts>>
  BY DEF diskVars, store, hist
<1>2. QED BY <1>1 DEF TypeInv, Kinds, Busy, Idle, Live, Clearing, Valid

LEMMA TypeStep == TypeInv /\ [Calls \/ Steps \/ PowerFails]_diskVars => TypeInv'
<1> SUFFICES ASSUME TypeInv, [Calls \/ Steps \/ PowerFails]_diskVars PROVE TypeInv'
  OBVIOUS
<1>1. CASE Calls
  <2>1. PICK n \in Name :
          CreateFile(n) \/ DeleteFile(n) \/ (\E o \in Name : RenameFile(o, n))
            \/ \E d \in Data : WriteFile(n, d)
    BY <1>1 DEF Calls
  <2>2. QED BY <2>1, CreateFileTypes, DeleteFileTypes, RenameFileTypes, WriteFileTypes, StutterTypes
<1>2. CASE Steps
  BY <1>2, WriteFatTypes, WriteDataTypes, FreeNextTypes, WriteDirentTypes DEF Steps
<1>3. CASE PowerFails
  BY <1>3, PowerFailsTypes
<1>4. CASE UNCHANGED diskVars
  BY <1>4, StutterTypes
<1>5. QED BY <1>1, <1>2, <1>3, <1>4

(* Reading changes nothing on the disk.                                    *)
LEMMA OnDisk == [Writes \/ Reads]_vars => [Calls \/ Steps \/ PowerFails]_diskVars
BY DEF Writes, Reads, Follow, vars

LEMMA TypesHold == Spec => []TypeInv
BY InitTypes, TypeStep, OnDisk, PTL DEF Spec

ReadTypes == reading \in Cluster \cup {0}
LEMMA ReadTypesHold == Spec => []ReadTypes
<1>1. Init => ReadTypes
  BY DEF Init, ReadTypes
<1>2. ReadTypes /\ [Writes \/ Reads]_vars => ReadTypes'
  BY DEF ReadTypes, Writes, Reads, Follow, FollowChain, ReadFile, GoesTo, Valid, vars
<1>3. QED BY <1>1, <1>2, PTL DEF Spec

(* The FAT, the entries, the clusters, the operation and the reading stay  *)
(* well typed, at most two FAT entries are pending, the power fails no     *)
(* more than MaxCuts times.                                                *)
THEOREM FatTypes == Spec => []FatTypeOK
<1>1. TypeInv /\ ReadTypes => FatTypeOK
  <2> SUFFICES ASSUME TypeInv, ReadTypes PROVE FatTypeOK
    OBVIOUS
  <2>1. Len(pend) <= 2
    <3>1. CASE pend = <<>>
      BY <3>1
    <3>2. CASE \E e \in Todo : pend = <<e>>
      BY <3>2
    <3>3. CASE \E e, f \in Todo : pend = <<e, f>>
      BY <3>3
    <3>4. QED BY <3>1, <3>2, <3>3 DEF TypeInv, Kinds
  <2>2. QED BY <2>1 DEF TypeInv, Kinds, ReadTypes, FatTypeOK, Marks, Sizes
<1>2. QED BY <1>1, TypesHold, ReadTypesHold, PTL

----------------------------------------------------------------------------
(* A name stands once among the entries, and an entry that was never used  *)
(* is followed by no other.                                                *)
Once   == \A s, t \in Slot : Live(s) /\ dir[s].name = dir[t].name => s = t
InARow == \A s, t \in Slot : s < t /\ dir[s] = UNUSED => dir[t] = UNUSED
Names  == Once /\ InARow

LEMMA Marked ==
  /\ UNUSED.name = "0x00" /\ DELETED.name = "0xE5"
  /\ UNUSED.name \notin Name /\ DELETED.name \notin Name /\ DELETED # UNUSED
<1>1. UNUSED.name = "0x00" /\ DELETED.name = "0xE5"
  BY DEF UNUSED, DELETED
<1>2. "0x00" # "0xE5"
  OBVIOUS
<1>3. QED BY <1>1, <1>2, FatAssumption

LEMMA InitNames == Init => Names
BY Marked DEF Init, Names, Once, InARow, Live

(* An entry that is given another name, or none, keeps the names apart.    *)
LEMMA EntryKeepsNames ==
  ASSUME TypeInv, Names, NEW s \in Slot, NEW e, dir' = [dir EXCEPT ![s] = e],
         e # UNUSED, e.name \in Name => \A t \in Slot \ {s} : dir[t].name # e.name,
         \A t \in Slot : t < s => dir[t] # UNUSED
  PROVE  Names'
<1>1. \A t \in Slot : dir'[t] = IF t = s THEN e ELSE dir[t]
  BY DEF TypeInv, Kinds
<1>2. Once'
  <2> SUFFICES ASSUME NEW t \in Slot, NEW u \in Slot, dir'[t].name \in Name,
                      dir'[t].name = dir'[u].name
               PROVE  t = u
    BY DEF Once, Live
  <2>1. CASE t = s
    BY <1>1, <2>1
  <2>2. CASE u = s
    BY <1>1, <2>2
  <2>3. CASE t # s /\ u # s
    BY <1>1, <2>3 DEF Names, Once, Live
  <2>4. QED BY <2>1, <2>2, <2>3
<1>3. InARow'
  <2> SUFFICES ASSUME NEW t \in Slot, NEW u \in Slot, t < u, dir'[t] = UNUSED
               PROVE  dir'[u] = UNUSED
    BY DEF InARow, UNUSED
  <2>1. t # s /\ dir[t] = UNUSED
    BY <1>1
  <2>2. u # s
    BY <2>1
  <2>3. QED BY <1>1, <2>1, <2>2 DEF Names, InARow
<1>4. QED BY <1>2, <1>3 DEF Names

(* Before a live entry there is none that was never used.                  *)
LEMMA UsedBefore ==
  ASSUME TypeInv, Names, NEW s \in Slot, Live(s)
  PROVE  dir[s] # UNUSED /\ \A t \in Slot : t < s => dir[t] # UNUSED
BY Marked DEF Names, InARow, Live

LEMMA CreateFileNames ==
  ASSUME TypeInv, Names, NEW n \in Name, CreateFile(n)
  PROVE  Names' \/ dir' = dir
<1>1. CASE FindEntry(n) # 0 \/ FreeSlot = 0
  BY <1>1 DEF CreateFile, Fails, diskVars, store
<1>2. CASE ~(FindEntry(n) # 0 \/ FreeSlot = 0)
  <2> DEFINE s == FreeSlot
             e == Entry(n, 0, 0)
  <2>1. dir' = [dir EXCEPT ![s] = e]
    BY <1>2 DEF CreateFile, OneSector
  <2>2. s \in Slot /\ \A t \in Slot : t < s => Live(t)
    BY <1>2, FindsFree
  <2>3. e.name = n
    BY DEF Entry
  <2>4. \A t \in Slot : dir[t].name # n
    BY <1>2, FindsEntry
  <2> HIDE DEF s, e
  <2>5. e # UNUSED
    BY <2>3, Marked
  <2>6. \A t \in Slot : t < s => dir[t] # UNUSED
    BY <2>2, Marked DEF Live
  <2>7. QED BY <2>1, <2>2, <2>3, <2>4, <2>5, <2>6, EntryKeepsNames
<1>3. QED BY <1>1, <1>2

LEMMA RenameFileNames ==
  ASSUME TypeInv, Names, NEW o \in Name, NEW n \in Name, RenameFile(o, n)
  PROVE  Names' \/ dir' = dir
<1>1. CASE FindEntry(n) # 0 \/ FindSlot(o) = 0
  BY <1>1 DEF RenameFile, Fails, diskVars, store
<1>2. CASE ~(FindEntry(n) # 0 \/ FindSlot(o) = 0)
  <2> DEFINE s == FindSlot(o)
             e == [dir[s] EXCEPT !.name = n]
  <2>1. dir' = [dir EXCEPT ![s] = e]
    BY <1>2 DEF RenameFile, OneSector
  <2>2. s \in Slot /\ Live(s)
    BY <1>2, FindsSlot DEF Live
  <2>3. e.name = n
    BY <2>2 DEF TypeInv, Kinds
  <2>4. \A t \in Slot : dir[t].name # n
    BY <1>2, FindsEntry
  <2> HIDE DEF s, e
  <2>5. e # UNUSED
    BY <2>3, Marked
  <2>6. \A t \in Slot : t < s => dir[t] # UNUSED
    BY <2>2, UsedBefore
  <2>7. QED BY <2>1, <2>2, <2>3, <2>4, <2>5, <2>6, EntryKeepsNames
<1>3. QED BY <1>1, <1>2

LEMMA WriteDirentNames ==
  ASSUME TypeInv, Names, WriteDirent
  PROVE  Names'
<1> DEFINE s == op.slot
           e == IF op.kind = "delete" THEN DELETED ELSE Entry(dir[s].name, op.start, Len(op.data))
<1>1. dir' = [dir EXCEPT ![s] = e]
  BY DEF WriteDirent
<1>2. s \in Slot /\ Live(s)
  BY DEF TypeInv, Busy, WriteDirent, At, Idle
<1>3. e.name = dir[s].name \/ e = DELETED
  BY DEF Entry
<1> HIDE DEF s, e
<1>4. e # UNUSED
  BY <1>2, <1>3, Marked DEF Live
<1>5. e.name \in Name => \A t \in Slot \ {s} : dir[t].name # e.name
  BY <1>2, <1>3, Marked DEF Names, Once, Live
<1>6. \A t \in Slot : t < s => dir[t] # UNUSED
  BY <1>2, UsedBefore
<1>7. QED BY <1>1, <1>2, <1>4, <1>5, <1>6, EntryKeepsNames

LEMMA NamesStep ==
  TypeInv /\ Names /\ [Calls \/ Steps \/ PowerFails]_diskVars => Names'
<1> SUFFICES ASSUME TypeInv, Names, [Calls \/ Steps \/ PowerFails]_diskVars PROVE Names'
  OBVIOUS
<1>1. dir' = dir => Names'
  BY DEF Names, Once, InARow, Live, UNUSED
<1>2. CASE Calls
  <2>1. PICK n \in Name :
          CreateFile(n) \/ DeleteFile(n) \/ (\E o \in Name : RenameFile(o, n))
            \/ \E d \in Data : WriteFile(n, d)
    BY <1>2 DEF Calls
  <2>2. DeleteFile(n) => dir' = dir
    BY DEF DeleteFile, Fails, Begins, diskVars, store
  <2>3. ASSUME NEW d \in Data, WriteFile(n, d) PROVE dir' = dir
    BY <2>3 DEF WriteFile, Fails, Begins, diskVars, store
  <2>4. QED BY <1>1, <2>1, <2>2, <2>3, CreateFileNames, RenameFileNames
<1>3. CASE Steps
  BY <1>1, <1>3, WriteDirentNames DEF Steps, WriteFat, WriteData, FreeNext, store
<1>4. CASE PowerFails
  BY <1>1, <1>4 DEF PowerFails, store
<1>5. CASE UNCHANGED diskVars
  BY <1>1, <1>5 DEF diskVars, store
<1>6. QED BY <1>2, <1>3, <1>4, <1>5

LEMMA NamesHold == Spec => []Names
BY InitNames, NamesStep, TypesHold, OnDisk, PTL DEF Spec

(* A name stands once in the directory, and findEntry (which looks at all  *)
(* of it) and findDirEntrySlot (which stops at the first entry never used) *)
(* find the same, whatever is created, renamed, deleted and cut off.       *)
THEOREM NamesStandOnce == Spec => []NamesAreUnique
<1>1. Names => NamesAreUnique
  <2> SUFFICES ASSUME Names, NEW n \in Name
               PROVE  /\ FindEntry(n) = FindSlot(n)
                      /\ \A s, t \in Slot : dir[s].name = n /\ dir[t].name = n => s = t
    BY DEF NamesAreUnique
  <2>1. ASSUME NEW s \in Slot, dir[s].name = n, NEW i \in 1..s
        PROVE  dir[i] # UNUSED
    <3>1. i \in Slot /\ i <= s
      BY FatAssumption DEF Slot
    <3>2. CASE i = s
      BY <2>1, <3>2, Marked
    <3>3. CASE i < s
      BY <2>1, <3>1, <3>3, Marked DEF Names, InARow
    <3>4. QED BY <3>1, <3>2, <3>3, Numbers
  <2>2. {s \in Slot : dir[s].name = n}
          = {s \in Slot : dir[s].name = n /\ \A i \in 1..s : dir[i] # UNUSED}
    BY <2>1
  <2>3. QED BY <2>2 DEF FindEntry, FindSlot, Names, Once, Live
<1>2. QED BY <1>1, NamesHold, PTL

----------------------------------------------------------------------------
(* The clusters as a map own, from a cluster to the entry whose chain it   *)
(* is in (0: none, InHand: what the operation is freeing, or has not       *)
(* given an entry yet), and a map pos to its place in that chain.  In the  *)
(* FAT W a cluster that is somebody's is not free, the next one is the     *)
(* same one's and one place on, and only the last place has no next.       *)
Laid(W, own, pos) ==
  \A c \in Cluster : own[c] # 0 =>
    /\ W[c] # FREE
    /\ Valid(W[c]) => own[W[c]] = own[c] /\ pos[W[c]] = pos[c] + 1
    /\ \A d \in Cluster : own[d] = own[c] =>
         /\ pos[d] = pos[c] => d = c
         /\ ~Valid(W[c]) => pos[d] <= pos[c]
NoneOf(own, o) == \A c \in Cluster : own[c] # o
Owners == [Cluster -> Slot \cup {0, InHand}]
Places == [Cluster -> Nat]
Fats   == [Cluster -> Marks]
Given(own, o, p) == [c \in Cluster |-> IF own[c] = o THEN p ELSE own[c]]

(* Only what the FAT says of clusters that are somebody's matters.         *)
LEMMA LaidKept ==
  ASSUME NEW W, NEW V, NEW own, NEW pos, Laid(W, own, pos),
         \A c \in Cluster : own[c] # 0 => V[c] = W[c]
  PROVE  Laid(V, own, pos)
BY DEF Laid

(* All that is o's becomes p's, who has none, or nobody's.                 *)
LEMMA LaidGiven ==
  ASSUME NEW W, NEW own, NEW pos, NEW o, NEW p, Laid(W, own, pos),
         o # 0, p = 0 \/ NoneOf(own, p)
  PROVE  Laid(W, Given(own, o, p), pos)
<1> DEFINE own2 == Given(own, o, p)
<1>1. \A c \in Cluster : own2[c] = IF own[c] = o THEN p ELSE own[c]
  BY DEF Given
<1> HIDE DEF own2
<1> SUFFICES ASSUME NEW c \in Cluster, own2[c] # 0
             PROVE  /\ W[c] # FREE
                    /\ Valid(W[c]) => own2[W[c]] = own2[c] /\ pos[W[c]] = pos[c] + 1
                    /\ \A d \in Cluster : own2[d] = own2[c] =>
                         /\ pos[d] = pos[c] => d = c
                         /\ ~Valid(W[c]) => pos[d] <= pos[c]
  BY DEF Laid, own2
<1>2. own[c] # 0
  BY <1>1
<1>3. Valid(W[c]) => own2[W[c]] = own2[c]
  BY <1>1, <1>2 DEF Laid, Valid
<1>4. ASSUME NEW d \in Cluster, own2[d] = own2[c] PROVE own[d] = own[c]
  BY <1>1, <1>4 DEF NoneOf
<1>5. QED BY <1>2, <1>3, <1>4 DEF Laid

(* The first of the clusters that are o's is freed: the next is the first. *)
LEMMA LaidFreed ==
  ASSUME NEW W, NEW V, NEW own \in Owners, NEW pos \in Places, Laid(W, own, pos),
         NEW x \in Cluster, NEW o, o # 0, own[x] = o,
         \A c \in Cluster : own[c] = o => pos[x] <= pos[c],
         \A c \in Cluster \ {x} : V[c] = W[c]
  PROVE  /\ Laid(V, [own EXCEPT ![x] = 0], pos)
         /\ Valid(W[x]) => /\ W[x] # x /\ own[W[x]] = o
                           /\ \A c \in Cluster \ {x} : own[c] = o => pos[W[x]] <= pos[c]
<1> DEFINE own2 == [own EXCEPT ![x] = 0]
<1>1. \A c \in Cluster : own2[c] = IF c = x THEN 0 ELSE own[c]
  BY DEF Owners
<1>2. \A c \in Cluster : pos[c] \in Nat
  BY DEF Places
<1> HIDE DEF own2
<1>3. Laid(V, own2, pos)
  <2> SUFFICES ASSUME NEW c \in Cluster, own2[c] # 0
               PROVE  /\ V[c] # FREE
                      /\ Valid(V[c]) => own2[V[c]] = own2[c] /\ pos[V[c]] = pos[c] + 1
                      /\ \A d \in Cluster : own2[d] = own2[c] =>
                           /\ pos[d] = pos[c] => d = c
                           /\ ~Valid(V[c]) => pos[d] <= pos[c]
    BY DEF Laid
  <2>1. c # x /\ own2[c] = own[c] /\ own[c] # 0 /\ V[c] = W[c]
    BY <1>1
  <2>2. Valid(V[c]) => V[c] \in Cluster /\ own[V[c]] = own[c] /\ pos[V[c]] = pos[c] + 1
    BY <2>1 DEF Laid, Valid
  <2>3. Valid(V[c]) => V[c] # x
    <3> SUFFICES ASSUME Valid(V[c]), V[c] = x PROVE FALSE
      OBVIOUS
    <3>1. own[c] = o /\ pos[x] = pos[c] + 1
      BY <2>2
    <3>2. QED BY <3>1, <1>2
  <2>4. \A d \in Cluster : own2[d] = own2[c] => own[d] = own[c]
    BY <1>1, <2>1
  <2>5. QED BY <1>1, <2>1, <2>2, <2>3, <2>4 DEF Laid
<1>4. ASSUME Valid(W[x])
      PROVE  /\ W[x] # x /\ own[W[x]] = o
             /\ \A c \in Cluster \ {x} : own[c] = o => pos[W[x]] <= pos[c]
  <2>1. W[x] \in Cluster /\ own[W[x]] = o /\ pos[W[x]] = pos[x] + 1
    BY <1>4 DEF Laid, Valid
  <2>2. W[x] # x
    BY <2>1, <1>2
  <2>3. ASSUME NEW c \in Cluster \ {x}, own[c] = o PROVE pos[W[x]] <= pos[c]
    <3>1. pos[c] # pos[x] /\ pos[x] <= pos[c]
      BY <2>3 DEF Laid
    <3>2. QED BY <3>1, <2>1, <1>2
  <2>4. QED BY <2>1, <2>2, <2>3
<1>5. QED BY <1>3, <1>4 DEF own2

(* The chain of s ends at x: what came after it is o's, who had none.      *)
CutAt(own, pos, x, o) ==
  [c \in Cluster |-> IF own[c] = own[x] /\ pos[c] > pos[x] THEN o ELSE own[c]]
LEMMA LaidCut ==
  ASSUME NEW W, NEW V, NEW own \in Owners, NEW pos \in Places, Laid(W, own, pos),
         NEW x \in Cluster, own[x] # 0, NEW o, o # 0, NoneOf(own, o),
         V[x] = EOC, \A c \in Cluster \ {x} : V[c] = W[c]
  PROVE  /\ Laid(V, CutAt(own, pos, x, o), pos)
         /\ CutAt(own, pos, x, o)[x] = own[x]
         /\ Valid(W[x]) =>
              /\ CutAt(own, pos, x, o)[W[x]] = o /\ pos[W[x]] = pos[x] + 1
              /\ \A c \in Cluster : CutAt(own, pos, x, o)[c] = o => pos[W[x]] <= pos[c]
<1> DEFINE own2 == CutAt(own, pos, x, o)
<1>1. \A c \in Cluster : own2[c] = IF own[c] = own[x] /\ pos[c] > pos[x] THEN o ELSE own[c]
  BY DEF CutAt
<1>2. \A c \in Cluster : pos[c] \in Nat
  BY DEF Places
<1>3. EOC # FREE /\ ~Valid(EOC)
  BY Numbers DEF Valid
<1> HIDE DEF own2
<1>4. own2[x] = own[x]
  BY <1>1, <1>2
<1>5. Laid(V, own2, pos)
  <2> SUFFICES ASSUME NEW c \in Cluster, own2[c] # 0
               PROVE  /\ V[c] # FREE
                      /\ Valid(V[c]) => own2[V[c]] = own2[c] /\ pos[V[c]] = pos[c] + 1
                      /\ \A d \in Cluster : own2[d] = own2[c] =>
                           /\ pos[d] = pos[c] => d = c
                           /\ ~Valid(V[c]) => pos[d] <= pos[c]
    BY DEF Laid
  <2>1. own[c] # 0
    BY <1>1
  <2>2. \A d \in Cluster : own2[d] = own2[c] => own[d] = own[c]
    BY <1>1 DEF NoneOf
  <2>3. CASE c = x
    <3>1. \A d \in Cluster : own2[d] = own2[c] => pos[d] <= pos[x]
      BY <1>1, <1>2, <1>4, <2>2, <2>3 DEF NoneOf
    <3>2. QED BY <1>3, <2>1, <2>2, <2>3, <3>1 DEF Laid
  <2>4. CASE c # x
    <3>1. V[c] = W[c]
      BY <2>4
    <3>2. ASSUME Valid(W[c])
          PROVE  W[c] \in Cluster /\ own[W[c]] = own[c] /\ pos[W[c]] = pos[c] + 1
      BY <2>1, <3>2 DEF Laid, Valid
    <3>3. own[c] = own[x] => pos[c] # pos[x]
      BY <2>1, <2>4 DEF Laid
    <3>4. ASSUME Valid(W[c]) PROVE own2[W[c]] = own2[c]
      <4>1. pos[W[c]] > pos[x] <=> pos[c] > pos[x] \/ pos[c] = pos[x]
        BY <3>2, <3>4, <1>2
      <4>2. QED BY <1>1, <3>2, <3>3, <3>4, <4>1
    <3>5. QED BY <2>1, <2>2, <3>1, <3>2, <3>4 DEF Laid
  <2>5. QED BY <2>3, <2>4
<1>6. ASSUME Valid(W[x])
      PROVE  /\ own2[W[x]] = o /\ pos[W[x]] = pos[x] + 1
             /\ \A c \in Cluster : own2[c] = o => pos[W[x]] <= pos[c]
  <2>1. W[x] \in Cluster /\ own[W[x]] = own[x] /\ pos[W[x]] = pos[x] + 1
    BY <1>6 DEF Laid, Valid
  <2>2. own2[W[x]] = o
    BY <1>1, <1>2, <2>1
  <2>3. ASSUME NEW c \in Cluster, own2[c] = o PROVE pos[W[x]] <= pos[c]
    <3>1. pos[c] > pos[x]
      BY <1>1, <2>3 DEF NoneOf
    <3>2. QED BY <3>1, <2>1, <1>2
  <2>4. QED BY <2>1, <2>2, <2>3
<1>7. QED BY <1>4, <1>5, <1>6 DEF own2

(* ... and back: what is o's follows x again.                              *)
LEMMA LaidJoined ==
  ASSUME NEW W, NEW V, NEW own \in Owners, NEW pos \in Places, Laid(W, own, pos),
         NEW x \in Cluster, own[x] # 0, ~Valid(W[x]),
         NEW y \in Cluster, own[y] # 0, own[y] # own[x], pos[y] = pos[x] + 1,
         \A c \in Cluster : own[c] = own[y] => pos[y] <= pos[c],
         V[x] = y, \A c \in Cluster \ {x} : V[c] = W[c]
  PROVE  Laid(V, Given(own, own[y], own[x]), pos)
<1> DEFINE own2 == Given(own, own[y], own[x])
<1>1. \A c \in Cluster : own2[c] = IF own[c] = own[y] THEN own[x] ELSE own[c]
  BY DEF Given
<1>2. \A c \in Cluster : pos[c] \in Nat
  BY DEF Places
<1>3. Valid(y) /\ y # FREE
  BY Numbers DEF Valid
<1> HIDE DEF own2
<1>4. \A c \in Cluster : own[c] = own[x] => pos[c] <= pos[x]
  BY DEF Laid
<1>5. ASSUME NEW c \in Cluster, NEW d \in Cluster, own[c] = own[x], own[d] = own[y]
      PROVE  pos[c] < pos[d]
  <2>1. pos[c] <= pos[x] /\ pos[y] <= pos[d]
    BY <1>4, <1>5
  <2>2. QED BY <2>1, <1>2
<1> SUFFICES ASSUME NEW c \in Cluster, own2[c] # 0
             PROVE  /\ V[c] # FREE
                    /\ Valid(V[c]) => own2[V[c]] = own2[c] /\ pos[V[c]] = pos[c] + 1
                    /\ \A d \in Cluster : own2[d] = own2[c] =>
                         /\ pos[d] = pos[c] => d = c
                         /\ ~Valid(V[c]) => pos[d] <= pos[c]
  BY DEF Laid, own2
<1>6. own[c] # 0
  BY <1>1
<1>7. V[c] # FREE
  BY <1>3, <1>6 DEF Laid
<1>8. Valid(V[c]) => own2[V[c]] = own2[c] /\ pos[V[c]] = pos[c] + 1
  <2>1. CASE c = x
    BY <1>1, <2>1
  <2>2. CASE c # x
    <3>1. V[c] = W[c]
      BY <2>2
    <3>2. QED BY <1>1, <1>6, <3>1 DEF Laid, Valid
  <2>3. QED BY <2>1, <2>2
<1>9. ASSUME NEW d \in Cluster, own2[d] = own2[c], pos[d] = pos[c]
      PROVE  d = c
  <2>1. CASE own[d] = own[c]
    BY <1>6, <1>9, <2>1 DEF Laid
  <2>2. CASE own[d] # own[c]
    <3>1. (own[c] = own[x] /\ own[d] = own[y]) \/ (own[d] = own[x] /\ own[c] = own[y])
      BY <1>1, <1>9, <2>2
    <3>2. pos[c] < pos[d] \/ pos[d] < pos[c]
      BY <3>1, <1>5
    <3>3. QED BY <3>2, <1>2, <1>9
  <2>3. QED BY <2>1, <2>2
<1>10. ASSUME NEW d \in Cluster, own2[d] = own2[c], ~Valid(V[c])
       PROVE  pos[d] <= pos[c]
  <2>1. c # x /\ V[c] = W[c]
    BY <1>3, <1>10
  <2>2. CASE own[d] = own[c]
    BY <1>6, <1>10, <2>1, <2>2 DEF Laid
  <2>3. CASE own[c] = own[x] /\ own[d] = own[y]
    <3>1. pos[x] <= pos[c] /\ pos[c] <= pos[x]
      BY <1>4, <1>6, <1>10, <2>1, <2>3 DEF Laid
    <3>2. pos[c] = pos[x]
      BY <3>1, <1>2
    <3>3. c = x
      BY <3>2, <2>3 DEF Laid
    <3>4. QED BY <3>3, <2>1
  <2>4. CASE own[d] = own[x] /\ own[c] = own[y]
    BY <1>2, <1>5, <2>4
  <2>5. QED BY <1>1, <1>10, <2>2, <2>3, <2>4
<1>11. QED BY <1>7, <1>8, <1>9, <1>10

(* A free cluster is put after the last one of a chain.                    *)
LEMMA LaidLonger ==
  ASSUME NEW W, NEW V, NEW own \in Owners, NEW pos \in Places, Laid(W, own, pos),
         NEW x \in Cluster, own[x] # 0, ~Valid(W[x]),
         NEW y \in Cluster, own[y] = 0,
         V[x] = y, V[y] = EOC, \A c \in Cluster \ {x, y} : V[c] = W[c]
  PROVE  Laid(V, [own EXCEPT ![y] = own[x]], [pos EXCEPT ![y] = pos[x] + 1])
<1> DEFINE own2 == [own EXCEPT ![y] = own[x]]
           pos2 == [pos EXCEPT ![y] = pos[x] + 1]
<1>1. \A c \in Cluster : own2[c] = IF c = y THEN own[x] ELSE own[c]
  BY DEF Owners
<1>2. \A c \in Cluster : pos2[c] = IF c = y THEN pos[x] + 1 ELSE pos[c]
  BY DEF Places
<1>3. \A c \in Cluster : pos[c] \in Nat
  BY DEF Places
<1>4. EOC # FREE /\ ~Valid(EOC) /\ Valid(y) /\ y # FREE /\ x # y
  BY Numbers DEF Valid
<1> HIDE DEF own2, pos2
<1>5. \A c \in Cluster : own[c] = own[x] => pos[c] <= pos[x]
  BY DEF Laid
<1> SUFFICES ASSUME NEW c \in Cluster, own2[c] # 0
             PROVE  /\ V[c] # FREE
                    /\ Valid(V[c]) => own2[V[c]] = own2[c] /\ pos2[V[c]] = pos2[c] + 1
                    /\ \A d \in Cluster : own2[d] = own2[c] =>
                         /\ pos2[d] = pos2[c] => d = c
                         /\ ~Valid(V[c]) => pos2[d] <= pos2[c]
  BY DEF Laid, own2, pos2
<1>6. CASE c = y
  <2>1. V[c] = EOC /\ own2[c] = own[x] /\ pos2[c] = pos[x] + 1
    BY <1>1, <1>2, <1>6
  <2>2. ASSUME NEW d \in Cluster, own2[d] = own2[c], d # c PROVE pos2[d] <= pos[x]
    BY <1>1, <1>2, <1>5, <1>6, <2>1, <2>2
  <2>3. \A d \in Cluster : pos2[d] \in Nat
    BY <1>2, <1>3
  <2>4. QED BY <1>3, <1>4, <2>1, <2>2, <2>3
<1>7. CASE c # y
  <2>1. own2[c] = own[c] /\ pos2[c] = pos[c] /\ own[c] # 0
    BY <1>1, <1>2, <1>7
  <2>2. CASE c = x
    <3>1. V[c] = y /\ own2[y] = own[x] /\ pos2[y] = pos[x] + 1
      BY <1>1, <1>2, <2>2
    <3>2. ASSUME NEW d \in Cluster, own2[d] = own2[c], pos2[d] = pos2[c] PROVE d = c
      BY <1>1, <1>2, <1>3, <2>1, <2>2, <3>2 DEF Laid
    <3>3. QED BY <1>4, <2>1, <2>2, <3>1, <3>2
  <2>3. CASE c # x
    <3>1. V[c] = W[c]
      BY <1>7, <2>3
    <3>2. Valid(W[c]) => W[c] \in Cluster /\ own[W[c]] = own[c] /\ pos[W[c]] = pos[c] + 1
      BY <2>1 DEF Laid, Valid
    <3>3. Valid(W[c]) => W[c] # y
      BY <2>1, <3>2
    <3>4. own[c] = own[x] => Valid(W[c]) /\ pos[c] < pos[x]
      <4> SUFFICES ASSUME own[c] = own[x] PROVE Valid(W[c]) /\ pos[c] < pos[x]
        OBVIOUS
      <4>1. pos[c] <= pos[x] /\ pos[c] # pos[x]
        BY <1>5, <2>3 DEF Laid
      <4>2. ~Valid(W[c]) => pos[x] <= pos[c]
        BY <2>1 DEF Laid
      <4>3. QED BY <4>1, <4>2, <1>3
    <3>5. ASSUME NEW d \in Cluster, own2[d] = own2[c], d = y
          PROVE  pos2[d] # pos2[c] /\ Valid(W[c])
      BY <1>1, <1>2, <1>3, <2>1, <3>4, <3>5
    <3>6. ASSUME NEW d \in Cluster, own2[d] = own2[c], d # y
          PROVE  own[d] = own[c] /\ pos2[d] = pos[d]
      BY <1>1, <1>2, <2>1, <3>6
    <3>7. QED BY <1>1, <1>2, <2>1, <3>1, <3>2, <3>3, <3>5, <3>6 DEF Laid
  <2>4. QED BY <2>2, <2>3
<1>8. QED BY <1>6, <1>7

(* ... and taken away again.                                               *)
LEMMA LaidShorter ==
  ASSUME NEW W, NEW V, NEW own \in Owners, NEW pos \in Places, Laid(W, own, pos),
         NEW x \in Cluster, NEW y \in Cluster, own[x] # 0, own[y] = own[x],
         pos[y] = pos[x] + 1, ~Valid(W[y]),
         V[x] = EOC, \A c \in Cluster \ {x, y} : V[c] = W[c]
  PROVE  Laid(V, [own EXCEPT ![y] = 0], pos)
<1> DEFINE own2 == [own EXCEPT ![y] = 0]
<1>1. \A c \in Cluster : own2[c] = IF c = y THEN 0 ELSE own[c]
  BY DEF Owners
<1>3. \A c \in Cluster : pos[c] \in Nat
  BY DEF Places
<1>4. EOC # FREE /\ ~Valid(EOC)
  BY Numbers DEF Valid
<1> HIDE DEF own2
<1>5. \A c \in Cluster : own[c] = own[x] => pos[c] <= pos[y]
  BY DEF Laid
<1>6. ASSUME NEW c \in Cluster, c # y, own[c] = own[x] PROVE pos[c] <= pos[x]
  <2>1. pos[c] <= pos[y] /\ pos[c] # pos[y]
    BY <1>5, <1>6 DEF Laid
  <2>2. QED BY <2>1, <1>3
<1> SUFFICES ASSUME NEW c \in Cluster, own2[c] # 0
             PROVE  /\ V[c] # FREE
                    /\ Valid(V[c]) => own2[V[c]] = own2[c] /\ pos[V[c]] = pos[c] + 1
                    /\ \A d \in Cluster : own2[d] = own2[c] =>
                         /\ pos[d] = pos[c] => d = c
                         /\ ~Valid(V[c]) => pos[d] <= pos[c]
  BY DEF Laid, own2
<1>7. c # y /\ own2[c] = own[c] /\ own[c] # 0
  BY <1>1
<1>8. ASSUME NEW d \in Cluster, own2[d] = own2[c] PROVE d # y /\ own[d] = own[c]
  BY <1>1, <1>7, <1>8
<1>9. CASE c = x
  BY <1>4, <1>6, <1>7, <1>8, <1>9 DEF Laid
<1>10. CASE c # x
  <2>1. V[c] = W[c]
    BY <1>7, <1>10
  <2>2. ASSUME Valid(W[c]) PROVE W[c] \in Cluster /\ own[W[c]] = own[c] /\ pos[W[c]] = pos[c] + 1
    BY <1>7, <2>2 DEF Laid, Valid
  <2>3. ASSUME Valid(W[c]) PROVE W[c] # y
    <3> SUFFICES ASSUME W[c] = y PROVE FALSE
      OBVIOUS
    <3>1. own[c] = own[x] /\ pos[c] + 1 = pos[x] + 1
      BY <2>2, <2>3
    <3>2. pos[c] = pos[x]
      BY <3>1, <1>3
    <3>3. QED BY <3>1, <3>2, <1>10 DEF Laid
  <2>4. QED BY <1>1, <1>7, <1>8, <2>1, <2>2, <2>3 DEF Laid
<1>11. QED BY <1>9, <1>10

(* A free cluster is the first of what is o's, who has no other.           *)
LEMMA LaidFirst ==
  ASSUME NEW W, NEW V, NEW own \in Owners, NEW pos \in Places, Laid(W, own, pos),
         NEW o, o # 0, NoneOf(own, o), NEW x \in Cluster, own[x] = 0,
         V[x] = EOC, \A c \in Cluster \ {x} : V[c] = W[c]
  PROVE  Laid(V, [own EXCEPT ![x] = o], [pos EXCEPT ![x] = 0])
<1> DEFINE own2 == [own EXCEPT ![x] = o]
           pos2 == [pos EXCEPT ![x] = 0]
<1>1. \A c \in Cluster : own2[c] = IF c = x THEN o ELSE own[c]
  BY DEF Owners
<1>2. \A c \in Cluster : pos2[c] = IF c = x THEN 0 ELSE pos[c]
  BY DEF Places
<1>3. EOC # FREE /\ ~Valid(EOC) /\ 0 <= 0
  BY Numbers DEF Valid
<1> HIDE DEF own2, pos2
<1> SUFFICES ASSUME NEW c \in Cluster, own2[c] # 0
             PROVE  /\ V[c] # FREE
                    /\ Valid(V[c]) => own2[V[c]] = own2[c] /\ pos2[V[c]] = pos2[c] + 1
                    /\ \A d \in Cluster : own2[d] = own2[c] =>
                         /\ pos2[d] = pos2[c] => d = c
                         /\ ~Valid(V[c]) => pos2[d] <= pos2[c]
  BY DEF Laid, own2, pos2
<1>4. CASE c = x
  <2>1. \A d \in Cluster : own2[d] = own2[c] => d = c
    BY <1>1, <1>4 DEF NoneOf
  <2>2. V[c] = EOC /\ pos2[c] = 0
    BY <1>2, <1>4
  <2>3. QED BY <1>3, <2>1, <2>2
<1>5. CASE c # x
  <2>1. own2[c] = own[c] /\ own[c] # 0 /\ V[c] = W[c] /\ own[c] # o
    BY <1>1, <1>5 DEF NoneOf
  <2>2. \A d \in Cluster : own2[d] = own2[c] => own[d] = own[c] /\ d # x
    BY <1>1, <2>1
  <2>3. Valid(W[c]) => W[c] \in Cluster /\ W[c] # x
    BY <2>1 DEF Laid, Valid
  <2>4. QED BY <1>1, <1>2, <1>5, <2>1, <2>2, <2>3 DEF Laid
<1>6. QED BY <1>4, <1>5

----------------------------------------------------------------------------
(* The FAT once what is pending is written.                                *)
Will ==
  [c \in Cluster |->
     IF Len(pend) > 0 /\ c = pend[1][1] THEN pend[1][2]
     ELSE IF Len(pend) > 1 /\ c = pend[2][1] THEN pend[2][2]
     ELSE Next(c)]

(* Fresh: a file that had no cluster is written.  Holder: who has the      *)
(* clusters that are written.  Has: the entry has a chain, and no          *)
(* operation is about to clear it.                                         *)
Fresh  == op.kind = "write" /\ op.data # <<>> /\ dir[op.slot].cluster = 0
Holder == IF Fresh THEN InHand ELSE op.slot
Has(s) == Live(s) /\ dir[s].cluster # 0 /\ ~(Clearing /\ s = op.slot)

Rooted(own, pos) ==
  /\ \A s \in Slot : Has(s) => own[dir[s].cluster] = s /\ pos[dir[s].cluster] = 0
  /\ \A c \in Cluster : own[c] \in Slot => Has(own[c])

(* What the operation works on, by its stage.                              *)
Working(own, pos) ==
  /\ Idle => NoneOf(own, InHand)
  /\ op.pc = "data" => own[op.cl] = Holder
  /\ op.pc = "data" => IF Fresh THEN Will[op.cl] = EOC ELSE NoneOf(own, InHand)
  /\ op.pc = "free" /\ Fresh => ~Valid(op.cl)
  /\ op.pc = "free" /\ ~Fresh /\ Valid(op.cl) =>
       /\ own[op.cl] = InHand
       /\ \A c \in Cluster : own[c] = InHand => pos[op.cl] <= pos[c]
  /\ Fresh => IF op.start = 0 THEN NoneOf(own, InHand)
                              ELSE own[op.start] = InHand /\ pos[op.start] = 0
  /\ ~Idle /\ ~Clearing /\ ~Fresh => op.start = dir[op.slot].cluster
  /\ op.kind = "write" /\ op.data = <<>> => op.start = 0

(* What is pending, and how far it is written: a cluster is freed, a chain *)
(* cut, a free cluster taken, or taken and linked.                         *)
Freeing(own) ==
  op.pc = "free" /\ Len(pend) = 1 /\ pend[1][2] = FREE /\ own[pend[1][1]] = 0
Cutting(own, pos) ==
  /\ op.pc = "free" /\ Len(pend) = 1 /\ pend[1][2] = EOC
  /\ own[pend[1][1]] = Holder /\ Next(pend[1][1]) \in {EOC, op.cl} /\ op.cl # FREE
  /\ Valid(op.cl) => pos[op.cl] = pos[pend[1][1]] + 1
Taking ==
  /\ op.pc = "data" /\ Len(pend) = 1 /\ pend[1] = <<op.cl, EOC>>
  /\ Next(op.cl) \in {FREE, EOC}
Linked(own, pos) ==
  /\ op.pc = "data" /\ Len(pend) = 2
  /\ pend[1][2] = op.cl /\ pend[1][1] # op.cl /\ pend[2] = <<op.cl, EOC>>
  /\ own[pend[1][1]] = Holder /\ pos[op.cl] = pos[pend[1][1]] + 1
  /\ copy = 1 => Next(pend[1][1]) = EOC
  /\ Next(op.cl) = FREE
Writing(own, pos) ==
  /\ pend = <<>> => copy = 1
  /\ pend # <<>> =>
       /\ copy > 1 => Next(pend[1][1]) = pend[1][2]
       /\ Freeing(own) \/ Cutting(own, pos) \/ Taking \/ Linked(own, pos)

Owned(own, pos) ==
  Laid(Will, own, pos) /\ Rooted(own, pos) /\ Working(own, pos) /\ Writing(own, pos)
OwnInv == ~hurt => \E own \in Owners, pos \in Places : Owned(own, pos)

LEMMA InitOwn == Init => OwnInv
<1> SUFFICES ASSUME Init PROVE \E own \in Owners, pos \in Places : Owned(own, pos)
  BY DEF OwnInv
<1> DEFINE own == [c \in Cluster |-> 0]
<1>1. own \in Owners /\ own \in Places
  BY DEF Owners, Places
<1>2. \A c \in Cluster : own[c] = 0
  OBVIOUS
<1> HIDE DEF own
<1>3. Laid(Will, own, own)
  BY <1>2 DEF Laid
<1>4. Rooted(own, own)
  BY <1>2, Marked, Numbers DEF Rooted, Init, Has, Live
<1>5. Working(own, own)
  BY <1>2, Numbers DEF Working, Init, NoneOf, Idle, NoOp, Op, Fresh
<1>6. Writing(own, own)
  BY DEF Writing, Init
<1>7. QED BY <1>1, <1>3, <1>4, <1>5, <1>6 DEF Owned

LEMMA WillNow ==
  ASSUME pend = <<>>
  PROVE  \A c \in Cluster : Will[c] = Next(c)
BY DEF Will

LEMMA WillMarks ==
  ASSUME TypeInv, NEW c \in Cluster, pend = <<>>
  PROVE  Will[c] \in Marks
BY WillNow, NextTypes

(* When the directory, the operation and Will stay, only the writing goes  *)
(* on.                                                                     *)
LEMMA StaysRooted ==
  ASSUME NEW own, NEW pos, Rooted(own, pos), Working(own, pos),
         dir' = dir, op' = op, Will' = Will
  PROVE  Rooted(own, pos)' /\ Working(own, pos)'
<1>1. Fresh' = Fresh /\ Holder' = Holder /\ Clearing' = Clearing /\ Idle' = Idle
  BY DEF Fresh, Holder, Clearing, Idle
<1>2. \A s : Has(s)' <=> Has(s)
  BY <1>1 DEF Has, Live
<1>3. Rooted(own, pos)'
  BY <1>2 DEF Rooted
<1>4. Working(own, pos)'
  BY <1>1 DEF Working, NoneOf, Valid
<1>5. QED BY <1>3, <1>4

LEMMA PendIs ==
  ASSUME TypeInv
  PROVE  /\ pend = <<>> \/ Len(pend) = 1 \/ Len(pend) = 2
         /\ Len(pend) = 1 => Tail(pend) = <<>> /\ \E e \in Todo : pend = <<e>>
         /\ Len(pend) = 2 => \E e, f \in Todo : pend = <<e, f>>
<1>1. CASE pend = <<>>
  BY <1>1
<1>2. CASE \E e \in Todo : pend = <<e>>
  <2>1. PICK e \in Todo : pend = <<e>>
    BY <1>2
  <2>2. Len(pend) = 1 /\ Tail(pend) = <<>>
    BY <2>1
  <2>3. QED BY <1>2, <2>2
<1>3. CASE \E e, f \in Todo : pend = <<e, f>>
  <2>1. PICK e \in Todo, f \in Todo : pend = <<e, f>>
    BY <1>3
  <2>2. Len(pend) = 2
    BY <2>1
  <2>3. QED BY <1>3, <2>2
<1>4. QED BY <1>1, <1>2, <1>3 DEF TypeInv, Kinds

LEMMA WriteFatOwned ==
  ASSUME TypeInv, NEW own \in Owners, NEW pos \in Places, Owned(own, pos), WriteFat
  PROVE  Owned(own, pos)' /\ Will' = Will
<1> DEFINE x == pend[1][1]
           v == pend[1][2]
<1>1. pend # <<>> /\ pend[1] \in Todo /\ x \in Cluster /\ v \in Marks
  <2>1. pend # <<>>
    BY DEF WriteFat
  <2>2. pend[1] \in Todo
    BY <2>1 DEF TypeInv, Kinds
  <2>3. QED BY <2>1, <2>2 DEF Todo
<1>2. copy \in Nat \ {0} /\ copy \in Copy /\ 1 \in Copy
  BY Numbers, FatAssumption DEF TypeInv, Kinds, Copy
<1>3. \A c \in Cluster : Next(c)' = IF copy = 1 /\ c = x THEN v ELSE Next(c)
  BY <1>1, <1>2 DEF TypeInv, Kinds, WriteFat, Next
<1>4. dir' = dir /\ op' = op
  BY DEF WriteFat
<1>5. Freeing(own) \/ Cutting(own, pos) \/ Taking \/ Linked(own, pos)
  BY <1>1 DEF Owned, Writing
<1>6. copy > 1 => Next(x) = v
  BY <1>1 DEF Owned, Writing
<1>7. op.pc = "data" => op.cl \in Cluster
  BY DEF TypeInv, Busy, Valid
<1>8. CASE copy < NFats
  <2>1. pend' = pend /\ copy' = copy + 1
    BY <1>8 DEF WriteFat
  <2>2. Will' = Will
    <3>1. \A c \in Cluster : Will'[c] = Will[c]
      BY <1>1, <1>3, <2>1 DEF Will
    <3>2. QED BY <3>1 DEF Will
  <2>3. Next(x)' = v
    <3>1. x' = x
      BY <2>1
    <3>2. fat'[1][x] = v
      BY <1>1, <1>2, <1>3, <1>6 DEF Next
    <3>3. QED BY <3>1, <3>2 DEF Next
  <2>4. (Freeing(own) \/ Cutting(own, pos) \/ Taking \/ Linked(own, pos))'
    <3>1. Freeing(own) => Freeing(own)'
      BY <1>4, <2>1 DEF Freeing
    <3>2. Cutting(own, pos) => Cutting(own, pos)'
      BY <1>4, <2>1, <2>3 DEF Cutting, Holder, Fresh, Valid
    <3>3. Taking => Taking'
      BY <1>4, <2>1, <2>3 DEF Taking
    <3>4. Linked(own, pos) => Linked(own, pos)'
      BY <1>1, <1>2, <1>3, <1>4, <1>7, <2>1 DEF Linked, Holder, Fresh
    <3>5. QED BY <1>5, <3>1, <3>2, <3>3, <3>4
  <2>5. Writing(own, pos)'
    BY <1>1, <2>1, <2>3, <2>4 DEF Writing
  <2>6. QED BY <1>4, <2>2, <2>5, StaysRooted DEF Owned, Laid
<1>9. CASE ~(copy < NFats)
  <2>1. pend' = Tail(pend) /\ copy' = 1
    BY <1>9 DEF WriteFat
  <2>2. \A c \in Cluster : Next(c)' = IF c = x THEN v ELSE Next(c)
    BY <1>2, <1>3, <1>6
  <2>3. CASE Len(pend) = 1
    <3>1. pend' = <<>>
      BY <2>1, <2>3, PendIs
    <3>2. Will' = Will
      <4>1. \A c \in Cluster : Will'[c] = Will[c]
        BY <1>1, <2>2, <2>3, <3>1 DEF Will
      <4>2. QED BY <4>1 DEF Will
    <3>3. Writing(own, pos)'
      BY <2>1, <3>1 DEF Writing
    <3>4. QED BY <1>4, <3>2, <3>3, StaysRooted DEF Owned, Laid
  <2>4. CASE Len(pend) = 2
    <3>1. PICK f \in Todo : pend' = <<f>> /\ pend[2] = f
      <4>1. PICK e \in Todo, f \in Todo : pend = <<e, f>>
        BY <2>4, PendIs
      <4>2. QED BY <2>1, <4>1
    <3>2. Linked(own, pos)
      BY <1>5, <2>4 DEF Freeing, Cutting, Taking
    <3>3. f = <<op.cl, EOC>> /\ x # op.cl /\ op.pc = "data" /\ Next(op.cl) = FREE
      BY <3>1, <3>2 DEF Linked
    <3>4. Will' = Will
      <4>1. \A c \in Cluster : Will'[c] = Will[c]
        BY <1>1, <2>2, <2>4, <3>1, <3>3 DEF Will
      <4>2. QED BY <4>1 DEF Will
    <3>5. Taking'
      BY <1>4, <1>7, <2>2, <3>1, <3>3 DEF Taking
    <3>6. Writing(own, pos)'
      BY <2>1, <3>1, <3>5 DEF Writing
    <3>7. QED BY <1>4, <3>4, <3>6, StaysRooted DEF Owned, Laid
  <2>5. QED BY <1>5, <2>3, <2>4 DEF Freeing, Cutting, Taking, Linked
<1>10. QED BY <1>8, <1>9

(* Between two operations nothing is pending and nothing in hand.          *)
LEMMA RestsOwned ==
  ASSUME NEW own, NEW pos, op' = NoOp, pend' = <<>>, copy' = 1,
         NEW V, \A c \in Cluster : Next(c)' = V[c], Laid(V, own, pos),
         Rooted(own, pos)', NoneOf(own, InHand)
  PROVE  Owned(own, pos)'
<1>1. \A c \in Cluster : Will'[c] = V[c]
  BY DEF Will
<1>2. Laid(Will, own, pos)'
  BY <1>1 DEF Laid, Valid
<1>3. Idle' /\ op'.pc = "idle" /\ op'.kind = "none" /\ ~Fresh'
  BY NoOpTypes DEF Idle, Fresh
<1>4. Working(own, pos)'
  BY <1>3 DEF Working, NoneOf
<1>5. Writing(own, pos)'
  BY DEF Writing
<1>6. QED BY <1>2, <1>4, <1>5 DEF Owned

(* The operation is cut off: what is in hand is nobody's.                  *)
LEMMA HasAtRest ==
  ASSUME ~Clearing, op' = NoOp, dir' = dir, NEW s \in Slot
  PROVE  Has(s)' <=> Has(s)
<1>1. s # op'.slot
  BY NoOpTypes, Numbers
<1>2. QED BY <1>1 DEF Has, Live

LEMMA GivenIs ==
  ASSUME NEW own \in Owners, NEW o, NEW p \in Slot \cup {0, InHand}
  PROVE  /\ Given(own, o, p) \in Owners
         /\ \A c \in Cluster : Given(own, o, p)[c] = IF own[c] = o THEN p ELSE own[c]
BY DEF Given, Owners

OnlyMine(own, own2) ==
  \A c \in Cluster :
    own2[c] # own[c] => own[c] \in {op.slot, InHand} /\ own2[c] \in {0, op.slot}
LEMMA CutLeaves ==
  ASSUME TypeInv, ~Clearing, NEW own \in Owners, NEW pos \in Places, Owned(own, pos),
         op' = NoOp, pend' = <<>>, copy' = 1, dir' = dir, fat' = fat,
         \A c \in Cluster : own[c] \notin {0, InHand} => Next(c) = Will[c]
  PROVE  \E own2 \in Owners, pos2 \in Places : Owned(own2, pos2)' /\ OnlyMine(own, own2) /\ pos2 = pos
<1> DEFINE V == [c \in Cluster |-> Next(c)]
           own2 == Given(own, InHand, 0)
<1>1. own2 \in Owners /\ \A c \in Cluster : own2[c] = IF own[c] = InHand THEN 0 ELSE own[c]
  BY GivenIs
<1>2. Laid(Will, own2, pos)
  BY Numbers, LaidGiven DEF Owned
<1>3. \A c \in Cluster : V[c] = Next(c)
  OBVIOUS
<1> HIDE DEF V, own2
<1>4. \A c \in Cluster : own2[c] # 0 => V[c] = Will[c]
  BY <1>1, <1>3
<1>5. Laid(V, own2, pos)
  BY <1>2, <1>4, LaidKept
<1>6. \A c \in Cluster : Next(c)' = V[c]
  BY <1>3 DEF Next
<1>7. NoneOf(own2, InHand)
  BY <1>1, Numbers DEF NoneOf
<1>8. Rooted(own2, pos)'
  <2>1. \A s \in Slot : Has(s)' <=> Has(s)
    BY HasAtRest
  <2>2. ASSUME NEW s \in Slot, Has(s)
        PROVE  own2[dir[s].cluster] = s /\ pos[dir[s].cluster] = 0
    <3>1. dir[s].cluster \in Cluster
      BY <2>2 DEF TypeInv, Kinds, Has
    <3>2. QED BY <1>1, <2>2, <3>1, Numbers DEF Owned, Rooted
  <2>3. \A c \in Cluster : own2[c] \in Slot => own[c] = own2[c] /\ Has(own[c])
    BY <1>1, Numbers DEF Owned, Rooted
  <2>4. QED BY <2>1, <2>2, <2>3 DEF Rooted
<1>9. Owned(own2, pos)'
  BY <1>5, <1>6, <1>7, <1>8, RestsOwned
<1>10. OnlyMine(own, own2)
  BY <1>1 DEF OnlyMine
<1>11. QED BY <1>1, <1>9, <1>10

(* The rest of the chain was to be freed and is still linked.              *)
LEMMA CutRejoins ==
  ASSUME TypeInv, ~Clearing, ~Fresh, ~Idle, NEW own \in Owners, NEW pos \in Places,
         Owned(own, pos),
         op' = NoOp, pend' = <<>>, copy' = 1, dir' = dir, fat' = fat,
         Cutting(own, pos), pend # <<>>, Valid(op.cl), Next(pend[1][1]) = op.cl
  PROVE  \E own2 \in Owners, pos2 \in Places : Owned(own2, pos2)' /\ OnlyMine(own, own2) /\ pos2 = pos
<1>0. PICK x, y, s : x = pend[1][1] /\ y = op.cl /\ s = op.slot
  OBVIOUS
<1> DEFINE V == [c \in Cluster |-> Next(c)]
           own2 == Given(own, InHand, s)
<1>1. x \in Cluster /\ y \in Cluster
  <2>1. pend[1] \in Todo
    BY DEF TypeInv, Kinds
  <2>2. QED BY <1>0, <2>1 DEF Todo, Valid
<1>2. s \in Slot
  BY <1>0 DEF TypeInv, Busy
<1>3. own[x] = s /\ pos[y] = pos[x] + 1
  BY <1>0 DEF Cutting, Holder
<1>4. own[y] = InHand /\ \A c \in Cluster : own[c] = InHand => pos[y] <= pos[c]
  BY <1>0 DEF Owned, Working, Cutting
<1>5. /\ Will[x] = EOC /\ V[x] = y
      /\ \A c \in Cluster \ {x} : V[c] = Will[c]
  BY <1>0, <1>1 DEF Will, Cutting
<1>6. own2 \in Owners /\ \A c \in Cluster : own2[c] = IF own[c] = InHand THEN s ELSE own[c]
  BY <1>2, GivenIs
<1>7. \A c \in Cluster : Next(c)' = V[c]
  BY DEF Next
<1>8. ~Valid(EOC) /\ s # 0 /\ InHand # 0 /\ InHand # s
  BY <1>2, Numbers DEF Valid
<1> HIDE DEF V
<1>9. Laid(V, own2, pos)
  <2>1. Laid(Will, own, pos)
    BY DEF Owned
  <2>2. Laid(V, Given(own, own[y], own[x]), pos)
    BY <1>1, <1>3, <1>4, <1>5, <1>8, <2>1, LaidJoined
  <2>3. QED BY <2>2, <1>3, <1>4
<1> HIDE DEF own2
<1>10. NoneOf(own2, InHand)
  BY <1>6, <1>8 DEF NoneOf
<1>11. Rooted(own2, pos)'
  <2>1. \A t \in Slot : Has(t)' <=> Has(t)
    BY HasAtRest
  <2>2. ASSUME NEW t \in Slot, Has(t)
        PROVE  own2[dir[t].cluster] = t /\ pos[dir[t].cluster] = 0
    <3>1. dir[t].cluster \in Cluster
      BY <2>2 DEF TypeInv, Kinds, Has
    <3>2. QED BY <1>6, <2>2, <3>1, Numbers DEF Owned, Rooted
  <2>3. Has(s)
    BY <1>1, <1>2, <1>3 DEF Owned, Rooted
  <2>4. \A c \in Cluster : own2[c] \in Slot => Has(own2[c])
    BY <1>6, <2>3 DEF Owned, Rooted
  <2>5. QED BY <2>1, <2>2, <2>4 DEF Rooted
<1>12. Owned(own2, pos)'
  BY <1>7, <1>9, <1>10, <1>11, RestsOwned
<1>13. OnlyMine(own, own2)
  BY <1>0, <1>6 DEF OnlyMine
<1>14. QED BY <1>6, <1>12, <1>13

(* A cluster was taken and is not linked yet.                              *)
LEMMA CutUnlinks ==
  ASSUME TypeInv, ~Clearing, ~Fresh, ~Idle, NEW own \in Owners, NEW pos \in Places,
         Owned(own, pos),
         op' = NoOp, pend' = <<>>, copy' = 1, dir' = dir, fat' = fat,
         Linked(own, pos), pend # <<>>, copy = 1
  PROVE  \E own2 \in Owners, pos2 \in Places : Owned(own2, pos2)' /\ OnlyMine(own, own2) /\ pos2 = pos
<1>0. PICK x, y : x = pend[1][1] /\ y = op.cl
  OBVIOUS
<1> DEFINE V == [c \in Cluster |-> Next(c)]
           own2 == [own EXCEPT ![y] = 0]
<1>1. x \in Cluster /\ y \in Cluster
  <2>1. pend[1] \in Todo
    BY DEF TypeInv, Kinds
  <2>2. QED BY <1>0, <2>1 DEF Todo, Valid, Linked, TypeInv, Busy
<1>2. op.slot \in Slot /\ op.slot # 0
  BY Numbers DEF TypeInv, Busy
<1>3. own[x] = op.slot /\ pos[y] = pos[x] + 1 /\ own[y] = op.slot /\ x # y
  BY <1>0 DEF Linked, Holder, Owned, Working
<1>4. NoneOf(own, InHand)
  BY DEF Owned, Working, Linked
<1>5. /\ Will[y] = EOC /\ V[x] = EOC
      /\ \A c \in Cluster \ {x, y} : V[c] = Will[c]
  BY <1>0, <1>1 DEF Will, Linked
<1>6. own2 \in Owners /\ \A c \in Cluster : own2[c] = IF c = y THEN 0 ELSE own[c]
  BY DEF Owners
<1>7. \A c \in Cluster : Next(c)' = V[c]
  BY DEF Next
<1>8. ~Valid(EOC) /\ InHand # 0 /\ 0 \notin Slot
  BY Numbers DEF Valid
<1> HIDE DEF V
<1>9. Laid(V, own2, pos)
  <2>1. Laid(Will, own, pos)
    BY DEF Owned
  <2>2. own[x] # 0 /\ own[y] = own[x] /\ pos[y] = pos[x] + 1 /\ ~Valid(Will[y])
    BY <1>2, <1>3, <1>5, <1>8
  <2> HIDE DEF own2
  <2>3. Laid(V, [own EXCEPT ![y] = 0], pos)
    BY <1>1, <1>5, <2>1, <2>2, LaidShorter
  <2>4. QED BY <2>3 DEF own2
<1> HIDE DEF own2
<1>10. NoneOf(own2, InHand)
  BY <1>4, <1>6, <1>8 DEF NoneOf
<1>11. Rooted(own2, pos)'
  <2>1. \A s \in Slot : Has(s)' <=> Has(s)
    BY HasAtRest
  <2>2. ASSUME NEW s \in Slot, Has(s)
        PROVE  own2[dir[s].cluster] = s /\ pos[dir[s].cluster] = 0
    <3>1. dir[s].cluster \in Cluster
      BY <2>2 DEF TypeInv, Kinds, Has
    <3>2. own[dir[s].cluster] = s /\ pos[dir[s].cluster] = 0
      BY <2>2 DEF Owned, Rooted
    <3>3. pos[x] + 1 # 0
      BY <1>1 DEF Places
    <3>4. QED BY <1>3, <1>6, <3>1, <3>2, <3>3
  <2>4. \A c \in Cluster : own2[c] \in Slot => Has(own2[c])
    BY <1>6, <1>8 DEF Owned, Rooted
  <2>5. QED BY <2>1, <2>2, <2>4 DEF Rooted
<1>12. Owned(own2, pos)'
  BY <1>7, <1>9, <1>10, <1>11, RestsOwned
<1>13. OnlyMine(own, own2)
  BY <1>3, <1>6 DEF OnlyMine
<1>14. QED BY <1>6, <1>12, <1>13

LEMMA PowerFailsOwned ==
  ASSUME TypeInv, NEW own \in Owners, NEW pos \in Places, Owned(own, pos), PowerFails, ~hurt'
  PROVE  \E own2 \in Owners, pos2 \in Places : Owned(own2, pos2)' /\ OnlyMine(own, own2) /\ pos2 = pos
<1>1. ~hurt /\ ~Clearing /\ ~Linking
  BY DEF PowerFails
<1>2. Owned(own, pos)
  OBVIOUS
<1>3. op' = NoOp /\ pend' = <<>> /\ copy' = 1 /\ dir' = dir /\ fat' = fat /\ ~Idle
  BY DEF PowerFails, store
<1>4. op.pc = "data" => op.cl \in Cluster /\ own[op.cl] = Holder
  BY <1>2 DEF TypeInv, Busy, Owned, Working, Valid
<1>5. CASE pend = <<>>
  BY <1>1, <1>2, <1>3, <1>5, WillNow, CutLeaves
<1>6. CASE pend # <<>> /\ Freeing(own)
  <2>1. \A c \in Cluster : own[c] # 0 => Next(c) = Will[c]
    BY <1>6 DEF Freeing, Will
  <2>2. QED BY <1>1, <1>2, <1>3, <2>1, CutLeaves
<1>7. CASE pend # <<>> /\ Fresh /\ ~Freeing(own)
  <2>1. Holder = InHand
    BY <1>7 DEF Holder
  <2>2. \A c \in Cluster : own[c] # InHand => Next(c) = Will[c]
    <3>1. CASE Cutting(own, pos)
      BY <2>1, <3>1 DEF Cutting, Will
    <3>2. CASE Taking
      BY <1>4, <2>1, <3>2 DEF Taking, Will
    <3>3. CASE Linked(own, pos)
      BY <1>4, <2>1, <3>3 DEF Linked, Will
    <3>4. QED BY <1>2, <1>7, <3>1, <3>2, <3>3 DEF Owned, Writing
  <2>3. QED BY <1>1, <1>2, <1>3, <2>2, CutLeaves
<1>8. CASE pend # <<>> /\ ~Fresh /\ Cutting(own, pos)
  <2>1. CASE Next(pend[1][1]) = op.cl /\ Valid(op.cl)
    BY <1>1, <1>2, <1>3, <1>8, <2>1, CutRejoins
  <2>2. CASE ~(Next(pend[1][1]) = op.cl /\ Valid(op.cl))
    <3>1. op.cl \in Marks
      BY DEF TypeInv, Kinds
    <3>2. Next(pend[1][1]) = EOC
      BY <1>8, <2>2, <3>1 DEF Cutting, Marks, Valid
    <3>3. \A c \in Cluster : Next(c) = Will[c]
      BY <1>8, <3>2 DEF Cutting, Will
    <3>4. QED BY <1>1, <1>2, <1>3, <3>3, CutLeaves
  <2>3. QED BY <2>1, <2>2
<1>9. dir[op.slot].cluster # 0 \/ Fresh
  BY <1>1, <1>3 DEF Fresh, Clearing, TypeInv, Busy
<1>10. CASE pend # <<>> /\ ~Fresh /\ Taking
  <2>1. Next(op.cl) # FREE
    <3>1. pend[Len(pend)] = <<op.cl, EOC>> /\ Len(pend) = 1
      BY <1>10 DEF Taking
    <3>2. QED BY <1>1, <1>9, <1>10, <3>1 DEF Linking
  <2>2. \A c \in Cluster : Next(c) = Will[c]
    BY <1>10, <2>1 DEF Taking, Will
  <2>3. QED BY <1>1, <1>2, <1>3, <2>2, CutLeaves
<1>11. CASE pend # <<>> /\ ~Fresh /\ Linked(own, pos)
  <2>1. ~(copy > 1)
    <3>1. pend[Len(pend)] = <<op.cl, EOC>> /\ Next(op.cl) = FREE
      BY <1>11 DEF Linked
    <3>2. QED BY <1>1, <1>9, <1>11, <3>1 DEF Linking
  <2>2. copy = 1
    BY <2>1, FatAssumption DEF TypeInv, Kinds, Copy
  <2>3. QED BY <1>1, <1>2, <1>3, <1>11, <2>2, CutUnlinks
<1>12. QED BY <1>2, <1>5, <1>6, <1>7, <1>8, <1>10, <1>11 DEF Owned, Writing

(* A step of the operation changes neither its file nor its kind.          *)
LEMMA SameOperation ==
  ASSUME dir' = dir, op'.kind = op.kind, op'.data = op.data, op'.slot = op.slot
  PROVE  /\ Fresh' <=> Fresh
         /\ Holder' = Holder /\ Clearing' = Clearing
         /\ \A s : Has(s)' <=> Has(s)
<1>1. (Fresh' <=> Fresh) /\ (Clearing' <=> Clearing)
  BY DEF Fresh, Clearing
<1>2. Holder' = Holder
  BY <1>1 DEF Holder
<1>3. \A s : Has(s)' <=> Has(s)
  BY <1>1 DEF Has, Live
<1>4. QED BY <1>1, <1>2, <1>3 DEF Clearing

LEMMA FreeNextOwned ==
  ASSUME TypeInv, NEW own \in Owners, NEW pos \in Places, Owned(own, pos), FreeNext
  PROVE  \E own2 \in Owners, pos2 \in Places :
           /\ Owned(own2, pos2)' /\ pos2 = pos
           /\ own2 = IF Valid(op.cl) THEN [own EXCEPT ![op.cl] = 0] ELSE own
<1>1. /\ op.pc = "free" /\ ~Idle /\ pend = <<>> /\ dir' = dir /\ fat' = fat /\ copy' = copy
      /\ copy = 1
  BY DEF FreeNext, At, Idle, store, Owned, Writing
<1>2. \A c \in Cluster : Will[c] = Next(c) /\ Next(c)' = Next(c)
  BY <1>1, WillNow DEF Next
<1>3. CASE Valid(op.cl)
  <2>1. PICK x : x = op.cl
    OBVIOUS
  <2> DEFINE own2 == [own EXCEPT ![x] = 0]
  <2>2. x \in Cluster /\ ~Fresh /\ own[x] = InHand /\ \A c \in Cluster : own[c] = InHand => pos[x] <= pos[c]
    BY <1>1, <1>3, <2>1 DEF Owned, Working, Valid
  <2>3. pend' = << <<x, FREE>> >> /\ op' = GoesOn("free", Next(x), <<>>)
    BY <1>3, <2>1 DEF FreeNext
  <2>4. /\ op'.pc = "free" /\ op'.cl = Next(x) /\ op'.kind = op.kind /\ op'.data = op.data
        /\ op'.slot = op.slot /\ op'.start = op.start
    BY <2>3 DEF GoesOn, TypeInv, Kinds
  <2>5. /\ ~Fresh' /\ (Clearing' <=> Clearing) /\ \A s : Has(s)' <=> Has(s)
    BY <1>1, <2>2, <2>4, SameOperation
  <2>6. Will'[x] = FREE /\ \A c \in Cluster \ {x} : Will'[c] = Will[c]
    BY <1>2, <2>2, <2>3 DEF Will
  <2>7. own2 \in Owners /\ \A c \in Cluster : own2[c] = IF c = x THEN 0 ELSE own[c]
    BY DEF Owners
  <2>8. /\ Laid(Will', own2, pos)
        /\ Valid(Next(x)) => /\ Next(x) # x /\ own[Next(x)] = InHand
                             /\ \A c \in Cluster \ {x} : own[c] = InHand => pos[Next(x)] <= pos[c]
    <3>1. Laid(Will, own, pos) /\ InHand # 0 /\ Will[x] = Next(x)
      BY <1>2, <2>2, Numbers DEF Owned
    <3>2. /\ Laid(Will', [own EXCEPT ![x] = 0], pos)
          /\ Valid(Will[x]) => /\ Will[x] # x /\ own[Will[x]] = InHand
                               /\ \A c \in Cluster \ {x} : own[c] = InHand => pos[Will[x]] <= pos[c]
      BY <3>1, <2>2, <2>6, LaidFreed
    <3>3. QED BY <3>1, <3>2
  <2> HIDE DEF own2
  <2>9. Rooted(own2, pos)'
    <3>1. ASSUME NEW s \in Slot, Has(s)
          PROVE  own2[dir[s].cluster] = s /\ pos[dir[s].cluster] = 0
      <4>1. dir[s].cluster \in Cluster
        BY <3>1 DEF TypeInv, Kinds, Has
      <4>2. own[dir[s].cluster] = s /\ pos[dir[s].cluster] = 0
        BY <3>1 DEF Owned, Rooted
      <4>3. QED BY <2>2, <2>7, <4>1, <4>2, Numbers
    <3>2. \A c \in Cluster : own2[c] \in Slot => Has(own2[c])
      BY <2>7, Numbers DEF Owned, Rooted
    <3>3. QED BY <1>1, <2>5, <3>1, <3>2 DEF Rooted
  <2>10. Working(own2, pos)'
    <3>1. Valid(op'.cl) =>
            /\ own2[op'.cl] = InHand
            /\ \A c \in Cluster : own2[c] = InHand => pos[op'.cl] <= pos[c]
      BY <2>4, <2>7, <2>8, Numbers DEF Valid
    <3>2. ~Clearing => op.start = dir[op.slot].cluster
      BY <1>1, <2>2 DEF Owned, Working
    <3>3. op.kind = "write" /\ op.data = <<>> => op.start = 0
      BY DEF Owned, Working
    <3>4. QED BY <1>1, <2>4, <2>5, <3>1, <3>2, <3>3 DEF Working, Valid, Idle
  <2>11. Writing(own2, pos)'
    <3>1. Freeing(own2)'
      BY <2>2, <2>3, <2>4, <2>7 DEF Freeing
    <3>2. QED BY <1>1, <2>3, <3>1 DEF Writing
  <2>12. Owned(own2, pos)'
    BY <2>8, <2>9, <2>10, <2>11 DEF Owned, Laid, Valid
  <2>13. QED BY <1>3, <2>1, <2>7, <2>12 DEF own2
<1>4. CASE ~Valid(op.cl)
  <2>1. op' = GoesOn("dirent", op.cl, <<>>) /\ pend' = pend
    BY <1>4 DEF FreeNext
  <2>2. /\ op'.pc = "dirent" /\ op'.kind = op.kind /\ op'.data = op.data
        /\ op'.slot = op.slot /\ op'.start = op.start
    BY <2>1 DEF GoesOn, TypeInv, Kinds
  <2>3. /\ (Fresh' <=> Fresh) /\ (Clearing' <=> Clearing) /\ \A s : Has(s)' <=> Has(s)
    BY <1>1, <2>2, SameOperation
  <2>4. Will' = Will
    BY <1>1, <2>1 DEF Will, Next
  <2>5. Rooted(own, pos)'
    BY <1>1, <2>3 DEF Owned, Rooted
  <2>6. Working(own, pos)'
    BY <1>1, <2>2, <2>3 DEF Owned, Working, Idle, NoneOf
  <2>7. Writing(own, pos)'
    BY <1>1, <2>1 DEF Writing
  <2>8. QED BY <1>4, <2>4, <2>5, <2>6, <2>7 DEF Owned, Laid
<1>5. QED BY <1>3, <1>4

(* Data is written: the chain ends there, or goes on in the next cluster.  *)
LEMMA EndsOwned ==
  ASSUME TypeInv, NEW own \in Owners, NEW pos \in Places, Owned(own, pos),
         At("data"), dir' = dir, fat' = fat, copy' = copy,
         op' = GoesOn("free", Next(op.cl), <<>>), pend' = << <<op.cl, EOC>> >>
  PROVE  \E own2 \in Owners, pos2 \in Places :
           /\ Owned(own2, pos2)' /\ pos2 = pos
           /\ own2 = IF Fresh THEN own ELSE CutAt(own, pos, op.cl, InHand)
<1>1. /\ op.pc = "data" /\ ~Idle /\ pend = <<>> /\ copy = 1
  BY DEF At, Idle, Owned, Writing
<1>2. \A c \in Cluster : Will[c] = Next(c) /\ Next(c)' = Next(c)
  BY <1>1, WillNow DEF Next
<1>3. PICK x, n : x = op.cl /\ n = Next(x)
  OBVIOUS
<1>4. /\ x \in Cluster /\ own[x] = Holder /\ Will[x] = n /\ n \in Marks
      /\ IF Fresh THEN n = EOC ELSE NoneOf(own, InHand)
  BY <1>1, <1>2, <1>3, NextTypes DEF TypeInv, Busy, Valid, Owned, Working
<1>5. /\ op'.pc = "free" /\ op'.cl = n /\ op'.kind = op.kind /\ op'.data = op.data
      /\ op'.slot = op.slot /\ op'.start = op.start
  BY <1>3 DEF GoesOn, TypeInv, Kinds
<1>6. /\ (Fresh' <=> Fresh) /\ Holder' = Holder /\ (Clearing' <=> Clearing)
      /\ \A s : Has(s)' <=> Has(s)
  BY <1>5, SameOperation
<1>7. Will'[x] = EOC /\ \A c \in Cluster \ {x} : Will'[c] = Will[c]
  BY <1>2, <1>3, <1>4 DEF Will
<1>8. EOC # FREE /\ ~Valid(EOC) /\ InHand # 0 /\ InHand \notin Slot /\ 0 \notin Slot
  BY Numbers DEF Valid
<1>9. Holder # 0
  BY <1>1, Numbers DEF Holder, TypeInv, Busy
<1>10. n # FREE
  BY <1>4, <1>9 DEF Owned, Laid
<1>11. /\ ~Clearing /\ ~Fresh => op.start = dir[op.slot].cluster
       /\ op.kind = "write" /\ op.data = <<>> => op.start = 0
       /\ Fresh => IF op.start = 0 THEN NoneOf(own, InHand)
                              ELSE own[op.start] = InHand /\ pos[op.start] = 0
  BY <1>1 DEF Owned, Working
<1>12. CASE Fresh
  <2>1. Laid(Will', own, pos)
    <3>1. \A c \in Cluster : Will'[c] = Will[c]
      BY <1>4, <1>7, <1>12
    <3>2. QED BY <3>1, LaidKept DEF Owned
  <2>2. Rooted(own, pos)'
    BY <1>6 DEF Owned, Rooted
  <2>3. Working(own, pos)'
    BY <1>1, <1>4, <1>5, <1>6, <1>8, <1>11, <1>12 DEF Working, Idle, NoneOf, Valid
  <2>4. Writing(own, pos)'
    <3>1. Cutting(own, pos)'
      BY <1>2, <1>3, <1>4, <1>5, <1>6, <1>8, <1>10, <1>12 DEF Cutting, Valid
    <3>2. QED BY <1>1, <3>1 DEF Writing
  <2>5. QED BY <1>12, <2>1, <2>2, <2>3, <2>4 DEF Owned, Laid, Valid
<1>13. CASE ~Fresh
  <2> DEFINE own2 == CutAt(own, pos, x, InHand)
  <2>1. /\ own2 \in Owners
        /\ \A c \in Cluster : own2[c] = IF own[c] = own[x] /\ pos[c] > pos[x] THEN InHand ELSE own[c]
    BY DEF CutAt, Owners
  <2>2. /\ Laid(Will', own2, pos)
        /\ own2[x] = own[x]
        /\ Valid(n) =>
             /\ own2[n] = InHand /\ pos[n] = pos[x] + 1
             /\ \A c \in Cluster : own2[c] = InHand => pos[n] <= pos[c]
    <3>1. Laid(Will, own, pos) /\ own[x] # 0 /\ NoneOf(own, InHand)
      BY <1>4, <1>9, <1>13 DEF Owned
    <3> HIDE DEF own2
    <3>2. /\ Laid(Will', CutAt(own, pos, x, InHand), pos)
          /\ CutAt(own, pos, x, InHand)[x] = own[x]
          /\ Valid(Will[x]) =>
               /\ CutAt(own, pos, x, InHand)[Will[x]] = InHand /\ pos[Will[x]] = pos[x] + 1
               /\ \A c \in Cluster : CutAt(own, pos, x, InHand)[c] = InHand => pos[Will[x]] <= pos[c]
      BY <1>4, <1>7, <1>8, <3>1, LaidCut
    <3>3. QED BY <1>4, <3>2 DEF own2
  <2> HIDE DEF own2
  <2>3. Rooted(own2, pos)'
    <3>1. ASSUME NEW s \in Slot, Has(s)
          PROVE  own2[dir[s].cluster] = s /\ pos[dir[s].cluster] = 0
      <4>1. dir[s].cluster \in Cluster
        BY <3>1 DEF TypeInv, Kinds, Has
      <4>2. own[dir[s].cluster] = s /\ pos[dir[s].cluster] = 0
        BY <3>1 DEF Owned, Rooted
      <4>3. ~(pos[dir[s].cluster] > pos[x])
        BY <1>4, <4>2 DEF Places
      <4>4. QED BY <2>1, <4>1, <4>2, <4>3
    <3>2. \A c \in Cluster : own2[c] \in Slot => Has(own2[c])
      BY <1>8, <2>1 DEF Owned, Rooted
    <3>3. QED BY <1>6, <3>1, <3>2 DEF Rooted
  <2>4. Working(own2, pos)'
    BY <1>1, <1>5, <1>6, <1>11, <1>13, <2>2 DEF Working, Idle, Valid
  <2>5. Writing(own2, pos)'
    <3>1. Cutting(own2, pos)'
      BY <1>2, <1>3, <1>4, <1>5, <1>6, <1>10, <2>2 DEF Cutting, Valid
    <3>2. QED BY <1>1, <3>1 DEF Writing
  <2>6. Owned(own2, pos)'
    BY <2>2, <2>3, <2>4, <2>5 DEF Owned, Laid, Valid
  <2>7. QED BY <1>3, <1>13, <2>1, <2>6 DEF own2
<1>14. QED BY <1>12, <1>13

LEMMA NextDataOwned ==
  ASSUME TypeInv, NEW own \in Owners, NEW pos \in Places, Owned(own, pos),
         At("data"), dir' = dir, fat' = fat, copy' = copy, pend' = pend,
         NEW r, op' = GoesOn("data", Next(op.cl), r), Valid(Next(op.cl))
  PROVE  Owned(own, pos)'
<1>1. /\ op.pc = "data" /\ ~Idle /\ pend = <<>> /\ copy = 1
  BY DEF At, Idle, Owned, Writing
<1>2. Will' = Will
  BY DEF Will, Next
<1>3. PICK x, n : x = op.cl /\ n = Next(x)
  OBVIOUS
<1>4. /\ x \in Cluster /\ own[x] = Holder /\ Will[x] = n /\ n \in Cluster
  BY <1>1, <1>3, WillNow DEF TypeInv, Busy, Valid, Owned, Working
<1>5. /\ op'.pc = "data" /\ op'.cl = n /\ op'.kind = op.kind /\ op'.data = op.data
      /\ op'.slot = op.slot /\ op'.start = op.start
  BY <1>3 DEF GoesOn, TypeInv, Kinds
<1>6. /\ (Fresh' <=> Fresh) /\ Holder' = Holder /\ (Clearing' <=> Clearing)
      /\ \A s : Has(s)' <=> Has(s)
  BY <1>5, SameOperation
<1>7. Holder # 0
  BY <1>1, Numbers DEF Holder, TypeInv, Busy
<1>8. own[n] = Holder
  BY <1>4, <1>7 DEF Owned, Laid, Valid
<1>9. ~Fresh /\ NoneOf(own, InHand)
  BY <1>1, <1>3, <1>4, Numbers DEF Owned, Working
<1>10. Rooted(own, pos)'
  BY <1>6 DEF Owned, Rooted
<1>11. Working(own, pos)'
  BY <1>1, <1>5, <1>6, <1>8, <1>9 DEF Owned, Working, Idle, NoneOf, Valid
<1>12. Writing(own, pos)'
  BY <1>1 DEF Writing
<1>13. QED BY <1>2, <1>10, <1>11, <1>12 DEF Owned, Laid

LEMMA DiskFullOwned ==
  ASSUME TypeInv, NEW own \in Owners, NEW pos \in Places, Owned(own, pos),
         At("data"), dir' = dir, fat' = fat, copy' = copy, pend' = pend,
         NEW c, NEW r, op' = GoesOn("dirent", c, r)
  PROVE  Owned(own, pos)'
<1>1. /\ op.pc = "data" /\ ~Idle /\ pend = <<>> /\ copy = 1
  BY DEF At, Idle, Owned, Writing
<1>2. Will' = Will
  BY DEF Will, Next
<1>5. /\ op'.pc = "dirent" /\ op'.kind = op.kind /\ op'.data = op.data
      /\ op'.slot = op.slot /\ op'.start = op.start
  BY DEF GoesOn, TypeInv, Kinds
<1>6. /\ (Fresh' <=> Fresh) /\ (Clearing' <=> Clearing)
      /\ \A s : Has(s)' <=> Has(s)
  BY <1>5, SameOperation
<1>10. Rooted(own, pos)'
  BY <1>6 DEF Owned, Rooted
<1>11. Working(own, pos)'
  BY <1>1, <1>5, <1>6 DEF Owned, Working, Idle, NoneOf
<1>12. Writing(own, pos)'
  BY <1>1 DEF Writing
<1>13. QED BY <1>2, <1>10, <1>11, <1>12 DEF Owned, Laid

(* A free cluster is nobody's.                                             *)
LEMMA FreeIsNobodys ==
  ASSUME NEW own, NEW pos, Owned(own, pos), pend = <<>>,
         NEW y \in Cluster, Next(y) = FREE
  PROVE  own[y] = 0
BY WillNow DEF Owned, Laid

LEMMA ExtendsOwned ==
  ASSUME TypeInv, NEW own \in Owners, NEW pos \in Places, Owned(own, pos),
         At("data"), dir' = dir, fat' = fat, copy' = copy,
         NEW y \in Cluster, Next(y) = FREE, NEW r, ~Valid(Next(op.cl)),
         op' = GoesOn("data", y, r), pend' = << <<op.cl, y>>, <<y, EOC>> >>
  PROVE  \E own2 \in Owners, pos2 \in Places :
           Owned(own2, pos2)' /\ own2 = [own EXCEPT ![y] = Holder] /\ pos2 = [pos EXCEPT ![y] = pos[op.cl] + 1]
<1>1. /\ op.pc = "data" /\ ~Idle /\ pend = <<>> /\ copy = 1
  BY DEF At, Idle, Owned, Writing
<1>2. \A c \in Cluster : Will[c] = Next(c) /\ Next(c)' = Next(c)
  BY <1>1, WillNow DEF Next
<1>3. PICK x, h : x = op.cl /\ h = Holder
  OBVIOUS
<1>4. /\ x \in Cluster /\ own[x] = h /\ ~Valid(Will[x]) /\ ~Clearing
      /\ ~Fresh => NoneOf(own, InHand)
  BY <1>1, <1>2, <1>3 DEF TypeInv, Busy, Valid, Owned, Working
<1>5. /\ op'.pc = "data" /\ op'.cl = y /\ op'.kind = op.kind /\ op'.data = op.data
      /\ op'.slot = op.slot /\ op'.start = op.start
  BY DEF GoesOn, TypeInv, Kinds
<1>6. /\ (Fresh' <=> Fresh) /\ Holder' = h /\ (Clearing' <=> Clearing)
      /\ \A s : Has(s)' <=> Has(s)
  BY <1>3, <1>5, SameOperation
<1>7. h # 0 /\ h \in Slot \cup {InHand} /\ IF Fresh THEN h = InHand ELSE h \in Slot
  BY <1>1, <1>3, Numbers DEF Holder, TypeInv, Busy
<1>8. own[y] = 0 /\ x # y
  BY <1>1, <1>4, <1>7, FreeIsNobodys
<1>9. Next(x) = EOC
  <2>1. Next(x) \in Marks
    BY <1>4, NextTypes
  <2>2. Will[x] # FREE
    BY <1>4, <1>7 DEF Owned, Laid
  <2>3. QED BY <1>2, <1>4, <2>1, <2>2 DEF Marks, Valid
<1>10. /\ Will'[x] = y /\ Will'[y] = EOC
       /\ \A c \in Cluster \ {x, y} : Will'[c] = Will[c]
  BY <1>2, <1>3, <1>4, <1>8 DEF Will
<1> DEFINE own2 == [own EXCEPT ![y] = h]
           pos2 == [pos EXCEPT ![y] = pos[x] + 1]
<1>11. own2 \in Owners /\ \A c \in Cluster : own2[c] = IF c = y THEN h ELSE own[c]
  BY <1>7 DEF Owners
<1>12. pos2 \in Places /\ \A c \in Cluster : pos2[c] = IF c = y THEN pos[x] + 1 ELSE pos[c]
  BY <1>4 DEF Places
<1>13. Laid(Will', own2, pos2)
  <2>1. Laid(Will, own, pos) /\ own[x] # 0
    BY <1>4, <1>7 DEF Owned
  <2> HIDE DEF own2, pos2
  <2>2. Laid(Will', [own EXCEPT ![y] = own[x]], [pos EXCEPT ![y] = pos[x] + 1])
    BY <1>4, <1>8, <1>10, <2>1, LaidLonger
  <2>3. QED BY <1>4, <2>2 DEF own2, pos2
<1> HIDE DEF own2, pos2
<1>14. Rooted(own2, pos2)'
  <2>1. ASSUME NEW s \in Slot, Has(s)
        PROVE  own2[dir[s].cluster] = s /\ pos2[dir[s].cluster] = 0
    <3>1. dir[s].cluster \in Cluster
      BY <2>1 DEF TypeInv, Kinds, Has
    <3>2. own[dir[s].cluster] = s /\ pos[dir[s].cluster] = 0
      BY <2>1 DEF Owned, Rooted
    <3>3. QED BY <1>8, <1>11, <1>12, <3>1, <3>2, Numbers
  <2>2. h \in Slot => Has(h)
    BY <1>4 DEF Owned, Rooted
  <2>3. \A c \in Cluster : own2[c] \in Slot => Has(own2[c])
    BY <1>11, <2>2 DEF Owned, Rooted
  <2>4. QED BY <1>6, <2>1, <2>3 DEF Rooted
<1>15. Working(own2, pos2)'
  <2>1. own2[y] = h /\ Will'[y] = EOC
    BY <1>10, <1>11
  <2>2. ~Fresh => NoneOf(own2, InHand)
    BY <1>4, <1>7, <1>11, Numbers DEF NoneOf
  <2>3. Fresh => op.start # 0 /\ own2[op.start] = InHand /\ pos2[op.start] = 0
    <3> SUFFICES ASSUME Fresh PROVE op.start # 0 /\ own2[op.start] = InHand /\ pos2[op.start] = 0
      OBVIOUS
    <3>1. ~NoneOf(own, InHand)
      BY <1>4, <1>7 DEF NoneOf
    <3>2. op.start # 0 /\ own[op.start] = InHand /\ pos[op.start] = 0
      BY <3>1 DEF Owned, Working
    <3>3. op.start \in Cluster
      BY <3>2 DEF TypeInv, Kinds
    <3>4. QED BY <1>8, <1>11, <1>12, <3>2, <3>3, Numbers
  <2>4. ~Fresh => op.start = dir[op.slot].cluster
    BY <1>1, <1>4 DEF Owned, Working
  <2>5. op.kind = "write" /\ op.data = <<>> => op.start = 0
    BY DEF Owned, Working
  <2>6. QED BY <1>1, <1>5, <1>6, <2>1, <2>2, <2>3, <2>4, <2>5 DEF Working, Idle, NoneOf
<1>16. Writing(own2, pos2)'
  <2>1. Linked(own2, pos2)'
    BY <1>2, <1>3, <1>4, <1>5, <1>6, <1>8, <1>9, <1>11, <1>12 DEF Linked
  <2>2. QED BY <1>1, <2>1 DEF Writing
<1>17. Owned(own2, pos2)'
  BY <1>13, <1>14, <1>15, <1>16 DEF Owned, Laid, Valid
<1>18. QED BY <1>3, <1>11, <1>12, <1>17 DEF own2, pos2

LEMMA WriteDataOwned ==
  ASSUME TypeInv, NEW own \in Owners, NEW pos \in Places, Owned(own, pos), WriteData
  PROVE  \E own2 \in Owners, pos2 \in Places : Owned(own2, pos2)'
<1>1. /\ dir' = dir /\ fat' = fat /\ copy' = copy /\ At("data")
      /\ AfterData(Next(op.cl), Tail(op.rest))
  BY DEF WriteData
<1> DEFINE next == Next(op.cl)
           rest == Tail(op.rest)
<1>2. CASE rest = <<>>
  BY <1>1, <1>2, EndsOwned DEF AfterData
<1>3. CASE rest # <<>> /\ Valid(next)
  <2>1. op' = GoesOn("data", next, rest) /\ pend' = pend
    BY <1>1, <1>3 DEF AfterData
  <2>2. PICK r : r = rest
    OBVIOUS
  <2>3. QED BY <1>1, <1>3, <2>1, <2>2, NextDataOwned
<1>4. CASE rest # <<>> /\ ~Valid(next) /\ FreeCluster = 0
  <2>1. op' = GoesOn("dirent", next, rest) /\ pend' = pend
    BY <1>1, <1>4 DEF AfterData
  <2>2. PICK n, r : n = next /\ r = rest
    OBVIOUS
  <2>3. QED BY <1>1, <2>1, <2>2, DiskFullOwned
<1>5. CASE rest # <<>> /\ ~Valid(next) /\ FreeCluster # 0
  <2>1. op' = GoesOn("data", FreeCluster, rest) /\ pend' = << <<op.cl, FreeCluster>>, <<FreeCluster, EOC>> >>
    BY <1>1, <1>5 DEF AfterData
  <2>2. PICK y, r : y = FreeCluster /\ r = rest
    OBVIOUS
  <2>3. y \in Cluster /\ Next(y) = FREE
    BY <1>5, <2>2, FindsCluster
  <2>4. QED BY <1>1, <1>5, <2>1, <2>2, <2>3, ExtendsOwned
<1>6. QED BY <1>2, <1>3, <1>4, <1>5

(* The entry is written: it gets the chain that is in hand, or keeps the   *)
(* one it has, or has none.                                                *)
LEMMA WriteDirentOwned ==
  ASSUME TypeInv, NEW own \in Owners, NEW pos \in Places, Owned(own, pos), WriteDirent
  PROVE  \E own2 \in Owners, pos2 \in Places :
           /\ Owned(own2, pos2)' /\ pos2 = pos
           /\ own2 = Given(own, InHand, IF Fresh /\ op.start # 0 THEN op.slot ELSE 0)
<1>1. /\ op.pc = "dirent" /\ ~Idle /\ pend = <<>> /\ copy = 1 /\ op' = NoOp /\ pend' = <<>>
      /\ copy' = 1 /\ fat' = fat
  BY DEF WriteDirent, At, Idle, Owned, Writing
<1>2. PICK s, c : s = op.slot /\ c = op.start
  OBVIOUS
<1>3. /\ s \in Slot /\ Live(s) /\ op.kind \in {"write", "delete"} /\ c \in Cluster \cup {0}
  BY <1>1, <1>2 DEF TypeInv, Busy, Kinds
<1>4. /\ Fresh => IF c = 0 THEN NoneOf(own, InHand) ELSE own[c] = InHand /\ pos[c] = 0
      /\ ~Clearing /\ ~Fresh => c = dir[s].cluster
      /\ op.kind = "write" /\ op.data = <<>> => c = 0
  BY <1>1, <1>2 DEF Owned, Working
<1>5. PICK V : V = [d \in Cluster |-> Next(d)]
  OBVIOUS
<1>6. Laid(V, own, pos) /\ \A d \in Cluster : Next(d)' = V[d]
  BY <1>1, <1>5, WillNow, LaidKept DEF Owned, Next
<1>7. \A t \in Slot \ {s} : dir'[t] = dir[t]
  BY <1>2 DEF WriteDirent, TypeInv, Kinds
<1>8. dir'[s] = IF op.kind = "delete" THEN DELETED ELSE Entry(dir[s].name, c, Len(op.data))
  BY <1>2, <1>3 DEF WriteDirent, TypeInv, Kinds
<1>9. /\ dir'[s].cluster = IF op.kind = "delete" THEN 0 ELSE c
      /\ dir'[s].name = IF op.kind = "delete" THEN "0xE5" ELSE dir[s].name
  BY <1>8 DEF Entry, DELETED
<1>10. \A t \in Slot : Has(t)' <=> dir'[t].name \in Name /\ dir'[t].cluster # 0
  BY <1>1, NoOpTypes, Numbers DEF Has, Live
<1>11. \A t \in Slot \ {s} : Has(t)' <=> Has(t)
  BY <1>2, <1>7, <1>10 DEF Has, Live
<1>12. Has(s)' <=> op.kind = "write" /\ c # 0
  BY <1>3, <1>9, <1>10 DEF Live
<1>13. Has(s) <=> ~Clearing /\ ~Fresh
  BY <1>2, <1>3 DEF Has, Live, Clearing, Fresh
<1>14. \A t \in Slot : Has(t) => dir[t].cluster \in Cluster
  BY DEF TypeInv, Kinds, Has
<1>15. CASE Fresh /\ c # 0
  <2>1. ~Has(s) /\ Has(s)' /\ dir'[s].cluster = c
    BY <1>9, <1>12, <1>13, <1>15 DEF Fresh
  <2>2. NoneOf(own, s)
    BY <1>3, <2>1 DEF Owned, Rooted, NoneOf
  <2> DEFINE own2 == Given(own, InHand, s)
  <2>3. own2 \in Owners /\ \A d \in Cluster : own2[d] = IF own[d] = InHand THEN s ELSE own[d]
    BY <1>3, GivenIs
  <2>4. Laid(V, own2, pos)
    BY <1>6, <2>2, Numbers, LaidGiven
  <2> HIDE DEF own2
  <2>5. Rooted(own2, pos)'
    <3>1. ASSUME NEW t \in Slot, Has(t)'
          PROVE  own2[dir'[t].cluster] = t /\ pos[dir'[t].cluster] = 0
      <4>1. CASE t = s
        BY <1>3, <1>4, <1>15, <2>1, <2>3, <4>1
      <4>2. CASE t # s
        <5>1. Has(t) /\ dir'[t] = dir[t]
          BY <1>7, <1>11, <3>1, <4>2
        <5>2. own[dir[t].cluster] = t /\ pos[dir[t].cluster] = 0
          BY <5>1 DEF Owned, Rooted
        <5>3. QED BY <1>14, <2>3, <5>1, <5>2, Numbers
      <4>3. QED BY <4>1, <4>2
    <3>2. ASSUME NEW d \in Cluster, own2[d] \in Slot PROVE Has(own2[d])'
      <4>1. CASE own2[d] = s
        BY <2>1, <4>1
      <4>2. CASE own2[d] # s
        <5>1. own2[d] = own[d] /\ Has(own[d])
          BY <2>3, <3>2, <4>2 DEF Owned, Rooted
        <5>2. QED BY <1>11, <3>2, <4>2, <5>1
      <4>3. QED BY <4>1, <4>2
    <3>3. QED BY <3>1, <3>2 DEF Rooted
  <2>6. NoneOf(own2, InHand)
    BY <1>3, <2>3, Numbers DEF NoneOf
  <2>7. Owned(own2, pos)'
    BY <1>1, <1>6, <2>4, <2>5, <2>6, RestsOwned
  <2>8. QED BY <1>2, <1>15, <2>3, <2>7 DEF own2
<1>16. CASE ~(Fresh /\ c # 0)
  <2>1. Has(s)' <=> Has(s)
    <3>1. CASE Clearing
      BY <1>3, <1>4, <1>12, <1>13, <3>1 DEF Clearing
    <3>2. CASE ~Clearing /\ Fresh
      BY <1>12, <1>13, <1>16, <3>2
    <3>3. CASE ~Clearing /\ ~Fresh
      BY <1>2, <1>3, <1>4, <1>12, <1>13, <3>3 DEF Clearing, Fresh
    <3>4. QED BY <3>1, <3>2, <3>3
  <2>2. Has(s) => dir'[s].cluster = dir[s].cluster
    BY <1>3, <1>4, <1>9, <1>13 DEF Clearing
  <2> DEFINE own2 == Given(own, InHand, 0)
  <2>3. own2 \in Owners /\ \A d \in Cluster : own2[d] = IF own[d] = InHand THEN 0 ELSE own[d]
    BY GivenIs
  <2>4. Laid(V, own2, pos)
    BY <1>6, Numbers, LaidGiven
  <2> HIDE DEF own2
  <2>5. Rooted(own2, pos)'
    <3>1. ASSUME NEW t \in Slot, Has(t)'
          PROVE  own2[dir'[t].cluster] = t /\ pos[dir'[t].cluster] = 0
      <4>1. Has(t) /\ dir'[t].cluster = dir[t].cluster
        BY <1>7, <1>11, <2>1, <2>2, <3>1
      <4>2. own[dir[t].cluster] = t /\ pos[dir[t].cluster] = 0
        BY <4>1 DEF Owned, Rooted
      <4>3. QED BY <1>14, <2>3, <4>1, <4>2, Numbers
    <3>2. ASSUME NEW d \in Cluster, own2[d] \in Slot PROVE Has(own2[d])'
      <4>1. own2[d] = own[d] /\ Has(own[d])
        BY <2>3, <3>2, Numbers DEF Owned, Rooted
      <4>2. QED BY <1>11, <2>1, <3>2, <4>1
    <3>3. QED BY <3>1, <3>2 DEF Rooted
  <2>6. NoneOf(own2, InHand)
    BY <2>3, Numbers DEF NoneOf
  <2>7. Owned(own2, pos)'
    BY <1>1, <1>6, <2>4, <2>5, <2>6, RestsOwned
  <2>8. QED BY <1>2, <1>16, <2>3, <2>7 DEF own2
<1>17. QED BY <1>15, <1>16

----------------------------------------------------------------------------
(* What the calls do: first those of one sector.                           *)
LEMMA OneSectorOwned ==
  ASSUME TypeInv, Idle, NEW own \in Owners, NEW pos \in Places, Owned(own, pos),
         NEW s \in Slot, NEW e, OneSector(s, e),
         e.name \in Name, e.cluster = IF Live(s) THEN dir[s].cluster ELSE 0
  PROVE  Owned(own, pos)'
<1>1. op = NoOp /\ pend = <<>> /\ copy = 1 /\ op' = NoOp /\ pend' = <<>> /\ copy' = 1 /\ fat' = fat
  BY DEF OneSector, TypeInv, Busy, Owned, Writing
<1>2. PICK V : V = [d \in Cluster |-> Next(d)]
  OBVIOUS
<1>3. Laid(V, own, pos) /\ \A d \in Cluster : Next(d)' = V[d]
  BY <1>1, <1>2, WillNow, LaidKept DEF Owned, Next
<1>4. \A t \in Slot : dir'[t] = IF t = s THEN e ELSE dir[t]
  BY DEF OneSector, TypeInv, Kinds
<1>5. \A t \in Slot : /\ Has(t) <=> dir[t].name \in Name /\ dir[t].cluster # 0
                      /\ Has(t)' <=> dir'[t].name \in Name /\ dir'[t].cluster # 0
  BY <1>1, NoOpTypes, Numbers DEF Has, Live
<1>6. \A t \in Slot : (Has(t)' <=> Has(t)) /\ (Has(t) => dir'[t].cluster = dir[t].cluster)
  BY <1>4, <1>5 DEF Live
<1>7. Rooted(own, pos)'
  BY <1>6 DEF Owned, Rooted
<1>8. NoneOf(own, InHand)
  BY DEF Owned, Working
<1>9. QED BY <1>1, <1>3, <1>7, <1>8, RestsOwned

LEMMA CreateFileOwned ==
  ASSUME TypeInv, NEW own \in Owners, NEW pos \in Places, Owned(own, pos),
         NEW n \in Name, CreateFile(n)
  PROVE  Owned(own, pos)' \/ UNCHANGED diskVars
<1>1. CASE FindEntry(n) # 0 \/ FreeSlot = 0
  BY <1>1 DEF CreateFile, Fails
<1>2. CASE ~(FindEntry(n) # 0 \/ FreeSlot = 0)
  <2>1. PICK s, e : s = FreeSlot /\ e = Entry(n, 0, 0)
    OBVIOUS
  <2>2. OneSector(s, e) /\ Idle
    BY <1>2, <2>1 DEF CreateFile
  <2>3. s \in Slot /\ ~Live(s)
    BY <1>2, <2>1, FindsFree
  <2>4. e.name = n /\ e.cluster = 0
    BY <2>1 DEF Entry
  <2>5. QED BY <2>2, <2>3, <2>4, OneSectorOwned
<1>3. QED BY <1>1, <1>2

LEMMA RenameFileOwned ==
  ASSUME TypeInv, NEW own \in Owners, NEW pos \in Places, Owned(own, pos),
         NEW o \in Name, NEW n \in Name, RenameFile(o, n)
  PROVE  Owned(own, pos)' \/ UNCHANGED diskVars
<1>1. CASE FindEntry(n) # 0 \/ FindSlot(o) = 0
  BY <1>1 DEF RenameFile, Fails
<1>2. CASE ~(FindEntry(n) # 0 \/ FindSlot(o) = 0)
  <2>1. PICK s, e : s = FindSlot(o) /\ e = [dir[s] EXCEPT !.name = n]
    OBVIOUS
  <2>2. OneSector(s, e) /\ Idle
    BY <1>2, <2>1 DEF RenameFile
  <2>3. s \in Slot /\ Live(s)
    BY <1>2, <2>1, FindsSlot DEF Live
  <2>4. e.name = n /\ e.cluster = dir[s].cluster
    BY <2>1, <2>3 DEF TypeInv, Kinds
  <2>5. QED BY <2>2, <2>3, <2>4, OneSectorOwned
<1>3. QED BY <1>1, <1>2

(* Then those that begin an operation on the live entry s.                 *)
LEMMA AtRest ==
  ASSUME TypeInv, Idle, NEW own \in Owners, NEW pos \in Places, Owned(own, pos)
  PROVE  /\ pend = <<>> /\ copy = 1 /\ NoneOf(own, InHand)
         /\ \A c \in Cluster : Will[c] = Next(c)
         /\ \A s \in Slot : Has(s) <=> Live(s) /\ dir[s].cluster # 0
         /\ \A s \in Slot : Has(s) => own[dir[s].cluster] = s /\ pos[dir[s].cluster] = 0
         /\ \A c \in Cluster : own[c] \in Slot => Has(own[c])
<1>1. op = NoOp /\ pend = <<>> /\ copy = 1
  BY DEF TypeInv, Busy, Owned, Writing
<1>2. \A s \in Slot : Has(s) <=> Live(s) /\ dir[s].cluster # 0
  BY <1>1, NoOpTypes, Numbers DEF Has
<1>3. QED BY <1>1, <1>2, WillNow DEF Owned, Rooted, Working

(* Its chain is to be cleared.                                             *)
LEMMA ClearsOwned ==
  ASSUME TypeInv, Idle, NEW own \in Owners, NEW pos \in Places, Owned(own, pos),
         NEW s \in Slot, Live(s), NEW o, Begins(o, <<>>),
         o.pc = "free", o.slot = s, o.cl = dir[s].cluster, o.data = <<>>,
         o.kind = "delete" \/ (o.kind = "write" /\ o.start = 0)
  PROVE  \E own2 \in Owners, pos2 \in Places :
           Owned(own2, pos2)' /\ own2 = Given(own, s, InHand) /\ pos2 = pos
<1>1. /\ op' = o /\ pend' = <<>> /\ copy' = copy /\ fat' = fat /\ dir' = dir
  BY DEF Begins, store
<1>2. /\ pend = <<>> /\ copy = 1 /\ NoneOf(own, InHand)
      /\ \A t \in Slot : Has(t) <=> Live(t) /\ dir[t].cluster # 0
      /\ \A t \in Slot : Has(t) => own[dir[t].cluster] = t /\ pos[dir[t].cluster] = 0
      /\ \A c \in Cluster : own[c] \in Slot => Has(own[c])
  BY AtRest
<1>3. /\ Clearing' /\ ~Fresh' /\ ~Idle' /\ \A t \in Slot : Has(t)' <=> Has(t) /\ t # s
  BY <1>1, <1>2 DEF Clearing, Fresh, Idle, Has, Live
<1>4. Will' = Will
  BY <1>1, <1>2 DEF Will, Next
<1>5. s # 0 /\ s # InHand /\ InHand # 0 /\ 0 \notin Slot
  BY Numbers
<1> DEFINE own2 == Given(own, s, InHand)
<1>6. own2 \in Owners /\ \A d \in Cluster : own2[d] = IF own[d] = s THEN InHand ELSE own[d]
  BY GivenIs
<1>7. Laid(Will', own2, pos)
  BY <1>2, <1>4, <1>5, LaidGiven DEF Owned
<1> HIDE DEF own2
<1>8. \A t \in Slot : Has(t) => dir[t].cluster \in Cluster
  BY DEF TypeInv, Kinds, Has
<1>9. Rooted(own2, pos)'
  <2>1. ASSUME NEW t \in Slot, Has(t)'
        PROVE  own2[dir[t].cluster] = t /\ pos[dir[t].cluster] = 0
    BY <1>2, <1>3, <1>6, <1>8, <2>1
  <2>2. ASSUME NEW d \in Cluster, own2[d] \in Slot PROVE Has(own2[d])'
    <3>1. own2[d] = own[d] /\ own[d] # s
      BY <1>6, <2>2, Numbers
    <3>2. QED BY <1>2, <1>3, <2>2, <3>1
  <2>3. QED BY <1>1, <2>1, <2>2 DEF Rooted
<1>10. Working(own2, pos)'
  <2>1. ASSUME Valid(o.cl)
        PROVE  own2[o.cl] = InHand /\ \A d \in Cluster : own2[d] = InHand => pos[o.cl] <= pos[d]
    <3>1. o.cl \in Cluster /\ Has(s)
      BY <1>2, <2>1, Numbers DEF Valid
    <3>2. own[o.cl] = s /\ pos[o.cl] = 0
      BY <1>2, <3>1
    <3>3. QED BY <1>6, <3>1, <3>2 DEF Places
  <2>2. QED BY <1>1, <1>3, <2>1 DEF Working, Idle, Valid
<1>11. Writing(own2, pos)'
  BY <1>1, <1>2 DEF Writing
<1>12. Owned(own2, pos)'
  BY <1>7, <1>9, <1>10, <1>11 DEF Owned, Laid, Valid
<1>13. QED BY <1>6, <1>12 DEF own2

(* Its clusters are written, or there is none and none to be had.          *)
LEMMA RewritesOwned ==
  ASSUME TypeInv, Idle, NEW own \in Owners, NEW pos \in Places, Owned(own, pos),
         NEW s \in Slot, Live(s), NEW o, Begins(o, <<>>),
         o.slot = s, o.data # <<>>, o.kind = "write",
         \/ o.pc = "data" /\ o.cl = dir[s].cluster /\ o.start = dir[s].cluster /\ Valid(o.cl)
         \/ o.pc = "dirent" /\ o.start = 0 /\ dir[s].cluster = 0
  PROVE  Owned(own, pos)'
<1>1. /\ op' = o /\ pend' = <<>> /\ copy' = copy /\ fat' = fat /\ dir' = dir
  BY DEF Begins, store
<1>2. /\ pend = <<>> /\ copy = 1 /\ NoneOf(own, InHand)
      /\ \A t \in Slot : Has(t) <=> Live(t) /\ dir[t].cluster # 0
      /\ \A t \in Slot : Has(t) => own[dir[t].cluster] = t /\ pos[dir[t].cluster] = 0
      /\ \A c \in Cluster : own[c] \in Slot => Has(own[c])
  BY AtRest
<1>3. /\ ~Clearing' /\ ~Idle' /\ \A t \in Slot : Has(t)' <=> Has(t)
  BY <1>1, <1>2 DEF Clearing, Idle, Has, Live
<1>4. Will' = Will
  BY <1>1, <1>2 DEF Will, Next
<1>5. Fresh' <=> dir[s].cluster = 0
  BY <1>1 DEF Fresh
<1>6. Rooted(own, pos)'
  BY <1>1, <1>2, <1>3 DEF Rooted
<1>7. Working(own, pos)'
  <2>1. CASE dir[s].cluster = 0
    BY <1>1, <1>2, <1>3, <1>5, <2>1, Numbers DEF Working, NoneOf, Idle, Valid
  <2>2. CASE dir[s].cluster # 0
    <3>1. own[dir[s].cluster] = s /\ ~Fresh' /\ Holder' = s
      BY <1>1, <1>2, <1>5, <2>2 DEF Holder
    <3>2. QED BY <1>1, <1>2, <1>3, <2>2, <3>1 DEF Working, NoneOf, Idle, Valid
  <2>3. QED BY <2>1, <2>2
<1>8. Writing(own, pos)'
  BY <1>1, <1>2 DEF Writing
<1>9. QED BY <1>4, <1>6, <1>7, <1>8 DEF Owned, Laid

(* There is none and the first one is taken.                               *)
LEMMA StartsOwned ==
  ASSUME TypeInv, Idle, NEW own \in Owners, NEW pos \in Places, Owned(own, pos),
         NEW s \in Slot, Live(s), dir[s].cluster = 0,
         NEW x \in Cluster, Next(x) = FREE, NEW o, Begins(o, << <<x, EOC>> >>),
         o.slot = s, o.data # <<>>, o.kind = "write",
         o.pc = "data", o.cl = x, o.start = x
  PROVE  \E own2 \in Owners, pos2 \in Places :
           Owned(own2, pos2)' /\ own2 = [own EXCEPT ![x] = InHand] /\ pos2 = [pos EXCEPT ![x] = 0]
<1>1. /\ op' = o /\ pend' = << <<x, EOC>> >> /\ copy' = copy /\ fat' = fat /\ dir' = dir
  BY DEF Begins, store
<1>2. /\ pend = <<>> /\ copy = 1 /\ NoneOf(own, InHand)
      /\ \A c \in Cluster : Will[c] = Next(c)
      /\ \A t \in Slot : Has(t) <=> Live(t) /\ dir[t].cluster # 0
      /\ \A t \in Slot : Has(t) => own[dir[t].cluster] = t /\ pos[dir[t].cluster] = 0
      /\ \A c \in Cluster : own[c] \in Slot => Has(own[c])
  BY AtRest
<1>3. /\ ~Clearing' /\ ~Idle' /\ Fresh' /\ \A t \in Slot : Has(t)' <=> Has(t)
  BY <1>1, <1>2 DEF Clearing, Idle, Fresh, Has, Live
<1>4. own[x] = 0 /\ InHand # 0 /\ 0 \notin Cluster /\ 0 \notin Slot /\ InHand \notin Slot
  BY <1>2, FreeIsNobodys, Numbers
<1>5. Will'[x] = EOC /\ \A c \in Cluster \ {x} : Will'[c] = Will[c]
  BY <1>1, <1>2 DEF Will, Next
<1> DEFINE own2 == [own EXCEPT ![x] = InHand]
           pos2 == [pos EXCEPT ![x] = 0]
<1>6. own2 \in Owners /\ \A c \in Cluster : own2[c] = IF c = x THEN InHand ELSE own[c]
  BY DEF Owners
<1>7. pos2 \in Places /\ \A c \in Cluster : pos2[c] = IF c = x THEN 0 ELSE pos[c]
  BY DEF Places
<1>8. Laid(Will', own2, pos2)
  <2>1. Laid(Will, own, pos)
    BY DEF Owned
  <2>2. NoneOf(own, InHand) /\ InHand # 0 /\ own[x] = 0
    BY <1>2, <1>4
  <2> HIDE DEF own2, pos2
  <2>3. Laid(Will', [own EXCEPT ![x] = InHand], [pos EXCEPT ![x] = 0])
    BY <1>5, <2>1, <2>2, LaidFirst
  <2>4. QED BY <2>3 DEF own2, pos2
<1> HIDE DEF own2, pos2
<1>9. Rooted(own2, pos2)'
  <2>1. ASSUME NEW t \in Slot, Has(t)
        PROVE  own2[dir[t].cluster] = t /\ pos2[dir[t].cluster] = 0
    <3>1. dir[t].cluster \in Cluster
      BY <2>1 DEF TypeInv, Kinds, Has
    <3>2. QED BY <1>2, <1>4, <1>6, <1>7, <2>1, <3>1
  <2>2. \A d \in Cluster : own2[d] \in Slot => Has(own2[d])
    BY <1>2, <1>4, <1>6
  <2>3. QED BY <1>1, <1>3, <2>1, <2>2 DEF Rooted
<1>10. Working(own2, pos2)'
  <2>1. Holder' = InHand
    BY <1>3 DEF Holder
  <2>2. QED BY <1>1, <1>3, <1>4, <1>5, <1>6, <1>7, <2>1 DEF Working, Idle, Clearing
<1>11. Writing(own2, pos2)'
  <2>1. Taking'
    BY <1>1 DEF Taking, Next
  <2>2. QED BY <1>1, <1>2, <2>1 DEF Writing
<1>12. Owned(own2, pos2)'
  BY <1>8, <1>9, <1>10, <1>11 DEF Owned, Laid, Valid
<1>13. QED BY <1>6, <1>7, <1>12 DEF own2, pos2

LEMMA DeleteFileOwned ==
  ASSUME TypeInv, NEW own \in Owners, NEW pos \in Places, Owned(own, pos),
         NEW n \in Name, DeleteFile(n)
  PROVE  (\E own2 \in Owners, pos2 \in Places : Owned(own2, pos2)') \/ UNCHANGED diskVars
<1>1. CASE FindSlot(n) = 0
  BY <1>1 DEF DeleteFile, Fails
<1>2. CASE FindSlot(n) # 0
  <2>1. PICK s, o : s = FindSlot(n) /\ o = Op("free", "delete", n, <<>>, s, dir[s].cluster)
    OBVIOUS
  <2>2. Begins(o, <<>>) /\ Idle
    BY <1>2, <2>1 DEF DeleteFile
  <2>3. s \in Slot /\ Live(s)
    BY <1>2, <2>1, FindsSlot DEF Live
  <2>4. o.pc = "free" /\ o.slot = s /\ o.cl = dir[s].cluster /\ o.data = <<>> /\ o.kind = "delete"
    BY <2>1 DEF Op
  <2>5. QED BY <2>2, <2>3, <2>4, ClearsOwned
<1>3. QED BY <1>1, <1>2

LEMMA WriteFileOwned ==
  ASSUME TypeInv, NEW own \in Owners, NEW pos \in Places, Owned(own, pos),
         NEW n \in Name, NEW d \in Data, WriteFile(n, d)
  PROVE  (\E own2 \in Owners, pos2 \in Places : Owned(own2, pos2)') \/ UNCHANGED diskVars
<1>1. CASE FindSlot(n) = 0
  BY <1>1 DEF WriteFile, Fails
<1>2. CASE FindSlot(n) # 0
  <2>1. PICK s, c : s = FindSlot(n) /\ c = dir[s].cluster
    OBVIOUS
  <2>2. s \in Slot /\ Live(s) /\ Idle
    BY <1>2, <2>1, FindsSlot DEF Live, WriteFile
  <2>3. c \in Cluster \cup {0}
    BY <2>1, <2>2 DEF TypeInv, Kinds
  <2>4. CASE d = <<>>
    <3>1. PICK o : o = [Op("free", "write", n, d, s, c) EXCEPT !.start = 0]
      OBVIOUS
    <3>2. Begins(o, <<>>)
      BY <1>2, <2>1, <2>4, <3>1 DEF WriteFile
    <3>3. /\ o.pc = "free" /\ o.slot = s /\ o.cl = c /\ o.data = <<>> /\ o.kind = "write"
          /\ o.start = 0
      BY <2>4, <3>1 DEF Op
    <3>4. QED BY <2>1, <2>2, <3>2, <3>3, ClearsOwned
  <2>5. CASE d # <<>> /\ Valid(c)
    <3>1. PICK o : o = Op("data", "write", n, d, s, c)
      OBVIOUS
    <3>2. Begins(o, <<>>)
      BY <1>2, <2>1, <2>5, <3>1 DEF WriteFile
    <3>3. /\ o.pc = "data" /\ o.slot = s /\ o.cl = c /\ o.data = d /\ o.kind = "write"
          /\ o.start = c
      BY <3>1 DEF Op
    <3>4. QED BY <2>1, <2>2, <2>5, <3>2, <3>3, RewritesOwned
  <2>6. CASE d # <<>> /\ ~Valid(c) /\ FreeCluster = 0
    <3>1. PICK o : o = Op("dirent", "write", n, d, s, 0)
      OBVIOUS
    <3>2. Begins(o, <<>>)
      BY <1>2, <2>1, <2>6, <3>1 DEF WriteFile
    <3>3. /\ o.pc = "dirent" /\ o.slot = s /\ o.data = d /\ o.kind = "write" /\ o.start = 0
      BY <3>1 DEF Op
    <3>4. c = 0
      BY <2>3, <2>6 DEF Valid
    <3>5. QED BY <2>1, <2>2, <2>6, <3>2, <3>3, <3>4, RewritesOwned
  <2>7. CASE d # <<>> /\ ~Valid(c) /\ FreeCluster # 0
    <3>1. PICK x, o : x = FreeCluster /\ o = Op("data", "write", n, d, s, x)
      OBVIOUS
    <3>2. Begins(o, << <<x, EOC>> >>)
      BY <1>2, <2>1, <2>7, <3>1 DEF WriteFile
    <3>3. /\ o.pc = "data" /\ o.slot = s /\ o.cl = x /\ o.data = d /\ o.kind = "write"
          /\ o.start = x
      BY <3>1 DEF Op
    <3>4. c = 0
      BY <2>3, <2>7 DEF Valid
    <3>5. x \in Cluster /\ Next(x) = FREE
      BY <2>7, <3>1, FindsCluster
    <3>6. QED BY <2>1, <2>2, <2>7, <3>2, <3>3, <3>4, <3>5, StartsOwned
  <2>8. QED BY <2>4, <2>5, <2>6, <2>7
<1>3. QED BY <1>1, <1>2

LEMMA StutterOwned ==
  ASSUME NEW own, NEW pos, Owned(own, pos), UNCHANGED diskVars
  PROVE  Owned(own, pos)'
<1>1. dir' = dir /\ op' = op /\ pend' = pend /\ copy' = copy /\ fat' = fat
  BY DEF diskVars, store
<1>2. Will' = Will
  BY <1>1 DEF Will, Next
<1>3. Fresh' = Fresh /\ Holder' = Holder
  BY <1>1 DEF Fresh, Holder
<1>4. Writing(own, pos)'
  BY <1>1, <1>3 DEF Owned, Writing, Freeing, Cutting, Taking, Linked, Valid, Next
<1>5. QED BY <1>1, <1>2, <1>4, StaysRooted DEF Owned, Laid

LEMMA OwnStep == TypeInv /\ OwnInv /\ [Calls \/ Steps \/ PowerFails]_diskVars => OwnInv'
<1> SUFFICES ASSUME TypeInv, OwnInv, [Calls \/ Steps \/ PowerFails]_diskVars PROVE OwnInv'
  OBVIOUS
<1>1. CASE PowerFails
  <2>1. ASSUME ~hurt' PROVE ~hurt
    BY <1>1, <2>1 DEF PowerFails
  <2>2. QED BY <1>1, <2>1, PowerFailsOwned DEF OwnInv
<1>2. CASE Calls \/ Steps \/ UNCHANGED diskVars
  <2> SUFFICES ASSUME ~hurt' PROVE \E own2 \in Owners, pos2 \in Places : Owned(own2, pos2)'
    BY DEF OwnInv
  <2>1. hurt' = hurt
    <3>1. CASE Calls
      BY <3>1 DEF Calls, CreateFile, DeleteFile, RenameFile, WriteFile, OneSector, Begins,
                  Fails, diskVars, hist
    <3>2. CASE Steps
      BY <3>2 DEF Steps, WriteFat, WriteData, FreeNext, WriteDirent, hist
    <3>3. QED BY <1>2, <3>1, <3>2 DEF diskVars, hist
  <2>2. PICK own \in Owners, pos \in Places : Owned(own, pos)
    BY <2>1 DEF OwnInv
  <2>3. UNCHANGED diskVars => Owned(own, pos)'
    BY <2>2, StutterOwned
  <2>4. CASE Calls
    <3>1. PICK n \in Name :
            CreateFile(n) \/ DeleteFile(n) \/ (\E o \in Name : RenameFile(o, n))
              \/ \E d \in Data : WriteFile(n, d)
      BY <2>4 DEF Calls
    <3>2. CreateFile(n) => Owned(own, pos)' \/ UNCHANGED diskVars
      BY <2>2, CreateFileOwned
    <3>3. (\E o \in Name : RenameFile(o, n)) => Owned(own, pos)' \/ UNCHANGED diskVars
      BY <2>2, RenameFileOwned
    <3>4. DeleteFile(n) =>
            (\E own2 \in Owners, pos2 \in Places : Owned(own2, pos2)') \/ UNCHANGED diskVars
      BY <2>2, DeleteFileOwned
    <3>5. (\E d \in Data : WriteFile(n, d)) =>
            (\E own2 \in Owners, pos2 \in Places : Owned(own2, pos2)') \/ UNCHANGED diskVars
      BY <2>2, WriteFileOwned
    <3>6. QED BY <2>2, <2>3, <3>1, <3>2, <3>3, <3>4, <3>5
  <2>5. CASE Steps
    <3>1. WriteFat => Owned(own, pos)'
      BY <2>2, WriteFatOwned
    <3>2. WriteData => \E own2 \in Owners, pos2 \in Places : Owned(own2, pos2)'
      BY <2>2, WriteDataOwned
    <3>3. FreeNext => \E own2 \in Owners, pos2 \in Places : Owned(own2, pos2)'
      BY <2>2, FreeNextOwned
    <3>4. WriteDirent => \E own2 \in Owners, pos2 \in Places : Owned(own2, pos2)'
      BY <2>2, WriteDirentOwned
    <3>5. QED BY <2>2, <2>5, <3>1, <3>2, <3>3, <3>4 DEF Steps
  <2>6. QED BY <1>2, <2>2, <2>3, <2>4, <2>5
<1>3. QED BY <1>1, <1>2

LEMMA OwnHolds == Spec => []OwnInv
BY InitOwn, OwnStep, TypesHold, OnDisk, PTL DEF Spec

----------------------------------------------------------------------------
(* A walk as in followChain exists, up to every length (by induction: a    *)
(* smallest length without one would have a predecessor with one) ...      *)
StepsFrom(f, c, n) == f[1] = c /\ \A i \in 2..n : f[i] = After(f[i - 1])

LEMMA AfterTypes ==
  ASSUME TypeInv, NEW c \in Marks
  PROVE  After(c) \in Marks
BY NextTypes, Numbers DEF After, Valid

LEMMA WalkExists ==
  ASSUME TypeInv, NEW c \in Marks, NEW n \in Nat \ {0}
  PROVE  \E f \in [1..n -> Marks] : StepsFrom(f, c, n)
<1> DEFINE T == {m \in Nat \ {0} : ~\E f \in [1..m -> Marks] : StepsFrom(f, c, m)}
<1>1. T \subseteq Nat /\ \A m \in T : m \in Nat \ {0}
  OBVIOUS
<1>2. ASSUME NEW k \in T, \A m \in T : k <= m PROVE FALSE
  <2>1. CASE k = 1
    <3> DEFINE f == [i \in 1..1 |-> c]
    <3>1. f \in [1..1 -> Marks] /\ StepsFrom(f, c, 1)
      BY DEF StepsFrom
    <3> HIDE DEF f
    <3>2. QED BY <2>1, <3>1
  <2>2. CASE k # 1
    <3>1. k \in Nat \ {0} /\ k - 1 \in Nat \ {0} /\ ~(k <= k - 1)
      BY <1>1, <2>2
    <3>2. k - 1 \notin T
      BY <1>2, <3>1
    <3>3. PICK f \in [1..k - 1 -> Marks] : StepsFrom(f, c, k - 1)
      BY <3>1, <3>2
    <3> DEFINE g == [i \in 1..k |-> IF i = k THEN After(f[k - 1]) ELSE f[i]]
    <3>4. \A i \in 1..k : g[i] = IF i = k THEN After(f[k - 1]) ELSE f[i]
      OBVIOUS
    <3>5. f[k - 1] \in Marks
      BY <3>1
    <3>6. After(f[k - 1]) \in Marks
      BY <3>5, AfterTypes
    <3>7. g \in [1..k -> Marks]
      <4>1. \A i \in 1..k : i # k => f[i] \in Marks
        BY <3>1
      <4>2. QED BY <3>6, <4>1
    <3> HIDE DEF g
    <3>8. g[1] = c
      BY <3>1, <3>3, <3>4, <2>2 DEF StepsFrom
    <3>9. ASSUME NEW i \in 2..k PROVE g[i] = After(g[i - 1])
      <4>1. g[i - 1] = f[i - 1]
        BY <3>1, <3>4
      <4>2. CASE i = k
        BY <3>1, <3>4, <4>1, <4>2
      <4>3. CASE i # k
        <5>1. i \in 2..k - 1 /\ i \in 1..k
          BY <3>1, <4>3
        <5>2. QED BY <3>3, <3>4, <4>1, <4>3, <5>1 DEF StepsFrom
      <4>4. QED BY <4>2, <4>3
    <3>10. StepsFrom(g, c, k)
      BY <3>8, <3>9 DEF StepsFrom
    <3>11. QED BY <3>7, <3>10
  <2>3. QED BY <2>1, <2>2
<1>3. T = {}
  <2> HIDE DEF T
  <2>1. QED BY <1>1, <1>2, LeastNat
<1>4. QED BY <1>3

(* ... so Walk is one.                                                     *)
LEMMA WalkIs ==
  ASSUME TypeInv, NEW c \in Marks
  PROVE  StepsFrom(Walk(c), c, Most)
<1>1. Most \in Nat \ {0}
  BY FatAssumption DEF Most
<1>2. PICK f \in [1..Most -> Marks] : StepsFrom(f, c, Most)
  BY <1>1, WalkExists
<1>3. f = [i \in 1..Most |-> IF i = 1 THEN c ELSE After(f[i - 1])]
  <2>1. \A i \in 1..Most : f[i] = IF i = 1 THEN c ELSE After(f[i - 1])
    BY <1>1, <1>2 DEF StepsFrom
  <2>2. QED BY <2>1
<1> DEFINE w == Walk(c)
<1>4. w = [i \in 1..Most |-> IF i = 1 THEN c ELSE After(w[i - 1])]
  BY <1>3 DEF Walk
<1> HIDE DEF w
<1>5. w[1] = c
  BY <1>1, <1>4
<1>6. \A i \in 2..Most : w[i] = After(w[i - 1])
  BY <1>1, <1>4
<1>7. QED BY <1>5, <1>6 DEF StepsFrom, w

(* What Chain takes of it is the valid numbers before the first other one. *)
LEMMA ChainCut ==
  ASSUME TypeInv, NEW c \in Marks
  PROVE  \E n \in 0..Most :
           /\ Chain(c) = [i \in 1..n |-> Walk(c)[i]]
           /\ \A i \in 1..Most : Valid(Walk(c)[i]) <=> i <= n
<1>1. PICK w : w = Walk(c)
  OBVIOUS
<1>2. Most \in Nat \ {0} /\ StepsFrom(w, c, Most) /\ ~Valid(EOC)
  <2>1. Most \in Nat \ {0}
    BY FatAssumption DEF Most
  <2>2. StepsFrom(w, c, Most)
    BY <1>1, WalkIs
  <2>3. QED BY <2>1, <2>2, Numbers DEF Valid
<1> DEFINE D == {i \in 1..Most : Valid(w[i])}
<1>3. ASSUME NEW j \in 1..Most, j \notin D, NEW i \in D PROVE i < j
  <2> DEFINE T == {k \in D : k > j}
  <2>1. T \subseteq Nat
    BY <1>2
  <2>2. ASSUME NEW k \in T, \A m \in T : k <= m PROVE FALSE
    <3>1. k \in 2..Most /\ k - 1 \in 1..Most /\ k - 1 >= j /\ ~(k <= k - 1)
      BY <1>2, <2>2
    <3>2. k - 1 \notin D
      <4>1. CASE k - 1 = j
        BY <1>3, <4>1
      <4>2. CASE k - 1 # j
        <5>1. k - 1 \notin T /\ k - 1 > j
          BY <2>2, <3>1, <4>2
        <5>2. QED BY <5>1
      <4>3. QED BY <4>1, <4>2
    <3>3. w[k] = EOC
      BY <1>2, <3>1, <3>2 DEF StepsFrom, After
    <3>4. QED BY <1>2, <3>3
  <2>3. T = {}
    <3> HIDE DEF T
    <3>1. QED BY <2>1, <2>2, LeastNat
  <2>4. i # j /\ ~(i > j)
    BY <1>3, <2>3
  <2>5. QED BY <1>2, <2>4
<1>4. IsFiniteSet(D) /\ Cardinality(D) \in 0..Most
  <2>1. IsFiniteSet(1..Most) /\ Cardinality(1..Most) = Most
    BY <1>2, FS_Interval
  <2>2. D \subseteq 1..Most
    OBVIOUS
  <2> HIDE DEF D
  <2>3. IsFiniteSet(D) /\ Cardinality(D) <= Most
    BY <2>1, <2>2, FS_Subset
  <2>4. Cardinality(D) \in Nat
    BY <2>3, FS_CardinalityType
  <2>5. QED BY <1>2, <2>3, <2>4
<1> DEFINE n == Cardinality(D)
<1>5. ASSUME NEW j \in 1..Most, j <= n PROVE j \in D
  <2> SUFFICES ASSUME j \notin D PROVE FALSE
    OBVIOUS
  <2>1. D \subseteq 1..j - 1
    <3> SUFFICES ASSUME NEW i \in D PROVE i \in 1..j - 1
      OBVIOUS
    <3>1. i < j /\ i \in 1..Most
      BY <1>3
    <3>2. QED BY <3>1
  <2> HIDE DEF D
  <2>2. IsFiniteSet(1..j - 1) /\ Cardinality(1..j - 1) = j - 1
    BY <1>2, FS_Interval
  <2>3. Cardinality(D) <= j - 1
    BY <2>1, <2>2, FS_Subset
  <2>4. QED BY <1>4, <1>5, <2>3
<1>6. ASSUME NEW j \in D PROVE j <= n
  <2>1. 1..j \subseteq D
    <3> SUFFICES ASSUME NEW i \in 1..j, i \notin D PROVE FALSE
      OBVIOUS
    <3>1. i \in 1..Most /\ i <= j
      BY <1>2
    <3>2. QED BY <1>3, <3>1
  <2>2. j \in Nat /\ j >= 1
    OBVIOUS
  <2> HIDE DEF D
  <2>3. Cardinality(1..j) = j
    BY <2>2, FS_Interval
  <2>4. QED BY <1>4, <2>1, <2>3, FS_Subset
<1>7. Chain(c) = [i \in 1..n |-> w[i]]
  BY <1>1 DEF Chain
<1>8. \A i \in 1..Most : Valid(w[i]) <=> i <= n
  BY <1>5, <1>6
<1>9. QED BY <1>1, <1>4, <1>7, <1>8

(* The chain of s is all that is s's, in order.                            *)
IsChain(own, pos, s, ch) ==
  /\ ch \in Seq(Cluster)
  /\ \A i \in 1..Len(ch) : own[ch[i]] = s /\ pos[ch[i]] = i - 1
  /\ \A c \in Cluster : own[c] = s => pos[c] + 1 \in 1..Len(ch) /\ ch[pos[c] + 1] = c

(* What is pending is the operation's.                                     *)
LEMMA OthersWritten ==
  ASSUME TypeInv, NEW own \in Owners, NEW pos \in Places, Owned(own, pos), NEW c \in Cluster,
         Idle \/ own[c] # Holder
  PROVE  /\ own[c] # 0 => Will[c] = Next(c)
         /\ Will[c] # FREE => Will[c] = Next(c)
<1>1. CASE pend = <<>>
  BY <1>1, WillNow
<1>2. CASE pend # <<>>
  <2>1. ~Idle
    BY <1>2 DEF TypeInv, Busy
  <2>2. op.pc = "data" => own[op.cl] = Holder
    BY DEF Owned, Working
  <2>3. CASE Freeing(own)
    BY <2>3 DEF Freeing, Will
  <2>4. CASE Cutting(own, pos)
    BY <2>1, <2>4 DEF Cutting, Will
  <2>5. CASE Taking
    BY <2>1, <2>2, <2>5 DEF Taking, Will
  <2>6. CASE Linked(own, pos)
    BY <2>1, <2>2, <2>6 DEF Linked, Will
  <2>7. QED BY <1>2, <2>3, <2>4, <2>5, <2>6 DEF Owned, Writing
<1>3. QED BY <1>1, <1>2

LEMMA OwnChain ==
  ASSUME TypeInv, NEW own \in Owners, NEW pos \in Places, Owned(own, pos),
         NEW s \in Slot, Live(s), Idle \/ s # op.slot
  PROVE  IsChain(own, pos, s, Chain(dir[s].cluster))
<1>1. PICK c, w : c = dir[s].cluster /\ w = Walk(c)
  OBVIOUS
<1>2. c \in Cluster \cup {0} /\ c \in Marks
  BY <1>1, Numbers DEF TypeInv, Kinds
<1>3. Most \in Nat \ {0} /\ StepsFrom(w, c, Most) /\ ~Valid(EOC) /\ ~Valid(0)
  BY <1>1, <1>2, WalkIs, Numbers, FatAssumption DEF Most, Valid
<1>4. s # 0 /\ s # InHand /\ s \in Nat
  BY Numbers
<1>5. /\ Has(s) <=> dir[s].cluster # 0
      /\ Has(s) => own[dir[s].cluster] = s /\ pos[dir[s].cluster] = 0
      /\ \A d \in Cluster : own[d] = s => Has(s)
  <2>1. Has(s) <=> dir[s].cluster # 0
    BY AtRest DEF Has
  <2>2. QED BY <2>1 DEF Owned, Rooted
<1>6. \A d \in Cluster : own[d] = s => Will[d] = Next(d)
  BY <1>4, OthersWritten DEF Holder
<1>7. PICK n \in 0..Most :
        /\ Chain(c) = [i \in 1..n |-> w[i]]
        /\ \A i \in 1..Most : Valid(w[i]) <=> i <= n
  BY <1>1, <1>2, ChainCut
<1>8. \A d \in Cluster : pos[d] \in Nat
  BY DEF Places
<1> DEFINE T == {i \in 1..n : ~(own[w[i]] = s /\ pos[w[i]] = i - 1)}
<1>9. T \subseteq Nat
  BY <1>3
<1>10. ASSUME NEW k \in T, \A m \in T : k <= m PROVE FALSE
  <2>0. n \in Nat /\ n <= Most /\ k \in 1..n /\ k \in 1..Most /\ Valid(w[k])
    BY <1>3, <1>7, <1>10
  <2>1. CASE k = 1
    <3>1. w[k] = c /\ c # 0
      BY <1>3, <2>0, <2>1 DEF StepsFrom
    <3>2. QED BY <1>1, <1>5, <1>10, <2>1, <3>1
  <2>2. CASE k # 1
    <3>1. k \in 2..Most /\ k - 1 \in 1..Most /\ k - 1 \in 1..n /\ ~(k <= k - 1)
      BY <1>3, <2>0, <2>2
    <3>2. w[k] = After(w[k - 1]) /\ Valid(w[k - 1])
      BY <1>3, <1>7, <3>1 DEF StepsFrom
    <3>3. w[k] = Next(w[k - 1]) /\ w[k - 1] \in Cluster
      BY <3>2 DEF After, Valid
    <3>4. own[w[k - 1]] = s /\ pos[w[k - 1]] = k - 1 - 1
      <4>1. k - 1 \notin T
        BY <1>10, <3>1
      <4>2. QED BY <3>1, <4>1
    <3>5. Will[w[k - 1]] = w[k]
      BY <1>6, <3>3, <3>4
    <3>6. own[w[k]] = s /\ pos[w[k]] = k - 1 - 1 + 1
      BY <1>4, <2>0, <3>3, <3>4, <3>5 DEF Owned, Laid
    <3>7. pos[w[k]] = k - 1
      BY <3>1, <3>6
    <3>8. QED BY <1>10, <3>6, <3>7
  <2>3. QED BY <2>1, <2>2
<1>11. T = {}
  <2> HIDE DEF T
  <2>1. QED BY <1>9, <1>10, LeastNat
<1>12. n \in Nat /\ n <= Most /\ \A i \in 1..n : w[i] \in Cluster /\ own[w[i]] = s /\ pos[w[i]] = i - 1
  BY <1>3, <1>7, <1>11 DEF Valid
<1>13. n # Most
  <2> SUFFICES ASSUME n = Most PROVE FALSE
    OBVIOUS
  <2> DEFINE f == [i \in 1..Most |-> w[i]]
  <2>1. f \in [1..Most -> Cluster]
    BY <1>12
  <2>2. /\ IsFiniteSet(1..Most) /\ Cardinality(1..Most) = Most
        /\ IsFiniteSet(Cluster) /\ Cardinality(Cluster) < Cardinality(1..Most)
    <3>1. IsFiniteSet(1..Most) /\ Cardinality(1..Most) = Most
      BY <1>3, FS_Interval
    <3>2. IsFiniteSet(Cluster) /\ Cardinality(Cluster) = IF 3 > LastCluster THEN 0 ELSE LastCluster - 3 + 1
      BY FatAssumption, FS_Interval DEF Cluster
    <3>3. QED BY <3>1, <3>2, FatAssumption DEF Most
  <2> HIDE DEF f
  <2>3. PICK i, j \in 1..Most : i # j /\ f[i] = f[j]
    BY <2>1, <2>2, FS_PigeonHole
  <2>4. pos[w[i]] = i - 1 /\ pos[w[j]] = j - 1 /\ w[i] = w[j]
    BY <1>12, <2>3 DEF f
  <2>5. QED BY <1>3, <2>3, <2>4
<1>14. ASSUME NEW d \in Cluster, own[d] = s PROVE pos[d] + 1 \in 1..n /\ w[pos[d] + 1] = d
  <2>1. n >= 1
    <3>1. Valid(w[1])
      <4>1. w[1] = c /\ c \in Cluster
        BY <1>1, <1>2, <1>3, <1>5, <1>14 DEF StepsFrom
      <4>2. QED BY <4>1 DEF Valid
    <3>2. 1 \in 1..Most
      BY <1>3
    <3>3. QED BY <1>7, <3>1, <3>2
  <2>2. /\ n \in 1..n /\ n + 1 \in 2..Most /\ n + 1 \in 1..Most /\ ~(n + 1 <= n)
        /\ n + 1 - 1 = n
    BY <1>3, <1>12, <1>13, <2>1
  <2>3. w[n + 1] = After(w[n]) /\ ~Valid(w[n + 1])
    BY <1>3, <1>7, <2>2 DEF StepsFrom
  <2>4. w[n] \in Cluster /\ own[w[n]] = s /\ pos[w[n]] = n - 1
    BY <1>12, <2>2
  <2>5. ~Valid(Will[w[n]])
    BY <1>6, <2>3, <2>4 DEF After, Valid
  <2>6. pos[d] <= n - 1
    BY <1>4, <1>14, <2>4, <2>5 DEF Owned, Laid
  <2>7. PICK i : i = pos[d] + 1
    OBVIOUS
  <2>8. i \in 1..n /\ i - 1 = pos[d]
    BY <1>8, <1>12, <2>6, <2>7
  <2>9. w[i] \in Cluster /\ own[w[i]] = s /\ pos[w[i]] = pos[d]
    BY <1>12, <2>8
  <2>10. w[i] = d
    BY <1>4, <1>14, <2>9 DEF Owned, Laid
  <2>11. QED BY <2>7, <2>8, <2>10
<1>15. PICK ch : ch = Chain(c)
  OBVIOUS
<1>16. ch = [i \in 1..n |-> w[i]]
  BY <1>7, <1>15
<1>17. ch \in Seq(Cluster) /\ Len(ch) = n /\ \A i \in 1..n : ch[i] = w[i]
  <2>1. ch \in [1..n -> Cluster]
    BY <1>12, <1>16
  <2>2. QED BY <1>12, <1>16, <2>1
<1>18. IsChain(own, pos, s, ch)
  BY <1>12, <1>14, <1>17 DEF IsChain
<1>19. QED BY <1>1, <1>15, <1>18

(* At rest the chain of an entry is made of clusters that are its own.     *)
LEMMA ChainsOwn ==
  ASSUME TypeInv, Idle, NEW own \in Owners, NEW pos \in Places, Owned(own, pos),
         NEW s \in Slot, Live(s), NEW x \in ChainOf(s)
  PROVE  x \in Cluster /\ own[x] = s
<1>1. PICK ch : ch = Chain(dir[s].cluster)
  OBVIOUS
<1>2. IsChain(own, pos, s, ch)
  BY <1>1, OwnChain
<1>3. PICK i \in 1..Len(ch) : x = ch[i]
  BY <1>1 DEF ChainOf
<1>4. ch[i] \in Cluster
  BY <1>2, <1>3 DEF IsChain
<1>5. QED BY <1>2, <1>3, <1>4 DEF IsChain

(* Between operations no two files share a cluster and no file runs into a *)
(* free one, whatever createFile, writeFile, deleteFile and renameFile did *)
(* and wherever the power failed, bar the two bad moments (hurt).          *)
THEOREM ChainsStayApart == Spec => []ChainsApart
<1>1. TypeInv /\ OwnInv => ChainsApart
  <2> SUFFICES ASSUME TypeInv, OwnInv, Idle, ~hurt, NEW s \in Slot, NEW t \in Slot, Live(s), Live(t)
               PROVE  /\ s # t => ChainOf(s) \cap ChainOf(t) = {}
                      /\ \A c \in ChainOf(s) : Next(c) # FREE
    BY DEF ChainsApart
  <2>1. PICK own \in Owners, pos \in Places : Owned(own, pos)
    BY DEF OwnInv
  <2>2. \A c \in ChainOf(s) : c \in Cluster /\ own[c] = s
    BY <2>1, ChainsOwn
  <2>3. \A c \in ChainOf(t) : c \in Cluster /\ own[c] = t
    BY <2>1, ChainsOwn
  <2>4. ASSUME NEW c \in ChainOf(s) PROVE Next(c) # FREE
    <3>1. c \in Cluster /\ own[c] # 0
      BY <2>2, Numbers
    <3>2. Will[c] = Next(c)
      BY <2>1, <3>1, AtRest
    <3>3. QED BY <2>1, <3>1, <3>2 DEF Owned, Laid
  <2>5. QED BY <2>2, <2>3, <2>4
<1>2. QED BY <1>1, TypesHold, OwnHolds, PTL

(* No chain is circular: between operations followChain, from any entry,   *)
(* is through in no more steps than there are clusters, whatever was       *)
(* written and deleted and wherever the power failed, bar the two bad      *)
(* moments.                                                                *)
THEOREM ChainsAllEnd == Spec => []ChainsEnd
<1>1. TypeInv /\ OwnInv => ChainsEnd
  <2> SUFFICES ASSUME TypeInv, OwnInv, Idle, ~hurt, NEW s \in Slot, Live(s)
               PROVE  Len(Chain(dir[s].cluster)) <= Cardinality(Cluster)
    BY DEF ChainsEnd
  <2>1. PICK own \in Owners, pos \in Places : Owned(own, pos)
    BY DEF OwnInv
  <2>2. PICK ch : ch = Chain(dir[s].cluster)
    OBVIOUS
  <2>3. IsChain(own, pos, s, ch)
    BY <2>1, <2>2, OwnChain
  <2>4. PICK n \in Nat : n = Len(ch)
    BY <2>3 DEF IsChain
  <2>5. ch \in [1..n -> Cluster] /\ \A i \in 1..n : pos[ch[i]] = i - 1
    BY <2>3, <2>4 DEF IsChain
  <2>6. \A i, j \in 1..n : ch[i] = ch[j] => i = j
    BY <2>5
  <2>7. IsFiniteSet(1..n) /\ Cardinality(1..n) = n
    BY FS_Interval
  <2>8. IsFiniteSet(Cluster) /\ Cardinality(Cluster) \in Nat
    <3>1. IsFiniteSet(Cluster)
      BY FatAssumption, FS_Interval DEF Cluster
    <3>2. QED BY <3>1, FS_CardinalityType
  <2>9. ~(Cardinality(Cluster) < n)
    <3> SUFFICES ASSUME Cardinality(Cluster) < n PROVE FALSE
      OBVIOUS
    <3>1. \E i, j \in 1..n : i # j /\ ch[i] = ch[j]
      BY <2>5, <2>7, <2>8, FS_PigeonHole
    <3>2. QED BY <2>6, <3>1
  <2>10. QED BY <2>2, <2>4, <2>8, <2>9
<1>2. QED BY <1>1, TypesHold, OwnHolds, PTL
----------------------------------------------------------------------------
(* The refinement of Files.  When no operation runs seen is Now; while one *)
(* runs on a file, the others are as they were.                            *)
File == [data : Seq(Chunk \cup {ZERO}), held : Nat]
SeenInv ==
  /\ seen.files \in [Name -> File \cup {NoFile}]
  /\ Idle => seen = Now
  /\ ~Idle => /\ op.name \in Name /\ dir[op.slot].name = op.name
              /\ seen.files[op.name] \in File
              /\ Len(seen.files[op.name].data) = dir[op.slot].size
              /\ op.kind = "write" => op.data \in Data
OthersInv ==
  ~Idle /\ ~hurt => \A m \in Name \ {op.name} : FilesNow[m] = seen.files[m]

(* The accounts: the clusters that are lost; nothing left in hand at the   *)
(* end; what is stored of the data.                                        *)
Lost(own) == {c \in Cluster : own[c] = 0 /\ Will[c] # FREE}
Through   == op.pc = "dirent" \/ (op.pc = "free" /\ ~Valid(op.cl))
Done      == Len(op.data) - Len(op.rest)
Stored(own, pos) ==
  op.kind = "write" =>
    /\ Len(op.rest) <= Len(op.data)
    /\ \A i \in 1..Len(op.rest) : op.rest[i] = op.data[Done + i]
    /\ \A c \in Cluster : own[c] = Holder /\ pos[c] < Done => disk[c] = op.data[pos[c] + 1]
    /\ op.pc = "data" => pos[op.cl] = Done
    /\ op.pc \in {"free", "dirent"} =>
         /\ \A c \in Cluster : own[c] = Holder => pos[c] < Done
         /\ Done > 0 => \E c \in Cluster : own[c] = Holder /\ pos[c] = Done - 1
    /\ op.pc = "free" => op.rest = <<>>
    /\ op.pc = "dirent" /\ op.rest # <<>> => \A c \in Cluster : Will[c] # FREE
Books(own, pos) ==
  /\ Cardinality(Lost(own)) = seen.lost
  /\ Through /\ ~Fresh => NoneOf(own, InHand)
  /\ Stored(own, pos)
BookInv == ~hurt => \E own \in Owners, pos \in Places : Owned(own, pos) /\ Books(own, pos)

----------------------------------------------------------------------------
(* Counting.                                                               *)
LEMMA SameSize ==
  ASSUME NEW S, NEW T, NEW f \in [S -> T], IsFiniteSet(S),
         \A a, b \in S : f[a] = f[b] => a = b,
         \A t \in T : \E a \in S : f[a] = t
  PROVE  IsFiniteSet(T) /\ Cardinality(T) = Cardinality(S)
<1>1. f \in Bijection(S, T)
  BY DEF Bijection, Injection, Surjection, IsInjective
<1>2. ExistsBijection(S, T)
  BY <1>1 DEF ExistsBijection
<1>3. QED BY <1>2, FS_Bijection

LEMMA Clusters ==
  /\ IsFiniteSet(Cluster) /\ Cardinality(Cluster) \in Nat
  /\ \A S \in SUBSET Cluster : /\ IsFiniteSet(S) /\ Cardinality(S) \in Nat
                               /\ Cardinality(S) <= Cardinality(Cluster)
<1>1. IsFiniteSet(Cluster)
  BY FatAssumption, FS_Interval DEF Cluster
<1>2. ASSUME NEW S \in SUBSET Cluster
      PROVE  IsFiniteSet(S) /\ Cardinality(S) \in Nat /\ Cardinality(S) <= Cardinality(Cluster)
  BY <1>1, FS_Subset, FS_CardinalityType
<1>3. QED BY <1>1, <1>2, FS_CardinalityType

LEMMA ChainSize ==
  ASSUME NEW own, NEW pos, NEW s, NEW ch, IsChain(own, pos, s, ch)
  PROVE  /\ Cardinality({c \in Cluster : own[c] = s}) = Len(ch)
         /\ Len(ch) \in Nat /\ Len(ch) <= Cardinality(Cluster)
<1> DEFINE S == {c \in Cluster : own[c] = s}
           f == [i \in 1..Len(ch) |-> ch[i]]
<1>1. ch \in Seq(Cluster) /\ Len(ch) \in Nat
  BY DEF IsChain
<1>2. f \in [1..Len(ch) -> S]
  BY <1>1 DEF IsChain
<1>3. ASSUME NEW i \in 1..Len(ch), NEW j \in 1..Len(ch), f[i] = f[j] PROVE i = j
  <2>1. pos[ch[i]] = i - 1 /\ pos[ch[j]] = j - 1 /\ ch[i] = ch[j]
    BY <1>3 DEF IsChain
  <2>2. QED BY <1>1, <2>1
<1>4. ASSUME NEW c \in S PROVE \E i \in 1..Len(ch) : f[i] = c
  BY DEF IsChain
<1>5. IsFiniteSet(1..Len(ch)) /\ Cardinality(1..Len(ch)) = Len(ch)
  BY <1>1, FS_Interval
<1>6. S \in SUBSET Cluster
  OBVIOUS
<1>7. Cardinality(S) = Len(ch)
  <2> HIDE DEF S, f
  <2>1. QED BY <1>2, <1>3, <1>4, <1>5, SameSize
<1>8. QED BY <1>1, <1>6, <1>7, Clusters

(* Two maps that agree on s have the same chain for it.                    *)
Agree(own, pos, own2, pos2, s) ==
  \A c \in Cluster : (own2[c] = s <=> own[c] = s) /\ (own[c] = s => pos2[c] = pos[c])
LEMMA SameChain ==
  ASSUME NEW own, NEW pos, NEW s, NEW ch, IsChain(own, pos, s, ch),
         NEW own2, NEW pos2, NEW ch2, IsChain(own2, pos2, s, ch2),
         Agree(own, pos, own2, pos2, s)
  PROVE  ch2 = ch
<1>1. /\ ch \in Seq(Cluster) /\ Len(ch) \in Nat
      /\ ch2 \in Seq(Cluster) /\ Len(ch2) \in Nat
  BY DEF IsChain
<1>2. ASSUME NEW i \in 1..Len(ch) PROVE i \in 1..Len(ch2) /\ ch2[i] = ch[i]
  <2>1. ch[i] \in Cluster /\ own[ch[i]] = s /\ pos[ch[i]] = i - 1
    BY <1>1 DEF IsChain
  <2>2. own2[ch[i]] = s /\ pos2[ch[i]] + 1 = i
    BY <1>1, <2>1 DEF Agree
  <2>3. QED BY <2>1, <2>2 DEF IsChain
<1>3. ASSUME NEW i \in 1..Len(ch2) PROVE i \in 1..Len(ch)
  <2>1. ch2[i] \in Cluster /\ own2[ch2[i]] = s /\ pos2[ch2[i]] = i - 1
    BY <1>1 DEF IsChain
  <2>2. own[ch2[i]] = s /\ pos[ch2[i]] + 1 = i
    BY <1>1, <2>1 DEF Agree
  <2>3. QED BY <2>1, <2>2 DEF IsChain
<1>4. Len(ch) = Len(ch2)
  BY <1>1, <1>2, <1>3
<1>5. QED BY <1>1, <1>2, <1>4

----------------------------------------------------------------------------
(* What a state holds, in terms of any owners and places for it.           *)
LEMMA ChainTypes ==
  ASSUME TypeInv, NEW c \in Marks
  PROVE  Chain(c) \in Seq(Cluster) /\ Len(Chain(c)) \in Nat
<1>1. PICK n \in 0..Most : /\ Chain(c) = [i \in 1..n |-> Walk(c)[i]]
                           /\ \A i \in 1..Most : Valid(Walk(c)[i]) <=> i <= n
  BY ChainCut
<1>2. PICK ch, w : ch = Chain(c) /\ w = Walk(c)
  OBVIOUS
<1>3. n \in Nat /\ Most \in Nat /\ n <= Most
  BY <1>1, FatAssumption DEF Most
<1>4. \A i \in 1..n : w[i] \in Cluster
  BY <1>1, <1>2, <1>3 DEF Valid
<1>5. ch \in [1..n -> Cluster]
  BY <1>1, <1>2, <1>4
<1>6. QED BY <1>2, <1>3, <1>5

LEMMA FilesTyped ==
  ASSUME TypeInv, NEW n \in Name
  PROVE  /\ FindEntry(n) = 0 => FilesNow[n] = NoFile
         /\ FindEntry(n) # 0 =>
              /\ FilesNow[n] \in File /\ FilesNow[n] # NoFile
              /\ FilesNow[n] = [data |-> Read(FindEntry(n)),
                                held |-> Len(Chain(dir[FindEntry(n)].cluster))]
              /\ Len(FilesNow[n].data) = dir[FindEntry(n)].size
<1>1. FindEntry(n) = 0 => FilesNow[n] = NoFile
  BY DEF FilesNow
<1>2. ASSUME FindEntry(n) # 0
      PROVE  /\ FilesNow[n] \in File /\ FilesNow[n] # NoFile
             /\ FilesNow[n] = [data |-> Read(FindEntry(n)),
                               held |-> Len(Chain(dir[FindEntry(n)].cluster))]
             /\ Len(FilesNow[n].data) = dir[FindEntry(n)].size
  <2>1. PICK s, ch : s = FindEntry(n) /\ ch = Chain(dir[s].cluster)
    OBVIOUS
  <2>2. s \in Slot
    BY <1>2, <2>1, FindsEntry
  <2>3. dir[s].cluster \in Marks /\ dir[s].size \in Sizes
    BY <2>2, Numbers DEF TypeInv, Kinds
  <2>4. dir[s].size \in Nat
    BY <2>3, FatAssumption DEF Sizes
  <2>5. ch \in Seq(Cluster) /\ Len(ch) \in Nat
    BY <2>1, <2>3, ChainTypes
  <2>6. Read(s) = [i \in 1..dir[s].size |-> IF i <= Len(ch) THEN disk[ch[i]] ELSE ZERO]
    BY <2>1 DEF Read
  <2>7. \A c \in Cluster : disk[c] \in Chunk \cup {ZERO}
    BY DEF TypeInv, Kinds
  <2>8. ASSUME NEW i \in 1..dir[s].size
        PROVE  (IF i <= Len(ch) THEN disk[ch[i]] ELSE ZERO) \in Chunk \cup {ZERO}
    <3>1. i <= Len(ch) => ch[i] \in Cluster
      BY <2>4, <2>5
    <3>2. QED BY <2>7, <3>1
  <2>9. Read(s) \in Seq(Chunk \cup {ZERO}) /\ Len(Read(s)) = dir[s].size
    BY <2>4, <2>6, <2>8
  <2>10. FilesNow[n] = [data |-> Read(s), held |-> Len(ch)]
    BY <1>2, <2>1 DEF FilesNow
  <2>11. FilesNow[n] \in File
    BY <2>5, <2>9, <2>10 DEF File
  <2>12. QED BY <2>1, <2>9, <2>10, <2>11, FatAssumption DEF File
<1>3. QED BY <1>1, <1>2

LEMMA NowTyped ==
  ASSUME TypeInv
  PROVE  FilesNow \in [Name -> File \cup {NoFile}]
<1>1. \A n \in Name : FilesNow[n] \in File \cup {NoFile}
  BY FilesTyped
<1>2. DOMAIN FilesNow = Name /\ FilesNow = [n \in Name |-> FilesNow[n]]
  BY DEF FilesNow
<1>3. QED BY <1>1, <1>2

LEMMA LostIs ==
  ASSUME TypeInv, Idle, NEW own \in Owners, NEW pos \in Places, Owned(own, pos)
  PROVE  LostNow = Cardinality(Lost(own))
<1>1. \A c \in Cluster : Will[c] = Next(c)
  BY AtRest
<1>2. ASSUME NEW s \in Slot, Live(s) PROVE ChainOf(s) = {c \in Cluster : own[c] = s}
  <2>1. PICK ch : ch = Chain(dir[s].cluster)
    OBVIOUS
  <2>2. IsChain(own, pos, s, ch)
    BY <1>2, <2>1, OwnChain
  <2>3. ChainOf(s) = {ch[i] : i \in 1..Len(ch)}
    BY <2>1 DEF ChainOf
  <2>4. QED BY <2>2, <2>3 DEF IsChain
<1>3. ASSUME NEW c \in Cluster
      PROVE  own[c] = 0 <=> c \notin UNION {ChainOf(s) : s \in {t \in Slot : Live(t)}}
  <2>1. own[c] # 0 => own[c] \in Slot /\ Live(own[c])
    <3>1. own[c] \in Slot \cup {0, InHand} /\ own[c] # InHand
      BY AtRest DEF Owners, NoneOf
    <3>2. own[c] \in Slot => Has(own[c])
      BY AtRest
    <3>3. QED BY <3>1, <3>2 DEF Has
  <2>2. ASSUME own[c] # 0
        PROVE  c \in UNION {ChainOf(s) : s \in {t \in Slot : Live(t)}}
    <3>1. PICK s \in Slot : s = own[c] /\ Live(s)
      BY <2>1, <2>2
    <3>2. c \in ChainOf(s)
      BY <1>2, <3>1
    <3>3. QED BY <3>1, <3>2
  <2>3. ASSUME NEW s \in Slot, Live(s), c \in ChainOf(s) PROVE own[c] # 0
    BY <1>2, <2>3, Numbers
  <2>4. QED BY <2>2, <2>3
<1>4. {c \in Cluster : Next(c) # FREE} \ UNION {ChainOf(s) : s \in {t \in Slot : Live(t)}} = Lost(own)
  BY <1>1, <1>3 DEF Lost
<1>5. QED BY <1>4 DEF LostNow

LEMMA Together ==
  ASSUME NEW S, NEW T, S \subseteq Cluster, T \subseteq Cluster, S \cap T = {}
  PROVE  Cardinality(S \cup T) = Cardinality(S) + Cardinality(T)
<1>1. IsFiniteSet(S) /\ IsFiniteSet(T) /\ Cardinality(S) \in Nat /\ Cardinality(T) \in Nat
  BY Clusters
<1>2. Cardinality(S \cap T) = 0
  BY FS_EmptySet
<1>3. Cardinality(S \cup T) = Cardinality(S) + Cardinality(T) - Cardinality(S \cap T)
  BY <1>1, FS_Union
<1>4. QED BY <1>1, <1>2, <1>3

(* What the others hold, as file and place, is what they own.              *)
OthersNow(n) ==
  {x \in (Name \ {n}) \X (1..Cardinality(Cluster)) :
     x[2] <= (IF FilesNow[x[1]] = NoFile THEN 0 ELSE FilesNow[x[1]].held)}
LEMMA OthersCount ==
  ASSUME TypeInv, Names, Idle, NEW own \in Owners, NEW pos \in Places, Owned(own, pos),
         NEW s \in Slot, Live(s)
  PROVE  Cardinality(OthersNow(dir[s].name)) = Cardinality({c \in Cluster : own[c] \in Slot \ {s}})
<1> DEFINE S == {c \in Cluster : own[c] \in Slot \ {s}}
           T == OthersNow(dir[s].name)
           f == [c \in S |-> <<dir[own[c]].name, pos[c] + 1>>]
<1>1. \A c \in S : own[c] \in Slot /\ own[c] # s /\ Live(own[c])
  BY AtRest DEF Has
<1>2. ASSUME NEW t \in Slot, Live(t)
      PROVE  /\ dir[t].name \in Name /\ FindEntry(dir[t].name) = t
             /\ FilesNow[dir[t].name] # NoFile
             /\ FilesNow[dir[t].name].held = Len(Chain(dir[t].cluster))
             /\ IsChain(own, pos, t, Chain(dir[t].cluster))
  <2>1. PICK m : m = dir[t].name
    OBVIOUS
  <2>2. m \in Name
    BY <1>2, <2>1 DEF Live
  <2>3. FindEntry(m) # 0 /\ FindEntry(m) \in Slot /\ dir[FindEntry(m)].name = m
    BY <2>1, FindsEntry
  <2>4. FindEntry(m) = t
    BY <1>2, <2>1, <2>3 DEF Names, Once
  <2>5. FilesNow[m] # NoFile /\ FilesNow[m].held = Len(Chain(dir[t].cluster))
    <3>1. /\ FilesNow[m] # NoFile
          /\ FilesNow[m] = [data |-> Read(FindEntry(m)),
                            held |-> Len(Chain(dir[FindEntry(m)].cluster))]
      BY <2>2, <2>3, FilesTyped
    <3>2. FilesNow[m].held = Len(Chain(dir[FindEntry(m)].cluster))
      BY <3>1
    <3>3. QED BY <2>4, <3>1, <3>2
  <2>6. QED BY <1>2, <2>1, <2>2, <2>4, <2>5, OwnChain
<1>3. ASSUME NEW c \in S PROVE f[c] \in T
  <2>1. PICK t \in Slot : t = own[c] /\ t # s /\ Live(t)
    BY <1>1
  <2>2. PICK ch, m : ch = Chain(dir[t].cluster) /\ m = dir[t].name
    OBVIOUS
  <2>3. IsChain(own, pos, t, ch) /\ m \in Name /\ FilesNow[m] # NoFile /\ FilesNow[m].held = Len(ch)
    BY <1>2, <2>1, <2>2
  <2>4. m # dir[s].name
    BY <2>1, <2>2 DEF Names, Once
  <2>5. pos[c] + 1 \in 1..Len(ch)
    BY <2>1, <2>3 DEF IsChain
  <2>6. Len(ch) \in Nat /\ Len(ch) <= Cardinality(Cluster) /\ Cardinality(Cluster) \in Nat
    BY <2>3, ChainSize, Clusters
  <2>7. PICK i : i = pos[c] + 1
    OBVIOUS
  <2>8. i \in 1..Cardinality(Cluster) /\ i <= Len(ch)
    BY <2>5, <2>6, <2>7
  <2>9. f[c] = <<m, i>>
    BY <2>1, <2>2, <2>7
  <2> HIDE DEF f
  <2>10. QED BY <2>3, <2>4, <2>8, <2>9 DEF OthersNow
<1>4. ASSUME NEW c \in S, NEW d \in S, f[c] = f[d] PROVE c = d
  <2>1. dir[own[c]].name = dir[own[d]].name /\ pos[c] + 1 = pos[d] + 1
    BY <1>4
  <2>2. own[c] = own[d]
    BY <1>1, <2>1 DEF Names, Once
  <2>3. pos[c] \in Nat /\ pos[d] \in Nat
    BY DEF Places
  <2>4. own[c] # 0 /\ pos[c] = pos[d]
    BY <1>1, <2>1, <2>3, Numbers
  <2>5. QED BY <2>2, <2>4 DEF Owned, Laid
<1>5. ASSUME NEW x \in T PROVE \E c \in S : f[c] = x
  <2>1. PICK m \in Name, i \in 1..Cardinality(Cluster) : x = <<m, i>> /\ m # dir[s].name
    BY DEF OthersNow
  <2>2. i <= (IF FilesNow[m] = NoFile THEN 0 ELSE FilesNow[m].held)
    BY <2>1 DEF OthersNow
  <2>3. i \in Nat /\ i >= 1
    BY <2>1, Clusters
  <2>4. FilesNow[m] # NoFile /\ i <= FilesNow[m].held
    BY <2>2, <2>3
  <2>5. PICK t : t = FindEntry(m)
    OBVIOUS
  <2>6. t \in Slot /\ dir[t].name = m
    BY <2>1, <2>4, <2>5, FilesTyped, FindsEntry
  <2>7. Live(t) /\ t # s
    BY <2>1, <2>6 DEF Live
  <2>8. PICK ch : ch = Chain(dir[t].cluster)
    OBVIOUS
  <2>9. IsChain(own, pos, t, ch) /\ FilesNow[m].held = Len(ch)
    BY <1>2, <2>6, <2>7, <2>8
  <2>10. i \in 1..Len(ch) /\ ch[i] \in Cluster /\ own[ch[i]] = t /\ pos[ch[i]] = i - 1
    BY <2>3, <2>4, <2>9, ChainSize DEF IsChain
  <2>11. ch[i] \in S
    BY <2>6, <2>7, <2>10
  <2>12. f[ch[i]] = <<m, i>>
    <3>1. pos[ch[i]] + 1 = i
      BY <2>3, <2>10
    <3>2. QED BY <2>6, <2>10, <2>11, <3>1
  <2>13. QED BY <2>1, <2>11, <2>12
<1>6. S \in SUBSET Cluster
  OBVIOUS
<1>7. IsFiniteSet(S)
  BY <1>6, Clusters
<1>8. f \in [S -> T]
  BY <1>3
<1> HIDE DEF S, T, f
<1>9. Cardinality(T) = Cardinality(S)
  BY <1>4, <1>5, <1>7, <1>8, SameSize
<1>10. QED BY <1>9 DEF S, T

(* Every cluster is lost, another's, the file's or free.                   *)
LEMMA AllCounted ==
  ASSUME TypeInv, Names, Idle, NEW own \in Owners, NEW pos \in Places, Owned(own, pos),
         NEW s \in Slot, Live(s)
  PROVE  Cardinality(Cluster) - LostNow - Cardinality(OthersNow(dir[s].name))
           = Len(Chain(dir[s].cluster)) + Cardinality({c \in Cluster : Next(c) = FREE})
<1> DEFINE L == Lost(own)
           O == {c \in Cluster : own[c] \in Slot \ {s}}
           M == {c \in Cluster : own[c] = s}
           F == {c \in Cluster : Next(c) = FREE}
<1>1. \A c \in Cluster : Will[c] = Next(c) /\ own[c] \in Slot \cup {0}
  BY AtRest DEF Owners, NoneOf
<1>2. \A c \in Cluster : Next(c) = FREE => own[c] = 0
  BY <1>1 DEF Owned, Laid
<1>3. L \subseteq Cluster /\ O \subseteq Cluster /\ M \subseteq Cluster /\ F \subseteq Cluster
  BY DEF Lost
<1>4. /\ Cluster = (L \cup O) \cup (M \cup F)
      /\ L \cap O = {} /\ M \cap F = {} /\ (L \cup O) \cap (M \cup F) = {}
  BY <1>1, <1>2, Numbers DEF Lost
<1>5. LostNow = Cardinality(L) /\ Cardinality(OthersNow(dir[s].name)) = Cardinality(O)
  BY LostIs, OthersCount
<1>6. PICK ch : ch = Chain(dir[s].cluster)
  OBVIOUS
<1>7. Cardinality(M) = Len(ch)
  BY <1>6, OwnChain, ChainSize
<1> HIDE DEF L, O, M, F
<1>8. /\ Cardinality(L) \in Nat /\ Cardinality(O) \in Nat
      /\ Cardinality(M) \in Nat /\ Cardinality(F) \in Nat
  BY <1>3, Clusters
<1>9. Cardinality(L \cup O) = Cardinality(L) + Cardinality(O)
  BY <1>3, <1>4, Together
<1>10. Cardinality(M \cup F) = Cardinality(M) + Cardinality(F)
  BY <1>3, <1>4, Together
<1>11. Cardinality(Cluster) = Cardinality(L \cup O) + Cardinality(M \cup F)
  BY <1>3, <1>4, Together
<1>12. QED BY <1>5, <1>6, <1>7, <1>8, <1>9, <1>10, <1>11 DEF F

----------------------------------------------------------------------------
(* What was seen.  These facts are wanted of the next state too.           *)
TypedFact == TypeInv => FilesNow \in [Name -> File \cup {NoFile}]
LEMMA NowIsTyped == TypedFact
BY NowTyped DEF TypedFact

LEMMA InitSeen == Init => SeenInv
<1> SUFFICES ASSUME Init PROVE SeenInv
  OBVIOUS
<1>1. seen = Now /\ Idle
  BY NoOpTypes DEF Init, Idle
<1>2. FilesNow \in [Name -> File \cup {NoFile}]
  BY InitTypes, NowTyped
<1>3. seen.files = FilesNow
  BY <1>1 DEF Now
<1>4. QED BY <1>1, <1>2, <1>3 DEF SeenInv

LEMMA SameStore ==
  ASSUME UNCHANGED store
  PROVE  Now' = Now /\ FilesNow' = FilesNow
<1>1. fat' = fat /\ dir' = dir /\ disk' = disk
  BY DEF store
<1>2. \A c : Chain(c)' = Chain(c)
  BY <1>1 DEF Chain, Walk, After, Next
<1>3. \A s : Read(s)' = Read(s) /\ ChainOf(s)' = ChainOf(s)
  BY <1>1, <1>2 DEF Read, ChainOf
<1>4. \A n : FindEntry(n)' = FindEntry(n)
  BY <1>1 DEF FindEntry
<1>5. FilesNow' = FilesNow
  BY <1>1, <1>2, <1>3, <1>4 DEF FilesNow
<1>6. LostNow' = LostNow
  BY <1>1, <1>3 DEF LostNow, Next, Live
<1>7. QED BY <1>5, <1>6 DEF Now

LEMMA SettlesSeen ==
  ASSUME TypeInv', Idle', Settles
  PROVE  SeenInv'
<1>1. TypedFact'
  BY NowIsTyped, PTL
<1>2. seen' = Now' /\ seen'.files = FilesNow'
  BY DEF Settles, Now
<1>3. QED BY <1>1, <1>2 DEF TypedFact, SeenInv

LEMMA BeginsSeen ==
  ASSUME TypeInv, SeenInv, Names, Idle, NEW n \in Name, FindSlot(n) # 0,
         NEW o, NEW p, Begins(o, p), o.pc # "idle",
         o.name = n, o.slot = FindSlot(n), o.kind = "write" => o.data \in Data
  PROVE  SeenInv'
<1>1. PICK s : s = FindSlot(n)
  OBVIOUS
<1>2. s \in Slot /\ dir[s].name = n
  BY <1>1, FindsSlot
<1>3. FindEntry(n) # 0 /\ FindEntry(n) \in Slot /\ dir[FindEntry(n)].name = n
  BY <1>2, FindsEntry
<1>4. FindEntry(n) = s
  BY <1>2, <1>3 DEF Names, Once, Live
<1>5. FilesNow[n] \in File /\ Len(FilesNow[n].data) = dir[s].size
  BY <1>3, <1>4, FilesTyped
<1>6. op' = o /\ dir' = dir /\ seen' = seen /\ ~Idle'
  BY DEF Begins, store, hist, Idle
<1>7. seen.files = FilesNow
  BY DEF SeenInv, Now
<1>8. QED BY <1>1, <1>2, <1>5, <1>6, <1>7 DEF SeenInv

LEMMA SeenStep ==
  ASSUME TypeInv, TypeInv', Names, SeenInv, [Calls \/ Steps \/ PowerFails]_diskVars
  PROVE  SeenInv'
<1>1. ASSUME UNCHANGED diskVars PROVE SeenInv'
  <2>1. Now' = Now
    BY <1>1, SameStore DEF diskVars
  <2>2. op' = op /\ dir' = dir /\ seen' = seen
    BY <1>1 DEF diskVars, store, hist
  <2>3. QED BY <2>1, <2>2 DEF SeenInv, Idle
<1>2. ASSUME NEW s \in Slot, NEW e, Idle, OneSector(s, e) PROVE SeenInv'
  <2>1. Idle' /\ Settles
    BY <1>2 DEF OneSector, Idle
  <2>2. QED BY <2>1, SettlesSeen
<1>3. CASE Calls
  <2>1. PICK n \in Name :
          CreateFile(n) \/ DeleteFile(n) \/ (\E o \in Name : RenameFile(o, n))
            \/ \E d \in Data : WriteFile(n, d)
    BY <1>3 DEF Calls
  <2>2. CASE CreateFile(n)
    <3>1. CASE FindEntry(n) # 0 \/ FreeSlot = 0
      BY <1>1, <2>2, <3>1 DEF CreateFile, Fails
    <3>2. CASE ~(FindEntry(n) # 0 \/ FreeSlot = 0)
      BY <1>2, <2>2, <3>2, FindsFree DEF CreateFile
    <3>3. QED BY <3>1, <3>2
  <2>3. CASE \E o \in Name : RenameFile(o, n)
    <3>1. PICK o \in Name : RenameFile(o, n)
      BY <2>3
    <3>2. CASE FindEntry(n) # 0 \/ FindSlot(o) = 0
      BY <1>1, <3>1, <3>2 DEF RenameFile, Fails
    <3>3. CASE ~(FindEntry(n) # 0 \/ FindSlot(o) = 0)
      BY <1>2, <3>1, <3>3, FindsSlot DEF RenameFile
    <3>4. QED BY <3>2, <3>3
  <2>4. CASE DeleteFile(n)
    <3>1. CASE FindSlot(n) = 0
      BY <1>1, <2>4, <3>1 DEF DeleteFile, Fails
    <3>2. CASE FindSlot(n) # 0
      <4>1. PICK o : o = Op("free", "delete", n, <<>>, FindSlot(n), dir[FindSlot(n)].cluster)
        OBVIOUS
      <4>2. Begins(o, <<>>) /\ Idle
        BY <2>4, <3>2, <4>1 DEF DeleteFile
      <4>3. o.pc = "free" /\ o.slot = FindSlot(n) /\ o.name = n /\ o.kind = "delete"
        BY <4>1 DEF Op
      <4>4. QED BY <3>2, <4>2, <4>3, BeginsSeen
    <3>3. QED BY <3>1, <3>2
  <2>5. CASE \E d \in Data : WriteFile(n, d)
    <3>1. PICK d \in Data : WriteFile(n, d)
      BY <2>5
    <3>2. CASE FindSlot(n) = 0
      BY <1>1, <3>1, <3>2 DEF WriteFile, Fails
    <3>3. CASE FindSlot(n) # 0
      <4>1. \E o, p : /\ Begins(o, p) /\ Idle /\ o.pc \in {"free", "data", "dirent"}
                      /\ o.slot = FindSlot(n) /\ o.name = n /\ o.data = d
        <5>1. PICK s, c : s = FindSlot(n) /\ c = dir[s].cluster
          OBVIOUS
        <5>2. CASE d = <<>>
          <6>1. PICK o : o = [Op("free", "write", n, d, s, c) EXCEPT !.start = 0]
            OBVIOUS
          <6>2. Begins(o, <<>>) /\ Idle
            BY <3>1, <3>3, <5>1, <5>2, <6>1 DEF WriteFile
          <6>3. o.pc = "free" /\ o.slot = s /\ o.name = n /\ o.data = d
            BY <6>1 DEF Op
          <6>4. QED BY <5>1, <6>2, <6>3
        <5>3. CASE d # <<>> /\ Valid(c)
          <6>1. PICK o : o = Op("data", "write", n, d, s, c)
            OBVIOUS
          <6>2. Begins(o, <<>>) /\ Idle
            BY <3>1, <3>3, <5>1, <5>3, <6>1 DEF WriteFile
          <6>3. o.pc = "data" /\ o.slot = s /\ o.name = n /\ o.data = d
            BY <6>1 DEF Op
          <6>4. QED BY <5>1, <6>2, <6>3
        <5>4. CASE d # <<>> /\ ~Valid(c) /\ FreeCluster = 0
          <6>1. PICK o : o = Op("dirent", "write", n, d, s, 0)
            OBVIOUS
          <6>2. Begins(o, <<>>) /\ Idle
            BY <3>1, <3>3, <5>1, <5>4, <6>1 DEF WriteFile
          <6>3. o.pc = "dirent" /\ o.slot = s /\ o.name = n /\ o.data = d
            BY <6>1 DEF Op
          <6>4. QED BY <5>1, <6>2, <6>3
        <5>5. CASE d # <<>> /\ ~Valid(c) /\ FreeCluster # 0
          <6>1. PICK o, p : /\ o = Op("data", "write", n, d, s, FreeCluster)
                            /\ p = << <<FreeCluster, EOC>> >>
            OBVIOUS
          <6>2. Begins(o, p) /\ Idle
            BY <3>1, <3>3, <5>1, <5>5, <6>1 DEF WriteFile
          <6>3. o.pc = "data" /\ o.slot = s /\ o.name = n /\ o.data = d
            BY <6>1 DEF Op
          <6>4. QED BY <5>1, <6>2, <6>3
        <5>6. QED BY <5>2, <5>3, <5>4, <5>5
      <4>2. QED BY <3>3, <4>1, BeginsSeen
    <3>4. QED BY <3>2, <3>3
  <2>6. QED BY <2>1, <2>2, <2>3, <2>4, <2>5
<1>4. CASE WriteFat \/ WriteData \/ FreeNext
  <2>1. /\ dir' = dir /\ seen' = seen /\ ~Idle /\ ~Idle'
        /\ op'.name = op.name /\ op'.slot = op.slot /\ op'.data = op.data /\ op'.kind = op.kind
    <3>1. CASE WriteFat
      BY <3>1 DEF WriteFat, hist, Idle, TypeInv, Busy
    <3>2. CASE WriteData
      <4>1. /\ AfterData(Next(op.cl), Tail(op.rest)) /\ op.pc = "data"
            /\ dir' = dir /\ seen' = seen
        BY <3>2 DEF WriteData, At, hist
      <4>2. \/ op' = GoesOn("free", Next(op.cl), Tail(op.rest))
            \/ op' = GoesOn("data", Next(op.cl), Tail(op.rest))
            \/ op' = GoesOn("data", FreeCluster, Tail(op.rest))
            \/ op' = GoesOn("dirent", Next(op.cl), Tail(op.rest))
        BY <4>1 DEF AfterData
      <4>3. ASSUME NEW p, NEW c, NEW r
            PROVE  /\ GoesOn(p, c, r).name = op.name /\ GoesOn(p, c, r).slot = op.slot
                   /\ GoesOn(p, c, r).data = op.data /\ GoesOn(p, c, r).kind = op.kind
                   /\ GoesOn(p, c, r).pc = p
        BY DEF GoesOn, TypeInv, Kinds
      <4>4. QED BY <4>1, <4>2, <4>3 DEF Idle
    <3>3. CASE FreeNext
      BY <3>3 DEF FreeNext, At, GoesOn, store, hist, Idle, TypeInv, Kinds
    <3>4. QED BY <1>4, <3>1, <3>2, <3>3
  <2>2. QED BY <2>1 DEF SeenInv
<1>5. CASE WriteDirent \/ PowerFails
  <2>1. Idle' /\ Settles
    BY <1>5, NoOpTypes DEF WriteDirent, PowerFails, Idle
  <2>2. QED BY <2>1, SettlesSeen
<1>6. QED BY <1>1, <1>3, <1>4, <1>5 DEF Steps

LEMMA SeenHolds == Spec => []SeenInv
<1>1. TypeInv /\ TypeInv' /\ Names /\ SeenInv /\ [Calls \/ Steps \/ PowerFails]_diskVars => SeenInv'
  BY SeenStep
<1>2. QED BY <1>1, InitSeen, TypesHold, NamesHold, OnDisk, PTL DEF Spec

----------------------------------------------------------------------------
(* The accounts, action by action.  Apart: what is others' stays.          *)
Apart(own, pos, own2, pos2) == \A s \in Slot \ {op.slot} : Agree(own, pos, own2, pos2, s)

LostFact ==
  \A own \in Owners, pos \in Places :
    TypeInv /\ Idle /\ Owned(own, pos) => LostNow = Cardinality(Lost(own))
LEMMA LostIsKnown == LostFact
<1> SUFFICES ASSUME NEW own \in Owners, NEW pos \in Places, TypeInv, Idle, Owned(own, pos)
             PROVE  LostNow = Cardinality(Lost(own))
  BY DEF LostFact
<1>1. QED BY LostIs

LEMMA RestsBooks ==
  ASSUME TypeInv', op' = NoOp, Settles,
         NEW own \in Owners, NEW pos \in Places, Owned(own, pos)'
  PROVE  Books(own, pos)' /\ LostNow' = Cardinality(Lost(own)')
<1>1. LostFact'
  BY LostIsKnown, PTL
<1>2. Idle' /\ op'.pc = "idle" /\ op'.kind = "none"
  BY NoOpTypes DEF Idle
<1>3. LostNow' = Cardinality(Lost(own)')
  BY <1>1, <1>2 DEF LostFact
<1>4. seen'.lost = LostNow'
  BY DEF Settles, Now
<1>5. ~Through' /\ Stored(own, pos)'
  BY <1>2 DEF Through, Stored
<1>6. QED BY <1>3, <1>4, <1>5 DEF Books

LEMMA WriteFatBooks ==
  ASSUME TypeInv, NEW own \in Owners, NEW pos \in Places, Owned(own, pos), Books(own, pos), WriteFat
  PROVE  \E own2 \in Owners, pos2 \in Places :
           Owned(own2, pos2)' /\ Books(own2, pos2)' /\ Apart(own, pos, own2, pos2)
<1>1. Owned(own, pos)' /\ Will' = Will
  BY WriteFatOwned
<1>2. dir' = dir /\ disk' = disk /\ op' = op /\ seen' = seen
  BY DEF WriteFat, hist
<1>3. Fresh' = Fresh /\ Holder' = Holder /\ Through' = Through /\ Done' = Done
  BY <1>2 DEF Fresh, Holder, Through, Done, Valid
<1>4. Lost(own)' = Lost(own)
  BY <1>1 DEF Lost
<1>5. Stored(own, pos)'
  BY <1>1, <1>2, <1>3 DEF Books, Stored
<1>6. Books(own, pos)'
  BY <1>2, <1>3, <1>4, <1>5 DEF Books, NoneOf
<1>7. Apart(own, pos, own, pos)
  BY DEF Apart, Agree
<1>8. QED BY <1>1, <1>6, <1>7

LEMMA FreeNextBooks ==
  ASSUME TypeInv, NEW own \in Owners, NEW pos \in Places, Owned(own, pos), Books(own, pos), FreeNext
  PROVE  \E own2 \in Owners, pos2 \in Places :
           Owned(own2, pos2)' /\ Books(own2, pos2)' /\ Apart(own, pos, own2, pos2)
<1>1. PICK own2 \in Owners :
        /\ Owned(own2, pos)'
        /\ own2 = IF Valid(op.cl) THEN [own EXCEPT ![op.cl] = 0] ELSE own
  BY FreeNextOwned
<1>2. /\ op.pc = "free" /\ pend = <<>> /\ dir' = dir /\ fat' = fat /\ disk' = disk /\ seen' = seen
  BY DEF FreeNext, At, store, hist
<1>3. PICK x : x = op.cl
  OBVIOUS
<1>4. /\ op'.kind = op.kind /\ op'.data = op.data /\ op'.slot = op.slot /\ op'.rest = <<>>
      /\ op'.pc = IF Valid(x) THEN "free" ELSE "dirent"
      /\ op'.cl = IF Valid(x) THEN Next(x) ELSE x
  BY <1>2, <1>3 DEF FreeNext, GoesOn, TypeInv, Kinds
<1>5. (Fresh' <=> Fresh) /\ Holder' = Holder
  BY <1>2, <1>4, SameOperation
<1>6. Valid(x) => /\ x \in Cluster /\ ~Fresh /\ own[x] = InHand
                  /\ \A c \in Cluster : own[c] = InHand => pos[x] <= pos[c]
  BY <1>2, <1>3 DEF Owned, Working, Valid
<1>7. \A c \in Cluster : own2[c] = IF c = x /\ Valid(x) THEN 0 ELSE own[c]
  BY <1>1, <1>3 DEF Owners
<1>8. \A c \in Cluster : Will[c] = Next(c) /\ Will'[c] = IF c = x /\ Valid(x) THEN FREE ELSE Will[c]
  <2>1. \A c \in Cluster : Will[c] = Next(c) /\ Next(c)' = Next(c)
    BY <1>2, WillNow DEF Next
  <2>2. pend' = IF Valid(x) THEN << <<x, FREE>> >> ELSE <<>>
    BY <1>2, <1>3 DEF FreeNext
  <2>3. CASE Valid(x)
    BY <2>1, <2>2, <2>3 DEF Will
  <2>4. CASE ~Valid(x)
    BY <2>1, <2>2, <2>4 DEF Will
  <2>5. QED BY <2>1, <2>3, <2>4
<1>9. InHand # 0 /\ 0 \notin Slot /\ InHand \notin Slot /\ op.slot \in Slot
  BY <1>2, Numbers DEF TypeInv, Busy, Idle
<1>10. Lost(own2)' = Lost(own)
  BY <1>6, <1>7, <1>8, <1>9 DEF Lost
<1>11. Through' /\ ~Fresh => NoneOf(own2, InHand)
  <2>1. CASE ~Valid(x)
    BY <1>2, <1>3, <1>7, <2>1 DEF Books, Through, NoneOf
  <2>2. CASE Valid(x)
    <3> SUFFICES ASSUME Through', NEW c \in Cluster, own2[c] = InHand PROVE FALSE
      BY DEF NoneOf
    <3>1. ~Valid(Will[x])
      BY <1>4, <1>6, <1>8, <2>2 DEF Through, Valid
    <3>2. c # x /\ own[c] = InHand
      BY <1>7, <1>9, <2>2
    <3>3. pos[c] <= pos[x] /\ pos[x] <= pos[c] /\ pos[c] # pos[x]
      BY <1>6, <1>9, <2>2, <3>1, <3>2 DEF Owned, Laid
    <3>4. pos[c] \in Nat /\ pos[x] \in Nat
      BY <1>6, <2>2 DEF Places
    <3>5. QED BY <3>3, <3>4
  <2>3. QED BY <2>1, <2>2
<1>12. Stored(own2, pos)'
  <2> SUFFICES ASSUME op.kind = "write" PROVE Stored(own2, pos)'
    BY <1>4 DEF Stored
  <2>1. /\ op.rest = <<>> /\ Done' = Done
        /\ \A c \in Cluster : own[c] = Holder /\ pos[c] < Done => disk[c] = op.data[pos[c] + 1]
        /\ \A c \in Cluster : own[c] = Holder => pos[c] < Done
        /\ Done > 0 => \E c \in Cluster : own[c] = Holder /\ pos[c] = Done - 1
    BY <1>2, <1>4 DEF Books, Stored, Done
  <2>2. \A c \in Cluster : own2[c] = Holder <=> own[c] = Holder
    BY <1>6, <1>7, <1>9 DEF Holder
  <2>3. Len(op.rest) <= Len(op.data) /\ op'.rest = op.rest
    BY <1>4, <2>1 DEF Books, Stored
  <2>4. QED BY <1>2, <1>4, <1>5, <2>1, <2>2, <2>3 DEF Stored
<1>13. Books(own2, pos)'
  BY <1>2, <1>5, <1>10, <1>11, <1>12 DEF Books, NoneOf
<1>14. Apart(own, pos, own2, pos)
  BY <1>6, <1>7, <1>9 DEF Apart, Agree
<1>15. QED BY <1>1, <1>13, <1>14

LEMMA NoFreeCluster ==
  ASSUME FreeCluster = 0, NEW c \in Cluster
  PROVE  Next(c) # FREE
<1> DEFINE T == {d \in Cluster : Next(d) = FREE}
<1>1. T \subseteq Nat \ {0}
  BY DEF Cluster
<1>2. Least(T) = 0 <=> T = {}
  <2> HIDE DEF T
  <2> QED BY <1>1, LeastIs
<1>3. T = {}
  BY <1>2 DEF FreeCluster, FreeTo, Cluster
<1>4. QED BY <1>3

(* A cluster of data is written.                                           *)
LEMMA OneMoreStored ==
  ASSUME TypeInv, NEW own \in Owners, NEW pos \in Places, Owned(own, pos), Books(own, pos), At("data"),
         disk' = [disk EXCEPT ![op.cl] = Head(op.rest)],
         op'.data = op.data, op'.rest = Tail(op.rest)
  PROVE  /\ op.kind = "write" /\ op.cl \in Cluster /\ own[op.cl] = Holder /\ pos[op.cl] = Done
         /\ Done \in Nat /\ Done' = Done + 1
         /\ Len(op'.rest) <= Len(op.data)
         /\ \A i \in 1..Len(op'.rest) : op'.rest[i] = op.data[Done' + i]
         /\ \A c \in Cluster : own[c] = Holder /\ pos[c] < Done + 1 => disk'[c] = op.data[pos[c] + 1]
<1>1. /\ op.pc = "data" /\ op.kind = "write" /\ op.cl \in Cluster /\ own[op.cl] = Holder
      /\ op.rest # <<>>
  BY DEF At, TypeInv, Busy, Idle, Clearing, Valid, Owned, Working
<1>2. op.data \in Seq(Chunk) /\ op.rest \in Seq(Chunk) /\ Holder # 0
  <2>1. op.data \in Data \cup {<<>>} /\ op.rest \in Seq(Chunk)
    BY DEF TypeInv, Kinds
  <2>2. op.slot # 0
    BY <1>1, Numbers DEF TypeInv, Busy, Idle
  <2>3. Holder # 0
    BY <2>2, Numbers DEF Holder
  <2>4. Data \subseteq Seq(Chunk) /\ <<>> \in Seq(Chunk)
    BY FatAssumption
  <2>5. op.data \in Seq(Chunk)
    BY <2>1, <2>4, Zenon
  <2>6. QED BY <2>1, <2>3, <2>5
<1>3. /\ Len(op.rest) <= Len(op.data) /\ pos[op.cl] = Done
      /\ \A i \in 1..Len(op.rest) : op.rest[i] = op.data[Done + i]
      /\ \A c \in Cluster : own[c] = Holder /\ pos[c] < Done => disk[c] = op.data[pos[c] + 1]
  BY <1>1 DEF Books, Stored
<1>4. PICK r, d, q : r = op.rest /\ d = op.data /\ q = op'.rest
  OBVIOUS
<1>5. /\ Len(r) \in Nat /\ Len(r) >= 1 /\ Len(d) \in Nat /\ Len(q) = Len(r) - 1
      /\ \A i \in 1..Len(q) : q[i] = r[i + 1]
      /\ Head(r) = r[1]
  BY <1>1, <1>2, <1>4
<1>6. Done = Len(d) - Len(r) /\ Done' = Len(d) - Len(q)
  BY <1>4 DEF Done
<1>7. Done \in Nat /\ Done' = Done + 1 /\ Len(q) <= Len(d)
  BY <1>3, <1>4, <1>5, <1>6
<1>8. ASSUME NEW i \in 1..Len(q) PROVE q[i] = d[Done' + i]
  <2>1. i + 1 \in 1..Len(r) /\ Done + (i + 1) = Done' + i
    BY <1>5, <1>7
  <2>2. QED BY <1>3, <1>4, <1>5, <2>1
<1>9. ASSUME NEW c \in Cluster, own[c] = Holder, pos[c] < Done + 1
      PROVE  disk'[c] = d[pos[c] + 1]
  <2>1. disk'[c] = IF c = op.cl THEN r[1] ELSE disk[c]
    BY <1>4, <1>5 DEF TypeInv, Kinds
  <2>2. r[1] = d[Done + 1]
    <3>1. 1 \in 1..Len(r)
      BY <1>5
    <3>2. QED BY <1>3, <1>4, <3>1
  <2>3. c # op.cl => pos[c] # Done
    BY <1>1, <1>2, <1>3, <1>9 DEF Owned, Laid
  <2>4. pos[c] \in Nat
    BY DEF Places
  <2>5. c # op.cl => pos[c] < Done
    BY <1>7, <1>9, <2>3, <2>4
  <2>6. QED BY <1>3, <1>4, <1>9, <2>1, <2>2, <2>5
<1>10. QED BY <1>1, <1>3, <1>4, <1>7, <1>8, <1>9

LEMMA WriteDataBooks ==
  ASSUME TypeInv, NEW own \in Owners, NEW pos \in Places, Owned(own, pos), Books(own, pos), WriteData
  PROVE  \E own2 \in Owners, pos2 \in Places :
           Owned(own2, pos2)' /\ Books(own2, pos2)' /\ Apart(own, pos, own2, pos2)
<1>1. /\ At("data") /\ dir' = dir /\ fat' = fat /\ copy' = copy /\ seen' = seen
      /\ disk' = [disk EXCEPT ![op.cl] = Head(op.rest)]
      /\ AfterData(Next(op.cl), Tail(op.rest))
  BY DEF WriteData, hist
<1>2. PICK x, n, r : x = op.cl /\ n = Next(x) /\ r = Tail(op.rest)
  OBVIOUS
<1>3. op'.kind = op.kind /\ op'.data = op.data /\ op'.slot = op.slot /\ op'.rest = r
  <2>1. \E p, c : op' = GoesOn(p, c, r)
    BY <1>1, <1>2 DEF AfterData
  <2>2. PICK p, c : op' = GoesOn(p, c, r)
    BY <2>1
  <2>3. op \in OpTypes
    BY DEF TypeInv, Kinds, OpTypes
  <2>4. QED BY <2>2, <2>3 DEF GoesOn, OpTypes
<1>4. /\ op.kind = "write" /\ x \in Cluster /\ own[x] = Holder /\ pos[x] = Done
      /\ Done \in Nat /\ Done' = Done + 1
      /\ Len(r) <= Len(op.data)
      /\ \A i \in 1..Len(r) : r[i] = op.data[Done' + i]
      /\ \A c \in Cluster : own[c] = Holder /\ pos[c] < Done + 1 => disk'[c] = op.data[pos[c] + 1]
  BY <1>1, <1>2, <1>3, OneMoreStored
<1>5. (Fresh' <=> Fresh) /\ Holder' = Holder
  BY <1>1, <1>3, SameOperation
<1>6. /\ op.pc = "data" /\ pend = <<>> /\ op.slot \in Slot /\ \A c \in Cluster : Will[c] = Next(c)
      /\ \A c \in Cluster : Next(c)' = Next(c)
  <2>1. op.pc = "data" /\ pend = <<>>
    BY <1>1 DEF At
  <2>2. op.slot \in Slot
    BY <2>1 DEF TypeInv, Busy, Idle
  <2>3. \A c \in Cluster : Next(c)' = Next(c)
    BY <1>1 DEF Next
  <2>4. QED BY <2>1, <2>2, <2>3, WillNow
<1>7. ~Fresh => NoneOf(own, InHand)
  BY <1>6 DEF Owned, Working
<1>8. /\ InHand # 0 /\ 0 \notin Slot /\ InHand \notin Slot /\ Holder # 0 /\ ~Valid(EOC) /\ EOC # FREE
      /\ Holder = IF Fresh THEN InHand ELSE op.slot
  BY <1>6, Numbers DEF Holder, Valid
<1>9. ~Valid(n) => \A c \in Cluster : own[c] = Holder => pos[c] <= Done
  BY <1>2, <1>4, <1>6, <1>8 DEF Owned, Laid
<1>10. \A c \in Cluster : pos[c] \in Nat
  BY DEF Places
<1>11. Apart(own, pos, own, pos)
  BY DEF Apart, Agree
<1>12. CASE r = <<>>
  <2>1. op' = GoesOn("free", n, <<>>) /\ pend' = << <<x, EOC>> >>
    BY <1>1, <1>2, <1>12 DEF AfterData
  <2>2. PICK own2 \in Owners : /\ Owned(own2, pos)'
                               /\ own2 = IF Fresh THEN own ELSE CutAt(own, pos, x, InHand)
    BY <1>1, <1>2, <2>1, EndsOwned
  <2>3. op'.pc = "free" /\ op'.cl = n
    BY <2>1 DEF GoesOn, TypeInv, Kinds
  <2>4. \A c \in Cluster :
          own2[c] = IF ~Fresh /\ own[c] = own[x] /\ pos[c] > pos[x] THEN InHand ELSE own[c]
    BY <2>2 DEF CutAt
  <2>5. Will'[x] = EOC /\ \A c \in Cluster \ {x} : Will'[c] = Will[c]
    BY <1>4, <1>6, <2>1 DEF Will
  <2>6. Lost(own2)' = Lost(own)
    BY <1>4, <1>8, <2>4, <2>5 DEF Lost
  <2>7. Through' /\ ~Fresh => NoneOf(own2, InHand)
    BY <1>4, <1>7, <1>9, <1>10, <2>3, <2>4 DEF Through, NoneOf, Valid
  <2>8. \A c \in Cluster : own2[c] = Holder => own[c] = Holder /\ pos[c] <= Done
    <3>1. CASE Fresh
      <4>1. ~Valid(n)
        BY <1>2, <1>4, <1>6, <1>8, <3>1 DEF Owned, Working
      <4>2. QED BY <1>9, <2>4, <3>1, <4>1
    <3>2. CASE ~Fresh
      BY <1>4, <1>6, <1>7, <1>8, <1>10, <2>4, <3>2 DEF NoneOf
    <3>3. QED BY <3>1, <3>2
  <2>9. own2[x] = Holder /\ pos[x] = Done' - 1
    BY <1>4, <1>10, <2>4
  <2>10. Stored(own2, pos)'
    <3>1. \A c \in Cluster : own2[c] = Holder => pos[c] < Done' /\ disk'[c] = op.data[pos[c] + 1]
      BY <1>4, <1>10, <2>8
    <3>2. QED BY <1>3, <1>4, <1>5, <1>12, <2>3, <2>9, <3>1 DEF Stored
  <2>11. Books(own2, pos)'
    BY <1>1, <1>5, <2>6, <2>7, <2>10 DEF Books, NoneOf
  <2>12. Apart(own, pos, own2, pos)
    BY <1>4, <1>8, <2>4 DEF Apart, Agree
  <2>13. QED BY <2>2, <2>11, <2>12
<1>13. CASE r # <<>> /\ Valid(n)
  <2>1. op' = GoesOn("data", n, r) /\ pend' = pend
    BY <1>1, <1>2, <1>13 DEF AfterData
  <2>2. Owned(own, pos)'
    BY <1>1, <1>2, <1>13, <2>1, NextDataOwned
  <2>3. op'.pc = "data" /\ op'.cl = n
    BY <2>1 DEF GoesOn, TypeInv, Kinds
  <2>4. \A c \in Cluster : Will'[c] = Will[c]
    BY <1>6, <2>1 DEF Will
  <2>5. Lost(own)' = Lost(own)
    BY <2>4 DEF Lost
  <2>6. pos[n] = Done'
    BY <1>2, <1>4, <1>6, <1>8, <1>13 DEF Owned, Laid, Valid
  <2>7. Stored(own, pos)'
    BY <1>3, <1>4, <1>5, <2>3, <2>6 DEF Stored
  <2>8. Books(own, pos)'
    BY <1>1, <2>3, <2>5, <2>7 DEF Books, Through
  <2>9. QED BY <1>11, <2>2, <2>8
<1>14. CASE r # <<>> /\ ~Valid(n) /\ FreeCluster = 0
  <2>1. op' = GoesOn("dirent", n, r) /\ pend' = pend
    BY <1>1, <1>2, <1>14 DEF AfterData
  <2>2. Owned(own, pos)'
    BY <1>1, <2>1, DiskFullOwned
  <2>3. op'.pc = "dirent"
    BY <2>1 DEF GoesOn, TypeInv, Kinds
  <2>4. \A c \in Cluster : Will'[c] = Will[c] /\ Will'[c] # FREE
    BY <1>6, <1>14, <2>1, NoFreeCluster DEF Will
  <2>5. Lost(own)' = Lost(own)
    BY <2>4 DEF Lost
  <2>6. \A c \in Cluster : own[c] = Holder => pos[c] < Done'
    BY <1>4, <1>9, <1>10, <1>14
  <2>7. Stored(own, pos)'
    <3>1. pos[x] = Done' - 1
      BY <1>4
    <3>2. QED BY <1>3, <1>4, <1>5, <2>3, <2>4, <2>6, <3>1 DEF Stored
  <2>8. Books(own, pos)'
    BY <1>1, <1>5, <1>7, <2>5, <2>7 DEF Books, NoneOf
  <2>9. QED BY <1>11, <2>2, <2>8
<1>15. CASE r # <<>> /\ ~Valid(n) /\ FreeCluster # 0
  <2>0. PICK y : y = FreeCluster
    OBVIOUS
  <2>1. op' = GoesOn("data", y, r) /\ pend' = << <<x, y>>, <<y, EOC>> >>
    BY <1>1, <1>2, <1>15, <2>0 DEF AfterData
  <2>2. y \in Cluster /\ Next(y) = FREE
    BY <1>15, <2>0, FindsCluster
  <2>3. PICK own2 \in Owners, pos2 \in Places :
          /\ Owned(own2, pos2)'
          /\ own2 = [own EXCEPT ![y] = Holder] /\ pos2 = [pos EXCEPT ![y] = pos[x] + 1]
    BY <1>1, <1>2, <1>15, <2>1, <2>2, ExtendsOwned
  <2>4. op'.pc = "data" /\ op'.cl = y
    BY <2>1 DEF GoesOn, TypeInv, Kinds
  <2>5. own[y] = 0 /\ x # y /\ Will[y] = FREE
    BY <1>4, <1>6, <1>8, <2>2, FreeIsNobodys
  <2>6. \A c \in Cluster : /\ own2[c] = IF c = y THEN Holder ELSE own[c]
                           /\ pos2[c] = IF c = y THEN Done' ELSE pos[c]
    BY <1>4, <2>2, <2>3 DEF Owners, Places
  <2>7. \A c \in Cluster \ {x, y} : Will'[c] = Will[c]
    BY <1>6, <2>1 DEF Will
  <2>8. Lost(own2)' = Lost(own)
    <3>1. own[x] # 0 /\ own2[x] # 0 /\ own2[y] # 0
      BY <1>4, <1>8, <2>2, <2>5, <2>6
    <3>2. QED BY <2>5, <2>6, <2>7, <3>1 DEF Lost
  <2>9. Stored(own2, pos2)'
    <3>1. \A c \in Cluster : own2[c] = Holder /\ pos2[c] < Done' => disk'[c] = op.data[pos2[c] + 1]
      BY <1>4, <2>6
    <3>2. pos2[y] = Done'
      BY <2>2, <2>6
    <3>3. QED BY <1>3, <1>4, <1>5, <2>4, <3>1, <3>2 DEF Stored
  <2>10. Books(own2, pos2)'
    BY <1>1, <2>4, <2>8, <2>9 DEF Books, Through
  <2>11. Apart(own, pos, own2, pos2)
    BY <1>8, <2>5, <2>6, Numbers DEF Apart, Agree
  <2>12. QED BY <2>3, <2>10, <2>11
<1>16. QED BY <1>12, <1>13, <1>14, <1>15

(* The operations that begin.                                              *)
LEMMA BeginsStored ==
  ASSUME NEW o, NEW p, Begins(o, p), o.rest = o.data, o.data \in Seq(Chunk)
  PROVE  /\ op' = o /\ pend' = p /\ fat' = fat /\ dir' = dir /\ disk' = disk /\ seen' = seen
         /\ Done' = 0 /\ Len(op'.rest) <= Len(op'.data)
         /\ \A i \in 1..Len(op'.rest) : op'.rest[i] = op'.data[Done' + i]
<1>1. op' = o /\ pend' = p /\ fat' = fat /\ dir' = dir /\ disk' = disk /\ seen' = seen
  BY DEF Begins, store, hist
<1>2. PICK r : r = o.rest
  OBVIOUS
<1>3. Len(r) \in Nat /\ op'.rest = r /\ op'.data = r
  BY <1>1, <1>2
<1>4. Done' = 0
  BY <1>3 DEF Done
<1>5. QED BY <1>1, <1>3, <1>4

LEMMA ClearsBooks ==
  ASSUME TypeInv, Idle, NEW own \in Owners, NEW pos \in Places, Owned(own, pos), Books(own, pos),
         NEW s \in Slot, Live(s), NEW o, Begins(o, <<>>),
         o.pc = "free", o.slot = s, o.cl = dir[s].cluster, o.data = <<>>, o.rest = <<>>,
         o.kind = "delete" \/ (o.kind = "write" /\ o.start = 0)
  PROVE  \E own2 \in Owners, pos2 \in Places : Owned(own2, pos2)' /\ Books(own2, pos2)'
<1>1. PICK own2 \in Owners : Owned(own2, pos)' /\ own2 = Given(own, s, InHand)
  BY ClearsOwned
<1>2. /\ op' = o /\ pend' = <<>> /\ fat' = fat /\ dir' = dir /\ disk' = disk /\ seen' = seen
      /\ Done' = 0 /\ Len(op'.rest) <= Len(op'.data)
      /\ \A i \in 1..Len(op'.rest) : op'.rest[i] = op'.data[Done' + i]
  <2>1. o.rest = o.data /\ o.data \in Seq(Chunk)
    OBVIOUS
  <2>2. QED BY <2>1, BeginsStored
<1>3. /\ pend = <<>> /\ NoneOf(own, InHand)
      /\ \A t \in Slot : Has(t) <=> Live(t) /\ dir[t].cluster # 0
      /\ \A c \in Cluster : own[c] \in Slot => Has(own[c])
  BY AtRest
<1>4. Will' = Will
  BY <1>2, <1>3 DEF Will, Next
<1>5. /\ \A c \in Cluster : own2[c] = IF own[c] = s THEN InHand ELSE own[c]
      /\ s # 0 /\ s # InHand /\ InHand # 0
  <2>1. \A c \in Cluster : own2[c] = IF own[c] = s THEN InHand ELSE own[c]
    BY <1>1 DEF Given
  <2>2. QED BY <2>1, Numbers
<1>6. Lost(own2)' = Lost(own)
  BY <1>4, <1>5 DEF Lost
<1>7. Through' => NoneOf(own2, InHand)
  <2> SUFFICES ASSUME Through', NEW c \in Cluster, own2[c] = InHand PROVE FALSE
    BY DEF NoneOf
  <2>1. ~Valid(dir[s].cluster) /\ own[c] = s
    BY <1>2, <1>3, <1>5 DEF Through, NoneOf, Valid
  <2>2. dir[s].cluster = 0
    BY <2>1 DEF TypeInv, Kinds, Valid
  <2>3. QED BY <1>3, <2>1, <2>2
<1>8. Stored(own2, pos)'
  <2> SUFFICES ASSUME o.kind = "write" PROVE Stored(own2, pos)'
    BY <1>2 DEF Stored
  <2>1. NoneOf(own2, s) /\ Holder' = s
    BY <1>2, <1>5 DEF NoneOf, Holder, Fresh
  <2>2. QED BY <1>2, <2>1 DEF Stored, NoneOf
<1>9. Books(own2, pos)'
  BY <1>2, <1>6, <1>7, <1>8 DEF Books, NoneOf
<1>10. QED BY <1>1, <1>9

LEMMA RewritesBooks ==
  ASSUME TypeInv, Idle, NEW own \in Owners, NEW pos \in Places, Owned(own, pos), Books(own, pos),
         NEW s \in Slot, Live(s), NEW o, Begins(o, <<>>),
         o.slot = s, o.data # <<>>, o.kind = "write", o.rest = o.data, o.data \in Seq(Chunk),
         \/ o.pc = "data" /\ o.cl = dir[s].cluster /\ o.start = dir[s].cluster /\ Valid(o.cl)
         \/ o.pc = "dirent" /\ o.start = 0 /\ dir[s].cluster = 0 /\ FreeCluster = 0
  PROVE  Owned(own, pos)' /\ Books(own, pos)'
<1>1. Owned(own, pos)'
  BY RewritesOwned
<1>2. /\ op' = o /\ pend' = <<>> /\ fat' = fat /\ dir' = dir /\ disk' = disk /\ seen' = seen
      /\ Done' = 0 /\ Len(op'.rest) <= Len(op'.data)
      /\ \A i \in 1..Len(op'.rest) : op'.rest[i] = op'.data[Done' + i]
  BY BeginsStored
<1>3. /\ pend = <<>> /\ NoneOf(own, InHand) /\ \A c \in Cluster : Will[c] = Next(c)
      /\ \A t \in Slot : Has(t) <=> Live(t) /\ dir[t].cluster # 0
      /\ \A t \in Slot : Has(t) => own[dir[t].cluster] = t /\ pos[dir[t].cluster] = 0
  BY AtRest
<1>4. Will' = Will
  BY <1>2, <1>3 DEF Will, Next
<1>5. Lost(own)' = Lost(own)
  BY <1>4 DEF Lost
<1>6. \A c \in Cluster : pos[c] \in Nat
  BY DEF Places
<1>7. CASE o.pc = "data"
  <2>1. own[o.cl] = s /\ pos[o.cl] = 0 /\ 0 \notin Cluster
    BY <1>3, <1>7, Numbers DEF Valid
  <2>2. Stored(own, pos)'
    BY <1>2, <1>6, <1>7, <2>1 DEF Stored
  <2>3. ~Through'
    BY <1>2, <1>7 DEF Through
  <2>4. QED BY <1>1, <1>2, <1>5, <2>2, <2>3 DEF Books
<1>8. CASE o.pc = "dirent"
  <2>1. dir[s].cluster = 0 /\ FreeCluster = 0
    BY <1>8
  <2>2. Fresh' /\ Holder' = InHand
    BY <1>2, <2>1 DEF Fresh, Holder
  <2>3. \A c \in Cluster : Will'[c] # FREE
    BY <1>3, <1>4, <2>1, NoFreeCluster
  <2>4. \A c \in Cluster : own[c] # InHand
    BY <1>3 DEF NoneOf
  <2>5. Stored(own, pos)'
    BY <1>2, <1>8, <2>2, <2>3, <2>4 DEF Stored
  <2>6. QED BY <1>1, <1>2, <1>5, <2>2, <2>5 DEF Books
<1>9. QED BY <1>7, <1>8

LEMMA StartsBooks ==
  ASSUME TypeInv, Idle, NEW own \in Owners, NEW pos \in Places, Owned(own, pos), Books(own, pos),
         NEW s \in Slot, Live(s), dir[s].cluster = 0,
         NEW x \in Cluster, Next(x) = FREE, NEW o, Begins(o, << <<x, EOC>> >>),
         o.slot = s, o.data # <<>>, o.kind = "write", o.rest = o.data, o.data \in Seq(Chunk),
         o.pc = "data", o.cl = x, o.start = x
  PROVE  \E own2 \in Owners, pos2 \in Places : Owned(own2, pos2)' /\ Books(own2, pos2)'
<1>1. PICK own2 \in Owners, pos2 \in Places :
        Owned(own2, pos2)' /\ own2 = [own EXCEPT ![x] = InHand] /\ pos2 = [pos EXCEPT ![x] = 0]
  BY StartsOwned
<1>2. /\ op' = o /\ pend' = << <<x, EOC>> >> /\ fat' = fat /\ dir' = dir /\ disk' = disk
      /\ seen' = seen
      /\ Done' = 0 /\ Len(op'.rest) <= Len(op'.data)
      /\ \A i \in 1..Len(op'.rest) : op'.rest[i] = op'.data[Done' + i]
  BY BeginsStored
<1>3. pend = <<>> /\ \A c \in Cluster : Will[c] = Next(c)
  BY AtRest
<1>4. Will[x] = FREE /\ \A c \in Cluster \ {x} : Will'[c] = Will[c]
  BY <1>2, <1>3 DEF Will, Next
<1>5. \A c \in Cluster : /\ own2[c] = IF c = x THEN InHand ELSE own[c]
                         /\ pos2[c] = IF c = x THEN 0 ELSE pos[c]
  BY <1>1 DEF Owners, Places
<1>6. InHand # 0
  BY Numbers
<1>7. Lost(own2)' = Lost(own)
  <2>1. own2[x] # 0
    BY <1>5, <1>6
  <2>2. QED BY <1>4, <1>5, <2>1 DEF Lost
<1>8. \A c \in Cluster : pos2[c] \in Nat
  BY DEF Places
<1>9. Stored(own2, pos2)'
  <2>1. pos2[x] = 0
    BY <1>5
  <2>2. QED BY <1>2, <1>8, <2>1 DEF Stored
<1>10. ~Through'
  BY <1>2 DEF Through
<1>11. Books(own2, pos2)'
  BY <1>2, <1>7, <1>9, <1>10 DEF Books
<1>12. QED BY <1>1, <1>11

LEMMA DeleteFileBooks ==
  ASSUME TypeInv, NEW own \in Owners, NEW pos \in Places, Owned(own, pos), Books(own, pos),
         NEW n \in Name, DeleteFile(n), FindSlot(n) # 0
  PROVE  \E own2 \in Owners, pos2 \in Places : Owned(own2, pos2)' /\ Books(own2, pos2)'
<1>1. PICK s, o : s = FindSlot(n) /\ o = Op("free", "delete", n, <<>>, s, dir[s].cluster)
  OBVIOUS
<1>2. Begins(o, <<>>) /\ Idle
  BY <1>1 DEF DeleteFile
<1>3. s \in Slot /\ Live(s)
  BY <1>1, FindsSlot DEF Live
<1>4. /\ o.pc = "free" /\ o.slot = s /\ o.cl = dir[s].cluster /\ o.data = <<>> /\ o.rest = <<>>
      /\ o.kind = "delete"
  BY <1>1 DEF Op
<1>5. QED BY <1>2, <1>3, <1>4, ClearsBooks

LEMMA WriteFileBooks ==
  ASSUME TypeInv, NEW own \in Owners, NEW pos \in Places, Owned(own, pos), Books(own, pos),
         NEW n \in Name, NEW d \in Data, WriteFile(n, d), FindSlot(n) # 0
  PROVE  \E own2 \in Owners, pos2 \in Places : Owned(own2, pos2)' /\ Books(own2, pos2)'
<1>1. PICK s, c : s = FindSlot(n) /\ c = dir[s].cluster
  OBVIOUS
<1>2. s \in Slot /\ Live(s) /\ Idle
  BY <1>1, FindsSlot DEF Live, WriteFile
<1>3. c \in Cluster \cup {0} /\ d \in Seq(Chunk)
  BY <1>1, <1>2, FatAssumption DEF TypeInv, Kinds
<1>4. CASE d = <<>>
  <2>1. PICK o : o = [Op("free", "write", n, d, s, c) EXCEPT !.start = 0]
    OBVIOUS
  <2>2. Begins(o, <<>>)
    BY <1>1, <1>4, <2>1 DEF WriteFile
  <2>3. /\ o.pc = "free" /\ o.slot = s /\ o.cl = c /\ o.data = <<>> /\ o.rest = <<>>
        /\ o.kind = "write" /\ o.start = 0
    BY <1>4, <2>1 DEF Op
  <2>4. QED BY <1>1, <1>2, <2>2, <2>3, ClearsBooks
<1>5. CASE d # <<>> /\ Valid(c)
  <2>1. PICK o : o = Op("data", "write", n, d, s, c)
    OBVIOUS
  <2>2. Begins(o, <<>>)
    BY <1>1, <1>5, <2>1 DEF WriteFile
  <2>3. /\ o.pc = "data" /\ o.slot = s /\ o.cl = c /\ o.data = d /\ o.rest = d
        /\ o.kind = "write" /\ o.start = c
    BY <2>1 DEF Op
  <2>4. QED BY <1>1, <1>2, <1>3, <1>5, <2>2, <2>3, RewritesBooks
<1>6. CASE d # <<>> /\ ~Valid(c) /\ FreeCluster = 0
  <2>1. PICK o : o = Op("dirent", "write", n, d, s, 0)
    OBVIOUS
  <2>2. Begins(o, <<>>)
    BY <1>1, <1>6, <2>1 DEF WriteFile
  <2>3. /\ o.pc = "dirent" /\ o.slot = s /\ o.data = d /\ o.rest = d /\ o.kind = "write"
        /\ o.start = 0
    BY <2>1 DEF Op
  <2>4. c = 0
    BY <1>3, <1>6 DEF Valid
  <2>5. QED BY <1>1, <1>2, <1>3, <1>6, <2>2, <2>3, <2>4, RewritesBooks
<1>7. CASE d # <<>> /\ ~Valid(c) /\ FreeCluster # 0
  <2>1. PICK x, o : x = FreeCluster /\ o = Op("data", "write", n, d, s, x)
    OBVIOUS
  <2>2. Begins(o, << <<x, EOC>> >>)
    BY <1>1, <1>7, <2>1 DEF WriteFile
  <2>3. /\ o.pc = "data" /\ o.slot = s /\ o.cl = x /\ o.data = d /\ o.rest = d
        /\ o.kind = "write" /\ o.start = x
    BY <2>1 DEF Op
  <2>4. c = 0
    BY <1>3, <1>7 DEF Valid
  <2>5. x \in Cluster /\ Next(x) = FREE
    BY <1>7, <2>1, FindsCluster
  <2>6. QED BY <1>1, <1>2, <1>3, <1>7, <2>2, <2>3, <2>4, <2>5, StartsBooks
<1>8. QED BY <1>4, <1>5, <1>6, <1>7

LEMMA StutterBooks ==
  ASSUME NEW own, NEW pos, Owned(own, pos), Books(own, pos), UNCHANGED diskVars
  PROVE  Owned(own, pos)' /\ Books(own, pos)'
<1>1. Owned(own, pos)'
  BY StutterOwned
<1>2. dir' = dir /\ disk' = disk /\ op' = op /\ pend' = pend /\ fat' = fat /\ seen' = seen
  BY DEF diskVars, store, hist
<1>3. Will' = Will /\ Fresh' = Fresh /\ Holder' = Holder /\ Through' = Through /\ Done' = Done
  BY <1>2 DEF Will, Next, Fresh, Holder, Through, Done, Valid
<1>4. Lost(own)' = Lost(own) /\ Stored(own, pos)'
  BY <1>2, <1>3 DEF Lost, Books, Stored
<1>5. QED BY <1>1, <1>2, <1>3, <1>4 DEF Books, NoneOf

LEMMA InitBooks == Init => BookInv
<1> SUFFICES ASSUME Init PROVE BookInv
  OBVIOUS
<1>1. TypeInv /\ OwnInv /\ ~hurt
  BY InitTypes, InitOwn DEF Init
<1>2. PICK own \in Owners, pos \in Places : Owned(own, pos)
  BY <1>1 DEF OwnInv
<1>3. Idle /\ op.pc = "idle" /\ op.kind = "none" /\ seen = Now
  BY NoOpTypes DEF Init, Idle
<1>4. seen.lost = Cardinality(Lost(own))
  BY <1>1, <1>2, <1>3, LostIs DEF Now
<1>5. Books(own, pos)
  BY <1>3, <1>4 DEF Books, Stored, Through
<1>6. QED BY <1>2, <1>5 DEF BookInv

LEMMA HurtGrows ==
  ASSUME [Calls \/ Steps \/ PowerFails]_diskVars, ~hurt'
  PROVE  ~hurt
<1>1. CASE Calls
  BY <1>1 DEF Calls, CreateFile, DeleteFile, RenameFile, WriteFile, OneSector, Begins, Fails, diskVars, hist
<1>2. CASE Steps
  BY <1>2 DEF Steps, WriteFat, WriteData, FreeNext, WriteDirent, hist
<1>3. CASE PowerFails
  BY <1>3 DEF PowerFails
<1>4. QED BY <1>1, <1>2, <1>3 DEF diskVars, hist

LEMMA BookStep ==
  ASSUME TypeInv, TypeInv', BookInv, [Calls \/ Steps \/ PowerFails]_diskVars
  PROVE  BookInv'
<1> SUFFICES ASSUME ~hurt'
             PROVE  \E own2 \in Owners, pos2 \in Places : Owned(own2, pos2)' /\ Books(own2, pos2)'
  BY DEF BookInv
<1>1. PICK own \in Owners, pos \in Places : Owned(own, pos) /\ Books(own, pos)
  BY HurtGrows DEF BookInv
<1>2. CASE UNCHANGED diskVars
  BY <1>1, <1>2, StutterBooks
<1>3. ASSUME NEW own2 \in Owners, NEW pos2 \in Places, Owned(own2, pos2)', op' = NoOp, Settles
      PROVE  Books(own2, pos2)'
  BY <1>3, RestsBooks
<1>4. CASE Calls /\ ~UNCHANGED diskVars
  <2>1. PICK n \in Name :
          CreateFile(n) \/ DeleteFile(n) \/ (\E o \in Name : RenameFile(o, n))
            \/ \E d \in Data : WriteFile(n, d)
    BY <1>4 DEF Calls
  <2>2. CASE CreateFile(n)
    <3>1. Owned(own, pos)'
      BY <1>1, <1>4, <2>2, CreateFileOwned
    <3>2. Idle /\ \E s, e : OneSector(s, e)
      BY <1>4, <2>2 DEF CreateFile, Fails
    <3>3. op' = NoOp /\ Settles
      BY <3>2 DEF OneSector, TypeInv, Busy
    <3>4. QED BY <1>3, <3>1, <3>3
  <2>3. CASE \E o \in Name : RenameFile(o, n)
    <3>1. Owned(own, pos)'
      BY <1>1, <1>4, <2>3, RenameFileOwned
    <3>2. Idle /\ \E s, e : OneSector(s, e)
      BY <1>4, <2>3 DEF RenameFile, Fails
    <3>3. op' = NoOp /\ Settles
      BY <3>2 DEF OneSector, TypeInv, Busy
    <3>4. QED BY <1>3, <3>1, <3>3
  <2>4. CASE DeleteFile(n)
    <3>1. FindSlot(n) # 0
      BY <1>4, <2>4 DEF DeleteFile, Fails
    <3>2. QED BY <1>1, <2>4, <3>1, DeleteFileBooks
  <2>5. CASE \E d \in Data : WriteFile(n, d)
    <3>1. PICK d \in Data : WriteFile(n, d)
      BY <2>5
    <3>2. FindSlot(n) # 0
      BY <1>4, <3>1 DEF WriteFile, Fails
    <3>3. QED BY <1>1, <3>1, <3>2, WriteFileBooks
  <2>6. QED BY <2>1, <2>2, <2>3, <2>4, <2>5
<1>5. CASE WriteFat \/ WriteData \/ FreeNext
  BY <1>1, <1>5, WriteFatBooks, WriteDataBooks, FreeNextBooks
<1>6. CASE WriteDirent
  <2>1. PICK own2 \in Owners, pos2 \in Places : Owned(own2, pos2)'
    BY <1>1, <1>6, WriteDirentOwned
  <2>2. op' = NoOp /\ Settles
    BY <1>6 DEF WriteDirent
  <2>3. QED BY <1>3, <2>1, <2>2
<1>7. CASE PowerFails
  <2>1. PICK own2 \in Owners, pos2 \in Places : Owned(own2, pos2)'
    BY <1>1, <1>7, PowerFailsOwned
  <2>2. op' = NoOp /\ Settles
    BY <1>7 DEF PowerFails
  <2>3. QED BY <1>3, <2>1, <2>2
<1>8. QED BY <1>2, <1>4, <1>5, <1>6, <1>7 DEF Steps

LEMMA BookHolds == Spec => []BookInv
<1>1. TypeInv /\ TypeInv' /\ BookInv /\ [Calls \/ Steps \/ PowerFails]_diskVars => BookInv'
  BY BookStep
<1>2. QED BY <1>1, InitBooks, TypesHold, OnDisk, PTL DEF Spec

----------------------------------------------------------------------------
(* The others are kept.                                                    *)
ChainFact ==
  \A own \in Owners, pos \in Places, s \in Slot :
    TypeInv /\ Owned(own, pos) /\ Live(s) /\ (Idle \/ s # op.slot)
      => IsChain(own, pos, s, Chain(dir[s].cluster))
LEMMA ChainIsKnown == ChainFact
<1> SUFFICES ASSUME NEW own \in Owners, NEW pos \in Places, NEW s \in Slot,
                    TypeInv, Owned(own, pos), Live(s), Idle \/ s # op.slot
             PROVE  IsChain(own, pos, s, Chain(dir[s].cluster))
  BY DEF ChainFact
<1>1. QED BY OwnChain

LEMMA ChainThen ==
  ASSUME TypeInv', NEW own \in Owners, NEW pos \in Places, Owned(own, pos)',
         NEW s \in Slot, Live(s)', Idle' \/ s # op'.slot, NEW ch, ch = Chain(dir[s].cluster)'
  PROVE  IsChain(own, pos, s, ch)
<1>1. ChainFact'
  BY ChainIsKnown, PTL
<1>2. IsChain(own, pos, s, Chain(dir[s].cluster)')
  BY <1>1 DEF ChainFact, IsChain
<1>3. QED BY <1>2

LEMMA FileKept ==
  ASSUME TypeInv, NEW own \in Owners, NEW pos \in Places, Owned(own, pos),
         TypeInv', NEW own2 \in Owners, NEW pos2 \in Places, Owned(own2, pos2)',
         NEW m \in Name, NEW s \in Slot, dir[s].name = m, dir'[s] = dir[s],
         Idle \/ s # op.slot, Idle' \/ s # op'.slot,
         Agree(own, pos, own2, pos2, s),
         \A c \in Cluster : own[c] = s => disk'[c] = disk[c]
  PROVE  Chain(dir[s].cluster)' = Chain(dir[s].cluster) /\ Read(s)' = Read(s)
<1>1. PICK ch : ch = Chain(dir[s].cluster)
  OBVIOUS
<1>2. PICK ch2 : ch2 = Chain(dir[s].cluster)'
  OBVIOUS
<1>3. Live(s) /\ Live(s)'
  BY DEF Live
<1>4. IsChain(own, pos, s, ch)
  BY <1>1, <1>3, OwnChain
<1>5. IsChain(own2, pos2, s, ch2)
  BY <1>2, <1>3, ChainThen
<1>6. ch2 = ch
  BY <1>4, <1>5, SameChain
<1>7. /\ Read(s) = [i \in 1..dir[s].size |-> IF i <= Len(ch) THEN disk[ch[i]] ELSE ZERO]
      /\ Read(s)' = [i \in 1..dir[s].size |-> IF i <= Len(ch) THEN disk'[ch[i]] ELSE ZERO]
  BY <1>1, <1>2, <1>6 DEF Read
<1>8. dir[s].size \in Nat
  <2>1. dir[s].size \in Sizes
    BY DEF TypeInv, Kinds
  <2>2. QED BY <2>1, FatAssumption DEF Sizes
<1>9. ASSUME NEW i \in 1..dir[s].size, i <= Len(ch) PROVE disk'[ch[i]] = disk[ch[i]]
  <2>1. ch \in Seq(Cluster) /\ i \in 1..Len(ch)
    BY <1>4, <1>8, <1>9 DEF IsChain
  <2>2. ch[i] \in Cluster /\ own[ch[i]] = s
    BY <1>4, <2>1 DEF IsChain
  <2>3. QED BY <2>2
<1>10. Read(s)' = Read(s)
  BY <1>7, <1>9
<1>11. QED BY <1>1, <1>2, <1>6, <1>10

LEMMA SameFile ==
  ASSUME NEW m \in Name, NEW s, FindEntry(m) = s, FindEntry(m)' = s,
         s # 0 => /\ Chain(dir[s].cluster)' = Chain(dir[s].cluster)
                  /\ Read(s)' = Read(s)
  PROVE  FilesNow'[m] = FilesNow[m]
<1>1. FilesNow[m] = IF s = 0 THEN NoFile
                    ELSE [data |-> Read(s), held |-> Len(Chain(dir[s].cluster))]
  BY DEF FilesNow
<1>2. FilesNow'[m] = IF s = 0 THEN NoFile
                     ELSE [data |-> Read(s)', held |-> Len(Chain(dir[s].cluster)')]
  BY DEF FilesNow
<1>3. QED BY <1>1, <1>2

LEMMA EntryKept ==
  ASSUME TypeInv, TypeInv', NEW m \in Name,
         \A s \in Slot : dir'[s].name = m <=> dir[s].name = m
  PROVE  FindEntry(m)' = FindEntry(m)
<1>1. {s \in Slot : dir[s].name = m}' = {s \in Slot : dir[s].name = m}
  OBVIOUS
<1>2. QED BY <1>1 DEF FindEntry, Least

(* A step of an operation on op.name.                                      *)
LEMMA OthersKept ==
  ASSUME TypeInv, Names, SeenInv, NEW own \in Owners, NEW pos \in Places, Owned(own, pos), ~Idle,
         TypeInv', NEW own2 \in Owners, NEW pos2 \in Places, Owned(own2, pos2)',
         Idle' \/ op'.slot = op.slot,
         Apart(own, pos, own2, pos2),
         \A s \in Slot \ {op.slot} : dir'[s] = dir[s],
         dir'[op.slot].name \in {op.name, "0xE5"},
         \A c \in Cluster : own[c] \in Slot \ {op.slot} => disk'[c] = disk[c],
         NEW m \in Name \ {op.name}
  PROVE  FilesNow'[m] = FilesNow[m]
<1>1. op.slot \in Slot /\ dir[op.slot].name = op.name /\ m \in Name /\ m # op.name /\ m # "0xE5"
  BY FatAssumption DEF SeenInv, TypeInv, Busy
<1>2. \A s \in Slot : dir'[s].name = m <=> dir[s].name = m
  BY <1>1
<1>3. PICK s : s = FindEntry(m)
  OBVIOUS
<1>4. FindEntry(m)' = s
  BY <1>1, <1>2, <1>3, EntryKept
<1>5. CASE s = 0
  BY <1>1, <1>3, <1>4, <1>5, SameFile
<1>6. CASE s # 0
  <2>1. s \in Slot /\ dir[s].name = m /\ s # op.slot
    BY <1>1, <1>3, <1>6, FindsEntry
  <2>2. dir'[s] = dir[s] /\ Agree(own, pos, own2, pos2, s)
    BY <2>1 DEF Apart
  <2>3. \A c \in Cluster : own[c] = s => disk'[c] = disk[c]
    BY <2>1
  <2>4. Idle' \/ s # op'.slot
    BY <2>1
  <2>5. Chain(dir[s].cluster)' = Chain(dir[s].cluster) /\ Read(s)' = Read(s)
    BY <1>1, <2>1, <2>2, <2>3, <2>4, FileKept
  <2>6. QED BY <1>1, <1>3, <1>4, <2>5, SameFile
<1>7. QED BY <1>5, <1>6

LEMMA OthersStep ==
  ASSUME TypeInv, TypeInv', Names, SeenInv, BookInv, OthersInv, [Calls \/ Steps \/ PowerFails]_diskVars
  PROVE  OthersInv'
<1> SUFFICES ASSUME ~Idle', ~hurt', NEW m \in Name, m # op'.name
             PROVE  FilesNow'[m] = seen'.files[m]
  BY DEF OthersInv
<1>1. PICK own \in Owners, pos \in Places : Owned(own, pos) /\ Books(own, pos)
  BY HurtGrows DEF BookInv
<1>2. ~hurt
  BY HurtGrows
<1>3. CASE WriteFat \/ WriteData \/ FreeNext
  <2>1. /\ dir' = dir /\ seen' = seen /\ ~Idle
        /\ op'.name = op.name /\ op'.slot = op.slot
    <3>1. CASE WriteFat
      BY <3>1 DEF WriteFat, hist, Idle, TypeInv, Busy
    <3>2. CASE WriteData
      <4>1. /\ AfterData(Next(op.cl), Tail(op.rest)) /\ op.pc = "data"
            /\ dir' = dir /\ seen' = seen
        BY <3>2 DEF WriteData, At, hist
      <4>2. \/ op' = GoesOn("free", Next(op.cl), Tail(op.rest))
            \/ op' = GoesOn("data", Next(op.cl), Tail(op.rest))
            \/ op' = GoesOn("data", FreeCluster, Tail(op.rest))
            \/ op' = GoesOn("dirent", Next(op.cl), Tail(op.rest))
        BY <4>1 DEF AfterData
      <4>3. ASSUME NEW p, NEW c, NEW r
            PROVE  /\ GoesOn(p, c, r).name = op.name /\ GoesOn(p, c, r).slot = op.slot
                   /\ GoesOn(p, c, r).data = op.data /\ GoesOn(p, c, r).kind = op.kind
                   /\ GoesOn(p, c, r).pc = p
        BY DEF GoesOn, TypeInv, Kinds
      <4>4. QED BY <4>1, <4>2, <4>3 DEF Idle
    <3>3. CASE FreeNext
      BY <3>3 DEF FreeNext, At, GoesOn, store, hist, Idle, TypeInv, Kinds
    <3>4. QED BY <1>3, <3>1, <3>2, <3>3
  <2>2. PICK own2 \in Owners, pos2 \in Places : Owned(own2, pos2)' /\ Apart(own, pos, own2, pos2)
    BY <1>1, <1>3, WriteFatBooks, WriteDataBooks, FreeNextBooks
  <2>3. dir[op.slot].name = op.name
    BY <2>1 DEF SeenInv
  <2>4. ASSUME NEW c \in Cluster, own[c] \in Slot \ {op.slot} PROVE disk'[c] = disk[c]
    <3>1. CASE WriteFat \/ FreeNext
      BY <3>1 DEF WriteFat, FreeNext, store
    <3>2. CASE WriteData
      <4>1. op.pc = "data" /\ disk' = [disk EXCEPT ![op.cl] = Head(op.rest)]
        BY <3>2 DEF WriteData, At
      <4>2. own[op.cl] = Holder
        BY <1>1, <4>1 DEF Owned, Working
      <4>3. c # op.cl
        BY <2>4, <4>2, Numbers DEF Holder
      <4>4. QED BY <4>1, <4>3 DEF TypeInv, Kinds
    <3>3. QED BY <1>3, <3>1, <3>2
  <2>5. FilesNow'[m] = FilesNow[m]
    BY <1>1, <2>1, <2>2, <2>3, <2>4, OthersKept
  <2>6. FilesNow[m] = seen.files[m]
    BY <1>2, <2>1 DEF OthersInv
  <2>7. QED BY <2>1, <2>5, <2>6
<1>4. CASE Calls
  <2>1. Idle /\ store' = store /\ seen' = seen
    <3>1. PICK n \in Name :
            CreateFile(n) \/ DeleteFile(n) \/ (\E o \in Name : RenameFile(o, n))
              \/ \E d \in Data : WriteFile(n, d)
      BY <1>4 DEF Calls
    <3>2. Idle
      BY <3>1 DEF CreateFile, DeleteFile, RenameFile, WriteFile
    <3>3. ASSUME NEW s, NEW e, OneSector(s, e) PROVE FALSE
      BY <3>2, <3>3 DEF OneSector, Idle
    <3>4. UNCHANGED diskVars \/ \E o, p : Begins(o, p)
      BY <3>1, <3>3 DEF CreateFile, DeleteFile, RenameFile, WriteFile, Fails
    <3>5. QED BY <3>2, <3>4 DEF Begins, diskVars, hist
  <2>2. FilesNow' = FilesNow /\ seen.files = FilesNow
    BY <2>1, SameStore DEF SeenInv, Now
  <2>3. QED BY <2>1, <2>2
<1>5. CASE UNCHANGED diskVars
  <2>1. op' = op /\ store' = store /\ seen' = seen
    BY <1>5 DEF diskVars, hist
  <2>2. FilesNow' = FilesNow
    BY <2>1, SameStore
  <2>3. QED BY <1>2, <2>1, <2>2 DEF OthersInv, Idle
<1>6. CASE WriteDirent \/ PowerFails
  BY <1>6, NoOpTypes DEF WriteDirent, PowerFails, Idle
<1>7. QED BY <1>3, <1>4, <1>5, <1>6 DEF Steps

LEMMA InitOthers == Init => OthersInv
BY NoOpTypes DEF Init, OthersInv, Idle

LEMMA OthersHold == Spec => []OthersInv
<1>1. TypeInv /\ TypeInv' /\ Names /\ SeenInv /\ BookInv /\ OthersInv
        /\ [Calls \/ Steps \/ PowerFails]_diskVars => OthersInv'
  BY OthersStep
<1>2. QED BY <1>1, InitOthers, TypesHold, NamesHold, SeenHolds, BookHolds, OnDisk, PTL DEF Spec

----------------------------------------------------------------------------
(* Every step is one of Files.  First what a state after a step holds.     *)
EntryFact ==
  \A m : /\ FindEntry(m) = 0 <=> \A s \in Slot : dir[s].name # m
         /\ FindEntry(m) # 0 => FindEntry(m) \in Slot /\ dir[FindEntry(m)].name = m
LEMMA EntryIsKnown == EntryFact
BY FindsEntry DEF EntryFact

LEMMA EntryThen ==
  ASSUME NEW m
  PROVE  /\ (\A s \in Slot : dir'[s].name # m) => FindEntry(m)' = 0
         /\ \A s \in Slot : Names' /\ m \in Name /\ dir'[s].name = m => FindEntry(m)' = s
<1>1. EntryFact'
  BY EntryIsKnown, PTL
<1>2. PICK t : t = FindEntry(m)'
  OBVIOUS
<1>3. /\ t = 0 <=> \A s \in Slot : dir'[s].name # m
      /\ t # 0 => t \in Slot /\ dir'[t].name = m
  BY <1>1, <1>2 DEF EntryFact
<1>4. ASSUME NEW s \in Slot, Names', m \in Name, dir'[s].name = m PROVE t = s
  BY <1>3, <1>4 DEF Names, Once, Live
<1>5. QED BY <1>2, <1>3, <1>4

FileFact ==
  \A n \in Name :
    TypeInv /\ FindEntry(n) # 0 =>
      /\ FilesNow[n] \in File
      /\ Len(FilesNow[n].data) = dir[FindEntry(n)].size
LEMMA FileIsKnown == FileFact
<1> SUFFICES ASSUME NEW n \in Name, TypeInv, FindEntry(n) # 0
             PROVE  /\ FilesNow[n] \in File
                    /\ Len(FilesNow[n].data) = dir[FindEntry(n)].size
  BY DEF FileFact
<1>1. QED BY FilesTyped

LEMMA FileThen ==
  ASSUME NEW m \in Name, NEW s, FindEntry(m)' = s
  PROVE  FilesNow'[m] = IF s = 0 THEN NoFile
                        ELSE [data |-> Read(s)', held |-> Len(Chain(dir[s].cluster)')]
BY DEF FilesNow

LEMMA SameAtEntry ==
  ASSUME fat' = fat, disk' = disk, NEW s,
         dir'[s].cluster = dir[s].cluster, dir'[s].size = dir[s].size
  PROVE  Chain(dir[s].cluster)' = Chain(dir[s].cluster) /\ Read(s)' = Read(s)
<1>1. Chain(dir[s].cluster)' = Chain(dir[s].cluster)
  BY DEF Chain, Walk, After, Next
<1>2. QED BY <1>1 DEF Read

LEMMA OneChanged ==
  ASSUME NEW S, NEW f \in [Name -> S], NEW g \in [Name -> S], NEW n \in Name, NEW v, g[n] = v,
         \A m \in Name \ {n} : g[m] = f[m]
  PROVE  g = [f EXCEPT ![n] = v]
OBVIOUS

(* The step ends nothing, and no cluster is lost.                          *)
LEMMA NothingLost ==
  ASSUME NEW own, NEW pos, Books(own, pos),
         TypeInv', op' = NoOp, Settles,
         NEW own2 \in Owners, NEW pos2 \in Places, Owned(own2, pos2)', Lost(own2)' = Lost(own)
  PROVE  seen'.lost = seen.lost
<1>1. Cardinality(Lost(own)) = seen.lost
  BY DEF Books
<1>2. LostNow' = Cardinality(Lost(own2)')
  BY RestsBooks
<1>3. seen'.lost = LostNow'
  BY DEF Settles, Now
<1>4. QED BY <1>1, <1>2, <1>3

(* A sector of the directory is written between operations.                *)
LEMMA OneSectorKeeps ==
  ASSUME TypeInv, TypeInv', Idle, SeenInv, NEW own \in Owners, NEW pos \in Places,
         Owned(own, pos), Books(own, pos), NEW s \in Slot, NEW e, OneSector(s, e), Owned(own, pos)'
  PROVE  /\ seen'.lost = seen.lost /\ hurt' = hurt
         /\ seen.files = FilesNow /\ seen'.files = FilesNow'
         /\ seen.files \in [Name -> File \cup {NoFile}] /\ seen'.files \in [Name -> File \cup {NoFile}]
         /\ \A m \in Name : dir[s].name # m /\ e.name # m => FilesNow'[m] = FilesNow[m]
<1>1. op = NoOp /\ op' = NoOp /\ pend = <<>> /\ pend' = <<>> /\ Settles /\ fat' = fat /\ disk' = disk
      /\ hurt' = hurt
  BY DEF OneSector, TypeInv, Busy
<1>2. Will' = Will
  BY <1>1 DEF Will, Next
<1>3. Lost(own)' = Lost(own)
  BY <1>2 DEF Lost
<1>4. seen'.lost = seen.lost
  BY <1>1, <1>3, NothingLost
<1>5. SeenInv'
  BY <1>1, SettlesSeen, NoOpTypes DEF Idle
<1>6. seen.files = FilesNow /\ seen'.files = FilesNow'
  BY <1>1 DEF Settles, Now, SeenInv
<1>7. \A t \in Slot : dir'[t] = IF t = s THEN e ELSE dir[t]
  BY DEF OneSector, TypeInv, Kinds
<1>8. ASSUME NEW m \in Name, dir[s].name # m, e.name # m PROVE FilesNow'[m] = FilesNow[m]
  <2>1. PICK t : t = FindEntry(m)
    OBVIOUS
  <2>2. FindEntry(m)' = t
    BY <1>7, <1>8, <2>1, EntryKept
  <2>3. t # 0 => t \in Slot /\ dir'[t] = dir[t]
    BY <1>7, <1>8, <2>1, FindsEntry
  <2>4. t # 0 => Chain(dir[t].cluster)' = Chain(dir[t].cluster) /\ Read(t)' = Read(t)
    BY <1>1, <2>3, SameAtEntry
  <2>5. QED BY <2>1, <2>2, <2>4, SameFile
<1>9. QED BY <1>1, <1>4, <1>5, <1>6, <1>8 DEF SeenInv

LEMMA CreateFileIs ==
  ASSUME TypeInv, TypeInv', Names', SeenInv, BookInv, ~hurt, NEW n \in Name, CreateFile(n)
  PROVE  A!Create(n) \/ UNCHANGED diskVars
<1>1. CASE FindEntry(n) # 0 \/ FreeSlot = 0
  BY <1>1 DEF CreateFile, Fails
<1>2. CASE ~(FindEntry(n) # 0 \/ FreeSlot = 0) /\ ~UNCHANGED diskVars
  <2>1. PICK s, e : s = FreeSlot /\ e = Entry(n, 0, 0)
    OBVIOUS
  <2>2. OneSector(s, e) /\ Idle
    BY <1>2, <2>1 DEF CreateFile
  <2>3. s \in Slot /\ ~Live(s) /\ e.name = n /\ e.cluster = 0 /\ e.size = 0
    BY <1>2, <2>1, FindsFree DEF Entry
  <2>4. PICK own \in Owners, pos \in Places : Owned(own, pos) /\ Books(own, pos)
    BY DEF BookInv
  <2>5. Owned(own, pos)'
    BY <1>2, <2>4, CreateFileOwned
  <2>6. /\ seen'.lost = seen.lost /\ hurt' = hurt
        /\ seen.files = FilesNow /\ seen'.files = FilesNow'
        /\ seen.files \in [Name -> File \cup {NoFile}] /\ seen'.files \in [Name -> File \cup {NoFile}]
        /\ \A m \in Name \ {n} : FilesNow'[m] = FilesNow[m]
    <3>1. \A m \in Name : dir[s].name # m
      BY <2>3 DEF Live
    <3>2. QED BY <2>2, <2>3, <2>4, <2>5, <3>1, OneSectorKeeps
  <2>7. FilesNow[n] = NoFile
    BY <1>2, FilesTyped
  <2>8. dir'[s] = e /\ op' = NoOp
    BY <2>2, <2>3 DEF OneSector, TypeInv, Kinds, Busy
  <2>9. FindEntry(n)' = s /\ s # 0
    BY <2>3, <2>8, EntryThen, Numbers
  <2>10. PICK ch : ch = Chain(dir[s].cluster)'
    OBVIOUS
  <2>11. IsChain(own, pos, s, ch)
    <3>1. Live(s)' /\ Idle'
      BY <2>3, <2>8, NoOpTypes DEF Live, Idle
    <3>2. QED BY <2>3, <2>5, <2>10, <3>1, ChainThen
  <2>12. \A c \in Cluster : own[c] # s
    BY <2>3, <2>5, <2>8 DEF Owned, Rooted, Has
  <2>13. Len(ch) = 0
    <3>1. Len(ch) \in Nat /\ (Len(ch) # 0 => 1 \in 1..Len(ch) /\ ch[1] \in Cluster /\ own[ch[1]] = s)
      BY <2>11 DEF IsChain
    <3>2. QED BY <2>12, <3>1
  <2>14. Read(s)' = <<>>
    <3>1. Read(s)' = [i \in 1..0 |-> IF i <= Len(ch) THEN disk'[ch[i]] ELSE ZERO]
      BY <2>3, <2>8, <2>10 DEF Read
    <3>2. QED BY <3>1
  <2>15. FilesNow'[n] = [data |-> <<>>, held |-> 0]
    BY <2>9, <2>10, <2>13, <2>14, FileThen
  <2>16. seen'.files = [seen.files EXCEPT ![n] = [data |-> <<>>, held |-> 0]]
    BY <2>6, <2>15, OneChanged
  <2>17. QED BY <2>6, <2>7, <2>16 DEF A!Create, A!Becomes
<1>3. QED BY <1>1, <1>2

LEMMA RenameFileIs ==
  ASSUME TypeInv, TypeInv', Names, Names', SeenInv, BookInv, ~hurt,
         NEW o \in Name, NEW n \in Name, RenameFile(o, n)
  PROVE  A!Rename(o, n) \/ UNCHANGED diskVars
<1>1. CASE FindEntry(n) # 0 \/ FindSlot(o) = 0
  BY <1>1 DEF RenameFile, Fails
<1>2. CASE ~(FindEntry(n) # 0 \/ FindSlot(o) = 0) /\ ~UNCHANGED diskVars
  <2>1. PICK s, e : s = FindSlot(o) /\ e = [dir[s] EXCEPT !.name = n]
    OBVIOUS
  <2>2. OneSector(s, e) /\ Idle
    BY <1>2, <2>1 DEF RenameFile
  <2>3. s \in Slot /\ dir[s].name = o /\ s # 0
    BY <1>2, <2>1, FindsSlot, Numbers
  <2>4. e.name = n /\ e.cluster = dir[s].cluster /\ e.size = dir[s].size
    BY <2>1, <2>3 DEF TypeInv, Kinds
  <2>5. PICK own \in Owners, pos \in Places : Owned(own, pos) /\ Books(own, pos)
    BY DEF BookInv
  <2>6. Owned(own, pos)'
    BY <1>2, <2>5, RenameFileOwned
  <2>7. /\ seen'.lost = seen.lost /\ hurt' = hurt
        /\ seen.files = FilesNow /\ seen'.files = FilesNow'
        /\ seen.files \in [Name -> File \cup {NoFile}] /\ seen'.files \in [Name -> File \cup {NoFile}]
        /\ \A m \in Name \ {n, o} : FilesNow'[m] = FilesNow[m]
    BY <2>2, <2>3, <2>4, <2>5, <2>6, OneSectorKeeps
  <2>8. \A t \in Slot : dir[t].name # n
    BY <1>2, FindsEntry
  <2>9. FilesNow[n] = NoFile /\ n # o
    BY <1>2, <2>3, <2>8, FilesTyped
  <2>10. FindEntry(o) = s
    <3>1. FindEntry(o) # 0 /\ FindEntry(o) \in Slot /\ dir[FindEntry(o)].name = o
      BY <2>3, FindsEntry
    <3>2. QED BY <2>3, <3>1 DEF Names, Once, Live
  <2>11. /\ FilesNow[o] = [data |-> Read(s), held |-> Len(Chain(dir[s].cluster))]
         /\ FilesNow[o] # NoFile
    BY <2>3, <2>10, FilesTyped
  <2>12. \A t \in Slot : dir'[t] = IF t = s THEN e ELSE dir[t]
    BY <2>2 DEF OneSector, TypeInv, Kinds
  <2>13. FindEntry(n)' = s
    BY <2>3, <2>4, <2>12, EntryThen
  <2>14. FindEntry(o)' = 0
    <3>1. ASSUME NEW t \in Slot PROVE dir'[t].name # o
      BY <2>3, <2>4, <2>9, <2>12 DEF Names, Once, Live
    <3>2. QED BY <3>1, EntryThen
  <2>15. FilesNow'[o] = NoFile
    BY <2>14, FileThen
  <2>16. FilesNow'[n] = FilesNow[o]
    <3>1. fat' = fat /\ disk' = disk
      BY <2>2 DEF OneSector
    <3>2. Chain(dir[s].cluster)' = Chain(dir[s].cluster) /\ Read(s)' = Read(s)
      BY <2>3, <2>4, <2>12, <3>1, SameAtEntry
    <3>3. FilesNow'[n] = [data |-> Read(s)', held |-> Len(Chain(dir[s].cluster)')]
      BY <2>3, <2>13, FileThen
    <3>4. QED BY <2>11, <3>2, <3>3
  <2>17. seen'.files = [seen.files EXCEPT ![n] = seen.files[o], ![o] = NoFile]
    <3>1. PICK f, g : f = seen.files /\ g = seen'.files
      OBVIOUS
    <3>2. /\ f \in [Name -> File \cup {NoFile}] /\ g \in [Name -> File \cup {NoFile}]
          /\ g[n] = f[o] /\ g[o] = NoFile /\ \A m \in Name \ {n, o} : g[m] = f[m]
      BY <2>7, <2>15, <2>16, <3>1
    <3>3. g = [f EXCEPT ![n] = f[o], ![o] = NoFile]
      BY <2>9, <3>2
    <3>4. QED BY <3>1, <3>3
  <2>18. QED BY <2>7, <2>9, <2>11, <2>17 DEF A!Rename
<1>3. QED BY <1>1, <1>2

(* The last step of an operation.                                          *)
LEMMA WriteDirentKeeps ==
  ASSUME TypeInv, TypeInv', Names, SeenInv, OthersInv, ~hurt, WriteDirent,
         NEW own \in Owners, NEW pos \in Places, Owned(own, pos), Books(own, pos)
  PROVE  \E own2 \in Owners :
           /\ Owned(own2, pos)'
           /\ op.kind = "write" => \A c \in Cluster : own2[c] = op.slot <=> own[c] = Holder
           /\ seen'.lost = seen.lost /\ hurt' = hurt
           /\ seen'.files = FilesNow'
           /\ \A m \in Name \ {op.name} : FilesNow'[m] = seen.files[m]
<1>1. /\ op.pc = "dirent" /\ ~Idle /\ pend = <<>> /\ op' = NoOp /\ pend' = <<>>
      /\ fat' = fat /\ disk' = disk /\ hurt' = hurt /\ Settles
  BY DEF WriteDirent, At, Idle
<1>2. PICK own2 \in Owners :
        /\ Owned(own2, pos)'
        /\ own2 = Given(own, InHand, IF Fresh /\ op.start # 0 THEN op.slot ELSE 0)
  BY WriteDirentOwned
<1>3. PICK s : s = op.slot
  OBVIOUS
<1>4. /\ s \in Slot /\ Live(s) /\ s # 0 /\ s # InHand /\ InHand # 0 /\ InHand \notin Slot
      /\ op.kind \in {"write", "delete"}
  BY <1>1, <1>3, Numbers DEF TypeInv, Busy
<1>5. ~(Fresh /\ op.start # 0) => \A c \in Cluster : own[c] # InHand
  BY <1>1 DEF Books, Through, Owned, Working, NoneOf
<1>6. \A c \in Cluster : own2[c] = IF own[c] = InHand THEN s ELSE own[c]
  BY <1>2, <1>3, <1>5 DEF Given
<1>7. op.kind = "write" => \A c \in Cluster : own2[c] = s <=> own[c] = Holder
  <2>1. CASE Fresh
    <3>1. ~Has(s) /\ Holder = InHand
      BY <1>3, <2>1 DEF Fresh, Has, Holder
    <3>2. \A c \in Cluster : own[c] # s
      BY <1>4, <3>1 DEF Owned, Rooted
    <3>3. QED BY <1>6, <3>1, <3>2
  <2>2. CASE ~Fresh
    BY <1>3, <1>5, <1>6, <2>2 DEF Holder
  <2>3. QED BY <2>1, <2>2
<1>8. Will' = Will
  BY <1>1 DEF Will, Next
<1>9. Lost(own2)' = Lost(own)
  BY <1>4, <1>6, <1>8 DEF Lost
<1>10. seen'.lost = seen.lost
  BY <1>1, <1>2, <1>9, NothingLost
<1>11. seen'.files = FilesNow'
  BY <1>1 DEF Settles, Now
<1>12. Apart(own, pos, own2, pos)
  BY <1>3, <1>4, <1>6 DEF Apart, Agree
<1>13. /\ \A t \in Slot \ {s} : dir'[t] = dir[t]
       /\ dir'[s].name \in {op.name, "0xE5"}
  <2>1. dir' = [dir EXCEPT ![s] = IF op.kind = "delete" THEN DELETED
                                  ELSE Entry(dir[s].name, op.start, Len(op.data))]
    BY <1>3 DEF WriteDirent
  <2>2. dir[s].name = op.name
    BY <1>1, <1>3 DEF SeenInv
  <2>3. QED BY <1>4, <2>1, <2>2 DEF TypeInv, Kinds, DELETED, Entry
<1>14. ASSUME NEW m \in Name \ {op.name} PROVE FilesNow'[m] = seen.files[m]
  <2>1. Idle'
    BY <1>1, NoOpTypes DEF Idle
  <2>2. FilesNow'[m] = FilesNow[m]
    BY <1>1, <1>2, <1>3, <1>12, <1>13, <2>1, OthersKept
  <2>3. QED BY <1>1, <2>2 DEF OthersInv
<1>15. QED BY <1>1, <1>2, <1>3, <1>7, <1>10, <1>11, <1>14

LEMMA DeleteIs ==
  ASSUME TypeInv, TypeInv', Names, SeenInv, SeenInv', BookInv, OthersInv, ~hurt,
         WriteDirent, op.kind = "delete"
  PROVE  op.name \in Name /\ A!Delete(op.name)
<1>1. PICK own \in Owners, pos \in Places : Owned(own, pos) /\ Books(own, pos)
  BY DEF BookInv
<1>2. /\ seen'.lost = seen.lost /\ hurt' = hurt /\ seen'.files = FilesNow'
      /\ \A m \in Name \ {op.name} : FilesNow'[m] = seen.files[m]
  BY <1>1, WriteDirentKeeps
<1>3. PICK n, s : n = op.name /\ s = op.slot
  OBVIOUS
<1>4. /\ ~Idle /\ n \in Name /\ s \in Slot /\ dir[s].name = n /\ seen.files[n] # NoFile
  BY <1>3, FatAssumption DEF WriteDirent, At, Idle, SeenInv, TypeInv, Busy, File
<1>5. \A t \in Slot : dir'[t] = IF t = s THEN DELETED ELSE dir[t]
  BY <1>3, <1>4 DEF WriteDirent, TypeInv, Kinds
<1>6. ASSUME NEW t \in Slot PROVE dir'[t].name # n
  BY <1>4, <1>5, Marked DEF Names, Once, Live
<1>7. FilesNow'[n] = NoFile
  BY <1>4, <1>6, EntryThen, FileThen
<1>8. seen'.files = [seen.files EXCEPT ![n] = NoFile]
  BY <1>2, <1>3, <1>4, <1>7, OneChanged DEF SeenInv
<1>9. QED BY <1>2, <1>3, <1>4, <1>8 DEF A!Delete, A!Becomes

CountFact ==
  \A own \in Owners, pos \in Places, s \in Slot :
    TypeInv /\ Names /\ Idle /\ Owned(own, pos) /\ Live(s) =>
      Cardinality(Cluster) - LostNow - Cardinality(OthersNow(dir[s].name))
        = Len(Chain(dir[s].cluster)) + Cardinality({c \in Cluster : Next(c) = FREE})
LEMMA CountIsKnown == CountFact
<1> SUFFICES ASSUME NEW own \in Owners, NEW pos \in Places, NEW s \in Slot,
                    TypeInv, Names, Idle, Owned(own, pos), Live(s)
             PROVE  Cardinality(Cluster) - LostNow - Cardinality(OthersNow(dir[s].name))
                      = Len(Chain(dir[s].cluster)) + Cardinality({c \in Cluster : Next(c) = FREE})
  BY DEF CountFact
<1>1. QED BY AllCounted

LEMMA OthersSeen ==
  ASSUME NEW n \in Name, \A m \in Name \ {n} : FilesNow'[m] = seen.files[m]
  PROVE  A!Others(n) = OthersNow(n)'
<1>1. \A m \in Name \ {n} :
        A!Held(m) = IF FilesNow'[m] = NoFile THEN 0 ELSE FilesNow'[m].held
  BY DEF A!Held
<1>2. QED BY <1>1 DEF A!Others, OthersNow

(* As much is stored as there is room for.                                 *)
LEMMA WriteIs ==
  ASSUME TypeInv, TypeInv', Names, Names', SeenInv, SeenInv', BookInv, OthersInv, ~hurt,
         WriteDirent, op.kind = "write"
  PROVE  op.name \in Name /\ op.data \in Data /\ A!Write(op.name, op.data)
<1>1. PICK own \in Owners, pos \in Places : Owned(own, pos) /\ Books(own, pos)
  BY DEF BookInv
<1>2. PICK own2 \in Owners :
        /\ Owned(own2, pos)' /\ \A c \in Cluster : own2[c] = op.slot <=> own[c] = Holder
        /\ seen'.lost = seen.lost /\ hurt' = hurt /\ seen'.files = FilesNow'
        /\ \A m \in Name \ {op.name} : FilesNow'[m] = seen.files[m]
  BY <1>1, WriteDirentKeeps
<1>3. PICK n, s, d, r : n = op.name /\ s = op.slot /\ d = op.data /\ r = op.rest
  OBVIOUS
<1>4. /\ ~Idle /\ op.pc = "dirent" /\ pend = <<>> /\ n \in Name /\ d \in Data
      /\ s \in Slot /\ s # 0 /\ dir[s].name = n /\ seen.files[n] # NoFile
      /\ op' = NoOp /\ fat' = fat /\ disk' = disk /\ Idle'
  BY <1>3, NoOpTypes, Numbers, FatAssumption
     DEF WriteDirent, At, Idle, SeenInv, TypeInv, Busy, File
<1>5. d \in Seq(Chunk) /\ r \in Seq(Chunk) /\ Len(d) \in Nat /\ Len(r) \in Nat
  BY <1>3, <1>4, FatAssumption DEF TypeInv, Kinds
<1>6. /\ Len(r) <= Len(d) /\ Done = Len(d) - Len(r) /\ Done \in Nat
      /\ \A c \in Cluster : own[c] = Holder => pos[c] < Done /\ disk[c] = d[pos[c] + 1]
      /\ Done > 0 => \E c \in Cluster : own[c] = Holder /\ pos[c] = Done - 1
      /\ r # <<>> => \A c \in Cluster : Will[c] # FREE
  <2>1. Done = Len(d) - Len(r)
    BY <1>3 DEF Done
  <2>2. /\ Len(r) <= Len(d)
        /\ \A c \in Cluster : own[c] = Holder /\ pos[c] < Done => disk[c] = d[pos[c] + 1]
        /\ \A c \in Cluster : own[c] = Holder => pos[c] < Done
        /\ Done > 0 => \E c \in Cluster : own[c] = Holder /\ pos[c] = Done - 1
        /\ r # <<>> => \A c \in Cluster : Will[c] # FREE
    BY <1>1, <1>3, <1>4 DEF Books, Stored
  <2>3. Done \in Nat
    BY <1>5, <2>1, <2>2
  <2>4. QED BY <2>1, <2>2, <2>3
<1>7. /\ dir'[s].name = n /\ dir'[s].size = Len(d)
  <2>1. dir'[s] = Entry(n, op.start, Len(d))
    BY <1>3, <1>4 DEF WriteDirent, TypeInv, Kinds
  <2>2. QED BY <2>1 DEF Entry
<1>8. PICK ch : ch = Chain(dir[s].cluster)'
  OBVIOUS
<1>9. IsChain(own2, pos, s, ch) /\ Live(s)'
  <2>1. Live(s)'
    BY <1>4, <1>7 DEF Live
  <2>2. QED BY <1>2, <1>4, <1>8, <2>1, ChainThen
<1>10. /\ ch \in Seq(Cluster) /\ Len(ch) \in Nat
       /\ \A i \in 1..Len(ch) : own[ch[i]] = Holder /\ pos[ch[i]] = i - 1 /\ ch[i] \in Cluster
       /\ \A c \in Cluster : own[c] = Holder => pos[c] + 1 \in 1..Len(ch)
  BY <1>2, <1>3, <1>9 DEF IsChain
<1>11. Len(ch) = Done
  <2>1. Len(ch) <= Done
    <3> SUFFICES ASSUME Len(ch) > Done PROVE FALSE
      BY <1>6, <1>10
    <3>1. Len(ch) \in 1..Len(ch)
      BY <1>6, <1>10
    <3>2. pos[ch[Len(ch)]] = Len(ch) - 1 /\ pos[ch[Len(ch)]] < Done
      BY <1>6, <1>10, <3>1
    <3>3. QED BY <1>6, <1>10, <3>2
  <2>2. Done <= Len(ch)
    <3>1. CASE Done > 0
      <4>1. PICK c \in Cluster : own[c] = Holder /\ pos[c] = Done - 1
        BY <1>6, <3>1
      <4>2. QED BY <1>6, <1>10, <4>1
    <3>2. QED BY <1>6, <1>10, <3>1
  <2>3. QED BY <1>6, <1>10, <2>1, <2>2
<1>12. Read(s)' = [i \in 1..Len(d) |-> IF i <= Done THEN d[i] ELSE ZERO]
  <2>1. Read(s)' = [i \in 1..Len(d) |-> IF i <= Len(ch) THEN disk[ch[i]] ELSE ZERO]
    BY <1>4, <1>7, <1>8 DEF Read
  <2>2. ASSUME NEW i \in 1..Len(d), i <= Done PROVE disk[ch[i]] = d[i]
    <3>1. i \in 1..Len(ch)
      BY <1>5, <1>6, <1>11, <2>2
    <3>2. ch[i] \in Cluster /\ own[ch[i]] = Holder /\ pos[ch[i]] = i - 1
      BY <1>10, <3>1
    <3>3. disk[ch[i]] = d[i - 1 + 1]
      BY <1>6, <3>2
    <3>4. QED BY <1>5, <3>3
  <2>3. QED BY <1>11, <2>1, <2>2
<1>13. FindEntry(n)' = s
  BY <1>4, <1>7, EntryThen
<1>14. FilesNow'[n] = [data |-> [i \in 1..Len(d) |-> IF i <= Done THEN d[i] ELSE ZERO], held |-> Done]
  BY <1>4, <1>8, <1>11, <1>12, <1>13, FileThen
<1>15. PICK F : F = {c \in Cluster : Next(c) = FREE}
  OBVIOUS
<1>16. A!Room(n) = Done + Cardinality(F) /\ Cardinality(F) \in Nat
  <2>1. CountFact'
    BY CountIsKnown, PTL
  <2>2. {c \in Cluster : Next(c) = FREE}' = F
    BY <1>4, <1>15 DEF Next
  <2>3. Cardinality(Cluster) - LostNow' - Cardinality(OthersNow(dir[s].name)')
          = Len(Chain(dir[s].cluster)') + Cardinality({c \in Cluster : Next(c) = FREE}')
    BY <1>2, <1>4, <1>9, <2>1 DEF CountFact
  <2>4. OthersNow(dir[s].name)' = OthersNow(n)'
    BY <1>7 DEF OthersNow
  <2>5. OthersNow(n)' = A!Others(n)
    BY <1>2, <1>3, <1>4, OthersSeen
  <2>6. LostNow' = seen.lost
    BY <1>2, <1>4 DEF WriteDirent, Settles, Now
  <2>7. Cardinality(F) \in Nat
    BY <1>15, Clusters
  <2>8. A!Room(n) = Cardinality(Cluster) - seen.lost - Cardinality(A!Others(n))
    BY DEF A!Room, A!Cardinality, Cardinality
  <2>9. Cardinality(Cluster) - seen.lost - Cardinality(A!Others(n)) = Len(ch) + Cardinality(F)
    BY <1>8, <2>2, <2>3, <2>4, <2>5, <2>6
  <2>10. QED BY <1>11, <2>7, <2>8, <2>9
<1>17. A!Smaller(Len(d), A!Room(n)) = Done
  <2>1. CASE r = <<>>
    <3>1. Done = Len(d)
      BY <1>5, <1>6, <2>1
    <3>2. QED BY <1>5, <1>16, <3>1 DEF A!Smaller
  <2>2. CASE r # <<>>
    <3>1. F = {}
      BY <1>4, <1>6, <1>15, <2>2, WillNow
    <3>2. Cardinality(F) = 0
      BY <3>1, FS_EmptySet
    <3>3. A!Room(n) = Done
      BY <1>6, <1>16, <3>2
    <3>4. Len(r) # 0
      BY <1>5, <2>2
    <3>5. QED BY <1>5, <1>6, <3>3, <3>4 DEF A!Smaller
  <2>3. QED BY <2>1, <2>2
<1>18. seen'.files = [seen.files EXCEPT ![n] =
         [data |-> [i \in 1..Len(d) |-> IF i <= Done THEN d[i] ELSE ZERO], held |-> Done]]
  BY <1>2, <1>3, <1>4, <1>14, OneChanged DEF SeenInv
<1>19. A!Write(n, d)
  BY <1>2, <1>4, <1>17, <1>18 DEF A!Write, A!Becomes
<1>20. QED BY <1>3, <1>4, <1>19

LEMMA CutIs ==
  ASSUME TypeInv, TypeInv', Names, Names', SeenInv, SeenInv', BookInv, OthersInv,
         PowerFails, ~hurt'
  PROVE  op.name \in Name /\ A!Cut(op.name)
<1>1. /\ ~hurt /\ ~Idle /\ op' = NoOp /\ pend' = <<>> /\ dir' = dir /\ fat' = fat /\ disk' = disk
      /\ Settles /\ Idle'
  BY NoOpTypes DEF PowerFails, store, Idle
<1>2. PICK own \in Owners, pos \in Places : Owned(own, pos) /\ Books(own, pos)
  BY <1>1 DEF BookInv
<1>3. PICK own2 \in Owners : Owned(own2, pos)' /\ OnlyMine(own, own2)
  BY <1>2, PowerFailsOwned
<1>4. PICK n, s : n = op.name /\ s = op.slot
  OBVIOUS
<1>5. /\ n \in Name /\ s \in Slot /\ s # 0 /\ s # InHand /\ InHand # 0 /\ InHand \notin Slot
      /\ dir[s].name = n
      /\ seen.files[n] # NoFile /\ Len(seen.files[n].data) = dir[s].size
  BY <1>1, <1>4, Numbers, FatAssumption DEF SeenInv, TypeInv, Busy, File
<1>6. seen'.files = FilesNow' /\ seen'.lost = LostNow'
  BY <1>1 DEF Settles, Now
<1>7. ASSUME NEW m \in Name \ {n} PROVE FilesNow'[m] = seen.files[m]
  <2>1. Apart(own, pos, own2, pos)
    BY <1>4, <1>5, <1>3, Numbers DEF OnlyMine, Apart, Agree
  <2>2. FilesNow'[m] = FilesNow[m]
    BY <1>1, <1>2, <1>3, <1>4, <1>5, <2>1, OthersKept
  <2>3. QED BY <1>1, <1>4, <2>2 DEF OthersInv
<1>8. FindEntry(n)' = s
  BY <1>1, <1>5, EntryThen
<1>9. FilesNow'[n] = [data |-> Read(s)', held |-> Len(Chain(dir[s].cluster)')]
  BY <1>5, <1>8, FileThen
<1>10. dir[s].size \in Nat
  <2>1. dir[s].size \in Sizes
    BY <1>5 DEF TypeInv, Kinds
  <2>2. QED BY <2>1, FatAssumption DEF Sizes
<1>11. FilesNow'[n] # NoFile /\ Len(FilesNow'[n].data) = dir[s].size
  <2>1. FileFact'
    BY FileIsKnown, PTL
  <2>2. QED BY <1>1, <1>5, <1>8, <2>1, FatAssumption DEF FileFact, File
<1>12. LostNow' \in seen.lost..Cardinality(Cluster)
  <2>1. LostNow' = Cardinality(Lost(own2)') /\ Cardinality(Lost(own)) = seen.lost
    BY <1>1, <1>2, <1>3, RestsBooks DEF Books
  <2>2. PICK K, L : K = Lost(own) /\ L = Lost(own2)'
    OBVIOUS
  <2>3. K \subseteq Cluster /\ L \subseteq Cluster
    BY <2>2 DEF Lost
  <2>4. ASSUME NEW c \in K PROVE c \in L
    <3>1. c \in Cluster /\ own[c] = 0 /\ Will[c] # FREE
      BY <2>2 DEF Lost
    <3>2. own2[c] = 0
      BY <1>3, <1>4, <1>5, <3>1 DEF OnlyMine
    <3>3. own[c] # Holder
      BY <1>4, <1>5, <3>1 DEF Holder
    <3>4. Will[c] = Next(c)
      BY <1>2, <3>1, <3>3, OthersWritten
    <3>5. Will'[c] = Next(c)
      BY <1>1, <3>1 DEF Will, Next
    <3>6. QED BY <2>2, <3>1, <3>2, <3>4, <3>5 DEF Lost
  <2>5. /\ IsFiniteSet(L) /\ Cardinality(K) \in Nat /\ Cardinality(L) \in Nat
        /\ Cardinality(L) <= Cardinality(Cluster) /\ Cardinality(Cluster) \in Nat
    BY <2>3, Clusters
  <2>6. Cardinality(K) <= Cardinality(L)
    BY <2>4, <2>5, FS_Subset
  <2>7. QED BY <2>1, <2>2, <2>5, <2>6
<1>13. DOMAIN seen'.files = Name
  BY DEF SeenInv
<1>14. A!Cut(n)
  BY <1>5, <1>6, <1>7, <1>11, <1>12, <1>13 DEF A!Cut
<1>15. QED BY <1>4, <1>5, <1>14

LEMMA StartsEmpty == Init => A!Init
<1> SUFFICES ASSUME Init PROVE A!Init
  OBVIOUS
<1>1. seen.files = FilesNow /\ seen.lost = LostNow /\ ~hurt
  BY DEF Init, Now
<1>2. ASSUME NEW n \in Name PROVE FilesNow[n] = NoFile
  <2>1. \A s \in Slot : dir[s].name # n
    BY Marked DEF Init
  <2>2. FindEntry(n) = 0
    BY <2>1, FindsEntry
  <2>3. QED BY <2>2, InitTypes, FilesTyped
<1>3. FilesNow = [n \in Name |-> NoFile]
  BY <1>2 DEF FilesNow
<1>4. LostNow = 0
  <2>1. \A c \in Cluster : Next(c) = FREE
    BY Numbers DEF Init, Next
  <2>2. {c \in Cluster : Next(c) # FREE} \ UNION {ChainOf(s) : s \in {t \in Slot : Live(t)}} = {}
    BY <2>1
  <2>3. QED BY <2>2, FS_EmptySet DEF LostNow
<1>5. QED BY <1>1, <1>3, <1>4 DEF A!Init

LEMMA StepIs ==
  ASSUME TypeInv, TypeInv', Names, Names', SeenInv, SeenInv', BookInv, OthersInv,
         [Calls \/ Steps \/ PowerFails]_diskVars, ~hurt, ~hurt'
  PROVE  A!Step \/ (seen' = seen /\ hurt' = hurt)
<1>1. CASE Calls /\ ~UNCHANGED diskVars
  <2>1. PICK n \in Name :
          CreateFile(n) \/ DeleteFile(n) \/ (\E o \in Name : RenameFile(o, n))
            \/ \E d \in Data : WriteFile(n, d)
    BY <1>1 DEF Calls
  <2>2. CASE CreateFile(n)
    <3>1. A!Create(n)
      BY <1>1, <2>2, CreateFileIs
    <3>2. QED BY <3>1 DEF A!Step
  <2>3. CASE \E o \in Name : RenameFile(o, n)
    <3>1. PICK o \in Name : RenameFile(o, n)
      BY <2>3
    <3>2. A!Rename(o, n)
      BY <1>1, <3>1, RenameFileIs
    <3>3. QED BY <3>2 DEF A!Step
  <2>4. CASE DeleteFile(n) \/ \E d \in Data : WriteFile(n, d)
    <3>1. \E o, p : Begins(o, p)
      BY <1>1, <2>4 DEF DeleteFile, WriteFile, Fails
    <3>2. QED BY <3>1 DEF Begins, hist
  <2>5. QED BY <2>1, <2>2, <2>3, <2>4
<1>2. CASE WriteFat \/ WriteData \/ FreeNext
  BY <1>2 DEF WriteFat, WriteData, FreeNext, hist
<1>3. CASE WriteDirent
  <2>1. op.kind \in {"write", "delete"}
    BY <1>3 DEF WriteDirent, At, TypeInv, Busy, Idle
  <2>2. CASE op.kind = "delete"
    <3>1. op.name \in Name /\ A!Delete(op.name)
      BY <1>3, <2>2, DeleteIs
    <3>2. QED BY <3>1 DEF A!Step
  <2>3. CASE op.kind = "write"
    <3>1. op.name \in Name /\ op.data \in Data /\ A!Write(op.name, op.data)
      BY <1>3, <2>3, WriteIs
    <3>2. QED BY <3>1 DEF A!Step
  <2>4. QED BY <2>1, <2>2, <2>3
<1>4. CASE PowerFails
  <2>1. op.name \in Name /\ A!Cut(op.name)
    BY <1>4, CutIs
  <2>2. QED BY <2>1 DEF A!Step
<1>5. CASE UNCHANGED diskVars
  BY <1>5 DEF diskVars, hist
<1>6. QED BY <1>1, <1>2, <1>3, <1>4, <1>5 DEF Steps

(* The operations are those of Files: whatever is called, and wherever the *)
(* power fails, each takes effect at once, in its last sector; it stores   *)
(* all the data if there is room for it, and what there is room for        *)
(* otherwise; nothing is lost but by a power cut, and a cut spoils only    *)
(* the file being worked on, until one comes at a bad moment.              *)
THEOREM FilesImplemented == Spec => ImplementsFiles
<1>1. ASSUME TypeInv, TypeInv', Names, Names', SeenInv, SeenInv', BookInv, OthersInv,
             [Calls \/ Steps \/ PowerFails]_diskVars
      PROVE  [~hurt => (A!Step \/ ~(~hurt)')]_<<seen.files, seen.lost, ~hurt>>
  <2>1. CASE hurt \/ hurt'
    BY <2>1
  <2>2. CASE ~hurt /\ ~hurt'
    <3>1. CASE A!Step
      BY <3>1
    <3>2. CASE seen' = seen /\ hurt' = hurt
      BY <3>2
    <3>3. QED BY <1>1, <2>2, <3>1, <3>2, StepIs
  <2>3. QED BY <2>1, <2>2
<1>2. QED
  BY <1>1, StartsEmpty, TypesHold, NamesHold, SeenHolds, BookHolds, OthersHold, OnDisk, PTL
     DEF Spec, ImplementsFiles, A!Spec
=============================================================================
