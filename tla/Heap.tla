-------------------------------- MODULE Heap --------------------------------
(***************************************************************************)
(* The reducer's memory (c/eval.c): the cells with their free map, the     *)
(* records outside of it that cells refer to, and gc().  A collection is   *)
(* one step per call of mark() on a location, so that the marks, the array *)
(* progress and the weak pointers can be watched; h is everything it reads *)
(* and changes.  The order of the work list is that of the C code: the     *)
(* recursion of mark and its own stack of locations are one list, gc.todo. *)
(* Left out: mt_exn (empty: nothing throws asynchronously), permanent      *)
(* arrays and FFI exports (there are none), GC reductions (GCRED = 0).     *)
(***************************************************************************)
EXTENDS Integers, Sequences, FiniteSetsExt, SequencesExt

CONSTANTS
  WordBits,   \* bits in a word of the free map
  NPerm,      \* permanent nodes
  HeapSize,   \* cells: HEAP_CELLS
  MinFree,    \* heap_size / 50
  MaxRecords  \* arrays, weak pointers, threads, MVars... of each kind (bound)

ASSUME HeapAssumption ==
  /\ {WordBits, NPerm, HeapSize, MinFree, MaxRecords} \subseteq Nat \ {0}
  /\ NPerm < HeapSize

VARIABLES h, gc
hvars == <<h, gc>>

NIL       == -1
RoundUp(n) == ((n + WordBits - 1) \div WordBits) * WordBits
HeapStart == RoundUp(NPerm)
Cell      == 0..HeapSize - 1
Dynamic   == HeapStart..HeapSize - 1
Bits      == 0..RoundUp(HeapSize) - 1  \* of the free map: more than there are cells

Node(tag, f, a) == [tag |-> tag, f |-> f, a |-> a]
Free  == Node("FREE", 0, 0)
Links(records) == {i \in DOMAIN records : records[i].linked}

(* init_nodes; the records of each kind are in the order of their creation *)
(* and linked newest first.                                                *)
InitHeap ==
  [node  |-> [c \in Cell |-> IF c < NPerm THEN Node("PRIM", 0, 0) ELSE Free],
   free  |-> Bits, scan |-> HeapStart, nfree |-> HeapSize - HeapStart,
   stack |-> <<>>, sp |-> [i \in 1..MaxRecords |-> NIL],
   arr   |-> <<>>,   \* linked, marked (progress), elem
   weak  |-> <<>>,   \* linked, marked, key, value, fin
   thr   |-> <<>>,   \* linked, marked, root, mval
   mvar  |-> <<>>,   \* linked, marked, data, wait: the blocked threads
   fin   |-> <<>>]   \* linked, marked: a foreign pointer's finalizer
GcOff(fresh) == [pc |-> "off", todo |-> <<>>, nmarked |-> 0, at |-> 0, fresh |-> fresh]

----------------------------------------------------------------------------
(* alloc_node: the first free bit at or after the word scanned last.       *)
Alloc(m, n) ==
  LET pos == Min({b \in m.free : b \div WordBits >= m.scan \div WordBits})
  IN  [cell |-> pos,
       heap |-> [m EXCEPT !.node[pos] = n, !.free = @ \ {pos}, !.scan = pos, !.nfree = @ - 1]]

(* new_ap, arr_alloc, new_weak_ptr, new_thread, new_mvar, mkForPtr.        *)
NewAp(m, f, a)   == Alloc(m, Node("AP", f, a))
NewArr(m, elem)  == [m EXCEPT !.arr  = Append(@, [linked |-> TRUE, marked |-> 0, elem |-> elem])]
NewThread(m, rt) == [m EXCEPT !.thr  = Append(@, [linked |-> TRUE, marked |-> FALSE, root |-> rt, mval |-> NIL])]
NewMVar(m)       == [m EXCEPT !.mvar = Append(@, [linked |-> TRUE, marked |-> FALSE, data |-> NIL, wait |-> <<>>])]
NewWeak(m, k, v, f) ==
  [m EXCEPT !.weak = Append(@, [linked |-> TRUE, marked |-> FALSE, key |-> k, value |-> v, fin |-> f])]
NewForPtr(m)     == [m EXCEPT !.fin  = Append(@, [linked |-> TRUE, marked |-> FALSE])]

(* gc_check: a caller that has just collected goes on whatever it got.     *)
EnoughAlways(k) == k > 0   \* mutant: no check
Enough(k) == k < h.nfree \/ gc.fresh

----------------------------------------------------------------------------
(* A location is where mark finds a node and leaves it without its         *)
(* indirections.                                                           *)
At(m, l) ==
  CASE l[1] = "stack" -> m.stack[l[2]]
    [] l[1] = "sp"    -> m.sp[l[2]]
    [] l[1] = "fun"   -> m.node[l[2]].f
    [] l[1] = "arg"   -> m.node[l[2]].a
    [] l[1] = "elem"  -> m.arr[l[2]].elem[l[3]]
    [] l[1] = "root"  -> m.thr[l[2]].root
    [] l[1] = "mval"  -> m.thr[l[2]].mval
    [] l[1] = "data"  -> m.mvar[l[2]].data
    [] l[1] = "value" -> m.weak[l[2]].value
    [] l[1] = "fin"   -> m.weak[l[2]].fin
Put(m, l, n) ==
  CASE l[1] = "stack" -> [m EXCEPT !.stack[l[2]] = n]
    [] l[1] = "sp"    -> [m EXCEPT !.sp[l[2]] = n]
    [] l[1] = "fun"   -> [m EXCEPT !.node[l[2]].f = n]
    [] l[1] = "arg"   -> [m EXCEPT !.node[l[2]].a = n]
    [] l[1] = "elem"  -> [m EXCEPT !.arr[l[2]].elem[l[3]] = n]
    [] l[1] = "root"  -> [m EXCEPT !.thr[l[2]].root = n]
    [] l[1] = "mval"  -> [m EXCEPT !.thr[l[2]].mval = n]
    [] l[1] = "data"  -> [m EXCEPT !.mvar[l[2]].data = n]
    [] l[1] = "value" -> [m EXCEPT !.weak[l[2]].value = n]
    [] l[1] = "fin"   -> [m EXCEPT !.weak[l[2]].fin = n]
Loc(kind, i) == <<kind, i, 0>>

Indir(m, n) ==
  LET to[c \in Cell] == IF m.node[c].tag = "IND" THEN to[m.node[c].f] ELSE c IN to[n]
Used(m, n)  == n < HeapStart \/ n \notin m.free

----------------------------------------------------------------------------
(* mark of a location: the work to do next, in front of what is left.      *)
Marks(m, nmarked, work) ==
  /\ h' = m
  /\ gc' = [gc EXCEPT !.todo = work \o Tail(@), !.nmarked = nmarked]

MarkAp(m, n) ==
  Marks(m, gc.nmarked + 1,
        <<Loc("fun", n)>> \o IF Used(m, m.node[n].a) THEN <<>> ELSE <<Loc("arg", n)>>)

(* An array is marked when all its elements are; until then it is unmarked *)
(* and its location comes back after the next element.                     *)
MarkArrShort(m, n) ==        \* mutant: the last element is never marked
  LET a == m.node[n].f
      k == m.arr[a].marked + 1
  IN  IF k >= Len(m.arr[a].elem) THEN Marks([m EXCEPT !.arr[a].marked = k], gc.nmarked + 1, <<>>)
      ELSE Marks([m EXCEPT !.free = @ \cup {n}, !.arr[a].marked = k], gc.nmarked,
                 <<<<"elem", a, k>>, Head(gc.todo)>>)
MarkArrAgain(m, n) ==        \* mutant: marked is not advanced
  LET a == m.node[n].f IN
  IF m.arr[a].elem = <<>> THEN Marks(m, gc.nmarked + 1, <<>>)
  ELSE Marks([m EXCEPT !.free = @ \cup {n}], gc.nmarked, <<<<"elem", a, 1>>, Head(gc.todo)>>)
MarkArr(m, n) ==
  LET a == m.node[n].f
      k == m.arr[a].marked + 1
  IN  IF k > Len(m.arr[a].elem) THEN Marks(m, gc.nmarked + 1, <<>>)
      ELSE Marks([m EXCEPT !.free = @ \cup {n}, !.arr[a].marked = k], gc.nmarked,
                 <<<<"elem", a, k>>, Head(gc.todo)>>)

MarkNode(m, n) ==
  LET r == m.node[n].f IN
  CASE m.node[n].tag = "AP"     -> MarkAp(m, n)
    [] m.node[n].tag = "ARR"    -> MarkArr(m, n)
    [] m.node[n].tag = "FORPTR" -> Marks([m EXCEPT !.fin[r].marked = TRUE], gc.nmarked + 1, <<>>)
    [] m.node[n].tag = "WEAK"   -> Marks([m EXCEPT !.weak[r].marked = TRUE], gc.nmarked + 1, <<>>)
    [] m.node[n].tag = "THID"   -> Marks(m, gc.nmarked + 1, <<Loc("thread", r)>>)
    [] m.node[n].tag = "MVAR"   -> Marks(m, gc.nmarked + 1, <<Loc("mvar", r)>>)
    [] OTHER                    -> Marks(m, gc.nmarked + 1, <<>>)

MarkLocation(l) ==
  LET n == Indir(h, At(h, l))
      m == Put(h, l, n)
  IN  IF Used(m, n) THEN Marks(m, gc.nmarked, <<>>)
      ELSE MarkNode([m EXCEPT !.free = @ \ {n}], n)
Filled(locs) == SelectSeq(locs, LAMBDA l : At(h, l) # NIL)

MarkThread(t) ==
  IF h.thr[t].marked THEN Marks(h, gc.nmarked, <<>>)
  ELSE Marks([h EXCEPT !.thr[t].marked = TRUE], gc.nmarked, Filled(<<Loc("root", t), Loc("mval", t)>>))

(* mark_mvar follows mt_next, not the queue: the first waiter and every    *)
(* thread that is older.                                                   *)
Older(t) == LET links == {u \in Links(h.thr) : u <= t} IN Reverse(SetToSortSeq(links, <))
MarkMVar(v) ==
  IF h.mvar[v].marked THEN Marks(h, gc.nmarked, <<>>)
  ELSE Marks([h EXCEPT !.mvar[v].marked = TRUE], gc.nmarked,
             Filled(<<Loc("data", v)>>) \o
             IF h.mvar[v].wait = <<>> THEN <<>>
             ELSE [i \in 1..Len(Older(Head(h.mvar[v].wait))) |-> Loc("thread", Older(Head(h.mvar[v].wait))[i])])

----------------------------------------------------------------------------
(* gc: the free map is filled, then the roots are marked in this order.    *)
Newest(records) == Reverse(SetToSortSeq(Links(records), <))
Rooted == SelectSeq(Newest(h.thr), LAMBDA t : h.thr[t].root # NIL)
Collect ==
  /\ gc.pc = "off" /\ ~gc.fresh
  /\ h' = [h EXCEPT !.free = Bits, !.scan = HeapStart]
  /\ gc' = [GcOff(FALSE) EXCEPT !.pc = "mark",
       !.todo = [i \in DOMAIN h.stack |-> Loc("stack", i)] \o
                Filled([i \in DOMAIN h.sp |-> Loc("sp", i)]) \o
                [i \in DOMAIN Rooted |-> Loc("thread", Rooted[i])]]

Mark ==
  /\ gc.todo # <<>>
  /\ LET l == Head(gc.todo) IN
     CASE l[1] = "thread" -> MarkThread(l[2])
       [] l[1] = "mvar"   -> MarkMVar(l[2])
       [] OTHER           -> MarkLocation(l)

Goes(pc, at) == gc' = [gc EXCEPT !.pc = pc, !.at = at]
Marked == gc.todo = <<>> /\ gc.pc = "mark" /\ Goes("weaks", Len(h.weak)) /\ UNCHANGED h

(* sweep_weaks, newest first: a live key keeps its value, and the scan     *)
(* starts again whenever it marked something.                              *)
SweepWeakStrong ==           \* mutant: a dead key keeps its value as well
  /\ gc.todo = <<>> /\ gc.pc = "weaks" /\ gc.at > 0
  /\ IF h.weak[gc.at].linked /\ \E x \in {h.weak[gc.at].value, h.weak[gc.at].fin} \ {NIL} : ~Used(h, x)
       THEN gc' = [gc EXCEPT !.at = Len(h.weak), !.todo = Filled(<<Loc("value", gc.at), Loc("fin", gc.at)>>)]
       ELSE Goes("weaks", gc.at - 1)
  /\ UNCHANGED h
SweepWeak ==
  /\ gc.todo = <<>> /\ gc.pc = "weaks" /\ gc.at > 0
  /\ LET w == gc.at
         k == Indir(h, h.weak[w].key)
         m == [h EXCEPT !.weak[w].key = k]
     IN  IF ~h.weak[w].linked \/ h.weak[w].value = NIL THEN Goes("weaks", w - 1) /\ UNCHANGED h
         ELSE IF ~Used(h, k) THEN h' = [m EXCEPT !.weak[w].value = NIL] /\ Goes("weaks", w - 1)
         ELSE IF \A x \in {h.weak[w].value, h.weak[w].fin} \ {NIL} : Used(h, x)
           THEN h' = m /\ Goes("weaks", w - 1)
           ELSE /\ h' = m
                /\ gc' = [gc EXCEPT !.at = Len(h.weak), !.todo = Filled(<<Loc("value", w), Loc("fin", w)>>)]

(* The weak pointers that died get their finalizers as threads.            *)
Dead == {w \in Links(h.weak) : h.weak[w].value = NIL /\ h.weak[w].fin # NIL}
Finalize ==
  /\ gc.todo = <<>> /\ gc.pc = "weaks" /\ gc.at = 0 /\ Dead # {}
  /\ LET w == Max(Dead)
         m == NewThread(h, h.weak[w].fin)
     IN  /\ h' = [m EXCEPT !.weak[w].fin = NIL, !.weak[w].key = NIL]
         /\ gc' = [gc EXCEPT !.todo = <<Loc("thread", Len(m.thr))>>]

(* The rest of gc: what was not marked is unlinked, marks are cleared; a   *)
(* weak pointer stays marked, and a heap that is still full ends it all.   *)
Swept(records) ==
  [i \in DOMAIN records |-> [records[i] EXCEPT !.linked = @ /\ records[i].marked, !.marked = FALSE]]
ReapedDead(thread) == thread.root = NIL            \* mutant: whether marked or not
Reaped(thread)     == thread.root = NIL /\ ~thread.marked
Sweep ==
  /\ gc.todo = <<>> /\ gc.pc = "weaks" /\ gc.at = 0 /\ Dead = {}
  /\ LET left == HeapSize - HeapStart - gc.nmarked IN
     /\ gc' = IF left < MinFree THEN [gc EXCEPT !.pc = "halted"] ELSE GcOff(TRUE)
     /\ h' = [h EXCEPT
          !.nfree = left,
          !.weak  = [w \in DOMAIN @ |-> [@[w] EXCEPT !.linked = @ /\ (h.weak[w].marked \/ h.weak[w].value # NIL)]],
          !.arr   = [a \in DOMAIN @ |-> IF ~@[a].linked THEN @[a]
                       ELSE IF @[a].marked = 0 THEN [@[a] EXCEPT !.linked = FALSE]
                       ELSE [@[a] EXCEPT !.marked = 0]],
          !.fin   = Swept(@), !.mvar = Swept(@),
          !.thr   = [t \in DOMAIN @ |-> [@[t] EXCEPT !.linked = @ /\ ~Reaped(h.thr[t]), !.marked = FALSE]]]

GcStep == Mark \/ Marked \/ SweepWeak \/ Finalize \/ Sweep
=============================================================================
