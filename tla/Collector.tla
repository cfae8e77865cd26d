----------------------------- MODULE Collector -----------------------------
(***************************************************************************)
(* The collector under any program: the reductions of evali, reduced to    *)
(* what they do to memory, in any order.  What a reduction still needs is  *)
(* on the stack, and gc_check is called before it allocates - except that  *)
(* T_ARR_ALLOC makes the array first.  A run uses the primitives of one    *)
(* feature, to keep the instances small.                                   *)
(***************************************************************************)
EXTENDS Heap

CONSTANTS
  Features,   \* "graph", "arrays", "weaks", "threads", "pointers"
  MaxStack,   \* bound on the stack
  MaxMVars,   \* bound on the MVars
  MaxElems,   \* bound on the elements of all arrays
  GcInWindow  \* TRUE as in the code: gc_check between an array and its node may collect

VARIABLES feature, hold  \* hold: the array whose node is not made yet
vars == <<h, gc, feature, hold>>

Top      == h.stack[Len(h.stack)]
Ref      == Range(h.stack) \cup {0}       \* operands, and a permanent node
Is(x, tag) == h.node[Indir(h, x)].tag = tag
Record(x)  == h.node[Indir(h, x)].f

Runs(f)     == gc.pc = "off" /\ feature = f /\ UNCHANGED <<feature, hold>>
Becomes(m)  == h' = m /\ gc' = [gc EXCEPT !.fresh = FALSE]
Push(m, x)  == [m EXCEPT !.stack = Append(@, x)]
Room        == Len(h.stack) < MaxStack
Yields(r)   == Room /\ Becomes(Push(r.heap, r.cell))
Replace(m, x) == [m EXCEPT !.stack[Len(m.stack)] = x]  \* for an operand not needed any more
Fresh(m, tag, i) == Alloc(m, Node(tag, i, 0))

Init ==
  /\ h = InitHeap /\ gc = GcOff(FALSE)
  /\ feature \in Features /\ hold = NIL

(* Every feature: what is not needed any more is dropped.                  *)
Pop ==
  /\ gc.pc = "off" /\ hold = NIL /\ UNCHANGED <<feature, hold>>
  /\ \E i \in DOMAIN h.stack : Becomes([h EXCEPT !.stack = RemoveAt(@, i)])
Build ==
  /\ Runs("graph") /\ Enough(1)
  /\ \E f \in Ref, a \in Ref : Yields(NewAp(h, f, a))
Unwind ==
  /\ Runs("graph") /\ Room /\ h.stack # <<>> /\ Is(Top, "AP")
  /\ \E x \in {h.node[Indir(h, Top)].f, h.node[Indir(h, Top)].a} : Becomes(Push(h, x))
(* mkInt, for what arrays and weak pointers refer to.                      *)
MkInt ==
  /\ gc.pc = "off" /\ hold = NIL /\ feature \in {"arrays", "weaks"} /\ Enough(1)
  /\ Yields(Fresh(h, "INT", 0)) /\ UNCHANGED <<feature, hold>>
(* A redex becomes an indirection, never to itself.                        *)
Update ==
  /\ Runs("graph")
  /\ h.stack # <<>> /\ h.node[Top].tag = "AP"
  /\ \E x \in Ref : Indir(h, x) # Top /\ Becomes([h EXCEPT !.node[Top] = Node("IND", x, 0)])

----------------------------------------------------------------------------
(* Arrays: the check is between the array and its node.                    *)
ArrReserve ==
  /\ gc.pc = "off" /\ feature = "arrays" /\ hold = NIL /\ Room /\ Len(h.arr) < MaxRecords
  /\ GcInWindow \/ Enough(1)
  /\ \E elem \in {<<x>> : x \in Ref} \cup {<<x, x>> : x \in Ref} \cup
                 {h.arr[Record(x)].elem : x \in {y \in Ref : Is(y, "ARR")}} :
       /\ Len(FlattenSeq([a \in DOMAIN h.arr |-> h.arr[a].elem])) + Len(elem) <= MaxElems
       /\ Becomes(NewArr(h, elem)) /\ hold' = Len(h.arr) + 1
  /\ UNCHANGED feature
ArrNode ==
  /\ gc.pc = "off" /\ hold # NIL /\ Enough(1)
  /\ Yields(Fresh(h, "ARR", hold)) /\ hold' = NIL /\ UNCHANGED feature
ArrRead ==
  /\ Runs("arrays") /\ hold = NIL /\ Room
  /\ \E x \in {y \in Ref : Is(y, "ARR")} : \E e \in Range(h.arr[Record(x)].elem) : Becomes(Push(h, e))
ArrWrite ==
  /\ Runs("arrays") /\ hold = NIL
  /\ \E x \in {y \in Ref : Is(y, "ARR")}, z \in Ref : \E i \in DOMAIN h.arr[Record(x)].elem :
       Becomes([h EXCEPT !.arr[Record(x)].elem[i] = z])
ArrTrunc ==
  /\ Runs("arrays") /\ hold = NIL
  /\ \E x \in {y \in Ref : Is(y, "ARR")} :
       h.arr[Record(x)].elem # <<>> /\ Becomes([h EXCEPT !.arr[Record(x)].elem = Front(@)])

(* Weak pointers: T_WKNEWFIN, T_WKDEREF, T_WKFINAL, and keys to watch.     *)
WkNew ==
  /\ Runs("weaks") /\ Len(h.weak) < MaxRecords
  /\ \E k, v \in Range(h.stack), f \in Range(h.stack) \cup {NIL} :
       /\ Enough(IF f = NIL THEN 2 ELSE 3)
       /\ LET r == IF f = NIL THEN [cell |-> NIL, heap |-> h] ELSE NewAp(h, f, 0)
              m == NewWeak(r.heap, k, v, r.cell)
              w == Fresh(m, "WEAK", Len(m.weak))
          IN  Becomes(Replace(w.heap, w.cell))
WkDeref ==
  /\ Runs("weaks")
  /\ \E x \in {y \in Ref : Is(y, "WEAK")} :
       h.weak[Record(x)].value # NIL /\ Becomes(Replace(h, h.weak[Record(x)].value))
WkFinal ==
  /\ Runs("weaks")
  /\ \E x \in {y \in Ref : Is(y, "WEAK")} :
       h.weak[Record(x)].fin # NIL /\ Becomes([h EXCEPT !.weak[Record(x)].fin = NIL])

(* Threads and MVars: a thread that blocks does so on an MVar it can reach.*)
Fork ==
  /\ Runs("threads") /\ Enough(2) /\ Len(h.thr) < MaxRecords
  /\ \E x \in Ref :
       LET r == NewAp(h, x, 0) IN Yields(Fresh(NewThread(r.heap, r.cell), "THID", Len(h.thr) + 1))
Waits(t) == \E v \in DOMAIN h.mvar : t \in Range(h.mvar[v].wait)
Ends ==
  /\ Runs("threads")
  /\ \E t \in DOMAIN h.thr :
       h.thr[t].root # NIL /\ ~Waits(t) /\ Becomes([h EXCEPT !.thr[t].root = NIL])
MVarNew ==
  /\ Runs("threads") /\ Enough(1) /\ Len(h.mvar) < MaxMVars
  /\ Yields(Fresh(NewMVar(h), "MVAR", Len(h.mvar) + 1))
MVarPut ==
  /\ Runs("threads")
  /\ \E x \in {y \in Ref : Is(y, "MVAR")}, d \in Ref :
       LET v == Record(x) IN
       IF h.mvar[v].wait = <<>>
         THEN h.mvar[v].data = NIL /\ Becomes([h EXCEPT !.mvar[v].data = d])
         ELSE Becomes([h EXCEPT !.thr[Head(h.mvar[v].wait)].mval = d, !.mvar[v].wait = Tail(@)])
MVarTake ==
  /\ Runs("threads") /\ Room
  /\ \E x \in {y \in Ref : Is(y, "MVAR")} :
       h.mvar[Record(x)].data # NIL /\ Becomes(Push([h EXCEPT !.mvar[Record(x)].data = NIL], h.mvar[Record(x)].data))
Blocks ==
  /\ Runs("threads")
  /\ \E t \in {u \in Links(h.thr) : h.thr[u].root # NIL /\ ~Waits(u) /\ h.thr[u].mval = NIL} :
       LET x == h.node[Indir(h, h.thr[t].root)].f IN
       Is(x, "MVAR") /\ h.mvar[Record(x)].data = NIL /\ Becomes([h EXCEPT !.mvar[Record(x)].wait = Append(@, t)])

(* Stable pointers, foreign pointers and the copies that plusPtr makes.    *)
SpNew ==
  /\ Runs("pointers")
  /\ \E x \in Ref : \E i \in DOMAIN h.sp :
       /\ h.sp[i] = NIL /\ \A j \in 1..i - 1 : h.sp[j] # NIL
       /\ Becomes([h EXCEPT !.sp[i] = x])
SpDeref == Runs("pointers") /\ Room /\ \E i \in DOMAIN h.sp : h.sp[i] # NIL /\ Becomes(Push(h, h.sp[i]))
SpFree  == Runs("pointers") /\ \E i \in DOMAIN h.sp : h.sp[i] # NIL /\ Becomes([h EXCEPT !.sp[i] = NIL])
FpNew ==
  /\ Runs("pointers") /\ Enough(1) /\ Len(h.fin) < MaxRecords
  /\ Yields(Fresh(NewForPtr(h), "FORPTR", Len(h.fin) + 1))
FpAdd ==
  /\ Runs("pointers") /\ Enough(1)
  /\ \E x \in {y \in Ref : Is(y, "FORPTR")} : Yields(Fresh(h, "FORPTR", Record(x)))

Collects == Collect /\ (hold # NIL => ~Enough(1)) /\ UNCHANGED <<feature, hold>>
GcSteps  == GcStep /\ UNCHANGED <<feature, hold>>

Mutate ==
  \/ Pop \/ Build \/ Unwind \/ Update \/ MkInt
  \/ ArrReserve \/ ArrNode \/ ArrRead \/ ArrWrite \/ ArrTrunc
  \/ WkNew \/ WkDeref \/ WkFinal
  \/ Fork \/ Ends \/ MVarNew \/ MVarPut \/ MVarTake \/ Blocks
  \/ SpNew \/ SpDeref \/ SpFree \/ FpNew \/ FpAdd
Next == Mutate \/ Collects \/ GcSteps
Spec == Init /\ [][Next]_vars /\ WF_vars(GcSteps)

----------------------------------------------------------------------------
(* What the program can still get at, defined without the collector: the   *)
(* closure of the roots, where a weak pointer (of those in W) hands on its *)
(* value and its finalizer once its key is reached.                        *)
Item     == {"cell", "ARR", "thr", "MVAR", "FORPTR", "WEAK"} \X Nat
Cells(s) == {<<"cell", c>> : c \in s \ {NIL}}
Kids(m, x) ==
  LET i == x[2] IN
  CASE x[1] = "cell" ->
         LET n == m.node[i] IN
         CASE n.tag = "AP"   -> Cells({n.f, n.a})
           [] n.tag = "IND"  -> Cells({n.f})
           [] n.tag = "THID" -> {<<"thr", n.f>>}
           [] n.tag \in {"PRIM", "INT", "FREE"} -> {}
           [] OTHER -> {<<n.tag, n.f>>}
    [] x[1] = "ARR"  -> Cells(Range(m.arr[i].elem))
    [] x[1] = "thr"  -> Cells({m.thr[i].root, m.thr[i].mval})
    [] x[1] = "MVAR" -> Cells({m.mvar[i].data})
    [] OTHER -> {}
Hands(m, s, W) ==
  UNION {Cells({m.weak[w].value, m.weak[w].fin}) :
           w \in {v \in W : m.weak[v].value # NIL /\ <<"cell", m.weak[v].key>> \in s}}
Roots(m) ==
  Cells(Range(m.stack) \cup Range(m.sp) \cup 0..NPerm - 1) \cup
  {<<"thr", t>> : t \in {u \in Links(m.thr) : m.thr[u].root # NIL}}
ReachedBy(m, W) ==
  LET more(s) == s \cup UNION {Kids(m, x) : x \in s} \cup Hands(m, s, W)
      closure[s \in SUBSET Item] == LET t == more(s) IN IF t = s THEN s ELSE closure[t]
  IN  closure[Roots(m)]
Reached(m) == ReachedBy(m, Links(m.weak))
Dies       == {w \in DOMAIN h.weak : h.weak[w].value # NIL /\ h.weak'[w].value = NIL}
FreeCells  == h.free \cap Dynamic

(* eval.c:2510, "Mark all used nodes reachable from *np": no cell that the *)
(* program can get at, directly or through arrays, threads, MVars, stable  *)
(* and weak pointers, is ever given out again.                             *)
NoLiveFree ==
  gc.pc = "off" => \A x \in Reached(h) : x[1] = "cell" => x[2] \notin FreeCells

(* A collection leaves nothing else behind, cycles or not: no cell, array, *)
(* MVar or finalizer that is not reached, and no value of a weak pointer   *)
(* whose key is gone.  Two kinds of records outlive their use: finished    *)
(* threads older than one that waits at an MVar, which mark_mvar marks for *)
(* it follows mt_next (2490); and dead weak pointers that a collection     *)
(* once found referred to, whose mark is never cleared.                    *)
WaitsYounger(t) == \E v \in Links(h.mvar) : h.mvar[v].wait # <<>> /\ t <= Head(h.mvar[v].wait)
NoGarbage ==
  gc.fresh =>
    LET live == Reached(h) IN
    /\ \A c \in Dynamic \ h.free : <<"cell", c>> \in live
    /\ \A a \in Links(h.arr)  : <<"ARR", a>> \in live
    /\ \A v \in Links(h.mvar) : <<"MVAR", v>> \in live
    /\ \A f \in Links(h.fin)  : <<"FORPTR", f>> \in live
    /\ \A t \in Links(h.thr)  : <<"thr", t>> \in live \/ WaitsYounger(t)
    /\ \A w \in Links(h.weak) : IF h.weak[w].value # NIL THEN Used(h, h.weak[w].key)
                                                        ELSE h.weak[w].marked

(* No thread is kept that nobody can refer to or wait for: it does not     *)
(* hold, because of mt_next.                                               *)
NoDeadThread == gc.fresh => \A t \in Links(h.thr) : <<"thr", t>> \in Reached(h)

(* num_free is the number of cells that the search from next_scan_index    *)
(* finds, so that alloc_node never runs into the bits behind the heap.     *)
CountsFree ==
  gc.pc = "off" => /\ h.nfree = Cardinality(FreeCells)
                   /\ \A c \in FreeCells : c >= h.scan

(* Records are unlinked only if nothing reaches them, values of live weak  *)
(* pointers included (an array without elements is the exception); and a   *)
(* weak pointer is declared dead, whatever the order of the scan, only if  *)
(* its key is reached neither from the roots nor from what the weak        *)
(* pointers made after it hand on: sweep_weaks has been to those before.   *)
OnlyGarbageDies ==
  [][LET live == Reached(h) IN
     /\ \A a \in Links(h.arr)  \ Links(h.arr')  : <<"ARR", a>>  \notin live \/ h.arr[a].elem = <<>>
     /\ \A f \in Links(h.fin)  \ Links(h.fin')  : <<"FORPTR", f>> \notin live
     /\ \A v \in Links(h.mvar) \ Links(h.mvar') : <<"MVAR", v>> \notin live
     /\ \A t \in Links(h.thr)  \ Links(h.thr')  : <<"thr", t>>  \notin live
     /\ \A w \in Dies : <<"cell", h.weak[w].key>> \notin ReachedBy(h, {v \in Links(h.weak) : v > w})]_vars

(* "This marking might have marked other keys, so restart the scan" (2376):*)
(* the key of a weak pointer that dies is not reached at all.  It does not *)
(* hold: one that the scan has passed is dead when the value of an older   *)
(* one turns out to refer to its key.                                      *)
WeaksDieLast == [][\A w \in Dies : <<"cell", h.weak[w].key>> \notin Reached(h)]_vars

(* Every collection comes to an end, whatever cycles the graph has.        *)
Collecting     == gc.pc \in {"mark", "weaks"}
CollectionEnds == Collecting ~> ~Collecting
=============================================================================
