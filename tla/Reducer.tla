------------------------------ MODULE Reducer ------------------------------
(***************************************************************************)
(* The loader and the evaluator of c/eval.c over the memory of Heap: a     *)
(* program arrives as the tokens of its bytecode, becomes a graph, and the *)
(* graph is reduced in place until main returns.  One step is one turn of  *)
(* evali's loop: a node pushed, a reduction, a value returned.  At every   *)
(* turn the thread can be preempted, which drops the stack, the nested     *)
(* calls and the handlers and starts again from the root; at every         *)
(* GCCHECK there can be a collection.                                      *)
(* Left out: the masking state (only throwTo looks at it), floating point  *)
(* and 64-bit numbers, which this configuration does not have, byte        *)
(* strings, and foreign calls.                                             *)
(***************************************************************************)
EXTENDS Heap, Bitwise

CONSTANTS
  Width,      \* bits of value_t: 32
  LowInt, HighInt,  \* the integers that have permanent nodes, HighInt excluded
  GcInWindow, \* TRUE as in the code: see Collector
  Programs    \* sequence of [tokens, labels, raises, value, gcs, preempts]: what
              \* main returns or dies of, and how many collections that num_free
              \* does not call for and preemptions the run tries (bounds)

VARIABLES
  prog,       \* index of the program
  code,       \* the tokens not read yet
  table,      \* shared_table: labels and their nodes
  mode,       \* load, loaded, top, ret, check, handle, away, or how it ended
  cur,        \* n; in handle, the exception
  calls,      \* the active calls of evali: stk, the primitive that called
              \* it, its x, y, z, w and the integers it has evaluated
  gcs, preempts \* left to try
lvars == <<code, table>>
evars == <<mode, cur, calls>>
vars  == <<h, gc, prog, lvars, evars, gcs, preempts>>

----------------------------------------------------------------------------
(* Patterns: what the reduction of a combinator builds from its arguments. *)
Arg(i)    == <<"arg", i>>
Self      == Arg(0)                   \* the redex itself, n
X == Arg(1)
Y == Arg(2)
Z == Arg(3)
W == Arg(4)
P(name)   == <<"prim", name>>
Ap(f, a)  == <<"ap", f, a>>
Ap2(f, a, b) == Ap(Ap(f, a), b)
(* GCCHECK(cells), CHKARGn, then GOAP, GOAP2 or GOIND.                     *)
Rule(cells, args, body) == [cells |-> cells, args |-> args, body |-> body]

Full ==
  [S  |-> Rule(2, 3, Ap2(X, Z, Ap(Y, Z))),
   SS |-> Rule(3, 4, Ap2(X, Ap(Y, W), Ap(Z, W))),
   K  |-> Rule(0, 2, X),               A  |-> Rule(0, 2, Y),
   U  |-> Rule(0, 2, Ap(Y, X)),        I  |-> Rule(0, 1, X),
   Y  |-> Rule(0, 1, Ap(X, Self)),
   B  |-> Rule(1, 3, Ap(X, Ap(Y, Z))), BB |-> Rule(2, 4, Ap2(X, Y, Ap(Z, W))),
   Z  |-> Rule(0, 3, Ap(X, Y)),
   C  |-> Rule(1, 3, Ap2(X, Z, Y)),    CC |-> Rule(2, 4, Ap2(X, Ap(Y, W), Z)),
   P  |-> Rule(1, 3, Ap2(Z, X, Y)),    R  |-> Rule(1, 3, Ap2(Y, Z, X)),
   O  |-> Rule(1, 4, Ap2(W, X, Y)),
   K2 |-> Rule(0, 3, X), K3 |-> Rule(0, 4, X), K4 |-> Rule(0, 5, X),
   CCB     |-> Rule(2, 4, Ap2(X, Z, Ap(Y, W))),
   IOBIND  |-> Rule(1, 3, Ap2(X, Z, Y)),
   IORETURN |-> Rule(1, 3, Ap2(Z, X, Y)),
   IOTHEN  |-> Rule(2, 2, Ap2(P("IOBIND"), X, Ap(P("K"), Y))),
   PERFORM |-> Rule(2, 1, Ap2(X, P("World"), P("K"))),
   CATCH   |-> Rule(3, 3, Ap(Ap2(P("CATCHR"), Ap(X, Z), Y), Z)),
   SETMASK |-> Rule(0, 2, Ap(P("PairUnit"), Y))]  \* the level is an INT already
(* What they do with too few arguments.                                    *)
Short ==
  [BB  |-> Rule(1, 2, Ap(P("B"), Ap(X, Y))), Z  |-> Rule(1, 2, Ap(P("K"), Ap(X, Y))),
   R   |-> Rule(1, 2, Ap2(P("C"), Y, X)),    K2 |-> Rule(0, 2, Ap(P("K"), X)),
   K3  |-> Rule(0, 2, Ap(P("K2"), X)),       K4 |-> Rule(0, 2, Ap(P("K3"), X)),
   CCB |-> Rule(2, 3, Ap2(P("B"), Ap(X, Z), Y))]

(* Strict primitives, and the arguments that they evaluate by a call of    *)
(* evali, in this order.                                                   *)
Binary == {"ADD", "SUB", "MUL", "QUOT", "REM", "SUBR", "UADD", "USUB", "UMUL", "UQUOT", "UREM",
           "USUBR", "AND", "OR", "XOR", "SHL", "SHR", "ASHR", "EQ", "NE", "LT", "LE", "GT", "GE",
           "ICMP", "ULT", "ULE", "UGT", "UGE", "UCMP"}
Unary  == {"NEG", "UNEG", "INV", "POPCOUNT", "CLZ", "CTZ"}
Calls  == [SEQ |-> <<1>>, CATCHR |-> <<1>>, ARRALLOC |-> <<1>>, ARRREAD |-> <<2, 1>>, ARRWRITE |-> <<2, 1>>]
Arity  == [SEQ |-> 2, CATCHR |-> 3, ARRALLOC |-> 3, ARRREAD |-> 3, ARRWRITE |-> 4]

----------------------------------------------------------------------------
(* The permanent nodes of init_nodes: primitives, compounds, integers.     *)
Primitives == FoldSet(LAMBDA p, s : Append(s, p), <<>>,    \* in any order
                      DOMAIN Full \cup Binary \cup Unary \cup DOMAIN Calls \cup
                      {"RAISE", "BININT1", "BININT2", "UNINT1"})
Index(name) == (CHOOSE i \in DOMAIN Primitives : Primitives[i] = name) - 1
NPrims      == Len(Primitives)
Compounds ==    \* World is an integer
  <<<<"World", "INT", 0, 99>>, <<"OrdLT", "AP", Index("Z"), Index("K")>>,
    <<"OrdEQ", "AP", Index("K"), Index("K")>>, <<"OrdGT", "AP", Index("K"), Index("A")>>,
    <<"PairUnit", "AP", Index("P"), Index("I")>>>>
CellOf[name \in STRING] ==
  IF \E i \in DOMAIN Compounds : Compounds[i][1] = name
    THEN NPrims - 1 + CHOOSE i \in DOMAIN Compounds : Compounds[i][1] = name
    ELSE Index(name)
IntCell(i)  == NPrims + Len(Compounds) + i - LowInt
Permanent(c) ==
  CASE c < NPrims -> Node(Primitives[c + 1], 0, 0)
    [] c \in NPrims..NPrims + Len(Compounds) - 1 ->
         LET k == Compounds[c - NPrims + 1] IN Node(k[2], k[3], k[4])
    [] OTHER -> Node("INT", 0, c - IntCell(0))
ASSUME NPerm = IntCell(HighInt)  \* and one more than the highest there is
Memory == [InitHeap EXCEPT !.node = [c \in Cell |-> IF c < NPerm THEN Permanent(c) ELSE Free]]

(* mkInt *)
MkInt(m, i) ==
  IF i \in LowInt..HighInt - 1 THEN [cell |-> IntCell(i), heap |-> m] ELSE Alloc(m, Node("INT", 0, i))

----------------------------------------------------------------------------
Top(i)    == h.stack[Len(h.stack) - i]
Pushed(m, c) == [m EXCEPT !.stack = Append(@, c)]
Popped(m, k) == [m EXCEPT !.stack = SubSeq(@, 1, Len(@) - k)]

(* find_label: the first slot from the label's own that is empty or its.   *)
SlotHashed(l) == (l % Len(table)) + 1     \* mutant: no probing
Slot(l) ==
  LET at(i) == ((l + i) % Len(table)) + 1
      i == Min({j \in 0..Len(table) - 1 : table[at(j)].node = NIL \/ table[at(j)].label = l})
  IN  at(i)
Labels(i, l, c) == table' = [table EXCEPT ![i] = [label |-> l, node |-> c]]

(* parse: one token.                                                       *)
Reads(m)  == h' = m /\ UNCHANGED <<table, mode>>
Token(t) ==
  CASE t[1] = "@" ->
         LET r == NewAp(Popped(h, 2), Top(1), Top(0)) IN Reads(Pushed(r.heap, r.cell))
    [] t[1] = "#" -> LET r == MkInt(h, t[2]) IN Reads(Pushed(r.heap, r.cell))
    [] t[1] = "[" ->
         LET m == NewArr(h, SubSeq(h.stack, Len(h.stack) - t[2] + 1, Len(h.stack)))
             r == Alloc(m, Node("ARR", Len(m.arr), 0))
         IN  Reads(Pushed(Popped(r.heap, t[2]), r.cell))
    [] t[1] = "_" ->
         LET i == Slot(t[2])
             r == Alloc(h, Node("IND", NIL, 0))
         IN  /\ UNCHANGED mode
             /\ IF table[i].node # NIL THEN h' = Pushed(h, table[i].node) /\ UNCHANGED table
                ELSE h' = Pushed(r.heap, r.cell) /\ Labels(i, t[2], r.cell)
    [] t[1] = ":" ->
         LET i == Slot(t[2])
             n == table[i].node
         IN  IF n = NIL THEN Labels(i, t[2], Top(0)) /\ UNCHANGED <<h, mode>>
             ELSE IF h.node[n] # Node("IND", NIL, 0) THEN mode' = "shared" /\ UNCHANGED <<h, table>>
             ELSE Reads([h EXCEPT !.node[n].f = Top(0)])
    [] t[1] = "}" ->
         mode' = (IF Len(h.stack) = 1 THEN "loaded" ELSE "stack") /\ UNCHANGED <<h, table>>
    [] OTHER -> Reads(Pushed(h, CellOf[t[2]]))
Load ==
  /\ gc.pc = "off" /\ mode = "load"
  /\ IF h.nfree < 3 THEN mode' = "full" /\ UNCHANGED <<h, lvars>>
     ELSE Token(Head(code)) /\ code' = Tail(code)
  /\ UNCHANGED <<cur, calls, gc, prog, gcs, preempts>>

----------------------------------------------------------------------------
(* start_exec: the main thread.                                            *)
Frame(base, op, args) == [base |-> base, op |-> op, args |-> args, got |-> <<>>]
MainFrame == Frame(0, "main", <<>>)
Steps == /\ gc.pc = "off" /\ gc' = [gc EXCEPT !.fresh = FALSE]
         /\ UNCHANGED <<prog, lvars, gcs>>
StartExec ==
  /\ mode = "loaded" /\ gc.fresh /\ Steps
  /\ LET r == NewAp(Popped(h, 1), Top(0), CellOf["World"]) IN
     /\ h' = NewThread(r.heap, r.cell)
     /\ cur' = r.cell
  /\ mode' = "top" /\ UNCHANGED <<calls, preempts>>

(* yield between two turns: cleanup drops the stack, the calls and the     *)
(* handlers; other threads run; the thread starts again from its root.     *)
Preempt ==
  /\ mode = "top" /\ preempts > 0 /\ Steps
  /\ h' = [h EXCEPT !.stack = <<>>]
  /\ calls' = <<MainFrame>> /\ mode' = "away" /\ preempts' = preempts - 1
  /\ UNCHANGED cur
Resume ==
  /\ mode = "away" /\ Steps
  /\ cur' = h.thr[1].root /\ mode' = "top" /\ UNCHANGED <<h, calls, preempts>>

----------------------------------------------------------------------------
(* A turn: the indirections, then by the tag of n.                         *)
Base     == Last(calls).base
Has(k)   == Len(h.stack) - Base >= k
Argument(i) == h.node[Top(i - 1)].a
Tag      == h.node[cur].tag
Turn     == mode = "top" /\ Steps /\ UNCHANGED preempts
Continue(m, n, md) == h' = m /\ cur' = n /\ mode' = md
Indirect(m, n, to) == [m EXCEPT !.node[n] = Node("IND", to, 0)]

Follow ==
  /\ Turn /\ Tag = "IND" /\ UNCHANGED calls
  /\ LET n == Indir(h, cur) IN Continue(Indirect(h, cur, n), n, "top")
Unwind ==
  /\ Turn /\ Tag = "AP" /\ UNCHANGED calls
  /\ Continue(Pushed(h, cur), h.node[cur].f, "top")

(* The node of a pattern, and the redex overwritten by one.                *)
RECURSIVE Make(_, _, _)
Make(m, pat, env) ==
  CASE pat[1] = "arg"  -> [cell |-> env[pat[2]], heap |-> m]
    [] pat[1] = "prim" -> [cell |-> CellOf[pat[2]], heap |-> m]
    [] pat[1] = "ap"   -> LET f == Make(m, pat[2], env)
                              a == Make(f.heap, pat[3], env)
                          IN  NewAp(a.heap, f.cell, a.cell)
Rewrite(m, n, body, env) ==
  IF body[1] = "ap"
    THEN LET f == Make(m, body[2], env)
             a == Make(f.heap, body[3], env)
         IN  Continue(Pushed([a.heap EXCEPT !.node[n] = Node("AP", f.cell, a.cell)], n), f.cell, "top")
    ELSE LET x == env[body[2]] IN Continue(Indirect(m, n, x), x, "top")

Args(k)    == [i \in 1..k |-> Argument(i)]
Redex(k, pat) ==   \* CHKARGk, then GOAP, GOAP2 or GOIND
  Rewrite(Popped(h, k), Top(k - 1), pat, [i \in 0..k |-> IF i = 0 THEN Top(k - 1) ELSE Argument(i)])
RuleFor(name) ==
  IF name \in DOMAIN Short /\ ~Has(Full[name].args) THEN Short[name] ELSE Full[name]
Reduct ==
  /\ Turn /\ Tag \in DOMAIN Full /\ UNCHANGED calls
  /\ LET rule == RuleFor(Tag) IN
     /\ rule.cells = 0 \/ Enough(rule.cells)
     /\ IF Has(rule.args) THEN Redex(rule.args, rule.body) ELSE Continue(h, cur, "ret")

(* Constants, and primitives without all their arguments, are values.      *)
Needs ==
  CASE Tag \in Binary       -> 2
    [] Tag \in Unary        -> 1
    [] Tag = "RAISE"        -> 1
    [] Tag \in DOMAIN Calls -> Arity[Tag]
    [] OTHER                -> 0
Value ==
  /\ Turn /\ Tag \notin DOMAIN Full \cup {"AP", "IND"}
  /\ Needs = 0 \/ ~Has(Needs)
  /\ Continue(h, cur, "ret") /\ UNCHANGED calls

----------------------------------------------------------------------------
(* Arithmetic: value_t has Width bits.                                     *)
Unsigned(x) == x % 2^Width
Signed(x)   == LET u == Unsigned(x) IN IF u >= 2^(Width - 1) THEN u - 2^Width ELSE u
IsInt(i)    == <<"int", Signed(i)>>
Raises(exn) == <<"raise", exn>>
Bool(b)     == <<"prim", IF b THEN "A" ELSE "K">>
Ordering(x, y) == <<"prim", IF x < y THEN "OrdLT" ELSE IF x > y THEN "OrdGT" ELSE "OrdEQ">>
DivideByZero == 4
Overflow     == 7
Checked(i)   == IF i = Signed(i) THEN IsInt(i) ELSE Raises(Overflow)
Abs(x)       == IF x < 0 THEN -x ELSE x
Quotient(x, y) == LET q == Abs(x) \div Abs(y) IN IF (x < 0) = (y < 0) THEN q ELSE -q

Int2(op, x, y) ==
  LET xu == Unsigned(x)
      yu == Unsigned(y)
  IN CASE op = "ADD"  -> Checked(x + y)   [] op = "UADD"  -> IsInt(xu + yu)
       [] op = "SUB"  -> Checked(x - y)   [] op = "USUB"  -> IsInt(xu - yu)
       [] op = "MUL"  -> Checked(x * y)   [] op = "UMUL"  -> IsInt(xu * yu)
       [] op = "SUBR" -> Checked(y - x)   [] op = "USUBR" -> IsInt(yu - xu)
       [] op \in {"QUOT", "REM", "UQUOT", "UREM"} /\ y = 0 -> Raises(DivideByZero)
       [] op = "QUOT" -> Checked(Quotient(x, y))
       [] op = "REM"  -> IsInt(x - y * Quotient(x, y))
       [] op = "UQUOT" -> IsInt(xu \div yu)  [] op = "UREM" -> IsInt(xu % yu)
       [] op = "AND" -> IsInt(xu & yu)   [] op = "OR" -> IsInt(xu | yu)   [] op = "XOR" -> IsInt(xu ^^ yu)
       [] op = "SHL" -> IsInt(xu * 2^yu) [] op = "SHR" -> IsInt(xu \div 2^yu)
       [] op = "ASHR" -> IsInt(x \div 2^yu)
       [] op = "EQ"  -> Bool(x = y)      [] op = "NE"  -> Bool(x # y)
       [] op = "LT"  -> Bool(x < y)      [] op = "ULT" -> Bool(xu < yu)
       [] op = "LE"  -> Bool(x <= y)     [] op = "ULE" -> Bool(xu <= yu)
       [] op = "GT"  -> Bool(x > y)      [] op = "UGT" -> Bool(xu > yu)
       [] op = "GE"  -> Bool(x >= y)     [] op = "UGE" -> Bool(xu >= yu)
       [] op = "ICMP" -> Ordering(x, y)  [] op = "UCMP" -> Ordering(xu, yu)
(* POPCOUNT clears the lowest one, CLZ and CTZ shift, until nothing is left. *)
RECURSIVE Ones(_), Length(_), Zeros(_)
Ones(u)   == IF u = 0 THEN 0 ELSE 1 + Ones(u & (u - 1))
Length(u) == IF u = 0 THEN 0 ELSE 1 + Length(u \div 2)
Zeros(u)  == IF u = 0 THEN Width ELSE IF u % 2 = 1 THEN 0 ELSE 1 + Zeros(u \div 2)
Int1(op, x) ==
  LET xu == Unsigned(x)
  IN CASE op = "NEG" -> Checked(-x)      [] op = "UNEG" -> IsInt(-xu)
       [] op = "INV" -> IsInt(-1 - x)    [] op = "POPCOUNT" -> IsInt(Ones(xu))
       [] op = "CLZ" -> IsInt(Width - Length(xu)) [] op = "CTZ" -> IsInt(Zeros(xu))

(* raise_exn: to the handler of the innermost catch, or to start_exec.     *)
Catches == {i \in DOMAIN calls : calls[i].op = "CATCHR"}
RaiseDeep(m, exn) ==                      \* mutant: the stack is not cut
  IF Catches = {} THEN Continue(m, exn, "died") /\ UNCHANGED calls
  ELSE Continue(m, exn, "handle") /\ calls' = SubSeq(calls, 1, Max(Catches))
Raise(m, exn) ==
  IF Catches = {} THEN Continue(m, exn, "died") /\ UNCHANGED calls
  ELSE LET c == Max(Catches) IN
       /\ Continue([m EXCEPT !.stack = SubSeq(@, 1, calls[c].base)], exn, "handle")
       /\ calls' = SubSeq(calls, 1, c)
RaiseExn == Turn /\ Tag = "RAISE" /\ Has(1) /\ Raise(Popped(h, 1), Argument(1))

(* What an operation makes of its redex, n: an indirection to a constant,  *)
(* an integer in place, or an exception.                                   *)
Result(m, n, r) ==
  CASE r[1] = "prim"  -> /\ Continue(Indirect(m, n, CellOf[r[2]]), CellOf[r[2]], "top")
                         /\ UNCHANGED calls
    [] r[1] = "int"   -> /\ Continue([m EXCEPT !.node[n] = Node("INT", 0, r[2])], n, "ret")
                         /\ UNCHANGED calls
    [] r[1] = "raise" -> LET e == MkInt(m, r[2]) IN Raise(e.heap, e.cell)
Follows(m, c) == m.node[Indir(m, c)]
(* binint1: the marker, then what is applied to the first and the second.  *)
BinInt1(m, n) ==
  LET at(i) == m.stack[Len(m.stack) - i] IN
  Result(Popped(m, 3), at(2),
         Int2(Follows(m, m.node[at(1)].f).tag, m.node[n].a, Follows(m, m.node[at(2)].a).a))

Strict2 ==
  /\ Turn /\ Tag \in Binary /\ Has(2)
  /\ LET x == Argument(1)
         y == Argument(2)
         marked(marker) == Pushed(h, CellOf[marker])
     IN  IF h.node[y].tag # "INT" THEN Continue(marked("BININT2"), y, "top") /\ UNCHANGED calls
         ELSE IF h.node[x].tag # "INT" THEN Continue(marked("BININT1"), x, "top") /\ UNCHANGED calls
         ELSE BinInt1(marked("BININT1"), x)
Strict1 ==
  /\ Turn /\ Tag \in Unary /\ Has(1)
  /\ Continue(Pushed(h, CellOf["UNINT1"]), Argument(1), "top") /\ UNCHANGED calls

(* The primitives that call evali, and what it returns to.                 *)
Call ==
  /\ Turn /\ Tag \in DOMAIN Calls /\ Has(Arity[Tag])
  /\ calls' = Append(calls, Frame(Len(h.stack), Tag, Args(Arity[Tag])))
  /\ Continue(h, Argument(Calls[Tag][1]), "top")

----------------------------------------------------------------------------
(* ret: by what is on top of this call's part of the stack.                *)
Ret     == mode = "ret" /\ Steps /\ UNCHANGED preempts
Within  == Len(h.stack) > Base
Marker  == h.node[Top(0)].tag
SecondDoneOnly ==                         \* mutant: the marker stays
  /\ Ret /\ Within /\ Marker = "BININT2"
  /\ Continue(h, Argument(2), "top") /\ UNCHANGED calls
SecondDone ==
  /\ Ret /\ Within /\ Marker = "BININT2"
  /\ Continue([h EXCEPT !.stack[Len(h.stack)] = CellOf["BININT1"]], Argument(2), "top") /\ UNCHANGED calls
FirstDone == Ret /\ Within /\ Marker = "BININT1" /\ BinInt1(h, cur)
UnaryDone ==
  /\ Ret /\ Within /\ Marker = "UNINT1"
  /\ Result(Popped(h, 2), Top(1), Int1(Follows(h, h.node[Top(1)].f).tag, h.node[cur].a))
(* A value with arguments: the outermost application is returned.          *)
Outermost ==
  /\ Ret /\ Within /\ Marker \notin {"BININT2", "BININT1", "UNINT1"}
  /\ Continue([h EXCEPT !.stack = SubSeq(@, 1, Base)], h.stack[Base + 1], "ret") /\ UNCHANGED calls

Frame1    == Last(calls)
Returns(op) ==
  /\ Ret /\ ~Within /\ Frame1.op = op
  /\ op \in DOMAIN Calls => Len(Frame1.got) = Len(Calls[op]) - 1
Caller    == calls' = Front(calls)
Goind(k, x) == Continue(Indirect(Popped(h, k), Top(k - 1), x), x, "top")
Gopair(m, k, f) ==     \* the redex becomes f and its last argument
  Continue([m EXCEPT !.stack = Append(SubSeq(@, 1, Len(@) - k), Top(k - 1)), !.node[Top(k - 1)].f = f], f, "top")

MainEnd  == Returns("main") /\ Continue(h, cur, "done") /\ UNCHANGED calls
SeqEnd   == Returns("SEQ") /\ Caller /\ Goind(2, Argument(2))
CatchEnd == Returns("CATCHR") /\ Caller /\ Goind(3, cur)
(* The index is known; the array is evaluated next.                        *)
IndexDone ==
  /\ Ret /\ ~Within /\ Frame1.op \in {"ARRREAD", "ARRWRITE"} /\ Frame1.got = <<>>
  /\ calls' = [calls EXCEPT ![Len(calls)].got = <<h.node[cur].a>>]
  /\ Continue(h, Frame1.args[1], "top")
Array == h.node[cur].f
Elem  == h.arr[Array].elem
At1   == Frame1.got[1] + 1
ArrRead ==
  /\ Returns("ARRREAD")
  /\ IF At1 \notin DOMAIN Elem THEN Continue(h, cur, "ERR") /\ UNCHANGED calls
     ELSE LET r == NewAp(h, CellOf["P"], Elem[At1]) IN
          Enough(1) /\ Gopair(r.heap, 3, r.cell) /\ Caller
ArrWrite ==
  /\ Returns("ARRWRITE")
  /\ IF At1 \notin DOMAIN Elem THEN Continue(h, cur, "ERR") /\ UNCHANGED calls
     ELSE Gopair([h EXCEPT !.arr[Array].elem[At1] = Frame1.args[3]], 4, CellOf["PairUnit"]) /\ Caller
(* arr_alloc comes before the check for its node.                          *)
ArrAlloc ==
  /\ Returns("ARRALLOC") /\ UNCHANGED calls
  /\ Continue(NewArr(h, [i \in 1..h.node[cur].a |-> Frame1.args[2]]), cur, "check")
ArrNode ==
  /\ mode = "check" /\ Steps /\ UNCHANGED preempts /\ Enough(2) /\ Caller
  /\ LET a == Alloc(h, Node("ARR", Len(h.arr), 0))
         r == NewAp(a.heap, CellOf["P"], a.cell)
     IN  Gopair(r.heap, 3, r.cell)

(* The handler, in place of the catch: BIND (y exn) (B' THEN (SETMASK omask) RETURN) z *)
Handle ==
  /\ mode = "handle" /\ Steps /\ UNCHANGED preempts /\ Enough(8) /\ Caller
  /\ Rewrite(Popped(h, 3), Top(2),
       Ap2(Ap(P("IOBIND"), Ap(Y, Arg(4))),
           Ap(Ap2(P("BB"), P("IOTHEN"), Ap(P("SETMASK"), Arg(5))), P("IORETURN")), Z),
       <<0, Frame1.args[2], Frame1.args[3], cur, IntCell(0)>>)

----------------------------------------------------------------------------
(* gc_check: with too little left, or when other threads have used the     *)
(* cells up; while they run they may collect as well.                      *)
Cells ==
  CASE mode = "top" /\ Tag \in DOMAIN Full -> RuleFor(Tag).cells
    [] mode = "ret" /\ ~Within /\ Frame1.op = "ARRREAD" /\ Len(Frame1.got) = 1 -> 1
    [] mode = "check"  -> 2
    [] mode = "handle" -> 8
    [] OTHER -> 0
Collects ==
  /\ Collect
  /\ \/ (mode = "loaded" \/ (Cells > 0 /\ Cells >= h.nfree)) /\ UNCHANGED gcs
     \/ /\ mode = "away" \/ (Cells > 0 /\ (mode = "check" => GcInWindow))
        /\ gcs > 0 /\ gcs' = gcs - 1
  /\ UNCHANGED <<prog, lvars, evars, preempts>>
Gc == GcStep /\ UNCHANGED <<prog, lvars, evars, gcs, preempts>>

Init ==
  /\ prog \in DOMAIN Programs
  /\ h = Memory /\ gc = GcOff(FALSE)
  /\ code = Programs[prog].tokens
  /\ table = [i \in 1..3 * Programs[prog].labels |-> [label |-> 0, node |-> NIL]]
  /\ mode = "load" /\ cur = NIL /\ calls = <<MainFrame>>
  /\ gcs = Programs[prog].gcs /\ preempts = Programs[prog].preempts
Ended == mode \in {"done", "died"}
Next ==
  \/ Load \/ StartExec \/ Preempt \/ Resume \/ Follow \/ Unwind \/ Reduct \/ Value \/ RaiseExn
  \/ Strict2 \/ Strict1 \/ Call \/ SecondDone \/ FirstDone \/ UnaryDone \/ Outermost
  \/ MainEnd \/ SeqEnd \/ CatchEnd \/ IndexDone \/ ArrRead \/ ArrWrite \/ ArrAlloc \/ ArrNode
  \/ Handle \/ Collects \/ Gc \/ (Ended /\ UNCHANGED vars)
(* Weak fairness of Next, which is enabled until the end.                  *)
Runs == []<>Ended \/ []<><<TRUE>>_vars
Spec == Init /\ [][Next]_vars /\ Runs

----------------------------------------------------------------------------
(* What main returned: its result is what the pair IORETURN made holds.    *)
Returned == Follows(h, Follows(h, h.node[cur].f).a)

(* Whatever is preempted and collected on the way, main returns the value  *)
(* of its program, with the effects of each action once, or dies with its  *)
(* exception.                                                              *)
ValueIsRight ==
  /\ mode = "done" => Returned = Node("INT", 0, Programs[prog].value)
  /\ mode = "died" => Programs[prog].raises /\ Follows(h, cur).a = Programs[prog].value
  /\ mode \notin {"ERR", "shared", "stack", "full"}

(* gc_check asks for as much as the reduction then takes: alloc_node never *)
(* finds the memory exhausted.                                             *)
ReserveKept == h.nfree >= 0

(* The stack of a call is a spine: each node on it applies the one above   *)
(* to an argument, and the last one applies n, whatever updates, markers   *)
(* and collections do to the graph under it.                               *)
Markers == {CellOf["BININT1"], CellOf["BININT2"], CellOf["UNINT1"]}
Bases   == {calls[i].base : i \in DOMAIN calls}
SpineKept ==
  gc.pc = "off" /\ mode \in {"top", "ret"} =>
    \A i \in DOMAIN h.stack :
      \/ h.stack[i] \in Markers
      \/ /\ h.node[h.stack[i]].tag = "AP"
         /\ LET above == IF i < Len(h.stack) THEN h.stack[i + 1] ELSE cur IN
            \/ above \in Markers \/ i \in Bases \/ (mode = "ret" /\ i = Len(h.stack))
            \/ Indir(h, h.node[h.stack[i]].f) = Indir(h, above)

(* The handler that runs is the second argument of the catch, as the       *)
(* comment at c/eval.c:5813 says.                                          *)
HandlerRuns ==
  gc.pc = "off" /\ mode = "handle" => Indir(h, Frame1.args[2]) = Indir(h, Argument(2))

(* The constants that every thread shares are never overwritten, although  *)
(* some of them are applications.                                          *)
PermanentsStay == [][\A c \in 0..NPerm - 1 : h'.node[c] = h.node[c]]_h

(* Every program ends.                                                     *)
EvaluationEnds == <>(mode = IF Programs[prog].raises THEN "died" ELSE "done")
=============================================================================
