----------------------------- MODULE MCReducer -----------------------------
(***************************************************************************)
(* The programs of the Reducer runs, with the values they have by the laws *)
(* of the combinators (c/eval.c:4806-4841) and by arithmetic.              *)
(***************************************************************************)
EXTENDS Reducer

N(i)          == <<"int", i>>
Use(l)        == <<"use", l>>
Share(l, t)   == <<"share", l, t>>
Ap3(f, a, b, c)    == Ap(Ap2(f, a, b), c)
Ap4(f, a, b, c, d) == Ap(Ap3(f, a, b, c), d)

(* The tokens of a graph, as the compiler writes them.                     *)
RECURSIVE Tokens(_)
Tokens(t) ==
  CASE t[1] = "ap"    -> Tokens(t[2]) \o Tokens(t[3]) \o <<<<"@">>>>
    [] t[1] = "int"   -> <<<<"#", t[2]>>>>
    [] t[1] = "use"   -> <<<<"_", t[2]>>>>
    [] t[1] = "share" -> Tokens(t[3]) \o <<<<":", t[2]>>>>
    [] t[1] = "array" -> FlattenSeq([i \in 1..Len(t[2]) |-> Tokens(t[2][i])]) \o <<<<"[", Len(t[2])>>>>
    [] OTHER          -> <<t>>

(* main = io >>= \r -> r `seq` return r *)
Main(io, raises, value, gcs_, preempts_) ==
  [tokens |-> Tokens(Ap2(P("IOBIND"), io, Ap2(P("S"), P("SEQ"), P("IORETURN")))) \o <<<<"}">>>>,
   labels |-> 2, raises |-> raises, value |-> value, gcs |-> gcs_, preempts |-> preempts_]
IO(io, value)   == Main(io, FALSE, value, 1, 1)
Pure(t, value)  == IO(Ap(P("IORETURN"), t), value)
Forced(f, a, value) ==      \* f is a value before it is used in a
  Pure(Ap2(P("SEQ"), Share(1, f), a), value)

(* Every combinator, with all its arguments and with fewer.                *)
Inc  == Ap(P("ADD"), N(1))
Sub  == P("SUB")
This == Use(1)
Laws == <<
  Pure(Ap3(P("S"), Sub, Inc, N(5)), -1),     Pure(Ap4(P("SS"), Sub, Inc, P("I"), N(3)), 1),
  Pure(Ap2(P("K"), N(3), N(4)), 3),          Pure(Ap2(P("A"), N(3), N(4)), 4),
  Pure(Ap2(P("U"), N(3), Inc), 4),           Pure(Ap3(P("B"), Inc, Inc, N(3)), 5),
  Pure(Ap(P("Y"), Ap(P("K"), N(5))), 5),     Pure(Ap3(P("Z"), Inc, N(3), N(7)), 4),
  Pure(Ap4(P("BB"), Sub, N(7), Inc, N(3)), 3), Pure(Ap3(P("C"), Sub, N(3), N(5)), 2),
  Pure(Ap4(P("CC"), Sub, Inc, N(2), N(5)), 4), Pure(Ap3(P("P"), N(5), N(3), Sub), 2),
  Pure(Ap3(P("R"), N(3), Sub, N(5)), 2),     Pure(Ap4(P("O"), N(5), N(3), N(0), Sub), 2),
  Pure(Ap3(P("K2"), N(1), N(2), N(3)), 1),   Pure(Ap4(P("K3"), N(1), N(2), N(3), N(4)), 1),
  Pure(Ap(Ap4(P("K4"), N(1), N(2), N(3), N(4)), N(5)), 1),
  Pure(Ap4(P("CCB"), Sub, Inc, N(7), N(2)), 4),
  Forced(Ap2(P("BB"), Sub, N(7)), Ap2(This, Inc, N(3)), 3), Forced(Ap2(P("Z"), Inc, N(3)), Ap(This, N(7)), 4),
  Forced(Ap2(P("R"), N(3), Sub), Ap(This, N(5)), 2),        Forced(Ap2(P("K2"), N(1), N(2)), Ap(This, N(3)), 1),
  Forced(Ap2(P("K3"), N(1), N(2)), Ap2(This, N(3), N(4)), 1),
  Forced(Ap2(P("K4"), N(1), N(2)), Ap3(This, N(3), N(4), N(5)), 1),
  Forced(Ap3(P("CCB"), Sub, Inc, N(7)), Ap(This, N(2)), 4)>>

(* Recursion through Y and through the graph: the sum of 1..n.             *)
Then(f, g) == Ap2(P("B"), f, g)             \* f after g
SumStep ==    \* \f n -> if n == 0 then 0 else n + f (n - 1)
  Then(Ap2(P("C"), P("C"), N(0)),
       Then(Ap(P("S"), Ap2(P("C"), P("EQ"), N(0))),
            Then(Ap(P("S"), P("ADD")), Ap2(P("C"), P("B"), Ap2(P("C"), P("SUB"), N(1))))))
Recursion == <<
  Pure(Ap2(P("Y"), SumStep, N(3)), 6), Pure(Ap(Share(1, Ap(SumStep, This)), N(3)), 6),
  Pure(Ap2(P("ADD"), Share(1, Ap(Inc, N(1))), Ap2(P("ADD"), Use(1), Share(7, Ap(Inc, Use(1))))), 7)>>

(* Actions: references are arrays of one.                                  *)
Bind(io, k) == Ap2(P("IOBIND"), io, k)
Next1(a, b) == Ap2(P("IOTHEN"), a, b)
Return      == P("IORETURN")
New(v)      == Ap2(P("ARRALLOC"), N(1), v)
Read        == Ap2(P("C"), P("ARRREAD"), N(0))
Add(n)      ==  \* \r -> readIORef r >>= writeIORef r . (n +)
  Ap2(P("S"), Then(P("IOBIND"), Read),
      Ap2(P("C"), Then(P("B"), Ap2(P("C"), P("ARRWRITE"), N(0))), Ap(P("ADD"), N(n))))
Both(f, g)  == Ap2(P("S"), Then(P("IOTHEN"), f), g)   \* \r -> f r >> g r
Catch(io, hdl) == Ap2(P("CATCH"), io, hdl)
Catching(f, hdl) == Ap2(P("C"), Then(P("CATCH"), f), hdl)  \* \r -> catch (f r) hdl
Throw(n)    == Ap(P("K"), Ap(P("RAISE"), N(n)))       \* \r -> raise n
Actions == <<
  IO(Bind(New(N(2)), Both(Add(1), Both(Add(3), Read))), 6),
  IO(Ap2(P("ARRREAD"), <<"array", <<N(3), N(4), Ap(Inc, N(4))>>>>, N(2)), 5),
  IO(Catch(Ap(P("RAISE"), N(3)), Then(Return, Inc)), 4),
  IO(Catch(Ap(Return, N(3)), Then(Return, Inc)), 3),
  IO(Catch(Catch(Ap(P("RAISE"), N(1)), Then(P("RAISE"), Inc)), Then(Return, Inc)), 3),
  IO(Catch(Ap2(P("SEQ"), Ap2(P("ADD"), N(7), N(7)), Ap(Return, N(0))), Return), Overflow),
  IO(Catch(Ap2(P("SEQ"), Ap2(P("REM"), N(7), N(0)), Ap(Return, N(0))), Return), DivideByZero),
  Main(Bind(New(N(2)), Both(Catching(Both(Add(1), Both(Throw(1), Add(1))), Ap(P("K"), Ap(Return, N(0)))),
                            Both(Add(3), Read))), FALSE, 6, 0, 1),
  Main(Bind(New(N(2)), Both(Add(1), Throw(5))), TRUE, 5, 1, 1),
  IO(Ap(Return, Ap2(P("ADD"), Share(1, Ap(P("PERFORM"), Bind(New(N(2)), Both(Add(1), Read)))), Use(1))), 6)>>

(* Arithmetic, against its definition on the integers and on sets of bits. *)
Value_t    == -2^(Width - 1)..2^(Width - 1) - 1
BitsOf(x)  == {i \in 0..Width - 1 : (x \div 2^i) % 2 = 1}
U(x)       == MapThenSumSet(LAMBDA i : 2^i, BitsOf(x))
Exactly(v) == [raises |-> v \notin Value_t, value |-> IF v \in Value_t THEN v ELSE Overflow]
Modulo(v)  == Exactly(CHOOSE w \in Value_t : (w - v) % 2^Width = 0)
Having(b)  == Exactly(CHOOSE v \in Value_t : BitsOf(v) = b)
Truth(b)   == Exactly(IF b THEN 1 ELSE 0)
Order(x, y) == Exactly(IF x < y THEN 0 ELSE IF x = y THEN 1 ELSE 2)
Divided(x, y) ==        \* towards 0
  CHOOSE q \in -2^Width..2^Width : LET r == x - q * y IN Abs(r) < Abs(y) /\ r * x >= 0
Divides == {"QUOT", "REM", "UQUOT", "UREM"}
Truths  == {"EQ", "NE", "LT", "LE", "GT", "GE", "ULT", "ULE", "UGT", "UGE"}
Orders  == {"ICMP", "UCMP"}
Shifts  == {"SHL", "SHR", "ASHR"}
Wanted(op, x, y) ==
  CASE op = "ADD"  -> Exactly(x + y) [] op = "UADD"  -> Modulo(x + y)
    [] op = "SUB"  -> Exactly(x - y) [] op = "USUB"  -> Modulo(x - y)
    [] op = "SUBR" -> Exactly(y - x) [] op = "USUBR" -> Modulo(y - x)
    [] op = "MUL"  -> Exactly(x * y) [] op = "UMUL"  -> Modulo(x * y)
    [] op \in Divides /\ y = 0 -> [raises |-> TRUE, value |-> DivideByZero]
    [] op = "QUOT"  -> Exactly(Divided(x, y))      [] op = "REM"  -> Exactly(x - y * Divided(x, y))
    [] op = "UQUOT" -> Modulo(Divided(U(x), U(y))) [] op = "UREM" -> Modulo(U(x) - U(y) * Divided(U(x), U(y)))
    [] op = "AND"  -> Having(BitsOf(x) \cap BitsOf(y))
    [] op = "OR"   -> Having(BitsOf(x) \cup BitsOf(y))
    [] op = "XOR"  -> Having((BitsOf(x) \cup BitsOf(y)) \ (BitsOf(x) \cap BitsOf(y)))
    [] op = "SHL"  -> Having({i + y : i \in BitsOf(x)} \cap 0..Width - 1)
    [] op = "SHR"  -> Having({i - y : i \in BitsOf(x)} \cap Nat)
    [] op = "ASHR" -> Having({i \in 0..Width - 1 : Min({i + y, Width - 1}) \in BitsOf(x)})
    [] op = "EQ"   -> Truth(x = y)       [] op = "NE"  -> Truth(x # y)
    [] op = "LT"   -> Truth(x < y)       [] op = "ULT" -> Truth(U(x) < U(y))
    [] op = "LE"   -> Truth(x <= y)      [] op = "ULE" -> Truth(U(x) <= U(y))
    [] op = "GT"   -> Truth(x > y)       [] op = "UGT" -> Truth(U(x) > U(y))
    [] op = "GE"   -> Truth(x >= y)      [] op = "UGE" -> Truth(U(x) >= U(y))
    [] op = "ICMP" -> Order(x, y)        [] op = "UCMP" -> Order(U(x), U(y))
    [] op = "NEG"  -> Exactly(-x)        [] op = "UNEG" -> Modulo(-x)
    [] op = "INV"  -> Having(0..Width - 1 \ BitsOf(x))
    [] op = "POPCOUNT" -> Exactly(Cardinality(BitsOf(x)))
    [] op = "CLZ"  -> Exactly(Width - 1 - Max(BitsOf(x) \cup {-1}))
    [] op = "CTZ"  -> Exactly(Min(BitsOf(x) \cup {Width}))
Applied(op, x, y) ==
  LET t == IF op \in Unary THEN Ap(P(op), N(x)) ELSE Ap2(P(op), N(x), N(y)) IN
  CASE op \in Truths -> Ap2(t, N(0), N(1)) [] op \in Orders -> Ap3(t, N(0), N(1), N(2)) [] OTHER -> t
Sum(op, x, y) ==
  LET w == Wanted(op, x, y) IN Main(Ap(P("IORETURN"), Applied(op, x, y)), w.raises, w.value, 0, 0)
Operations == FoldSet(LAMBDA op, s : Append(s, op), <<>>, Binary \cup Unary)
Edges      == <<-8, -1, 0, 3, 7>>
Arithmetic ==   \* the shift of a word is by less than its bits
  FlattenSeq([o \in DOMAIN Operations |-> FlattenSeq([i \in DOMAIN Edges |->
    IF Operations[o] \in Unary THEN <<Sum(Operations[o], Edges[i], 0)>>
    ELSE [j \in DOMAIN Edges |->
           Sum(Operations[o], Edges[i],
               IF Operations[o] \in Shifts THEN Edges[j] % Width ELSE Edges[j])]])])

(* A handler that has been evaluated before it is passed on.               *)
Handlers == <<
  IO(Ap2(P("SEQ"), Share(1, Ap(P("I"), Then(Return, Inc))),
         Catch(Next1(Ap(Return, N(0)), Ap(P("RAISE"), N(3))), Use(1))), 4)>>

MCLowInt   == -1
MCPrograms == Laws \o Recursion \o Actions \o Arithmetic
=============================================================================
