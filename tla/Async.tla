------------------------------- MODULE Async -------------------------------
(***************************************************************************)
(* Asynchronous exceptions on the scheduler (c/eval.c): throwTo, the       *)
(* masking states, catch, and the interruption of threads that wait.       *)
(*                                                                         *)
(* throwTo puts an exception into the MVar mt_exn of its target and takes  *)
(* the target out of the queue it waits in; the target finds it when it    *)
(* next executes a primitive that can block, or yields.  Synchronous       *)
(* exceptions are in Reducer.                                              *)
(***************************************************************************)
EXTENDS Rts, FiniteSets

CONSTANTS
  ExnOf,      \* ExnOf[t]: mt_exn of thread t
  Exn,        \* the exceptions that are thrown, each once
  May,        \* May[t]: the primitives thread t uses
  Usecs,      \* the delays asked for
  MaxFrames   \* catches and masks a thread is inside of (bound)

(* Every thread has an mt_exn of its own (new_thread).  The theorems have  *)
(* this as a hypothesis.                                                   *)
ExnAssumption ==
  /\ ExnOf \in [Thread -> MVar] /\ \A t, u \in Thread : ExnOf[t] = ExnOf[u] => t = u
  /\ Exn \subseteq Value /\ May \in [Thread -> SUBSET STRING] /\ Usecs \subseteq Nat
  /\ MaxFrames \in Nat

VARIABLES
  mask,       \* mt_mask
  frames,     \* what a thread is inside of, outermost first: see Frame
  raising,    \* the exception on its way to a handler (hdl_exn, the_exn)
  thrown,     \* the exceptions that a throwTo has delivered to mt_exn
  raised      \* raised[v]: how often v has been raised

async == <<mask, frames, raising, thrown, raised>>
vars  == <<rts, async>>

Mask  == {"unmasked", "interruptible", "uninterruptible"}
Box   == MVar \ {ExnOf[t] : t \in Thread}        \* the MVars of the program
Msg   == Value \ Exn

(* A catch with its action running (omask is in saved), a handler, or a    *)
(* change of the masking state, each with what is to be restored after it. *)
(* entered: the masking state at the catch, for the properties.            *)
Frame == [kind : {"catch", "handler", "mask"}, saved : Mask, entered : Mask]
Around(k) == [kind |-> k, saved |-> mask[Cur], entered |-> mask[Cur]]

AInit ==
  /\ Init
  /\ mask    = [t \in Thread |-> "unmasked"]
  /\ frames  = [t \in Thread |-> <<>>]
  /\ raising = NIL
  /\ thrown  = {}
  /\ raised  = [v \in Value |-> 0]

----------------------------------------------------------------------------
(* check_thrown: is there an exception for the running thread, and may it  *)
(* be raised here?  intr: at a primitive that can block.                   *)
Thrown(intr) ==
  /\ data[ExnOf[Cur]] # NIL
  /\ mask[Cur] = "unmasked" \/ (intr /\ mask[Cur] = "interruptible")

(* It is taken from mt_exn with take_mvar, which looks at the stash first; *)
(* n sleepers have been woken before.  The redex is given up.              *)
RaisesThrown(n) ==
  LET E == ExnOf[Cur]
      v == Available(E)
      w == WokenBy(n) \o (IF mval[Cur] = NIL THEN takeput[E] ELSE <<>>) IN
  /\ raising' = v /\ raised' = [raised EXCEPT ![v] = @ + 1]
  /\ Completes
  /\ DropsStash
  /\ IF mval[Cur] # NIL
       THEN UNCHANGED <<data, takeput>>
       ELSE data' = [data EXCEPT ![E] = NIL] /\ takeput' = [takeput EXCEPT ![E] = <<>>]
  /\ Wakes(w)
  /\ timeq' = SubSeq(timeq, n + 1, Len(timeq))
  /\ at' = [t \in Thread |-> IF InQ(WokenBy(n), t) THEN -1 ELSE at[t]]
  /\ UNCHANGED <<rd, clock, exit, mask, frames, thrown>>

(* resched: the handlers are freed, and every CATCHR on the path to the    *)
(* redex is executed again, with the masking state of that time.           *)
Again(t) ==
  LET f == frames[t] IN
  [i \in DOMAIN f |-> IF f[i].kind = "catch" THEN [f[i] EXCEPT !.saved = mask[t]] ELSE f[i]]
Reschedules == frames' = [frames EXCEPT ![Cur] = Again(Cur)] /\ UNCHANGED <<mask, raising, thrown, raised>>

Runs    == Running /\ raising = NIL
Uses(p) == Runs /\ p \in May[Cur]
Asks(p) == Uses(p) /\ ~Thrown(TRUE)              \* check_thrown(true) returns

----------------------------------------------------------------------------
(* thread_intr: a thread that waits becomes runnable, unless it is         *)
(* uninterruptible.  In an MVar's queue it is also marked as having slept. *)
MayInterrupt(t) == state[t] \in {"wait_mvar", "wait_time"} /\ mask[t] # "uninterruptible"
Unlinked(q, t) ==                                \* find_and_unlink
  IF ~InQ(q, t) THEN q
  ELSE LET i == CHOOSE i \in 1..Len(q) : q[i] = t IN SubSeq(q, 1, i - 1) \o SubSeq(q, i + 1, Len(q))
Left(q, t)      == IF MayInterrupt(t) THEN Unlinked(q, t) ELSE q
LeftAll(qs, t)  == [m \in MVar |-> Left(qs[m], t)]
Awake(t)        == IF MayInterrupt(t) THEN [state EXCEPT ![t] = "runnable"] ELSE state
WithWoken(t)    == IF MayInterrupt(t) THEN Append(runq, t) ELSE runq
ThreadIntr(t)   ==
  /\ timeq' = Left(timeq, t)
  /\ rd'    = LeftAll(rd, t)
  /\ at'    = IF MayInterrupt(t) /\ state[t] = "wait_mvar" THEN [at EXCEPT ![t] = -1] ELSE at

(* throwTo: interrupt the target, then put the exception into its mt_exn,  *)
(* which blocks while another one is there.  Nobody waits to take from it. *)
Live(t)       == state[t] \notin {"unborn", "finished", "died"}
Unthrown(e)   == e \notin thrown /\ \A t \in Thread \ {Cur} : redex[t].arg # e
FindsEmpty(t) == data[ExnOf[t]] = NIL
ThrowTo(t, e) ==
  LET E == ExnOf[t] IN
  /\ Asks("throw") /\ Executes("put", E, e) /\ Live(t) /\ Unthrown(e) /\ FindsEmpty(t)
  /\ ThreadIntr(t) /\ takeput' = LeftAll(takeput, t)
  /\ runq' = WithWoken(t) /\ state' = Awake(t)
  /\ data' = [data EXCEPT ![E] = e] /\ thrown' = thrown \cup {e}
  /\ Completes
  /\ UNCHANGED <<mval, clock, exit, mask, frames, raising, raised>>
ThrowToWaits(t, e) ==
  LET E == ExnOf[t] IN
  /\ Asks("throw") /\ Executes("put", E, e) /\ Live(t) /\ Unthrown(e) /\ ~FindsEmpty(t)
  /\ ThreadIntr(t) /\ takeput' = [LeftAll(takeput, t) EXCEPT ![E] = Append(@, Cur)]
  /\ runq' = Tail(WithWoken(t)) /\ state' = [Awake(t) EXCEPT ![Cur] = "wait_mvar"]
  /\ redex' = [redex EXCEPT ![Cur] = Pending("put", E, e)]
  /\ Reschedules
  /\ UNCHANGED <<data, mval, clock, exit>>
ThrowToDead(t, e) ==
  /\ Asks("throw") /\ Executes("put", ExnOf[t], e) /\ state[t] \in {"finished", "died"}
  /\ Completes
  /\ UNCHANGED <<state, mval, at, runq, timeq, mvars, clock, exit, async>>

----------------------------------------------------------------------------
(* The primitives that can block look for an exception first.              *)
Blocks   == {"take", "read", "put", "delay", "throw"}
Thrower  == Runs /\ Thrown(TRUE) /\ (redex[Cur] # NoRedex \/ May[Cur] \cap Blocks # {}) /\ RaisesThrown(0)
Take(m)      == Asks("take") /\ (\E v \in Value : TakeMVar(m, v)) /\ UNCHANGED async
TakeWaits(m) == Asks("take") /\ TakeMVarBlocks(m) /\ Reschedules
Read(m)      == Asks("read") /\ (\E v \in Value : ReadMVar(m, v)) /\ UNCHANGED async
ReadWaits(m) == Asks("read") /\ ReadMVarBlocks(m) /\ Reschedules
Put(m)       == Asks("put")  /\ (\E v \in Msg : PutMVar(m, v)) /\ UNCHANGED async
PutWaits(m)  == Asks("put")  /\ (\E v \in Msg : PutMVarBlocks(m, v)) /\ Reschedules
Delay        == Asks("delay") /\ (\E u \in Usecs : clock + u < ClockMod /\ DelayBegins(u)) /\ Reschedules
Wake         == Asks("delay") /\ DelayReturns /\ UNCHANGED async

(* yield: the sleepers, then check_thrown(false), then the next thread.    *)
Slice ==
  /\ Runs
  /\ IF Thrown(FALSE)
       THEN \E n \in 0..Len(timeq) : DueN(n) /\ RaisesThrown(n)
       ELSE Preempt /\ IF Alone THEN UNCHANGED async ELSE Reschedules

----------------------------------------------------------------------------
(* setMaskingState around an action, catch, and what is left again.        *)
Enters(k) ==
  /\ Starts /\ Len(frames[Cur]) < MaxFrames
  /\ frames' = [frames EXCEPT ![Cur] = Append(@, Around(k))]
  /\ UNCHANGED <<rts, raising, thrown, raised>>
Masks(l) == Uses("mask")  /\ Enters("mask")  /\ mask' = [mask EXCEPT ![Cur] = l]
Catches  == Uses("catch") /\ Enters("catch") /\ UNCHANGED mask
Leaves ==
  LET f == frames[Cur]  top == f[Len(f)] IN
  /\ Runs /\ Starts /\ f # <<>>
  /\ frames' = [frames EXCEPT ![Cur] = SubSeq(f, 1, Len(f) - 1)]
  /\ mask' = IF top.kind = "catch" THEN mask ELSE [mask EXCEPT ![Cur] = top.saved]
  /\ UNCHANGED <<rts, raising, thrown, raised>>

(* raise_exn: to the innermost catch, whose handler runs masked, or else   *)
(* to the scheduler, and the thread has died.                              *)
CatchAt(f, i) == f[i].kind = "catch" /\ \A j \in i + 1..Len(f) : f[j].kind # "catch"
Handles ==
  LET f == frames[Cur] IN
  /\ Running /\ raising # NIL
  /\ \E i \in DOMAIN f :
       /\ CatchAt(f, i)
       /\ frames' = [frames EXCEPT ![Cur] = Append(SubSeq(f, 1, i - 1), [f[i] EXCEPT !.kind = "handler"])]
  /\ mask' = [mask EXCEPT ![Cur] = "interruptible"]
  /\ raising' = NIL
  /\ UNCHANGED <<rts, thrown, raised>>
DiesOfIt ==
  /\ Running /\ raising # NIL
  /\ \A i \in DOMAIN frames[Cur] : frames[Cur][i].kind # "catch"
  /\ Die
  /\ raising' = NIL /\ frames' = [frames EXCEPT ![Cur] = <<>>]
  /\ UNCHANGED <<mask, thrown, raised>>

ForkOne ==                                       \* the masking state is inherited
  /\ Uses("fork")
  /\ \E t \in Thread : Fork(t) /\ mask' = [mask EXCEPT ![t] = mask[Cur]]
  /\ UNCHANGED <<frames, raising, thrown, raised>>
Return == Uses("finish") /\ frames[Cur] = <<>> /\ Finish /\ UNCHANGED async
Pause  == PauseExec /\ UNCHANGED async
GiveUp == Deadlock /\ UNCHANGED async
Time   == clock + 1 < ClockMod /\ Tick /\ UNCHANGED async

Next ==
  \/ \E m \in Box : Take(m) \/ TakeWaits(m) \/ Read(m) \/ ReadWaits(m) \/ Put(m) \/ PutWaits(m)
  \/ \E t \in Thread, e \in Exn : ThrowTo(t, e) \/ ThrowToWaits(t, e) \/ ThrowToDead(t, e)
  \/ \E l \in Mask : Masks(l)
  \/ Thrower \/ Delay \/ Wake \/ Slice \/ Catches \/ Leaves \/ Handles \/ DiesOfIt
  \/ ForkOne \/ Return \/ Pause \/ GiveUp \/ Time
Spec == AInit /\ [][Next]_vars

(* As in Threads: a slice ends, and longjmp arrives.                       *)
LiveSpec == Spec /\ WF_vars(Slice) /\ WF_vars(Pause) /\ WF_vars(Time) /\ WF_vars(Handles \/ DiesOfIt)

----------------------------------------------------------------------------
AsyncTypeOK ==
  /\ TypeOK
  /\ mask    \in [Thread -> Mask]
  /\ frames  \in [Thread -> Seq(Frame)]
  /\ raising \in Value \cup {NIL}
  /\ thrown  \subseteq Exn
  /\ raised  \in [Value -> Nat]

(* Nobody sleeps on an exception: a thread that waits, and may be          *)
(* interrupted, has none in its mt_exn.  It is interrupted when one is     *)
(* thrown, and looks before it goes to wait ("check if we have a thrown    *)
(* exception", eval.c 5701).                                               *)
NobodySleepsOnIt ==
  \A t \in Thread :
    state[t] \in {"wait_mvar", "wait_time"} /\ mask[t] # "uninterruptible" => data[ExnOf[t]] = NIL

(* A sleeper is taken from timeq before its time only for an exception     *)
(* that it can raise: otherwise it would sleep all over again.             *)
WokenForAReason ==
  \A t \in Thread :
    state[t] = "runnable" /\ redex[t].prim = "delay" /\ at[t] # -1
      => data[ExnOf[t]] # NIL /\ mask[t] # "uninterruptible"

(* An exception that was delivered is raised once, or is still waiting in  *)
(* the mt_exn of its target.                                               *)
Waits(e) == Cardinality({t \in Thread : data[ExnOf[t]] = e})
RaisedOnce == \A e \in thrown : raised[e] + Waits(e) = 1

(* An exception for a thread that does not mask it is raised, unless the   *)
(* thread ends or masks it first.                                          *)
ThrownArrives ==
  \A t \in Thread :
    data[ExnOf[t]] # NIL /\ mask[t] = "unmasked" /\ Live(t)
      ~> (data[ExnOf[t]] = NIL \/ mask[t] # "unmasked" \/ ~Live(t) \/ exit # "no")

(* What check_thrown raises is an exception that was thrown ("get the      *)
(* exception", eval.c 1244).                                               *)
RaisesExceptions == raising # NIL => raising \in Exn

(* A delay that returns has been waited for ("delay has already expired,   *)
(* so just return", eval.c 5763).                                          *)
DelayIsWaitedFor == [][Wake => redex[Cur].prim = "delay"]_vars

(* A handler gives back the masking state that catch was called in ("old   *)
(* mask", eval.c 5803).                                                    *)
HandlerRestores ==
  \A t \in Thread : \A i \in DOMAIN frames[t] :
    frames[t][i].kind = "handler" => frames[t][i].saved = frames[t][i].entered
============================================================================
