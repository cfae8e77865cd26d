--------------------------- MODULE ProcessProofs ---------------------------
(***************************************************************************)
(* Processes: one instance of a child at a time, and nobody waits for a    *)
(* shared MVar unless a switch has hit a swapMVar; for any number of       *)
(* children, threads and restarts.                                         *)
(***************************************************************************)
EXTENDS Process, RtsProofs

Kid      == Thread \ {Main}
MainPcs  == {"new_hb", "spawn", "fork", "respawn", "refork", "sleep", "check", "wait", "wait_sleep", "over"}
Working  == {"action", "nap", "hb_take", "hb_put", "done_take", "done_put"}
Watching == {"sleep", "check", "respawn", "refork", "wait", "wait_sleep"}
Forking  == {"fork", "refork"}
Putting  == {"hb_put", "done_put"}
MainAt(S)  == frame[Main].pc \in S
Spawned(c) == handle[c] \in Kid /\ frame[handle[c]].pc # "none"

(* Who can be where; a thread has a place from its fork on.                *)
Places ==
  /\ MainAt(MainPcs) /\ state[Main] # "unborn"
  /\ \A t \in Kid : frame[t].pc \in {"none", "over"} \cup Working
  /\ \A t \in Kid : state[t] = "unborn" <=> frame[t].pc = "none"

(* The handle of a child names the only thread that works for it.  Main    *)
(* has spawned the children before the one it is at, and respawns one      *)
(* whose thread is through.                                                *)
Lineage ==
  /\ \A t \in Kid : frame[t].pc \in Working => handle[frame[t].ch] = t
  /\ MainAt(Watching) => \A c \in Child : Spawned(c)
  /\ MainAt({"spawn", "fork"}) => \A c \in Child : c < frame[Main].ch => Spawned(c)
  /\ MainAt({"new_hb", "spawn", "fork"}) =>
       \A t \in Kid : frame[t].pc \in Working => frame[t].ch < frame[Main].ch
  /\ MainAt({"respawn", "refork"}) => frame[handle[frame[Main].ch]].pc = "over"
  /\ MainAt({"new_hb"}) => frame[Main].ch = 1

(* A state is Done only when its thread is through; the state of a thread  *)
(* to come is empty, but of the one that is being forked.                  *)
Marks ==
  /\ \A t \in Kid : data[St[t]] = "Done" => frame[t].pc = "over"
  /\ MainAt(Forking) => Unborn # {}
  /\ \A t \in Unborn : data[St[t]] # NIL => MainAt(Forking) /\ t = New

(* As long as no switch has hit a swapMVar, only the running thread can be *)
(* inside one, so all MVars but the one it has taken are full.             *)
Quiet ==
  ~cut =>
  /\ \A t \in Thread : state[t] # "wait_mvar" /\ mval[t] = NIL
  /\ \A t \in Kid : frame[t].pc \in Putting => runq # <<>> /\ t = Cur
  /\ data[Hb] = NIL <=> (MainAt({"new_hb"}) \/ \E t \in Kid : frame[t].pc = "hb_put")
  /\ \A t \in Kid : frame[t].pc # "none" => (data[St[t]] = NIL <=> frame[t].pc = "done_put")
  /\ MainAt(Forking) => data[St[New]] # NIL

Founded == RtsInv /\ ProcTypeOK /\ Places
ProcInv == Founded /\ Lineage /\ Marks /\ Quiet

----------------------------------------------------------------------------
(* What a step does to the other threads: it keeps them or wakes them; the *)
(* head of runq stays; nobody is born.                                     *)
HeadStays == runq' # <<>> /\ Head(runq') = Cur
Keeps     == \A t \in Thread : state'[t] = "unborn" <=> state[t] = "unborn"
Others    == \A t \in Thread : KeptOrWoken(t)
Blocked   == state' = [state EXCEPT ![Cur] = "wait_mvar"] /\ UNCHANGED <<data, frame>>
Goes2(f)  == Becomes(f) /\ HeadStays /\ Others
Sets(m, v) == data' = [data EXCEPT ![m] = v]

LEMMA HeadOfConcat ==
  ASSUME NEW S, NEW q \in Seq(S), NEW r \in Seq(S), q # <<>>
  PROVE  q \o r # <<>> /\ Head(q \o r) = Head(q)
BY ConcatProperties, HeadTailProperties

LEMMA WakesHead ==
  ASSUME RtsInv, Running, NEW m \in MVar, runq' = runq \o takeput[m]
  PROVE  HeadStays
BY HeadOfConcat DEF RtsInv, TypeOK, Running, HeadStays, Cur

LEMMA StFacts ==
  /\ \A t \in Thread : St[t] \in MVar /\ St[t] # Hb
  /\ \A t, u \in Thread : St[t] = St[u] => t = u
  /\ Hb \in MVar /\ Main \in Thread /\ NIL \notin Value
  /\ {"Running", "Done", "on", "off"} \subseteq Value
BY ProcAssumption, ThreadAssumption, ValueAssumption

LEMMA SameNew ==
  ASSUME Keeps
  PROVE  Unborn' = Unborn /\ New' = New
<1>1. Unborn' = Unborn
  BY DEF Unborn, Keeps
<1>2. QED BY <1>1 DEF New

LEMMA OthersKeep ==
  ASSUME Others
  PROVE  Keeps
BY DEF Others, Keeps, KeptOrWoken

LEMMA NewIsUnborn ==
  ASSUME Unborn # {}
  PROVE  New \in Unborn /\ New \in Thread /\ state[New] = "unborn"
BY DEF New, Unborn

(* With nobody waiting for an MVar, the queues of all MVars are empty.     *)
LEMMA NobodyQueues ==
  ASSUME RtsInv, \A t \in Thread : state[t] # "wait_mvar", NEW m \in MVar
  PROVE  takeput[m] = <<>> /\ rd[m] = <<>>
<1>1. takeput[m] \in Seq(Thread) /\ rd[m] \in Seq(Thread)
  BY DEF RtsInv, TypeOK
<1>2. \A t \in Thread : ~InQ(takeput[m], t) /\ ~InQ(rd[m], t)
  BY DEF RtsInv, OneQueue
<1>3. ASSUME NEW q \in Seq(Thread), \A t \in Thread : ~InQ(q, t)
      PROVE  q = <<>>
  <2>1. SUFFICES ASSUME q # <<>> PROVE FALSE
    OBVIOUS
  <2>2. Len(q) \in Nat /\ Len(q) # 0 /\ \A i \in 1..Len(q) : q[i] \in Thread
    BY <1>3, <2>1, LenProperties, EmptySeq
  <2>3. q[1] \in Thread /\ 1 \in 1..Len(q)
    BY <2>2
  <2>4. InQ(q, q[1])
    BY <2>3 DEF InQ
  <2>5. QED BY <1>3, <2>3, <2>4
<1>4. QED BY <1>1, <1>2, <1>3

----------------------------------------------------------------------------
(* The operations of the programs, with what is left of the runtime.       *)
LEMMA TakesDoes ==
  ASSUME RtsInv, Quiet, NEW p, NEW m \in MVar, NEW f, Takes(p, m, f)
  PROVE  /\ Running /\ Cur \in Thread /\ Me.pc = p /\ RtsInv' /\ UNCHANGED <<prog, handle, cut>>
         /\ \/ data[m] = NIL /\ Blocked
            \/ /\ Goes2(f) /\ (data' = data \/ Sets(m, NIL))
               /\ ~cut => mval' = mval /\ Sets(m, NIL)
<1>1. Running /\ Me.pc = p /\ UNCHANGED <<prog, handle, cut>>
  BY DEF Takes, At, Else
<1>2. CASE TakeMVarBlocks(m) /\ UNCHANGED frame
  <2>1. RtsInv'
    BY <1>2, TakeMVarBlocksOK
  <2>2. Cur \in Thread /\ data[m] = NIL
    BY <1>2, TakeBlocksEffect
  <2>3. Blocked
    BY <1>2 DEF TakeMVarBlocks, Suspends, Blocked
  <2>4. QED BY <1>1, <2>1, <2>2, <2>3
<1>3. ASSUME NEW v \in Value, TakeMVar(m, v), Becomes(f)
      PROVE  /\ Cur \in Thread /\ RtsInv' /\ Goes2(f) /\ (data' = data \/ Sets(m, NIL))
             /\ ~cut => mval' = mval /\ Sets(m, NIL)
  <2>1. RtsInv'
    BY <1>3, TakeMVarOK
  <2>2. Cur \in Thread /\ Gets(m, v) /\ Others
    BY <1>3, TakeEffect DEF Others
  <2>3. HeadStays
    <3>1. CASE mval[Cur] # NIL
      BY <1>1, <1>3, <3>1 DEF TakeMVar, Taken, HeadStays, Running, Cur
    <3>2. CASE mval[Cur] = NIL
      <4>1. runq' = runq \o takeput[m]
        BY <1>3, <3>2 DEF TakeMVar, Taken, Wakes
      <4>2. QED BY <1>1, <4>1, WakesHead
    <3>3. QED BY <3>1, <3>2
  <2>4. ASSUME ~cut PROVE mval' = mval /\ Sets(m, NIL)
    <3>1. mval[Cur] = NIL
      BY <2>2, <2>4 DEF Quiet
    <3>2. QED BY <1>3, <2>2, <3>1, ValueAssumption DEF Gets, Sets
  <2>5. QED BY <1>3, <2>1, <2>2, <2>3, <2>4 DEF Goes2, Gets, Sets
<1>4. QED BY <1>1, <1>2, <1>3 DEF Takes

LEMMA PutsDoes ==
  ASSUME RtsInv, Quiet, NEW p, NEW m \in MVar, NEW v \in Value, NEW f, Puts(p, m, v, f)
  PROVE  /\ Running /\ Cur \in Thread /\ Me.pc = p /\ RtsInv' /\ UNCHANGED <<prog, handle, cut>>
         /\ \/ data[m] # NIL /\ Blocked
            \/ /\ Goes2(f) /\ data[m] = NIL /\ (data' = data \/ Sets(m, v))
               /\ ~cut => mval' = mval /\ Sets(m, v)
<1>1. Running /\ Me.pc = p /\ UNCHANGED <<prog, handle, cut>>
  BY DEF Puts, At, Else
<1>2. Cur \in Thread
  BY <1>1, CurFacts
<1>3. CASE PutMVarBlocks(m, v) /\ UNCHANGED frame
  <2>1. RtsInv'
    BY <1>3, PutMVarBlocksOK
  <2>2. Blocked /\ data[m] # NIL
    BY <1>3 DEF PutMVarBlocks, Suspends, Blocked
  <2>3. QED BY <1>1, <1>2, <2>1, <2>2
<1>4. CASE PutMVar(m, v) /\ Becomes(f)
  <2>1. RtsInv'
    BY <1>4, PutMVarOK
  <2>2. data[m] = NIL /\ (data' = data \/ Sets(m, v))
    BY <1>4 DEF PutMVar, Stored, Sets
  <2>3. CASE takeput[m] = <<>> /\ rd[m] = <<>>
    <3>1. UNCHANGED <<mval, runq, state>> /\ Sets(m, v)
      BY <1>4, <2>3 DEF PutMVar, Stored, Sets
    <3>2. HeadStays /\ Others
      BY <1>1, <3>1 DEF HeadStays, Others, KeptOrWoken, Running, Cur
    <3>3. QED BY <1>1, <1>2, <1>4, <2>1, <2>2, <3>1, <3>2 DEF Goes2
  <2>4. CASE ~(takeput[m] = <<>> /\ rd[m] = <<>>)
    <3>1. Wakes(takeput[m])
      BY <1>4, <2>4 DEF PutMVar, Stored
    <3>2. Others
      BY <3>1, WakesOthers DEF Others
    <3>3. HeadStays
      BY <1>1, <3>1, WakesHead DEF Wakes
    <3>4. cut
      BY <2>4, NobodyQueues DEF Quiet
    <3>5. QED BY <1>1, <1>2, <1>4, <2>1, <2>2, <3>2, <3>3, <3>4 DEF Goes2
  <2>5. QED BY <2>3, <2>4
<1>5. QED BY <1>1, <1>3, <1>4 DEF Puts

LEMMA ReadDoes ==
  ASSUME RtsInv, NEW m \in MVar, NEW v \in Value, ReadMVar(m, v)
  PROVE  /\ Running /\ Cur \in Thread /\ RtsInv' /\ HeadStays /\ Others
         /\ v = data[m] /\ UNCHANGED <<data, mval>>
<1>1. RtsInv'
  BY ReadMVarOK
<1>2. /\ Running /\ Cur \in Thread /\ v = data[m] /\ UNCHANGED <<data, mval, state>>
  BY ReadEffect
<1>3. HeadStays
  BY <1>2 DEF ReadMVar, HeadStays, Running, Cur
<1>4. QED BY <1>1, <1>2, <1>3 DEF Others, KeptOrWoken

LEMMA ReadWaitsDoes ==
  ASSUME RtsInv, NEW p, NEW m \in MVar, ReadWaits(p, m)
  PROVE  /\ Running /\ Cur \in Thread /\ Me.pc = p /\ RtsInv' /\ UNCHANGED <<prog, handle, cut>>
         /\ data[m] = NIL /\ Blocked
<1>1. Running /\ Me.pc = p /\ UNCHANGED <<prog, handle, cut>> /\ ReadMVarBlocks(m) /\ frame' = frame
  BY DEF ReadWaits, At, Else
<1>2. RtsInv' /\ Cur \in Thread
  BY <1>1, CurFacts, ReadMVarBlocksOK
<1>3. data[m] = NIL
  BY <1>1 DEF ReadMVarBlocks, Available
<1>4. Blocked
  BY <1>1 DEF ReadMVarBlocks, Suspends, Blocked
<1>5. QED BY <1>1, <1>2, <1>3, <1>4

(* threadDelay: the thread leaves runq, or goes on.                        *)
Asleep == state' = [state EXCEPT ![Cur] = "wait_time"] /\ UNCHANGED frame
LEMMA SleepsDoes ==
  ASSUME RtsInv, NEW p, NEW f, Sleeps(p, f)
  PROVE  /\ Running /\ Cur \in Thread /\ Me.pc = p /\ RtsInv' /\ UNCHANGED <<prog, handle, cut>>
         /\ UNCHANGED <<data, mval>>
         /\ Asleep \/ Goes2(f)
<1>1. Running /\ Me.pc = p /\ UNCHANGED <<prog, handle, cut>>
  BY DEF Sleeps, At, Else
<1>2. Cur \in Thread
  BY <1>1, CurFacts
<1>3. CASE DelayBegins(1) /\ UNCHANGED frame
  <2>1. RtsInv'
    BY <1>3, DelayBeginsOK
  <2>2. Asleep /\ UNCHANGED <<data, mval>>
    BY <1>3 DEF DelayBegins, Suspends, Asleep, mvars
  <2>3. QED BY <1>1, <1>2, <2>1, <2>2
<1>4. CASE DelayReturns /\ Becomes(f)
  <2>1. RtsInv'
    BY <1>4, DelayReturnsOK
  <2>2. UNCHANGED <<data, mval, state, runq>>
    BY <1>4 DEF DelayReturns, mvars
  <2>3. HeadStays /\ Others
    BY <1>1, <2>2 DEF HeadStays, Others, KeptOrWoken, Running, Cur
  <2>4. QED BY <1>1, <1>2, <1>4, <2>1, <2>2, <2>3 DEF Goes2
<1>5. QED BY <1>1, <1>3, <1>4 DEF Sleeps

----------------------------------------------------------------------------
(* What becomes of the places, lineage and states.                         *)
Stands == Places /\ Lineage /\ Marks
Frames == [pc : Pcs, ch : Child]
Same   == UNCHANGED <<prog, handle, cut>>

LEMMA TypesKept ==
  ASSUME ProcTypeOK, RtsInv', Same, NEW f \in Frames, Becomes(f)
  PROVE  ProcTypeOK'
BY DEF ProcTypeOK, RtsInv, Same, Frames, Becomes

LEMMA Unmoved ==
  ASSUME Stands, Keeps, UNCHANGED <<frame, handle, data>>
  PROVE  Stands'
<1>1. Unborn' = Unborn /\ New' = New
  BY SameNew
<1>2. Places'
  BY StFacts DEF Stands, Places, Keeps, MainAt, Kid
<1>3. Lineage'
  BY DEF Stands, Lineage, MainAt, Spawned
<1>4. Marks'
  BY <1>1 DEF Stands, Marks, MainAt
<1>5. QED BY <1>2, <1>3, <1>4 DEF Stands

(* A child's step.                                                         *)
KidRuns(f) ==
  /\ Cur \in Kid /\ Me.pc \in Working
  /\ f \in Frames /\ f.pc \in Working \cup {"over"} /\ f.ch = Me.ch

LEMMA KidGoes ==
  ASSUME ProcTypeOK, Cur \in Kid, Me.pc \in Working, NEW p \in Working \cup {"over"}
  PROVE  KidRuns(Frame(p, Me.ch)) /\ Frame(p, Me.ch) \in Frames
<1>1. Me \in Frames /\ p \in Pcs
  BY DEF ProcTypeOK, Me, Kid, Frames, Pcs, Working
<1>2. QED BY <1>1 DEF KidRuns, Frame, Frames

LEMMA KidIsUp ==
  ASSUME ProcTypeOK, Stands, Cur \in Kid, Me.pc \in Working
  PROVE  /\ ~MainAt({"new_hb"}) /\ Cur \in Thread /\ Cur \notin Unborn
         /\ Quiet /\ ~cut => /\ data[Hb] = NIL <=> Me.pc = "hb_put"
                             /\ data[St[Cur]] = NIL <=> Me.pc = "done_put"
<1>1. Me.ch \in Nat /\ Me.ch >= 1
  BY DEF ProcTypeOK, Me, Kid, Child
<1>2. ~MainAt({"new_hb"})
  BY <1>1 DEF Stands, Lineage, MainAt, Me
<1>3. Cur \in Thread /\ Me.pc # "none" /\ Cur \notin Unborn
  BY DEF Stands, Places, Kid, Me, Working, Unborn
<1>4. ASSUME Quiet, ~cut
      PROVE  /\ data[Hb] = NIL <=> Me.pc = "hb_put"
             /\ data[St[Cur]] = NIL <=> Me.pc = "done_put"
  BY <1>2, <1>3, <1>4 DEF Quiet, Me, Putting
<1>5. QED BY <1>2, <1>3, <1>4

LEMMA KidMoves ==
  ASSUME ProcTypeOK, Stands, Keeps, NEW f, KidRuns(f), Becomes(f), handle' = handle, NEW d,
         \/ data' = data
         \/ Sets(Hb, d)
         \/ Sets(St[Cur], NIL)
         \/ Sets(St[Cur], "Done") /\ f.pc = "over"
  PROVE  Stands'
<1>1. Unborn' = Unborn /\ New' = New
  BY SameNew
<1>2. /\ Cur \in Kid /\ Cur # Main /\ Cur \in Thread /\ frame[Cur].pc \in Working
      /\ f.pc \in Working \cup {"over"} /\ f.ch = frame[Cur].ch
      /\ frame' = [frame EXCEPT ![Cur] = f] /\ frame \in [Thread -> Frames]
  BY DEF KidRuns, Kid, Me, Becomes, ProcTypeOK, Frames
<1>3. /\ frame'[Main] = frame[Main] /\ frame'[Cur] = f
      /\ \A t \in Thread : t # Cur => frame'[t] = frame[t]
      /\ frame' \in [Thread -> Frames]
  BY <1>2, StFacts DEF KidRuns
<1>4. "over" \notin Working /\ "none" \notin Working
  BY DEF Working
<1>5. Places'
  BY <1>2, <1>3, <1>4, StFacts DEF Stands, Places, Keeps, MainAt, Kid
<1>6. Lineage'
  <2>1. \A c : Spawned(c) => Spawned(c)'
    BY <1>2, <1>3, <1>4 DEF Spawned, Kid
  <2>2. \A t \in Kid : frame'[t].pc \in Working => frame[t].pc \in Working /\ frame'[t].ch = frame[t].ch
    BY <1>2, <1>3 DEF Kid
  <2>3. MainAt({"respawn", "refork"}) =>
          /\ frame[handle[frame[Main].ch]].pc = "over"
          /\ handle[frame[Main].ch] \in Kid
    <3>1. frame[Main].ch \in Child
      BY StFacts DEF ProcTypeOK
    <3>2. QED BY <3>1 DEF Stands, Lineage, MainAt, Watching, Spawned
  <2>4. MainAt({"respawn", "refork"}) => handle[frame[Main].ch] # Cur
    BY <1>2, <1>4, <2>3
  <2>5. MainAt({"respawn", "refork"}) => frame'[handle[frame[Main].ch]].pc = "over"
    BY <1>3, <2>3, <2>4 DEF Kid
  <2>6. QED BY <1>3, <2>1, <2>2, <2>5 DEF Stands, Lineage, MainAt
<1>7. Marks'
  <2>1. Cur \notin Unborn
    BY KidIsUp, <1>2 DEF Me
  <2>2. \A t \in Kid : data'[St[t]] = "Done" => data[St[t]] = "Done" \/ (t = Cur /\ f.pc = "over")
    <3>1. NIL # "Done"
      BY StFacts
    <3>2. QED BY <1>2, <3>1, StFacts DEF Sets, Kid, ProcTypeOK, TypeOK
  <2>3. \A t \in Unborn : data'[St[t]] = data[St[t]]
    <3>1. \A t \in Unborn : t \in Thread /\ St[t] \in MVar /\ St[t] # Hb /\ St[t] # St[Cur]
      BY <1>2, <2>1, StFacts DEF Unborn
    <3>2. QED BY <3>1 DEF Sets, ProcTypeOK, TypeOK
  <2>4. \A t \in Kid : frame[t].pc = "over" => frame'[t].pc = "over"
    BY <1>2, <1>3, <1>4 DEF Kid
  <2>5. QED BY <1>1, <1>3, <2>2, <2>3, <2>4 DEF Stands, Marks, MainAt
<1>8. QED BY <1>5, <1>6, <1>7 DEF Stands

LEMMA KidQuiet ==
  ASSUME ProcTypeOK, Stands, Stands', Quiet, ~cut, NEW f, KidRuns(f), Becomes(f),
         \A t \in Thread : state'[t] # "wait_mvar", mval' = mval,
         f.pc \in Putting => HeadStays,
         data'[Hb] = NIL <=> f.pc = "hb_put",
         data'[St[Cur]] = NIL <=> f.pc = "done_put",
         \A m \in MVar \ {Hb, St[Cur]} : data'[m] = data[m],
         Keeps
  PROVE  Quiet'
<1>1. Unborn' = Unborn /\ New' = New
  BY SameNew
<1>2. /\ Cur \in Kid /\ Cur # Main /\ Cur \in Thread /\ frame[Cur].pc \in Working
      /\ frame' = [frame EXCEPT ![Cur] = f] /\ frame \in [Thread -> Frames]
  BY DEF KidRuns, Kid, Me, Becomes, ProcTypeOK, Frames
<1>3. /\ frame'[Main] = frame[Main] /\ frame'[Cur] = f
      /\ \A t \in Thread : t # Cur => frame'[t] = frame[t]
  BY <1>2, StFacts
<1>4. ~MainAt({"new_hb"}) /\ Cur \notin Unborn
  BY KidIsUp, <1>2 DEF Me
<1>5. \A t \in Kid : frame'[t].pc \in Putting => t = Cur
  BY <1>2, <1>3 DEF Quiet, Kid
<1>6. \A t \in Thread : t # Cur => data'[St[t]] = data[St[t]]
  BY <1>2, StFacts
<1>7. \A t \in Thread : state'[t] # "wait_mvar" /\ mval'[t] = NIL
  BY DEF Quiet
<1>8. \A t \in Kid : frame'[t].pc \in Putting => runq' # <<>> /\ t = Cur'
  BY <1>3, <1>5 DEF HeadStays, Cur
<1>9. data'[Hb] = NIL <=> (MainAt({"new_hb"})' \/ \E t \in Kid : frame'[t].pc = "hb_put")
  BY <1>2, <1>3, <1>4, <1>5 DEF MainAt, Putting
<1>10. \A t \in Kid : frame'[t].pc # "none" => (data'[St[t]] = NIL <=> frame'[t].pc = "done_put")
  BY <1>2, <1>3, <1>6 DEF Quiet, Kid
<1>11. MainAt(Forking)' => data'[St[New]] # NIL
  <2>1. SUFFICES ASSUME MainAt(Forking)' PROVE data'[St[New]] # NIL
    OBVIOUS
  <2>2. MainAt(Forking) /\ Unborn # {}
    BY <1>3, <2>1 DEF MainAt, Stands, Marks
  <2>3. New \in Unborn /\ New \in Thread /\ New # Cur
    BY <1>4, <2>2, NewIsUnborn
  <2>4. QED BY <1>6, <2>2, <2>3 DEF Quiet
<1>12. QED BY <1>1, <1>7, <1>8, <1>9, <1>10, <1>11 DEF Quiet

(* A step of main, all but the fork.                                       *)
MainGoes(f) ==
  /\ f \in Frames /\ f.pc \in MainPcs \ {"new_hb"} /\ ~MainAt(Forking)
  /\ f.pc \in Watching => MainAt(Watching)
  /\ f.pc \in {"spawn", "fork"} =>
       (MainAt({"new_hb"}) /\ f.ch = 1) \/ (MainAt({"spawn"}) /\ f.ch = frame[Main].ch)
  /\ f.pc \in {"respawn", "refork"} => frame[handle[f.ch]].pc = "over"
  /\ f.pc \in Forking => Unborn # {}

LEMMA MainMoves ==
  ASSUME ProcTypeOK, Stands, Keeps, Cur = Main, NEW f, MainGoes(f), Becomes(f), handle' = handle, NEW d,
         \/ data' = data
         \/ Sets(Hb, d)
         \/ Sets(St[New], "Running") /\ f.pc \in Forking
  PROVE  Stands'
<1>1. Unborn' = Unborn /\ New' = New
  BY SameNew
<1>2. /\ frame' = [frame EXCEPT ![Main] = f] /\ frame \in [Thread -> Frames] /\ Main \in Thread
      /\ f \in Frames /\ f.pc \in MainPcs
  BY StFacts DEF Becomes, ProcTypeOK, Frames, MainGoes
<1>3. /\ frame'[Main] = f
      /\ \A t \in Thread : t # Main => frame'[t] = frame[t]
      /\ \A t \in Kid : t \in Thread /\ frame'[t] = frame[t]
  BY <1>2 DEF Kid
<1>4. Places'
  BY <1>2, <1>3 DEF Stands, Places, Keeps, MainAt
<1>5. Lineage'
  <2>1. \A c : Spawned(c) => Spawned(c)'
    BY <1>3 DEF Spawned
  <2>2. MainAt(Watching)' => \A c \in Child : Spawned(c)'
    BY <1>3, <2>1 DEF Stands, Lineage, MainAt, MainGoes
  <2>3. ASSUME MainAt({"spawn", "fork"})'
        PROVE  /\ \A c \in Child : c < f.ch => Spawned(c)'
               /\ \A t \in Kid : frame[t].pc \in Working => frame[t].ch < f.ch
    <3>1. CASE MainAt({"new_hb"}) /\ f.ch = 1
      <4>1. \A c \in Child : ~(c < 1)
        BY DEF Child
      <4>2. QED BY <3>1, <4>1 DEF Stands, Lineage, MainAt
    <3>2. CASE MainAt({"spawn"}) /\ f.ch = frame[Main].ch
      BY <2>1, <3>2 DEF Stands, Lineage, MainAt
    <3>3. QED BY <1>3, <2>3, <3>1, <3>2 DEF MainAt, MainGoes
  <2>4. ASSUME MainAt({"respawn", "refork"})' PROVE frame'[handle[f.ch]].pc = "over"
    <3>1. f.ch \in Child /\ MainAt(Watching) /\ frame[handle[f.ch]].pc = "over"
      BY <1>3, <2>4 DEF MainAt, MainGoes, Watching, Frames
    <3>2. handle[f.ch] \in Kid
      BY <3>1 DEF Stands, Lineage, Spawned
    <3>3. QED BY <1>3, <3>1, <3>2
  <2>5. ~MainAt({"new_hb"})'
    BY <1>3 DEF MainAt, MainGoes
  <2>6. QED BY <1>3, <2>2, <2>3, <2>4, <2>5 DEF Stands, Lineage, MainAt
<1>6. Marks'
  <2>1. f.pc \in Forking => New \in Unborn /\ New \in Thread
    BY NewIsUnborn DEF MainGoes
  <2>2. \A t \in Kid : data'[St[t]] = "Done" => data[St[t]] = "Done"
    BY <1>3, <2>1, StFacts DEF Sets, ProcTypeOK, TypeOK
  <2>3. \A t \in Unborn : data'[St[t]] # NIL => f.pc \in Forking /\ t = New
    <3>1. \A t \in Unborn : t \in Thread /\ St[t] \in MVar /\ St[t] # Hb /\ data[St[t]] = NIL
      BY StFacts DEF Unborn, Stands, Marks, MainGoes
    <3>2. \A t \in Unborn : data'[St[t]] # NIL => Sets(St[New], "Running") /\ f.pc \in Forking
      BY <3>1 DEF Sets, ProcTypeOK, TypeOK
    <3>3. \A t \in Unborn : data'[St[t]] # NIL => St[t] = St[New]
      BY <3>1, <3>2 DEF Sets, ProcTypeOK, TypeOK
    <3>4. QED BY <2>1, <3>1, <3>2, <3>3, StFacts
  <2>4. QED BY <1>1, <1>3, <2>2, <2>3 DEF Stands, Marks, MainAt, MainGoes
<1>7. QED BY <1>4, <1>5, <1>6 DEF Stands

(* With main running, no child is inside a swapMVar.                       *)
LEMMA MainSees ==
  ASSUME ProcTypeOK, Stands, Quiet, ~cut, Cur = Main
  PROVE  /\ \A t \in Kid : frame[t].pc \notin Putting
         /\ data[Hb] = NIL <=> MainAt({"new_hb"})
         /\ \A c \in Child : Spawned(c) => data[St[handle[c]]] # NIL
<1>1. \A t \in Kid : frame[t].pc \notin Putting
  BY DEF Quiet, Kid
<1>2. data[Hb] = NIL <=> MainAt({"new_hb"})
  BY <1>1 DEF Quiet, Putting
<1>3. QED BY <1>1, <1>2 DEF Quiet, Spawned, Putting

LEMMA MainQuiet ==
  ASSUME ProcTypeOK, Stands, Quiet, ~cut, Cur = Main, NEW f, MainGoes(f), Becomes(f), Keeps,
         \A t \in Thread : state'[t] # "wait_mvar", mval' = mval,
         data'[Hb] # NIL,
         \A t \in Kid : frame[t].pc # "none" => data'[St[t]] = data[St[t]],
         f.pc \in Forking => data'[St[New]] # NIL
  PROVE  Quiet'
<1>1. Unborn' = Unborn /\ New' = New
  BY SameNew
<1>2. /\ frame' = [frame EXCEPT ![Main] = f] /\ frame \in [Thread -> Frames] /\ Main \in Thread
  BY StFacts DEF Becomes, ProcTypeOK, Frames
<1>3. frame'[Main] = f /\ \A t \in Kid : frame'[t] = frame[t]
  BY <1>2 DEF Kid
<1>4. \A t \in Kid : frame'[t].pc \notin Putting
  BY <1>3, MainSees
<1>5. data'[Hb] = NIL <=> (MainAt({"new_hb"})' \/ \E t \in Kid : frame'[t].pc = "hb_put")
  BY <1>3, <1>4 DEF MainAt, MainGoes, Putting
<1>6. \A t \in Thread : state'[t] # "wait_mvar" /\ mval'[t] = NIL
  BY DEF Quiet
<1>7. \A t \in Kid : frame'[t].pc # "none" => (data'[St[t]] = NIL <=> frame'[t].pc = "done_put")
  BY <1>3 DEF Quiet
<1>8. MainAt(Forking)' => data'[St[New]] # NIL
  BY <1>3 DEF MainAt
<1>9. QED BY <1>1, <1>4, <1>5, <1>6, <1>7, <1>8 DEF Quiet

(* A thread that leaves runq while no child is inside a swapMVar.          *)
LEMMA StillQuiet ==
  ASSUME ProcTypeOK, Stands, Quiet, ~cut, Keeps, UNCHANGED <<frame, data, mval>>,
         \A t \in Thread : state'[t] # "wait_mvar",
         \A t \in Kid : frame[t].pc \in Putting => HeadStays
  PROVE  Quiet'
<1>1. Unborn' = Unborn /\ New' = New
  BY SameNew
<1>2. \A t \in Kid : frame'[t].pc \in Putting => runq' # <<>> /\ t = Cur'
  BY DEF Quiet, HeadStays, Cur
<1>3. QED BY <1>1, <1>2 DEF Quiet, MainAt

LEMMA StillUp ==
  ASSUME Quiet, ~cut, Others
  PROVE  \A t \in Thread : state'[t] # "wait_mvar"
BY DEF Quiet, Others, KeptOrWoken

----------------------------------------------------------------------------
(* The steps of the running thread, of any action.                         *)
LEMMA WhoRuns ==
  ASSUME Places, Cur \in Thread
  PROVE  /\ Me.pc \in Working => Cur \in Kid
         /\ Me.pc \in MainPcs \ {"over"} => Cur = Main
<1>1. CASE Cur = Main
  BY <1>1 DEF Places, MainAt, Me, MainPcs, Working
<1>2. CASE Cur # Main
  BY <1>2 DEF Places, Kid, Me, MainPcs, Working
<1>3. QED BY <1>1, <1>2

LEMMA RunsBorn ==
  ASSUME RtsInv, Running
  PROVE  Cur \in Thread /\ state[Cur] = "runnable"
BY CurFacts

LEMMA KidStep ==
  ASSUME ProcInv, RtsInv', Same, NEW f, KidRuns(f), Goes2(f), NEW d,
         \/ data' = data
         \/ Sets(Hb, d)
         \/ Sets(St[Cur], NIL)
         \/ Sets(St[Cur], "Done") /\ f.pc = "over",
         ~cut => /\ mval' = mval
                 /\ data'[Hb] = NIL <=> f.pc = "hb_put"
                 /\ data'[St[Cur]] = NIL <=> f.pc = "done_put"
  PROVE  ProcInv'
<1>1. ProcTypeOK /\ Stands /\ Quiet /\ Becomes(f) /\ Others /\ HeadStays /\ f \in Frames /\ handle' = handle
  BY DEF ProcInv, Founded, Stands, Goes2, KidRuns, Same
<1>2. Keeps
  BY <1>1, OthersKeep
<1>3. ProcTypeOK'
  BY <1>1, TypesKept
<1>4. Stands'
  BY <1>1, <1>2, KidMoves
<1>5. Quiet'
  <2>1. CASE cut
    BY <2>1 DEF Same, Quiet
  <2>2. CASE ~cut
    <3>1. \A t \in Thread : state'[t] # "wait_mvar"
      BY <1>1, <2>2, StillUp
    <3>2. \A m \in MVar \ {Hb, St[Cur]} : data'[m] = data[m]
      BY <1>1 DEF Sets, ProcTypeOK, TypeOK
    <3>3. QED BY <1>1, <1>2, <1>4, <2>2, <3>1, <3>2, KidQuiet
  <2>3. QED BY <2>1, <2>2
<1>6. QED BY <1>3, <1>4, <1>5 DEF ProcInv, Founded, Stands

LEMMA MainStep ==
  ASSUME ProcInv, RtsInv', Same, Cur = Main, NEW f, MainGoes(f), Goes2(f), NEW d,
         \/ data' = data
         \/ Sets(Hb, d)
         \/ Sets(St[New], "Running") /\ f.pc \in Forking,
         ~cut => /\ mval' = mval
                 /\ data'[Hb] # NIL
                 /\ f.pc \in Forking => data'[St[New]] # NIL
  PROVE  ProcInv'
<1>1. ProcTypeOK /\ Stands /\ Quiet /\ Becomes(f) /\ Others /\ f \in Frames /\ handle' = handle
  BY DEF ProcInv, Founded, Stands, Goes2, MainGoes, Same
<1>2. Keeps
  BY <1>1, OthersKeep
<1>3. ProcTypeOK'
  BY <1>1, TypesKept
<1>4. Stands'
  BY <1>1, <1>2, MainMoves
<1>5. Quiet'
  <2>1. CASE cut
    BY <2>1 DEF Same, Quiet
  <2>2. CASE ~cut
    <3>1. \A t \in Thread : state'[t] # "wait_mvar"
      BY <1>1, <2>2, StillUp
    <3>2. ASSUME NEW t \in Kid, frame[t].pc # "none" PROVE data'[St[t]] = data[St[t]]
      <4>1. t \in Thread /\ state[t] # "unborn" /\ t \notin Unborn
        BY <1>1, <3>2 DEF Stands, Places, Kid, Unborn
      <4>2. f.pc \in Forking => New \in Unborn /\ New \in Thread
        BY NewIsUnborn DEF MainGoes
      <4>3. St[t] \in MVar /\ St[t] # Hb /\ (f.pc \in Forking => St[t] # St[New])
        BY <4>1, <4>2, StFacts
      <4>4. QED BY <1>1, <4>3 DEF Sets, ProcTypeOK, TypeOK
    <3>3. QED BY <1>1, <1>2, <2>2, <3>1, <3>2, MainQuiet
  <2>3. QED BY <2>1, <2>2
<1>6. QED BY <1>3, <1>4, <1>5 DEF ProcInv, Founded, Stands

(* Waiting for an MVar is possible only once a switch has hit a swapMVar.  *)
LEMMA BlockedStep ==
  ASSUME ProcInv, Running, RtsInv', Same, Blocked, cut
  PROVE  ProcInv'
<1>1. ProcTypeOK /\ Stands /\ Cur \in Thread /\ state[Cur] = "runnable" /\ handle' = handle
  BY CurFacts DEF ProcInv, Founded, Stands, Same
<1>2. Keeps
  BY <1>1 DEF Blocked, Keeps, ProcTypeOK, TypeOK
<1>3. ProcTypeOK'
  BY <1>1 DEF Same, Blocked, ProcTypeOK, RtsInv
<1>4. Stands'
  BY <1>1, <1>2, Unmoved DEF Blocked
<1>5. Quiet'
  BY DEF Same, Quiet
<1>6. QED BY <1>3, <1>4, <1>5 DEF ProcInv, Founded, Stands

(* The running thread, outside of swapMVar, sleeps or has ended.           *)
LEMMA LeavesStep ==
  ASSUME ProcInv, Running, RtsInv', Same, UNCHANGED <<frame, data, mval>>, Me.pc \notin Putting,
         NEW s \in {"wait_time", "finished"}, state' = [state EXCEPT ![Cur] = s]
  PROVE  ProcInv'
<1>1. ProcTypeOK /\ Stands /\ Quiet /\ Cur \in Thread /\ state[Cur] = "runnable" /\ handle' = handle
  BY CurFacts DEF ProcInv, Founded, Stands, Same
<1>2. Keeps
  BY <1>1 DEF Keeps, ProcTypeOK, TypeOK
<1>3. ProcTypeOK'
  BY <1>1 DEF Same, ProcTypeOK, RtsInv
<1>4. Stands'
  BY <1>1, <1>2, Unmoved
<1>5. Quiet'
  <2>1. CASE cut
    BY <2>1 DEF Same, Quiet
  <2>2. CASE ~cut
    <3>1. \A t \in Thread : state'[t] # "wait_mvar"
      BY <1>1, <2>2 DEF Quiet, ProcTypeOK, TypeOK
    <3>2. \A t \in Kid : frame[t].pc \notin Putting
      BY <1>1, <2>2 DEF Quiet, Me
    <3>3. QED BY <1>1, <1>2, <2>2, <3>1, <3>2, StillQuiet
  <2>3. QED BY <2>1, <2>2
<1>6. QED BY <1>3, <1>4, <1>5 DEF ProcInv, Founded, Stands

(* threadDelay at pc p.                                                    *)
LEMMA KidSleeps ==
  ASSUME ProcInv, Sleeps("nap", Frame("action", Me.ch))
  PROVE  ProcInv'
<1> DEFINE f == Frame("action", Me.ch)
<1>1. RtsInv /\ ProcTypeOK /\ Stands /\ Quiet
  BY DEF ProcInv, Founded, Stands
<1>2. /\ Running /\ Cur \in Thread /\ Me.pc = "nap" /\ RtsInv' /\ Same
      /\ UNCHANGED <<data, mval>> /\ (Asleep \/ Goes2(f))
  BY <1>1, SleepsDoes DEF Same
<1>3. CASE Asleep
  BY <1>2, <1>3, LeavesStep DEF Asleep, Putting
<1>4. CASE Goes2(f)
  <2>1. Cur \in Kid
    BY <1>1, <1>2, WhoRuns DEF Stands, Working
  <2>2. KidRuns(f)
    BY <1>1, <1>2, <2>1, KidGoes DEF Working
  <2>3. ~cut => (data[Hb] # NIL /\ data[St[Cur]] # NIL)
    BY <1>1, <1>2, <2>1, KidIsUp DEF Working
  <2>4. QED BY <1>2, <1>4, <2>2, <2>3, KidStep DEF Frame
<1>5. QED BY <1>2, <1>3, <1>4

----------------------------------------------------------------------------
(* The children.                                                           *)
LEMMA KidGoesOn ==
  ASSUME ProcInv, Running, Cur \in Thread, RtsInv', Same,
         NEW p \in {"nap", "hb_take", "done_take"}, Me.pc = "action",
         Goes2(Frame(p, Me.ch)), UNCHANGED <<data, mval>>
  PROVE  ProcInv'
<1> DEFINE f == Frame(p, Me.ch)
<1>1. ProcTypeOK /\ Stands /\ Quiet
  BY DEF ProcInv, Founded, Stands
<1>2. Cur \in Kid
  BY <1>1, WhoRuns DEF Stands, Working
<1>3. KidRuns(f)
  BY <1>1, <1>2, KidGoes DEF Working
<1>4. ~cut => (data[Hb] # NIL /\ data[St[Cur]] # NIL)
  BY <1>1, <1>2, KidIsUp DEF Working
<1>5. QED BY <1>3, <1>4, KidStep DEF Frame

LEMMA BeatsStep ==
  ASSUME ProcInv, Beats \/ BeatWaits
  PROVE  ProcInv'
<1>1. RtsInv /\ ProcTypeOK /\ Stands /\ Quiet
  BY DEF ProcInv, Founded, Stands
<1>2. CASE Beats
  <2>1. PICK v \in Value : ReadMVar(Hb, v)
    BY <1>2 DEF Beats
  <2>2. Me.pc = "action" /\ Same /\ Becomes(Frame("nap", Me.ch))
    BY <1>2 DEF Beats, May, At, Goes, Else, Same
  <2>3. Running /\ Cur \in Thread /\ RtsInv' /\ HeadStays /\ Others /\ UNCHANGED <<data, mval>>
    BY <1>1, <2>1, ReadDoes, StFacts
  <2>4. QED BY <2>2, <2>3, KidGoesOn DEF Goes2
<1>3. CASE BeatWaits
  <2>1. ReadWaits("action", Hb)
    BY <1>3 DEF BeatWaits
  <2>2. Running /\ Cur \in Thread /\ Me.pc = "action" /\ RtsInv' /\ Same /\ data[Hb] = NIL /\ Blocked
    BY <1>1, <2>1, ReadWaitsDoes, StFacts DEF Same
  <2>3. Cur \in Kid
    BY <1>1, <2>2, WhoRuns DEF Stands, Working
  <2>4. cut
    BY <1>1, <2>2, <2>3, KidIsUp DEF Working
  <2>5. QED BY <2>2, <2>4, BlockedStep
<1>4. QED BY <1>2, <1>3

LEMMA BeginsStep ==
  ASSUME ProcInv, NEW b, NEW p \in {"hb_take", "done_take"}, Begins(b, p)
  PROVE  ProcInv'
<1>1. RtsInv /\ UNCHANGED rts /\ Running /\ Me.pc = "action" /\ Same /\ Becomes(Frame(p, Me.ch))
  BY DEF ProcInv, Founded, Begins, May, At, Goes, Else, Same, Starts
<1>2. RtsInv' /\ Cur \in Thread
  BY <1>1, CurFacts, RtsStutterOK
<1>3. HeadStays /\ Others /\ UNCHANGED <<data, mval>>
  BY <1>1 DEF rts, mvars, HeadStays, Others, KeptOrWoken, Running, Cur
<1>4. QED BY <1>1, <1>2, <1>3, KidGoesOn DEF Goes2

LEMMA SwapTakesStep ==
  ASSUME ProcInv, SwapTakes
  PROVE  ProcInv'
<1> DEFINE f == Frame("hb_put", Me.ch)
<1>1. RtsInv /\ ProcTypeOK /\ Stands /\ Quiet
  BY DEF ProcInv, Founded, Stands
<1>2. /\ Running /\ Cur \in Thread /\ Me.pc = "hb_take" /\ RtsInv' /\ Same
      /\ \/ data[Hb] = NIL /\ Blocked
         \/ /\ Goes2(f) /\ (data' = data \/ Sets(Hb, NIL))
            /\ ~cut => mval' = mval /\ Sets(Hb, NIL)
  BY <1>1, TakesDoes, StFacts DEF SwapTakes, Same
<1>3. Cur \in Kid
  BY <1>1, <1>2, WhoRuns DEF Stands, Working
<1>4. ~cut => (data[Hb] # NIL /\ data[St[Cur]] # NIL)
  BY <1>1, <1>2, <1>3, KidIsUp DEF Working
<1>5. CASE data[Hb] = NIL /\ Blocked
  BY <1>2, <1>4, <1>5, BlockedStep
<1>6. CASE Goes2(f) /\ (data' = data \/ Sets(Hb, NIL)) /\ (~cut => mval' = mval /\ Sets(Hb, NIL))
  <2>1. KidRuns(f)
    BY <1>1, <1>2, <1>3, KidGoes DEF Working
  <2>2. Sets(Hb, NIL) => data'[Hb] = NIL /\ data'[St[Cur]] = data[St[Cur]]
    BY <1>1, <1>2, StFacts DEF Sets, ProcTypeOK, TypeOK
  <2>3. QED BY <1>2, <1>4, <1>6, <2>1, <2>2, KidStep DEF Frame
<1>7. QED BY <1>2, <1>5, <1>6

LEMMA SwapPutsStep ==
  ASSUME ProcInv, SwapPuts
  PROVE  ProcInv'
<1> DEFINE f == Frame("action", Me.ch)
<1>1. RtsInv /\ ProcTypeOK /\ Stands /\ Quiet
  BY DEF ProcInv, Founded, Stands
<1>2. PICK v \in {"on", "off"} : Puts("hb_put", Hb, v, f)
  BY DEF SwapPuts
<1>3. v \in Value /\ v # NIL
  BY StFacts
<1>4. /\ Running /\ Cur \in Thread /\ Me.pc = "hb_put" /\ RtsInv' /\ Same
      /\ \/ data[Hb] # NIL /\ Blocked
         \/ /\ Goes2(f) /\ data[Hb] = NIL /\ (data' = data \/ Sets(Hb, v))
            /\ ~cut => mval' = mval /\ Sets(Hb, v)
  BY <1>1, <1>2, <1>3, PutsDoes, StFacts DEF Same
<1>5. Cur \in Kid
  BY <1>1, <1>4, WhoRuns DEF Stands, Working
<1>6. ~cut => (data[Hb] = NIL /\ data[St[Cur]] # NIL)
  BY <1>1, <1>4, <1>5, KidIsUp DEF Working
<1>7. CASE data[Hb] # NIL /\ Blocked
  BY <1>4, <1>6, <1>7, BlockedStep
<1>8. CASE Goes2(f) /\ (data' = data \/ Sets(Hb, v)) /\ (~cut => mval' = mval /\ Sets(Hb, v))
  <2>1. KidRuns(f)
    BY <1>1, <1>4, <1>5, KidGoes DEF Working
  <2>2. Sets(Hb, v) => data'[Hb] = v /\ data'[St[Cur]] = data[St[Cur]]
    BY <1>1, <1>4, StFacts DEF Sets, ProcTypeOK, TypeOK
  <2>3. QED BY <1>3, <1>4, <1>6, <1>8, <2>1, <2>2, KidStep DEF Frame
<1>9. QED BY <1>4, <1>7, <1>8

LEMMA DoneTakesStep ==
  ASSUME ProcInv, DoneTakes
  PROVE  ProcInv'
<1> DEFINE f == Frame("done_put", Me.ch)
           m == St[Cur]
<1>1. RtsInv /\ ProcTypeOK /\ Stands /\ Quiet
  BY DEF ProcInv, Founded, Stands
<1>2. Running /\ Cur \in Thread /\ m \in MVar /\ m # Hb
  BY <1>1, RunsBorn, StFacts DEF DoneTakes, Takes, At
<1>3. /\ Me.pc = "done_take" /\ RtsInv' /\ Same
      /\ \/ data[m] = NIL /\ Blocked
         \/ /\ Goes2(f) /\ (data' = data \/ Sets(m, NIL))
            /\ ~cut => mval' = mval /\ Sets(m, NIL)
  BY <1>1, <1>2, TakesDoes DEF DoneTakes, Same
<1>4. Cur \in Kid
  BY <1>1, <1>2, <1>3, WhoRuns DEF Stands, Working
<1>5. ~cut => (data[Hb] # NIL /\ data[m] # NIL)
  BY <1>1, <1>3, <1>4, KidIsUp DEF Working
<1>6. CASE data[m] = NIL /\ Blocked
  BY <1>2, <1>3, <1>5, <1>6, BlockedStep
<1>7. CASE Goes2(f) /\ (data' = data \/ Sets(m, NIL)) /\ (~cut => mval' = mval /\ Sets(m, NIL))
  <2>1. KidRuns(f)
    BY <1>1, <1>3, <1>4, KidGoes DEF Working
  <2>2. Sets(m, NIL) => data'[m] = NIL /\ data'[Hb] = data[Hb]
    BY <1>1, <1>2, StFacts DEF Sets, ProcTypeOK, TypeOK
  <2>3. QED BY <1>3, <1>5, <1>7, <2>1, <2>2, KidStep DEF Frame
<1>8. QED BY <1>3, <1>6, <1>7

LEMMA DonePutsStep ==
  ASSUME ProcInv, DonePuts
  PROVE  ProcInv'
<1> DEFINE f == Frame("over", Me.ch)
           m == St[Cur]
<1>1. RtsInv /\ ProcTypeOK /\ Stands /\ Quiet
  BY DEF ProcInv, Founded, Stands
<1>2. Running /\ Cur \in Thread /\ m \in MVar /\ m # Hb /\ "Done" \in Value /\ "Done" # NIL
  BY <1>1, RunsBorn, StFacts DEF DonePuts, Puts, At
<1>3. /\ Me.pc = "done_put" /\ RtsInv' /\ Same
      /\ \/ data[m] # NIL /\ Blocked
         \/ /\ Goes2(f) /\ data[m] = NIL /\ (data' = data \/ Sets(m, "Done"))
            /\ ~cut => mval' = mval /\ Sets(m, "Done")
  BY <1>1, <1>2, PutsDoes DEF DonePuts, Same
<1>4. Cur \in Kid
  BY <1>1, <1>2, <1>3, WhoRuns DEF Stands, Working
<1>5. ~cut => (data[Hb] # NIL /\ data[m] = NIL)
  BY <1>1, <1>3, <1>4, KidIsUp DEF Working
<1>6. CASE data[m] # NIL /\ Blocked
  BY <1>2, <1>3, <1>5, <1>6, BlockedStep
<1>7. CASE Goes2(f) /\ (data' = data \/ Sets(m, "Done")) /\ (~cut => mval' = mval /\ Sets(m, "Done"))
  <2>1. KidRuns(f) /\ f.pc = "over"
    BY <1>1, <1>3, <1>4, KidGoes DEF Working, Frame
  <2>2. Sets(m, "Done") => data'[m] = "Done" /\ data'[Hb] = data[Hb]
    BY <1>1, <1>2, StFacts DEF Sets, ProcTypeOK, TypeOK
  <2>3. QED BY <1>2, <1>3, <1>5, <1>7, <2>1, <2>2, KidStep DEF Frame
<1>8. QED BY <1>3, <1>6, <1>7

LEMMA CrashesStep ==
  ASSUME ProcInv, Crashes
  PROVE  ProcInv'
<1> DEFINE f == Frame("over", Me.ch)
<1>1. RtsInv /\ ProcTypeOK /\ Stands /\ Quiet
  BY DEF ProcInv, Founded, Stands
<1>2. Ends("died", "main_died") /\ Me.pc = "action" /\ Becomes(f) /\ Same
  BY DEF Crashes, Die, May, At, Goes, Else, Same
<1>3. RtsInv'
  BY <1>1, <1>2, EndsOK
<1>4. /\ Running /\ Cur \in Thread /\ UNCHANGED <<data, mval>>
      /\ state' = [state EXCEPT ![Cur] = "died"]
  BY <1>1, <1>2, EndsEffect
<1>5. Cur \in Kid /\ state[Cur] = "runnable"
  BY <1>1, <1>2, <1>4, WhoRuns, RunsBorn DEF Stands, Working
<1>6. KidRuns(f) /\ f \in Frames
  BY <1>1, <1>2, <1>5, KidGoes DEF Working
<1>7. Keeps
  BY <1>1, <1>4, <1>5 DEF Keeps, ProcTypeOK, TypeOK
<1>8. ProcTypeOK'
  BY <1>1, <1>2, <1>3, <1>6, TypesKept
<1>9. Stands'
  BY <1>1, <1>2, <1>4, <1>6, <1>7, KidMoves DEF Same
<1>10. Quiet'
  <2>1. CASE cut
    BY <1>2, <2>1 DEF Same, Quiet
  <2>2. CASE ~cut
    <3>1. \A t \in Thread : state'[t] # "wait_mvar"
      BY <1>1, <1>4, <2>2 DEF Quiet, ProcTypeOK, TypeOK
    <3>2. data[Hb] # NIL /\ data[St[Cur]] # NIL /\ f.pc = "over"
      BY <1>1, <1>2, <1>5, <2>2, KidIsUp DEF Working, Frame
    <3>3. QED BY <1>1, <1>2, <1>4, <1>6, <1>7, <1>9, <2>2, <3>1, <3>2, KidQuiet DEF Putting
  <2>3. QED BY <2>1, <2>2
<1>11. QED BY <1>3, <1>8, <1>9, <1>10 DEF ProcInv, Founded, Stands

----------------------------------------------------------------------------
(* Main.                                                                   *)
LEMMA MainGoesOn ==
  ASSUME ProcInv, RtsInv', Same, Cur = Main, MainAt(Watching), ~MainAt(Forking), NEW f \in Frames,
         f.pc \in (Watching \ Forking) \cup {"over"},
         f.pc = "respawn" => frame[handle[f.ch]].pc = "over",
         Goes2(f), UNCHANGED <<data, mval>>
  PROVE  ProcInv'
<1>1. ProcTypeOK /\ Stands /\ Quiet
  BY DEF ProcInv, Founded, Stands
<1>2. MainGoes(f)
  BY DEF MainGoes, MainPcs, Watching, Forking
<1>3. ~cut => data[Hb] # NIL
  BY <1>1, MainSees DEF MainAt, Watching
<1>4. f.pc \notin Forking
  BY DEF Forking, Watching
<1>5. QED BY <1>2, <1>3, <1>4, MainStep

LEMMA MainIsAt ==
  ASSUME ProcInv, Running, NEW p \in MainPcs \ {"over"}, Me.pc = p
  PROVE  /\ Cur = Main /\ MainAt({p}) /\ frame[Main] = Me /\ Me.ch \in Child
         /\ RtsInv /\ ProcTypeOK /\ Stands /\ Quiet /\ Cur \in Thread
<1>1. RtsInv /\ ProcTypeOK /\ Stands /\ Quiet
  BY DEF ProcInv, Founded, Stands
<1>2. Cur \in Thread
  BY <1>1, RunsBorn
<1>3. Cur = Main
  BY <1>1, <1>2, WhoRuns DEF Stands
<1>4. QED BY <1>1, <1>2, <1>3 DEF MainAt, Me, ProcTypeOK

LEMMA NewHbStep ==
  ASSUME ProcInv, NewHb
  PROVE  ProcInv'
<1> DEFINE f == Frame("spawn", 1)
<1>1. RtsInv /\ Quiet
  BY DEF ProcInv, Founded
<1>2. "on" \in Value /\ "on" # NIL /\ Hb \in MVar
  BY StFacts
<1>3. /\ Running /\ Me.pc = "new_hb" /\ RtsInv' /\ Same
      /\ \/ data[Hb] # NIL /\ Blocked
         \/ /\ Goes2(f) /\ data[Hb] = NIL /\ (data' = data \/ Sets(Hb, "on"))
            /\ ~cut => mval' = mval /\ Sets(Hb, "on")
  BY <1>1, <1>2, PutsDoes DEF NewHb, Same
<1>4. Cur = Main /\ MainAt({"new_hb"}) /\ ProcTypeOK /\ Stands
  BY <1>3, MainIsAt DEF MainPcs
<1>5. ~cut => data[Hb] = NIL
  BY <1>1, <1>4, MainSees
<1>6. CASE data[Hb] # NIL /\ Blocked
  BY <1>3, <1>5, <1>6, BlockedStep
<1>7. CASE Goes2(f) /\ data[Hb] = NIL /\ (data' = data \/ Sets(Hb, "on")) /\ (~cut => mval' = mval /\ Sets(Hb, "on"))
  <2>1. f.pc = "spawn" /\ f.ch = 1 /\ f \in Frames
    BY ProcAssumption DEF Frame, Frames, Pcs, Child
  <2>2. MainGoes(f)
    BY <1>4, <2>1 DEF MainGoes, MainAt, MainPcs, Forking, Watching
  <2>3. Sets(Hb, "on") => data'[Hb] = "on"
    BY <1>2, <1>4 DEF Sets, ProcTypeOK, TypeOK
  <2>4. QED BY <1>2, <1>3, <1>4, <1>7, <2>1, <2>2, <2>3, MainStep DEF Forking
<1>8. QED BY <1>3, <1>6, <1>7

LEMMA SpawnNewStep ==
  ASSUME ProcInv, SpawnNew
  PROVE  ProcInv'
<1>1. RtsInv /\ Quiet
  BY DEF ProcInv, Founded
<1>2. Unborn # {} /\ New \in Unborn /\ New \in Thread
  BY NewIsUnborn DEF SpawnNew
<1>3. PICK p \in {"spawn", "respawn"}, q \in Forking :
        /\ Puts(p, St[New], "Running", Frame(q, Me.ch))
        /\ p = "spawn" <=> q = "fork"
  BY DEF SpawnNew, Forking
<1> DEFINE f == Frame(q, Me.ch)
           m == St[New]
<1>4. "Running" \in Value /\ "Running" # NIL /\ m \in MVar /\ m # Hb
  BY <1>2, StFacts
<1>5. /\ Running /\ Me.pc = p /\ RtsInv' /\ Same
      /\ \/ data[m] # NIL /\ Blocked
         \/ /\ Goes2(f) /\ (data' = data \/ Sets(m, "Running"))
            /\ ~cut => mval' = mval /\ Sets(m, "Running")
  BY <1>1, <1>3, <1>4, PutsDoes DEF Same
<1>6. Cur = Main /\ MainAt({p}) /\ ProcTypeOK /\ Stands /\ frame[Main] = Me /\ Me.ch \in Child
  BY <1>5, MainIsAt DEF MainPcs
<1>7. data[m] = NIL /\ ~MainAt(Forking)
  BY <1>2, <1>6 DEF Stands, Marks, MainAt, Forking
<1>8. Goes2(f) /\ (data' = data \/ Sets(m, "Running")) /\ (~cut => mval' = mval /\ Sets(m, "Running"))
  BY <1>5, <1>7
<1>9. f.pc = q /\ f.ch = frame[Main].ch /\ f \in Frames
  BY <1>6 DEF Frame, Frames, Forking, Pcs
<1>10. q = "refork" => frame[handle[frame[Main].ch]].pc = "over"
  BY <1>3, <1>6 DEF Stands, Lineage, MainAt, Forking
<1>11. MainGoes(f)
  BY <1>2, <1>3, <1>6, <1>7, <1>9, <1>10 DEF MainGoes, MainAt, MainPcs, Forking, Watching
<1>12. ~cut => data[Hb] # NIL
  BY <1>1, <1>6, MainSees DEF MainAt
<1>13. Sets(m, "Running") => data'[m] = "Running" /\ data'[Hb] = data[Hb]
  BY <1>4, <1>6 DEF Sets, ProcTypeOK, TypeOK
<1>14. QED BY <1>4, <1>5, <1>6, <1>8, <1>9, <1>11, <1>12, <1>13, MainStep

(* monitorLoop and waitProc sleep.                                         *)
LEMMA MainSleeps ==
  ASSUME ProcInv, NEW p \in {"sleep", "wait_sleep"}, NEW f \in Frames, f.pc \in {"check", "wait"},
         Sleeps(p, f)
  PROVE  ProcInv'
<1>1. RtsInv
  BY DEF ProcInv, Founded
<1>2. /\ Running /\ Me.pc = p /\ RtsInv' /\ Same
      /\ UNCHANGED <<data, mval>> /\ (Asleep \/ Goes2(f))
  BY <1>1, SleepsDoes DEF Same
<1>3. CASE Asleep
  BY <1>2, <1>3, LeavesStep DEF Asleep, Putting
<1>4. CASE Goes2(f)
  <2>1. Cur = Main /\ MainAt(Watching) /\ ~MainAt(Forking)
    BY <1>2, MainIsAt DEF MainPcs, MainAt, Watching, Forking
  <2>2. QED BY <1>2, <1>4, <2>1, MainGoesOn DEF Watching, Forking
<1>5. QED BY <1>2, <1>3, <1>4

LEMMA NextChildIs ==
  ASSUME NEW p \in {"spawn", "check"}, NEW c \in Child
  PROVE  LET f == NextChild(p, c)
         IN  /\ f \in Frames
             /\ \/ f.pc = p /\ c < NChild /\ f.ch = c + 1
                \/ f.pc \in {"wait", "sleep"} /\ ~(c < NChild)
BY ProcAssumption DEF NextChild, Frame, Frames, Pcs, Child

(* Main reads the state of the child it is at.                             *)
LEMMA MainReads ==
  ASSUME ProcInv, Running, NEW p \in {"check", "wait"}, Me.pc = p
  PROVE  /\ handle[Me.ch] \in Kid /\ St[handle[Me.ch]] \in MVar
         /\ data[St[handle[Me.ch]]] = "Done" => frame[handle[Me.ch]].pc = "over"
         /\ ~cut => data[St[handle[Me.ch]]] # NIL
<1>1. Cur = Main /\ MainAt({p}) /\ ProcTypeOK /\ Stands /\ Quiet /\ Me.ch \in Child
  BY MainIsAt DEF MainPcs
<1>2. Spawned(Me.ch)
  BY <1>1 DEF Stands, Lineage, MainAt, Watching
<1>3. ~cut => data[St[handle[Me.ch]]] # NIL
  BY <1>1, <1>2, MainSees
<1>4. QED BY <1>1, <1>2, <1>3, StFacts DEF Spawned, Kid, Stands, Marks

LEMMA ChecksStep ==
  ASSUME ProcInv, Checks
  PROVE  ProcInv'
<1> DEFINE m == St[handle[Me.ch]]
<1>1. PICK v \in Value :
        /\ ReadMVar(m, v)
        /\ Becomes(IF Restarts(Me.ch, v) THEN Frame("respawn", Me.ch) ELSE NextChild("check", Me.ch))
  BY DEF Checks
<1> DEFINE f == IF Restarts(Me.ch, v) THEN Frame("respawn", Me.ch) ELSE NextChild("check", Me.ch)
<1>2. Running /\ Me.pc = "check" /\ Same /\ RtsInv
  BY DEF Checks, At, Else, Same, ProcInv, Founded
<1>3. /\ m \in MVar
      /\ data[m] = "Done" => frame[handle[Me.ch]].pc = "over"
  BY <1>2, MainReads
<1>4. RtsInv' /\ HeadStays /\ Others /\ v = data[m] /\ UNCHANGED <<data, mval>>
  BY <1>1, <1>2, <1>3, ReadDoes
<1>5. Cur = Main /\ MainAt({"check"}) /\ Me.ch \in Child
  BY <1>2, MainIsAt DEF MainPcs
<1>6. f \in Frames /\ f.pc \in {"respawn", "check", "wait", "sleep"}
  BY <1>5, NextChildIs DEF Frame, Frames, Pcs
<1>7. f.pc = "respawn" => f.ch = Me.ch /\ v = "Done"
  BY <1>5, NextChildIs DEF Frame, Restarts
<1>8. Goes2(f) /\ MainAt(Watching) /\ ~MainAt(Forking)
  BY <1>1, <1>4, <1>5 DEF Goes2, MainAt, Watching, Forking
<1>9. QED BY <1>2, <1>3, <1>4, <1>5, <1>6, <1>7, <1>8, MainGoesOn DEF Watching, Forking

LEMMA WaitsStep ==
  ASSUME ProcInv, Waits
  PROVE  ProcInv'
<1> DEFINE m == St[handle[Me.ch]]
           f(v) == IF v = "Running" THEN Frame("wait_sleep", Me.ch)
                   ELSE IF Me.ch < NChild THEN Frame("wait", Me.ch + 1)
                   ELSE Frame("over", Me.ch)
<1>1. PICK v \in Value : ReadMVar(m, v) /\ Becomes(f(v))
  BY DEF Waits
<1>2. Running /\ Me.pc = "wait" /\ Same /\ RtsInv
  BY DEF Waits, At, Else, Same, ProcInv, Founded
<1>3. m \in MVar
  BY <1>2, MainReads
<1>4. RtsInv' /\ HeadStays /\ Others /\ UNCHANGED <<data, mval>>
  BY <1>1, <1>2, <1>3, ReadDoes
<1>5. Cur = Main /\ MainAt({"wait"}) /\ Me.ch \in Child
  BY <1>2, MainIsAt DEF MainPcs
<1>6. f(v) \in Frames /\ f(v).pc \in {"wait_sleep", "wait", "over"}
  <2>1. Me.ch < NChild => Me.ch + 1 \in Child
    BY <1>5, ProcAssumption DEF Child
  <2>2. CASE v = "Running"
    BY <1>5, <2>2 DEF Frame, Frames, Pcs
  <2>3. CASE v # "Running" /\ Me.ch < NChild
    BY <2>1, <2>3 DEF Frame, Frames, Pcs
  <2>4. CASE v # "Running" /\ ~(Me.ch < NChild)
    BY <1>5, <2>4 DEF Frame, Frames, Pcs
  <2>5. QED BY <2>2, <2>3, <2>4
<1>7. Goes2(f(v)) /\ MainAt(Watching) /\ ~MainAt(Forking)
  BY <1>1, <1>4, <1>5 DEF Goes2, MainAt, Watching, Forking
<1> HIDE DEF f
<1>8. f(v).pc \in (Watching \ Forking) \cup {"over"} /\ f(v).pc # "respawn"
  BY <1>6 DEF Watching, Forking
<1>9. QED BY <1>2, <1>4, <1>5, <1>6, <1>7, <1>8, MainGoesOn

LEMMA MainReadWaits ==
  ASSUME ProcInv, CheckWaits \/ WaitWaits
  PROVE  ProcInv'
<1>1. PICK p \in {"check", "wait"} : ReadWaits(p, St[handle[Me.ch]])
  BY DEF CheckWaits, WaitWaits
<1>2. Running /\ Me.pc = p /\ RtsInv
  BY <1>1 DEF ReadWaits, At, ProcInv, Founded
<1>3. St[handle[Me.ch]] \in MVar /\ (~cut => data[St[handle[Me.ch]]] # NIL)
  BY <1>2, MainReads
<1>4. RtsInv' /\ Same /\ data[St[handle[Me.ch]]] = NIL /\ Blocked
  BY <1>1, <1>2, <1>3, ReadWaitsDoes DEF Same
<1>5. QED BY <1>2, <1>3, <1>4, BlockedStep

(* spawn forks: the new thread is the one that works for the child.        *)
LEMMA ForkPlaces ==
  ASSUME ProcInv, SpawnForks
  PROVE  LET c == frame[Main].ch
             g == NextChild(IF MainAt({"fork"}) THEN "spawn" ELSE "check", c)
         IN  /\ Running /\ Cur = Main /\ MainAt(Forking) /\ c \in Child /\ g \in Frames
             /\ New \in Kid /\ New \in Unborn /\ frame[New].pc = "none" /\ Fork(New)
             /\ handle' = [handle EXCEPT ![c] = New]
             /\ frame' \in [Thread -> Frames] /\ frame'[Main] = g
             /\ frame'[New] = Frame("action", c)
             /\ \A t \in Kid \ {New} : frame'[t] = frame[t]
             /\ \A t \in Thread : state'[t] = IF t = New THEN "runnable" ELSE state[t]
<1>1. PICK p \in Forking : Running /\ Me.pc = p
  BY DEF SpawnForks, At, Forking
<1>2. /\ Cur = Main /\ MainAt({p}) /\ frame[Main] = Me /\ Me.ch \in Child
      /\ ProcTypeOK /\ Stands
  BY <1>1, MainIsAt DEF MainPcs, Forking
<1>3. MainAt(Forking) /\ Unborn # {}
  BY <1>2 DEF MainAt, Stands, Marks
<1>4. New \in Unborn /\ New \in Thread /\ state[New] = "unborn" /\ New # Main
  BY <1>2, <1>3, NewIsUnborn DEF Stands, Places
<1>5. New \in Kid /\ frame[New].pc = "none"
  BY <1>2, <1>4 DEF Stands, Places, Kid
<1>6. /\ Fork(New) /\ handle' = [handle EXCEPT ![Me.ch] = New]
      /\ frame' = [frame EXCEPT ![New] = Frame("action", Me.ch),
                                ![Cur] = NextChild(IF Me.pc = "fork" THEN "spawn" ELSE "check", Me.ch)]
  BY DEF SpawnForks
<1> DEFINE g == NextChild(IF MainAt({"fork"}) THEN "spawn" ELSE "check", Me.ch)
<1>7. g \in Frames /\ g = NextChild(IF Me.pc = "fork" THEN "spawn" ELSE "check", Me.ch)
  BY <1>2, NextChildIs DEF MainAt
<1> HIDE DEF g
<1>8. Frame("action", Me.ch) \in Frames /\ frame \in [Thread -> Frames] /\ Main \in Thread
  BY <1>2, StFacts DEF Frame, Frames, Pcs, ProcTypeOK
<1>9. frame' = [frame EXCEPT ![New] = Frame("action", Me.ch), ![Main] = g]
  BY <1>2, <1>6, <1>7
<1>10. /\ frame' \in [Thread -> Frames] /\ frame'[Main] = g
       /\ frame'[New] = Frame("action", Me.ch)
       /\ \A t \in Kid \ {New} : frame'[t] = frame[t]
  BY <1>4, <1>7, <1>8, <1>9 DEF Kid
<1>11. \A t \in Thread : state'[t] = IF t = New THEN "runnable" ELSE state[t]
  BY <1>2, <1>4, <1>6 DEF Fork, ProcTypeOK, TypeOK
<1>12. QED BY <1>1, <1>2, <1>3, <1>4, <1>5, <1>6, <1>7, <1>10, <1>11 DEF g

LEMMA ForksStep ==
  ASSUME ProcInv, SpawnForks
  PROVE  ProcInv'
<1>0. PICK c, g : /\ c = frame[Main].ch
                  /\ g = NextChild(IF MainAt({"fork"}) THEN "spawn" ELSE "check", c)
  OBVIOUS
<1>1. /\ Running /\ Cur = Main /\ MainAt(Forking) /\ c \in Child /\ g \in Frames
      /\ New \in Kid /\ New \in Unborn /\ frame[New].pc = "none" /\ Fork(New)
      /\ handle' = [handle EXCEPT ![c] = New]
      /\ frame' \in [Thread -> Frames] /\ frame'[Main] = g
      /\ frame'[New] = Frame("action", c)
      /\ \A t \in Kid \ {New} : frame'[t] = frame[t]
      /\ \A t \in Thread : state'[t] = IF t = New THEN "runnable" ELSE state[t]
  BY <1>0, ForkPlaces
<1>2. RtsInv /\ ProcTypeOK /\ Stands /\ Quiet /\ UNCHANGED <<prog, cut>>
  BY DEF ProcInv, Founded, Stands, SpawnForks
<1>3. /\ MainAt({"fork"}) => \/ g.pc = "spawn" /\ c < NChild /\ g.ch = c + 1
                             \/ g.pc \in {"wait", "sleep"} /\ ~(c < NChild)
      /\ MainAt({"refork"}) => g.pc \in {"check", "wait", "sleep"}
      /\ MainAt({"fork"}) \/ MainAt({"refork"})
      /\ ~(MainAt({"fork"}) /\ MainAt({"refork"}))
  <2>1. MainAt({"fork"}) => g = NextChild("spawn", c)
    BY <1>0
  <2>2. ~MainAt({"fork"}) => g = NextChild("check", c)
    BY <1>0
  <2>3. ~(MainAt({"fork"}) /\ MainAt({"refork"})) /\ (MainAt({"fork"}) \/ MainAt({"refork"}))
    BY <1>1 DEF MainAt, Forking
  <2>4. MainAt({"fork"}) => \/ g.pc = "spawn" /\ c < NChild /\ g.ch = c + 1
                            \/ g.pc \in {"wait", "sleep"} /\ ~(c < NChild)
    BY <1>1, <2>1, NextChildIs
  <2>5. ~MainAt({"fork"}) => g.pc \in {"check", "wait", "sleep"}
    BY <1>1, <2>2, NextChildIs
  <2>6. QED BY <2>3, <2>4, <2>5
<1>4. Unborn' = Unborn \ {New}
  BY <1>1 DEF Unborn, Kid
<1>5. frame'[New].pc = "action" /\ frame'[New].ch = c /\ New \in Thread
  BY <1>1 DEF Frame, Kid
<1>6. UNCHANGED <<data, mval>>
  BY <1>1 DEF Fork, mvars
<1>7. ProcTypeOK'
  <2>1. RtsInv'
    BY <1>1, <1>2, <1>5, ForkOK
  <2>2. handle' \in [Child -> Thread \cup {NIL}]
    BY <1>1, <1>2, <1>5 DEF ProcTypeOK
  <2>3. QED BY <1>1, <1>2, <2>1, <2>2 DEF ProcTypeOK, RtsInv, Frames
<1>8. Places'
  <2>1. g.pc \in MainPcs
    BY <1>3 DEF MainPcs
  <2>2. state'[Main] # "unborn"
    BY <1>1, <1>2, StFacts DEF Stands, Places
  <2>3. \A t \in Kid : frame'[t].pc \in {"none", "over"} \cup Working
    BY <1>1, <1>2, <1>5 DEF Stands, Places, Working
  <2>4. \A t \in Kid : state'[t] = "unborn" <=> frame'[t].pc = "none"
    BY <1>1, <1>2, <1>5 DEF Stands, Places, Kid
  <2>5. QED BY <1>1, <2>1, <2>2, <2>3, <2>4 DEF Places, MainAt
<1>9. /\ handle'[c] = New
      /\ \A d \in Child \ {c} : handle'[d] = handle[d]
  BY <1>1, <1>2 DEF ProcTypeOK
<1>10. \A t \in Kid \ {New} : frame[t].pc \in Working => frame[t].ch \in Child /\ frame[t].ch # c
  <2>1. SUFFICES ASSUME NEW t \in Kid \ {New}, frame[t].pc \in Working
                 PROVE  frame[t].ch \in Child /\ frame[t].ch # c
    OBVIOUS
  <2>2. frame[t].ch \in Child
    BY <1>2 DEF ProcTypeOK, Kid
  <2>3. CASE MainAt({"fork"})
    <3>1. frame[t].ch < c
      BY <1>0, <1>2, <2>1, <2>3 DEF Stands, Lineage, MainAt
    <3>2. QED BY <1>1, <2>2, <3>1 DEF Child
  <2>4. CASE MainAt({"refork"})
    <3>1. frame[handle[c]].pc = "over" /\ handle[frame[t].ch] = t
      BY <1>0, <1>2, <2>1, <2>4 DEF Stands, Lineage, MainAt
    <3>2. QED BY <2>1, <2>2, <3>1 DEF Working
  <2>5. QED BY <1>3, <2>3, <2>4
<1>11. Spawned(c)' /\ \A d \in Child : Spawned(d) => Spawned(d)'
  <2>1. Spawned(c)'
    BY <1>1, <1>5, <1>9 DEF Spawned
  <2>2. ASSUME NEW d \in Child \ {c}, Spawned(d) PROVE Spawned(d)'
    <3>1. handle'[d] = handle[d] /\ handle[d] \in Kid \ {New}
      BY <1>1, <1>9, <2>2 DEF Spawned
    <3>2. QED BY <1>1, <2>2, <3>1 DEF Spawned
  <2>3. QED BY <2>1, <2>2
<1>12. Lineage'
  <2>1. \A t \in Kid : frame'[t].pc \in Working => handle'[frame'[t].ch] = t
    BY <1>1, <1>2, <1>5, <1>9, <1>10 DEF Stands, Lineage
  <2>2. MainAt(Watching)' => \A d \in Child : Spawned(d)'
    <3>1. CASE MainAt({"refork"})
      BY <1>2, <1>11, <3>1 DEF Stands, Lineage, MainAt, Watching
    <3>2. CASE MainAt({"fork"}) /\ ~(c < NChild)
      <4>1. \A d \in Child : d < c \/ d = c
        BY <1>1, <3>2, ProcAssumption DEF Child
      <4>2. \A d \in Child : d < c => Spawned(d)
        BY <1>0, <1>2, <3>2 DEF Stands, Lineage, MainAt
      <4>3. QED BY <1>11, <4>1, <4>2
    <3>3. CASE MainAt({"fork"}) /\ g.pc = "spawn"
      BY <1>1, <3>3 DEF MainAt, Watching
    <3>4. QED BY <1>3, <3>1, <3>2, <3>3
  <2>3. ASSUME MainAt({"new_hb", "spawn", "fork"})'
        PROVE  MainAt({"fork"}) /\ g.pc = "spawn" /\ g.ch = c + 1
    BY <1>1, <1>3, <2>3 DEF MainAt
  <2>4. MainAt({"spawn", "fork"})' => \A d \in Child : d < g.ch => Spawned(d)'
    <3>1. SUFFICES ASSUME MainAt({"spawn", "fork"})', NEW d \in Child, d < g.ch PROVE Spawned(d)'
      OBVIOUS
    <3>2. MainAt({"fork"}) /\ g.ch = c + 1
      BY <2>3, <3>1 DEF MainAt
    <3>3. d < c \/ d = c
      BY <1>1, <3>1, <3>2 DEF Child
    <3>4. d < c => Spawned(d)
      BY <1>0, <1>2, <3>2 DEF Stands, Lineage, MainAt
    <3>5. QED BY <1>11, <3>3, <3>4
  <2>5. MainAt({"new_hb", "spawn", "fork"})' =>
          \A t \in Kid : frame'[t].pc \in Working => frame'[t].ch < g.ch
    <3>1. SUFFICES ASSUME MainAt({"new_hb", "spawn", "fork"})', NEW t \in Kid, frame'[t].pc \in Working
                   PROVE  frame'[t].ch < g.ch
      OBVIOUS
    <3>2. MainAt({"fork"}) /\ g.ch = c + 1 /\ c \in Nat
      BY <1>1, <2>3, <3>1 DEF Child
    <3>3. t # New => frame[t].ch < c /\ frame[t].ch \in Nat /\ frame'[t] = frame[t]
      BY <1>0, <1>1, <1>2, <1>10, <3>1, <3>2 DEF Stands, Lineage, MainAt, Child
    <3>4. QED BY <1>5, <3>2, <3>3
  <2>6. ~MainAt({"respawn", "refork", "new_hb"})'
    BY <1>1, <1>3 DEF MainAt
  <2>7. QED BY <1>1, <2>1, <2>2, <2>4, <2>5, <2>6 DEF Lineage, MainAt
<1>13. Marks'
  <2>1. data[St[New]] # "Done"
    BY <1>1, <1>2 DEF Stands, Marks
  <2>2. \A t \in Kid : data[St[t]] = "Done" => frame'[t].pc = "over"
    BY <1>1, <1>2, <2>1 DEF Stands, Marks
  <2>3. ~MainAt(Forking)'
    BY <1>1, <1>3 DEF MainAt, Forking
  <2>4. \A t \in Unborn' : data[St[t]] = NIL
    BY <1>2, <1>4 DEF Stands, Marks
  <2>5. QED BY <1>6, <2>2, <2>3, <2>4 DEF Marks
<1>14. Quiet'
  <2>1. SUFFICES ASSUME ~cut PROVE Quiet'
    BY <1>2 DEF Quiet
  <2>2. /\ \A t \in Kid : frame[t].pc \notin Putting
        /\ data[Hb] # NIL /\ data[St[New]] # NIL
    BY <1>1, <1>2, <2>1, MainSees DEF MainAt, Forking, Quiet
  <2>3. \A t \in Kid : frame'[t].pc \notin Putting
    BY <1>1, <1>5, <2>2 DEF Putting
  <2>4. \A t \in Thread : state'[t] # "wait_mvar" /\ mval'[t] = NIL
    BY <1>1, <1>2, <1>6, <2>1 DEF Quiet
  <2>5. \A t \in Kid : frame'[t].pc # "none" => data[St[t]] # NIL
    BY <1>1, <1>2, <2>1, <2>2 DEF Quiet, Putting
  <2>6. ~MainAt(Forking)' /\ ~MainAt({"new_hb"})'
    BY <1>1, <1>3 DEF MainAt, Forking
  <2>7. QED BY <1>6, <2>2, <2>3, <2>4, <2>5, <2>6 DEF Quiet, Putting
<1>15. RtsInv'
  BY <1>1, <1>2, <1>5, ForkOK
<1>16. QED BY <1>7, <1>8, <1>12, <1>13, <1>14, <1>15 DEF ProcInv, Founded

LEMMA ReturnStep ==
  ASSUME ProcInv, Return
  PROVE  ProcInv'
<1>1. RtsInv /\ Ends("finished", "main_done") /\ Me.pc = "over" /\ frame' = frame /\ Same
  BY DEF ProcInv, Founded, Return, Finish, At, Else, Same
<1>2. RtsInv' /\ Running /\ UNCHANGED <<data, mval>> /\ state' = [state EXCEPT ![Cur] = "finished"]
  BY <1>1, EndsOK, EndsEffect
<1>3. QED BY <1>1, <1>2, LeavesStep DEF Putting

----------------------------------------------------------------------------
(* The scheduler and the clock: nothing of the programs changes.           *)
LEMMA SystemStep ==
  ASSUME ProcInv, RtsInv', UNCHANGED <<prog, frame, handle, data, mval>>, Others,
         cut' \in BOOLEAN, cut => cut',
         ~cut' => \A t \in Kid : frame[t].pc \in Putting => HeadStays
  PROVE  ProcInv'
<1>1. ProcTypeOK /\ Stands /\ Quiet
  BY DEF ProcInv, Founded, Stands
<1>2. Keeps
  BY OthersKeep
<1>3. ProcTypeOK'
  BY <1>1 DEF ProcTypeOK, RtsInv
<1>4. Stands'
  BY <1>1, <1>2, Unmoved
<1>5. Quiet'
  <2>1. CASE cut'
    BY <2>1 DEF Quiet
  <2>2. CASE ~cut'
    <3>1. ~cut
      BY <2>2
    <3>2. \A t \in Thread : state'[t] # "wait_mvar"
      BY <1>1, <3>1, StillUp
    <3>3. QED BY <1>1, <1>2, <2>2, <3>1, <3>2, StillQuiet
  <2>3. QED BY <2>1, <2>2
<1>6. QED BY <1>3, <1>4, <1>5 DEF ProcInv, Founded, Stands

LEMMA SliceStep ==
  ASSUME ProcInv, Slice
  PROVE  ProcInv'
<1>1. RtsInv /\ ProcTypeOK /\ Quiet
  BY DEF ProcInv, Founded
<1>2. Preempt /\ Running /\ cut' = (cut \/ (InSwap /\ Head(runq') # Cur)) /\ UNCHANGED <<prog, frame, handle>>
  BY DEF Slice, Preempt
<1>3. RtsInv' /\ UNCHANGED <<data, mval>> /\ Others
  BY <1>1, <1>2, PreemptOK, SchedulerEffect DEF Others
<1>4. cut' \in BOOLEAN /\ (cut => cut')
  BY <1>1, <1>2 DEF ProcTypeOK
<1>5. ASSUME ~cut', NEW t \in Kid, frame[t].pc \in Putting PROVE HeadStays
  <2>1. t = Cur /\ ~cut
    BY <1>1, <1>2, <1>5 DEF Quiet
  <2>2. InSwap
    BY <1>2, <1>5, <2>1 DEF InSwap, Me, Putting
  <2>3. Head(runq') = Cur
    BY <1>2, <1>5, <2>2
  <2>4. Cur \in Thread /\ InQ(runq, Cur) /\ state[Cur] = "runnable"
    BY <1>1, <1>2, CurFacts
  <2>5. state'[Cur] = "runnable"
    BY <1>3, <2>4 DEF Others, KeptOrWoken
  <2>6. InQ(runq', Cur)
    BY <1>3, <2>4, <2>5 DEF RtsInv, OneQueue
  <2>7. runq' # <<>>
    BY <2>6 DEF InQ
  <2>8. QED BY <2>3, <2>7 DEF HeadStays
<1>6. QED BY <1>2, <1>3, <1>4, <1>5, SystemStep

LEMMA ClockStep ==
  ASSUME ProcInv, Pause \/ GiveUp \/ Time
  PROVE  ProcInv'
<1>1. RtsInv /\ ProcTypeOK /\ Quiet
  BY DEF ProcInv, Founded
<1>2. (PauseExec \/ Deadlock \/ Tick) /\ UNCHANGED <<prog, frame, handle, cut>>
  BY DEF Pause, GiveUp, Time, Else
<1>3. RtsInv' /\ UNCHANGED <<data, mval>> /\ Others
  BY <1>1, <1>2, PauseExecOK, DeadlockOK, TickOK, SchedulerEffect DEF Others
<1>4. runq = <<>> \/ runq' = runq
  BY <1>2 DEF PauseExec, Deadlock, Tick
<1>5. ASSUME ~cut', NEW t \in Kid, frame[t].pc \in Putting PROVE HeadStays
  BY <1>1, <1>2, <1>4, <1>5 DEF Quiet, HeadStays, Cur
<1>6. QED BY <1>1, <1>2, <1>3, <1>5, SystemStep DEF ProcTypeOK

LEMMA ProcStutter ==
  ASSUME ProcInv, UNCHANGED vars
  PROVE  ProcInv'
<1>1. RtsInv /\ UNCHANGED rts /\ UNCHANGED <<prog, frame, handle, cut>>
  BY DEF ProcInv, Founded, vars
<1>2. RtsInv'
  BY <1>1, RtsStutterOK
<1>3. Others /\ UNCHANGED <<data, mval, runq>>
  BY <1>1 DEF rts, mvars, Others, KeptOrWoken
<1>4. ASSUME ~cut', NEW t \in Kid, frame[t].pc \in Putting PROVE HeadStays
  BY <1>1, <1>3, <1>4 DEF ProcInv, Quiet, HeadStays, Cur
<1>5. QED BY <1>1, <1>2, <1>3, <1>4, SystemStep DEF ProcInv, Founded, ProcTypeOK

----------------------------------------------------------------------------
LEMMA ProcInit == PInit => ProcInv
<1> SUFFICES ASSUME PInit PROVE ProcInv
  OBVIOUS
<1>1. Init /\ RtsInv
  BY RtsInitOK DEF PInit
<1>2. /\ \A t \in Thread : state[t] = IF t = Main THEN "runnable" ELSE "unborn"
      /\ \A t \in Thread : mval[t] = NIL
      /\ \A m \in MVar : data[m] = NIL
  BY <1>1 DEF Init
<1>3. /\ frame[Main] = Frame("new_hb", 1) /\ \A t \in Kid : frame[t] = Frame("none", 1)
      /\ frame \in [Thread -> Frames] /\ 1 \in Child /\ cut = FALSE
  BY ThreadAssumption, ProcAssumption DEF PInit, Frame, Frames, Kid, Pcs, Child
<1>4. ProcTypeOK
  BY <1>1, <1>3 DEF PInit, ProcTypeOK, RtsInv, Frames
<1>5. /\ frame[Main].pc = "new_hb" /\ frame[Main].ch = 1
      /\ \A t \in Kid : frame[t].pc = "none"
  BY <1>3 DEF Frame
<1>6. Places
  BY <1>2, <1>5, ThreadAssumption DEF Places, MainAt, MainPcs, Kid, Working
<1>7. Lineage
  BY <1>5 DEF Lineage, MainAt, Watching, Working
<1>8. Marks
  <2>1. \A t \in Thread : data[St[t]] = NIL /\ data[St[t]] # "Done"
    BY <1>2, StFacts
  <2>2. QED BY <1>5, <2>1 DEF Marks, MainAt, Forking, Kid, Unborn
<1>9. Quiet
  BY <1>2, <1>5, StFacts DEF Quiet, MainAt, Putting, Forking, Kid
<1>10. QED BY <1>1, <1>4, <1>6, <1>7, <1>8, <1>9 DEF ProcInv, Founded

LEMMA OpsStep ==
  ASSUME ProcInv, Ops
  PROVE  ProcInv'
<1>1. CASE NewHb \/ SpawnNew \/ SpawnForks
  BY <1>1, NewHbStep, SpawnNewStep, ForksStep
<1>2. CASE Monitors \/ WaitSleeps
  <2>1. CASE Monitors
    <3>1. Frame("check", 1) \in Frames /\ Frame("check", 1).pc = "check"
      BY ProcAssumption DEF Frame, Frames, Pcs, Child
    <3>2. QED BY <2>1, <3>1, MainSleeps DEF Monitors
  <2>2. CASE WaitSleeps
    <3>1. Me.pc = "wait_sleep" /\ Running
      BY <2>2 DEF WaitSleeps, Sleeps, At
    <3>2. Me.ch \in Child
      BY <3>1, MainIsAt DEF MainPcs
    <3>3. Frame("wait", Me.ch) \in Frames /\ Frame("wait", Me.ch).pc = "wait"
      BY <3>2 DEF Frame, Frames, Pcs
    <3>4. QED BY <2>2, <3>3, MainSleeps DEF WaitSleeps
  <2>3. QED BY <1>2, <2>1, <2>2
<1>3. CASE Checks \/ CheckWaits \/ Waits \/ WaitWaits
  BY <1>3, ChecksStep, WaitsStep, MainReadWaits
<1>4. CASE Beats \/ BeatWaits \/ Naps
  BY <1>4, BeatsStep, KidSleeps DEF Naps
<1>5. CASE SwapBegins \/ ActionEnds
  BY <1>5, BeginsStep DEF SwapBegins, ActionEnds
<1>6. CASE SwapTakes \/ SwapPuts \/ Crashes \/ DoneTakes \/ DonePuts \/ Return
  BY <1>6, SwapTakesStep, SwapPutsStep, CrashesStep, DoneTakesStep, DonePutsStep, ReturnStep
<1>7. QED BY <1>1, <1>2, <1>3, <1>4, <1>5, <1>6 DEF Ops

(* The inductive invariant holds of every program of spawns, supervisors,  *)
(* waits, heartbeats and swaps.                                            *)
THEOREM ProcInvariant == Spec => []ProcInv
<1>1. PInit => ProcInv
  BY ProcInit
<1>2. ProcInv /\ [Next]_vars => ProcInv'
  BY OpsStep, SliceStep, ClockStep, ProcStutter DEF Next
<1>3. QED BY <1>1, <1>2, PTL DEF Spec

(* Every thread, frame, handle and MVar stays in its type.                 *)
THEOREM ProcessesTyped == Spec => []ProcTypeOK
<1>1. ProcInv => ProcTypeOK
  BY DEF ProcInv, Founded
<1>2. QED BY <1>1, ProcInvariant, PTL

(* The supervisor never has two instances of a child at work, however its  *)
(* checks fall between the take and the put of the child's state.          *)
THEOREM OneInstanceEach == Spec => []OneInstance
<1>1. ProcInv => OneInstance
  BY DEF ProcInv, Lineage, OneInstance, Kid, Working
<1>2. QED BY <1>1, ProcInvariant, PTL

(* The comment at Main.hs 90 holds as long as the timer does not hit a     *)
(* swapMVar between its take and its put: nobody waits for an MVar.        *)
THEOREM NobodyContends == Spec => []NoContention
<1>1. ProcInv => NoContention
  BY DEF ProcInv, Quiet, NoContention
<1>2. QED BY <1>1, ProcInvariant, PTL
============================================================================
