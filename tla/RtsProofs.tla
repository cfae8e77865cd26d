----------------------------- MODULE RtsProofs -----------------------------
(***************************************************************************)
(* Every primitive of the runtime preserves the scheduler's invariant, for *)
(* any number of threads, MVars and values.  Modules that build a program  *)
(* on Rts cite these lemmas, one per primitive.                            *)
(***************************************************************************)
EXTENDS Rts, TLAPS, SequenceTheorems

(* ---- What the queue operations do to membership and repetition. ------- *)

LEMMA TailQ ==
  ASSUME NEW S, NEW q \in Seq(S), q # <<>>, NoRepeat(q)
  PROVE  /\ Tail(q) \in Seq(S) /\ NoRepeat(Tail(q)) /\ Head(q) \in S
         /\ InQ(q, Head(q))
         /\ \A t : InQ(Tail(q), t) <=> InQ(q, t) /\ t # Head(q)
<1>1. /\ Tail(q) \in Seq(S) /\ Len(q) \in Nat \ {0} /\ Len(Tail(q)) = Len(q) - 1
      /\ \A i \in 1..Len(Tail(q)) : Tail(q)[i] = q[i + 1]
      /\ Head(q) = q[1] /\ Head(q) \in S
  BY HeadTailProperties, EmptySeq, LenProperties
<1>2. NoRepeat(Tail(q))
  BY <1>1 DEF NoRepeat
<1>3. ASSUME NEW t
      PROVE  InQ(Tail(q), t) <=> InQ(q, t) /\ t # Head(q)
  <2>1. ASSUME InQ(Tail(q), t) PROVE InQ(q, t) /\ t # Head(q)
    BY <2>1, <1>1 DEF InQ, NoRepeat
  <2>2. ASSUME InQ(q, t), t # Head(q) PROVE InQ(Tail(q), t)
    <3>1. PICK i \in 1..Len(q) : q[i] = t
      BY <2>2 DEF InQ
    <3>2. i - 1 \in 1..Len(Tail(q)) /\ Tail(q)[i - 1] = t
      BY <3>1, <2>2, <1>1
    <3>3. QED BY <3>2 DEF InQ
  <2>3. QED BY <2>1, <2>2
<1>4. QED BY <1>1, <1>2, <1>3 DEF InQ

LEMMA AppendQ ==
  ASSUME NEW S, NEW q \in Seq(S), NEW s \in S
  PROVE  /\ Append(q, s) \in Seq(S)
         /\ NoRepeat(q) /\ ~InQ(q, s) => NoRepeat(Append(q, s))
         /\ \A t : InQ(Append(q, s), t) <=> InQ(q, t) \/ t = s
<1>1. /\ Append(q, s) \in Seq(S) /\ Len(q) \in Nat /\ Len(Append(q, s)) = Len(q) + 1
      /\ \A i \in 1..Len(q) : Append(q, s)[i] = q[i]
      /\ Append(q, s)[Len(q) + 1] = s
  BY AppendProperties, LenProperties
<1>2. ASSUME NEW t PROVE InQ(Append(q, s), t) <=> InQ(q, t) \/ t = s
  BY <1>1 DEF InQ
<1>3. ASSUME NoRepeat(q), ~InQ(q, s) PROVE NoRepeat(Append(q, s))
  BY <1>1, <1>3 DEF NoRepeat, InQ
<1>4. QED BY <1>1, <1>2, <1>3

LEMMA ConcatQ ==
  ASSUME NEW S, NEW q \in Seq(S), NEW r \in Seq(S)
  PROVE  /\ q \o r \in Seq(S)
         /\ NoRepeat(q) /\ NoRepeat(r) /\ (\A t : ~(InQ(q, t) /\ InQ(r, t)))
              => NoRepeat(q \o r)
         /\ \A t : InQ(q \o r, t) <=> InQ(q, t) \/ InQ(r, t)
<1>1. /\ q \o r \in Seq(S) /\ Len(q) \in Nat /\ Len(r) \in Nat
      /\ Len(q \o r) = Len(q) + Len(r)
      /\ \A i \in 1..(Len(q) + Len(r)) :
            (q \o r)[i] = IF i <= Len(q) THEN q[i] ELSE r[i - Len(q)]
  BY ConcatProperties, LenProperties
<1>2. ASSUME NEW t PROVE InQ(q \o r, t) <=> InQ(q, t) \/ InQ(r, t)
  <2>1. ASSUME InQ(r, t) PROVE InQ(q \o r, t)
    <3>1. PICK i \in 1..Len(r) : r[i] = t
      BY <2>1 DEF InQ
    <3>2. i + Len(q) \in 1..Len(q \o r) /\ (q \o r)[i + Len(q)] = t
      BY <3>1, <1>1
    <3>3. QED BY <3>2 DEF InQ
  <2>2. ASSUME InQ(q, t) PROVE InQ(q \o r, t)
    BY <2>2, <1>1 DEF InQ
  <2>3. ASSUME InQ(q \o r, t) PROVE InQ(q, t) \/ InQ(r, t)
    <3>1. PICK i \in 1..(Len(q) + Len(r)) : (q \o r)[i] = t
      BY <2>3, <1>1 DEF InQ
    <3>2. CASE i <= Len(q)
      BY <3>1, <3>2, <1>1 DEF InQ
    <3>3. CASE ~(i <= Len(q))
      <4>1. i - Len(q) \in 1..Len(r) /\ r[i - Len(q)] = t
        BY <3>1, <3>3, <1>1
      <4>2. QED BY <4>1 DEF InQ
    <3>4. QED BY <3>2, <3>3
  <2>4. QED BY <2>1, <2>2, <2>3
<1>3. ASSUME NoRepeat(q), NoRepeat(r), \A t : ~(InQ(q, t) /\ InQ(r, t))
      PROVE  NoRepeat(q \o r)
  <2>1. SUFFICES ASSUME NEW i \in 1..(Len(q) + Len(r)), NEW j \in 1..(Len(q) + Len(r)),
                        (q \o r)[i] = (q \o r)[j]
                 PROVE  i = j
    BY <1>1 DEF NoRepeat
  <2>2. CASE i <= Len(q) /\ j <= Len(q)
    BY <2>1, <2>2, <1>1, <1>3 DEF NoRepeat
  <2>3. CASE i > Len(q) /\ j > Len(q)
    <3>1. i - Len(q) \in 1..Len(r) /\ j - Len(q) \in 1..Len(r)
      BY <2>3, <1>1
    <3>2. r[i - Len(q)] = r[j - Len(q)]
      BY <2>1, <2>3, <1>1
    <3>3. i - Len(q) = j - Len(q)
      BY <3>1, <3>2, <1>3 DEF NoRepeat
    <3>4. QED BY <3>3, <1>1
  <2>4. CASE i <= Len(q) /\ j > Len(q)
    <3>1. j - Len(q) \in 1..Len(r) /\ q[i] = r[j - Len(q)] /\ i \in 1..Len(q)
      BY <2>1, <2>4, <1>1
    <3>2. InQ(q, q[i]) /\ InQ(r, q[i])
      BY <3>1 DEF InQ
    <3>3. QED BY <3>2, <1>3
  <2>5. CASE i > Len(q) /\ j <= Len(q)
    <3>1. i - Len(q) \in 1..Len(r) /\ q[j] = r[i - Len(q)] /\ j \in 1..Len(q)
      BY <2>1, <2>5, <1>1
    <3>2. InQ(q, q[j]) /\ InQ(r, q[j])
      BY <3>1 DEF InQ
    <3>3. QED BY <3>2, <1>3
  <2>6. QED BY <2>2, <2>3, <2>4, <2>5, <1>1
<1>4. QED BY <1>1, <1>2, <1>3

LEMMA SplitQ ==
  ASSUME NEW S, NEW q \in Seq(S), NEW n \in 0..Len(q), NoRepeat(q)
  PROVE  LET a == SubSeq(q, 1, n)
             b == SubSeq(q, n + 1, Len(q))
         IN /\ a \in Seq(S) /\ b \in Seq(S) /\ NoRepeat(a) /\ NoRepeat(b)
            /\ Len(a) = n /\ Len(b) = Len(q) - n
            /\ \A i \in 1..n : a[i] = q[i]
            /\ \A i \in 1..(Len(q) - n) : b[i] = q[n + i]
            /\ \A t : ~(InQ(a, t) /\ InQ(b, t))
            /\ \A t : InQ(q, t) <=> InQ(a, t) \/ InQ(b, t)
<1> DEFINE a == SubSeq(q, 1, n)
           b == SubSeq(q, n + 1, Len(q))
<1>0. Len(q) \in Nat /\ n \in Nat /\ n <= Len(q)
  BY LenProperties
<1>1. /\ a \in Seq(S) /\ Len(a) = n
      /\ \A i \in 1..n : a[i] = q[i]
  BY <1>0, SubSeqProperties
<1>2. /\ b \in Seq(S) /\ Len(b) = Len(q) - n
      /\ \A i \in 1..(Len(q) - n) : b[i] = q[n + i]
  BY <1>0, SubSeqProperties
<1> HIDE DEF a, b
<1>3. NoRepeat(a) /\ NoRepeat(b)
  <2>1. NoRepeat(a)
    BY <1>0, <1>1 DEF NoRepeat
  <2>2. ASSUME NEW i \in 1..Len(b), NEW j \in 1..Len(b), b[i] = b[j]
        PROVE  i = j
    <3>1. n + i \in 1..Len(q) /\ n + j \in 1..Len(q) /\ q[n + i] = q[n + j]
      BY <2>2, <1>0, <1>2
    <3>2. n + i = n + j
      BY <3>1 DEF NoRepeat
    <3>3. QED BY <3>2, <1>0
  <2>3. QED BY <2>1, <2>2 DEF NoRepeat
<1>4. ASSUME NEW t PROVE ~(InQ(a, t) /\ InQ(b, t))
  BY <1>0, <1>1, <1>2, SMTT(60) DEF NoRepeat, InQ
<1>5. ASSUME NEW t PROVE InQ(q, t) <=> InQ(a, t) \/ InQ(b, t)
  <2>1. ASSUME InQ(a, t) \/ InQ(b, t) PROVE InQ(q, t)
    BY <2>1, <1>0, <1>1, <1>2 DEF InQ
  <2>2. ASSUME InQ(q, t) PROVE InQ(a, t) \/ InQ(b, t)
    <3>1. PICK i \in 1..Len(q) : q[i] = t
      BY <2>2 DEF InQ
    <3>2. CASE i <= n
      BY <3>1, <3>2, <1>0, <1>1 DEF InQ
    <3>3. CASE ~(i <= n)
      <4>1. i - n \in 1..Len(b) /\ b[i - n] = t
        BY <3>1, <3>3, <1>0, <1>2
      <4>2. QED BY <4>1 DEF InQ
    <3>4. QED BY <3>2, <3>3
  <2>3. QED BY <2>1, <2>2
<1>6. QED BY <1>1, <1>2, <1>3, <1>4, <1>5 DEF a, b

(* ---- One lemma per primitive. ----------------------------------------- *)

LEMMA CurFacts ==
  ASSUME RtsInv, Running
  PROVE  /\ Cur \in Thread /\ state[Cur] = "runnable" /\ InQ(runq, Cur)
         /\ Tail(runq) \in Seq(Thread) /\ NoRepeat(Tail(runq))
         /\ \A t : InQ(Tail(runq), t) <=> InQ(runq, t) /\ t # Cur
BY TailQ DEF RtsInv, TypeOK, OneQueue, Running, Cur

LEMMA TakeMVarBlocksOK ==
  ASSUME RtsInv, NEW m \in MVar, TakeMVarBlocks(m)
  PROVE  RtsInv'
<1> USE DEF RtsInv
<1>0. Running /\ Cur \in Thread /\ mval[Cur] = NIL /\ data[m] = NIL
      /\ redex[Cur] \in {NoRedex, Pending("take", m, NIL)}
  BY CurFacts DEF TakeMVarBlocks, Executes, Available
<1>1. /\ runq' = Tail(runq)
      /\ redex' = [redex EXCEPT ![Cur] = Pending("take", m, NIL)]
      /\ state' = [state EXCEPT ![Cur] = "wait_mvar"]
      /\ takeput' = [takeput EXCEPT ![m] = Append(@, Cur)]
      /\ UNCHANGED <<mval, at, timeq, data, rd, clock, exit>>
  BY DEF TakeMVarBlocks, Suspends
<1>2. Append(takeput[m], Cur) \in Seq(Thread) /\ NoRepeat(Append(takeput[m], Cur))
      /\ \A t : InQ(Append(takeput[m], Cur), t) <=> InQ(takeput[m], t) \/ t = Cur
  BY <1>0, CurFacts, AppendQ DEF TypeOK, OneQueue
<1>3. TypeOK'
  BY <1>0, <1>1, <1>2, CurFacts DEF TypeOK, Redex, Pending, State, Blocking
<1>4. OneQueue'
  BY <1>0, <1>1, <1>2, CurFacts, SMTT(30), ZenonT(60) DEF TypeOK, OneQueue, Pending
<1>5. OneKindWaits'
  BY <1>0, <1>1, <1>2, CurFacts, SMTT(30), ZenonT(60) DEF TypeOK, OneQueue, OneKindWaits, Pending
<1>6. StashIsForTake'
  BY <1>0, <1>1, <1>2, CurFacts DEF TypeOK, StashIsForTake, Pending
<1>7. MarkIsForDelay'
  BY <1>0, <1>1, <1>2, CurFacts DEF TypeOK, MarkIsForDelay, Pending, NoRedex
<1>8. QED BY <1>3, <1>4, <1>5, <1>6, <1>7

LEMMA ReadMVarBlocksOK ==
  ASSUME RtsInv, NEW m \in MVar, ReadMVarBlocks(m)
  PROVE  RtsInv'
<1> USE DEF RtsInv
<1>0. Running /\ Cur \in Thread /\ mval[Cur] = NIL
      /\ redex[Cur] \in {NoRedex, Pending("read", m, NIL)}
  BY CurFacts DEF ReadMVarBlocks, Executes, Available
<1>1. /\ runq' = Tail(runq)
      /\ redex' = [redex EXCEPT ![Cur] = Pending("read", m, NIL)]
      /\ state' = [state EXCEPT ![Cur] = "wait_mvar"]
      /\ rd' = [rd EXCEPT ![m] = Append(@, Cur)]
      /\ UNCHANGED <<mval, at, timeq, data, takeput, clock, exit>>
  BY DEF ReadMVarBlocks, Suspends
<1>2. Append(rd[m], Cur) \in Seq(Thread) /\ NoRepeat(Append(rd[m], Cur))
      /\ \A t : InQ(Append(rd[m], Cur), t) <=> InQ(rd[m], t) \/ t = Cur
  BY <1>0, CurFacts, AppendQ DEF TypeOK, OneQueue
<1>3. TypeOK'
  BY <1>0, <1>1, <1>2, CurFacts DEF TypeOK, Redex, Pending, State, Blocking
<1>4. OneQueue'
  BY <1>0, <1>1, <1>2, CurFacts, SMTT(60) DEF TypeOK, OneQueue, Pending
<1>5. OneKindWaits'
  BY <1>0, <1>1, <1>2, CurFacts, SMTT(60) DEF TypeOK, OneQueue, OneKindWaits, Pending
<1>6. StashIsForTake'
  BY <1>0, <1>1, <1>2, CurFacts DEF TypeOK, StashIsForTake, Pending
<1>7. MarkIsForDelay'
  BY <1>0, <1>1, <1>2, CurFacts DEF TypeOK, MarkIsForDelay, Pending, NoRedex
<1>8. QED BY <1>3, <1>4, <1>5, <1>6, <1>7

LEMMA PutMVarBlocksOK ==
  ASSUME RtsInv, NEW m \in MVar, NEW v \in Value, PutMVarBlocks(m, v)
  PROVE  RtsInv'
<1> USE DEF RtsInv
<1>0. Running /\ Cur \in Thread /\ data[m] # NIL
      /\ redex[Cur] \in {NoRedex, Pending("put", m, v)}
  BY CurFacts DEF PutMVarBlocks, Executes
<1>1. /\ runq' = Tail(runq)
      /\ redex' = [redex EXCEPT ![Cur] = Pending("put", m, v)]
      /\ state' = [state EXCEPT ![Cur] = "wait_mvar"]
      /\ takeput' = [takeput EXCEPT ![m] = Append(@, Cur)]
      /\ UNCHANGED <<mval, at, timeq, data, rd, clock, exit>>
  BY DEF PutMVarBlocks, Suspends
<1>2. Append(takeput[m], Cur) \in Seq(Thread) /\ NoRepeat(Append(takeput[m], Cur))
      /\ \A t : InQ(Append(takeput[m], Cur), t) <=> InQ(takeput[m], t) \/ t = Cur
  BY <1>0, CurFacts, AppendQ DEF TypeOK, OneQueue
<1>3. TypeOK'
  BY <1>0, <1>1, <1>2, CurFacts DEF TypeOK, Redex, Pending, State, Blocking
<1>4. OneQueue'
  BY <1>0, <1>1, <1>2, CurFacts, SMTT(60) DEF TypeOK, OneQueue, Pending
<1>5. OneKindWaits'
  BY <1>0, <1>1, <1>2, CurFacts, SMTT(30), ZenonT(60) DEF TypeOK, OneQueue, OneKindWaits, Pending
<1>6. StashIsForTake'
  BY <1>0, <1>1, <1>2, CurFacts DEF TypeOK, StashIsForTake, Pending, NoRedex
<1>7. MarkIsForDelay'
  BY <1>0, <1>1, <1>2, CurFacts DEF TypeOK, MarkIsForDelay, Pending, NoRedex
<1>8. QED BY <1>3, <1>4, <1>5, <1>6, <1>7

(* A primitive that only completes: nobody changes queue.                  *)
LEMMA CompletesOK ==
  ASSUME RtsInv, Running, Completes, redex[Cur].prim # "delay",
         DropsStash \/ (redex[Cur].prim # "take" /\ mval' = mval),
         UNCHANGED <<state, runq, at, timeq, mvars, clock, exit>>
  PROVE  RtsInv'
<1> USE DEF RtsInv
<1>1. Cur \in Thread /\ state[Cur] = "runnable"
  BY CurFacts
<1>2. /\ redex' = [redex EXCEPT ![Cur] = NoRedex]
      /\ UNCHANGED <<state, runq, at, timeq, data, takeput, rd, clock, exit>>
      /\ mval' = [mval EXCEPT ![Cur] = NIL] \/ (redex[Cur].prim # "take" /\ mval' = mval)
  BY DEF Completes, DropsStash, mvars
<1>3. TypeOK'
  BY <1>1, <1>2 DEF TypeOK, NoRedex, Redex, Pending
<1>4. OneQueue'
  BY <1>1, <1>2 DEF TypeOK, OneQueue
<1>5. OneKindWaits'
  BY <1>1, <1>2 DEF TypeOK, OneQueue, OneKindWaits
<1>6. StashIsForTake'
  BY <1>1, <1>2 DEF TypeOK, StashIsForTake
<1>7. MarkIsForDelay'
  BY <1>1, <1>2 DEF TypeOK, MarkIsForDelay, NoRedex, Pending
<1>8. QED BY <1>3, <1>4, <1>5, <1>6, <1>7

LEMMA WakesQ ==
  ASSUME RtsInv, NEW q \in Seq(Thread), NoRepeat(q), Wakes(q),
         \A t \in Thread : InQ(q, t) => state[t] # "runnable"
  PROVE  /\ runq' \in Seq(Thread) /\ NoRepeat(runq') /\ state' \in [Thread -> State]
         /\ \A t \in Thread : state'[t] = IF InQ(q, t) THEN "runnable" ELSE state[t]
         /\ \A t \in Thread : InQ(runq', t) <=> InQ(runq, t) \/ InQ(q, t)
<1>1. \A t : ~(InQ(runq, t) /\ InQ(q, t))
  <2>1. ASSUME NEW t, InQ(q, t) PROVE t \in Thread
    BY <2>1 DEF InQ
  <2>2. QED BY <2>1 DEF RtsInv, OneQueue
<1>2. QED BY <1>1, ConcatQ DEF RtsInv, TypeOK, OneQueue, Wakes, MadeRunnable, State

(* Emptying takeput[m]: its threads become runnable and keep their redex.  *)
LEMMA TakenOK ==
  ASSUME RtsInv, NEW m \in MVar, NEW v, Running, Completes, Taken(m, v),
         redex[Cur].prim \in {"none", "take"}
  PROVE  RtsInv'
<1> USE DEF RtsInv
<1>1. Cur \in Thread /\ state[Cur] = "runnable"
  BY CurFacts
<1>2. CASE mval[Cur] # NIL
  BY <1>2, CompletesOK DEF Taken, mvars
<1>3. CASE mval[Cur] = NIL
  <2>1. /\ redex' = [redex EXCEPT ![Cur] = NoRedex]
        /\ mval' = [mval EXCEPT ![Cur] = NIL]
        /\ data[m] # NIL /\ data' = [data EXCEPT ![m] = NIL]
        /\ takeput' = [takeput EXCEPT ![m] = <<>>]
        /\ Wakes(takeput[m])
        /\ UNCHANGED <<at, timeq, rd, clock, exit>>
    BY <1>3 DEF Completes, Taken, DropsStash, Available
  <2>2. /\ runq' \in Seq(Thread) /\ NoRepeat(runq') /\ state' \in [Thread -> State]
        /\ \A t \in Thread : state'[t] = IF InQ(takeput[m], t) THEN "runnable" ELSE state[t]
        /\ \A t \in Thread : InQ(runq', t) <=> InQ(runq, t) \/ InQ(takeput[m], t)
    BY <2>1, WakesQ DEF TypeOK, OneQueue
  <2>3. <<>> \in Seq(Thread) /\ NoRepeat(<<>>) /\ \A t : ~InQ(<<>>, t)
    BY DEF NoRepeat, InQ
  <2>4. TypeOK'
    BY <1>1, <2>1, <2>2, <2>3 DEF TypeOK, NoRedex, Redex, Pending
  <2>5. OneQueue'
    BY <1>1, <2>1, <2>2, <2>3, SMTT(60) DEF TypeOK, OneQueue
  <2>6. OneKindWaits'
    BY <1>1, <2>1, <2>2, <2>3, SMTT(60) DEF TypeOK, OneQueue, OneKindWaits
  <2>7. StashIsForTake'
    BY <1>1, <2>1, <2>2 DEF TypeOK, StashIsForTake
  <2>8. MarkIsForDelay'
    BY <1>1, <2>1, <2>2 DEF TypeOK, OneQueue, MarkIsForDelay, NoRedex, Pending
  <2>9. QED BY <2>4, <2>5, <2>6, <2>7, <2>8
<1>4. QED BY <1>2, <1>3

(* Storing a value, or handing it to the threads of takeput[m]: the MVar   *)
(* is empty, so they are all takers.                                       *)
LEMMA StoredOK ==
  ASSUME RtsInv, NEW m \in MVar, NEW v \in Value, Running, Completes, Stored(m, v),
         redex[Cur].prim \in {"none", "put"}
  PROVE  RtsInv'
<1> USE DEF RtsInv
<1>1. Cur \in Thread /\ state[Cur] = "runnable" /\ data[m] = NIL
      /\ redex' = [redex EXCEPT ![Cur] = NoRedex]
      /\ UNCHANGED <<at, timeq, rd, clock, exit>>
  BY CurFacts DEF Stored, Completes
<1>2. CASE takeput[m] = <<>> /\ rd[m] = <<>>
  <2>1. data' = [data EXCEPT ![m] = v] /\ UNCHANGED <<mval, takeput, runq, state>>
    BY <1>2 DEF Stored
  <2>2. \A t : ~InQ(takeput[m], t)
    BY <1>2 DEF InQ
  <2>3. TypeOK'
    BY <1>1, <2>1 DEF TypeOK, NoRedex, Redex, Pending
  <2>4. OneQueue'
    BY <1>1, <2>1 DEF TypeOK, OneQueue
  <2>5. OneKindWaits'
    BY <1>1, <2>1, <2>2 DEF TypeOK, OneQueue, OneKindWaits
  <2>6. StashIsForTake'
    BY <1>1, <2>1 DEF TypeOK, StashIsForTake
  <2>7. MarkIsForDelay'
    BY <1>1, <2>1 DEF TypeOK, MarkIsForDelay, NoRedex, Pending
  <2>8. QED BY <2>3, <2>4, <2>5, <2>6, <2>7
<1>3. CASE ~(takeput[m] = <<>> /\ rd[m] = <<>>)
  <2>1. /\ mval' = [t \in Thread |-> IF InQ(takeput[m], t) THEN v ELSE mval[t]]
        /\ takeput' = [takeput EXCEPT ![m] = <<>>]
        /\ Wakes(takeput[m])
        /\ data' = data
    BY <1>3 DEF Stored
  <2>2. /\ runq' \in Seq(Thread) /\ NoRepeat(runq') /\ state' \in [Thread -> State]
        /\ \A t \in Thread : state'[t] = IF InQ(takeput[m], t) THEN "runnable" ELSE state[t]
        /\ \A t \in Thread : InQ(runq', t) <=> InQ(runq, t) \/ InQ(takeput[m], t)
    BY <2>1, WakesQ DEF TypeOK, OneQueue
  <2>3. <<>> \in Seq(Thread) /\ NoRepeat(<<>>) /\ \A t : ~InQ(<<>>, t)
    BY DEF NoRepeat, InQ
  <2>4. \A t \in Thread : InQ(takeput[m], t) => redex'[t].prim = "take"
    BY <1>1 DEF OneKindWaits, OneQueue, TypeOK
  <2>5. TypeOK'
    BY <1>1, <2>1, <2>2, <2>3 DEF TypeOK, NoRedex, Redex, Pending
  <2>6. OneQueue'
    BY <1>1, <2>1, <2>2, <2>3, SMTT(60) DEF TypeOK, OneQueue
  <2>7. OneKindWaits'
    BY <1>1, <2>1, <2>2, <2>3 DEF TypeOK, OneQueue, OneKindWaits
  <2>8. StashIsForTake'
    BY <1>1, <2>1, <2>2, <2>4 DEF TypeOK, StashIsForTake
  <2>9. MarkIsForDelay'
    BY <1>1, <2>1, <2>2 DEF TypeOK, OneQueue, MarkIsForDelay, NoRedex, Pending
  <2>10. QED BY <2>5, <2>6, <2>7, <2>8, <2>9
<1>4. QED BY <1>2, <1>3

LEMMA TakeMVarOK ==
  ASSUME RtsInv, NEW m \in MVar, NEW v, TakeMVar(m, v)
  PROVE  RtsInv'
BY TakenOK DEF TakeMVar, Executes, NoRedex, Pending

LEMMA TryTakeMVarOK ==
  ASSUME RtsInv, NEW m \in MVar, NEW v, TryTakeMVar(m, v)
  PROVE  RtsInv'
<1>1. Running /\ redex[Cur].prim = "none" /\ Completes
  BY DEF TryTakeMVar, Starts, NoRedex, Pending
<1>2. CASE Taken(m, v)
  BY <1>1, <1>2, TakenOK
<1>3. CASE Available(m) = NIL /\ UNCHANGED <<state, runq, mval, at, timeq, mvars, clock, exit>>
  BY <1>1, <1>3, CompletesOK
<1>4. QED BY <1>2, <1>3 DEF TryTakeMVar

LEMMA ReadMVarOK ==
  ASSUME RtsInv, NEW m \in MVar, NEW v, ReadMVar(m, v)
  PROVE  RtsInv'
BY CompletesOK DEF ReadMVar, Executes, NoRedex, Pending

LEMMA TryReadMVarOK ==
  ASSUME RtsInv, NEW m \in MVar, NEW v, TryReadMVar(m, v)
  PROVE  RtsInv'
BY CompletesOK DEF TryReadMVar, Starts, NoRedex, Pending

LEMMA PutMVarOK ==
  ASSUME RtsInv, NEW m \in MVar, NEW v \in Value, PutMVar(m, v)
  PROVE  RtsInv'
BY StoredOK DEF PutMVar, Executes, NoRedex, Pending

LEMMA TryPutMVarOK ==
  ASSUME RtsInv, NEW m \in MVar, NEW v \in Value, NEW ok, TryPutMVar(m, v, ok)
  PROVE  RtsInv'
<1>1. Running /\ redex[Cur].prim = "none" /\ Completes
  BY DEF TryPutMVar, Starts, NoRedex, Pending
<1>2. CASE Stored(m, v)
  BY <1>1, <1>2, StoredOK
<1>3. CASE UNCHANGED <<state, runq, mval, at, timeq, mvars, clock, exit>>
  BY <1>1, <1>3, CompletesOK
<1>4. QED BY <1>2, <1>3 DEF TryPutMVar

(* check_timeq: the first n sleepers leave timeq with the mark -1.         *)
LEMMA CheckTimeqQ ==
  ASSUME RtsInv, NEW n \in 0..Len(timeq), CheckTimeq(n)
  PROVE  LET w == WokenBy(n)
         IN /\ w \in Seq(Thread) /\ NoRepeat(w) /\ Len(w) = n
            /\ timeq' \in Seq(Thread) /\ NoRepeat(timeq')
            /\ state' \in [Thread -> State] /\ at' \in [Thread -> Int]
            /\ \A t \in Thread :
                 /\ InQ(w, t) => state[t] = "wait_time"
                 /\ state'[t] = IF InQ(w, t) THEN "runnable" ELSE state[t]
                 /\ at'[t] = IF InQ(w, t) THEN -1 ELSE at[t]
                 /\ InQ(timeq', t) <=> InQ(timeq, t) /\ ~InQ(w, t)
                 /\ ~(InQ(runq, t) /\ InQ(w, t))
            /\ \A t : ~(InQ(runq, t) /\ InQ(w, t))
<1> DEFINE w == WokenBy(n)
<1>1. /\ w \in Seq(Thread) /\ NoRepeat(w) /\ Len(w) = n
      /\ timeq' \in Seq(Thread) /\ NoRepeat(timeq')
      /\ \A t : ~(InQ(w, t) /\ InQ(timeq', t))
      /\ \A t : InQ(timeq, t) <=> InQ(w, t) \/ InQ(timeq', t)
  BY SplitQ DEF RtsInv, TypeOK, OneQueue, WokenBy, CheckTimeq
<1>2. state' = [t \in Thread |-> IF InQ(w, t) THEN "runnable" ELSE state[t]]
      /\ at' = [t \in Thread |-> IF InQ(w, t) THEN -1 ELSE at[t]]
  BY DEF CheckTimeq, MadeRunnable
<1> HIDE DEF w
<1>3. state' \in [Thread -> State] /\ at' \in [Thread -> Int]
  BY <1>2 DEF RtsInv, TypeOK, State
<1>4. \A t \in Thread : InQ(w, t) => state[t] = "wait_time"
  BY <1>1 DEF RtsInv, OneQueue
<1>5. \A t : InQ(w, t) => t \in Thread
  BY <1>1 DEF InQ
<1>6. \A t : ~(InQ(runq, t) /\ InQ(w, t))
  BY <1>4, <1>5 DEF RtsInv, OneQueue
<1>7. QED BY <1>1, <1>2, <1>3, <1>4, <1>6 DEF w

(* What both callers of check_timeq do to the invariant, given that runq   *)
(* gains the woken threads and redex stays but for the running thread's    *)
(* yield.                                                                  *)
LEMMA WokenOK ==
  ASSUME RtsInv, NEW n \in 0..Len(timeq), CheckTimeq(n),
         runq' \in Seq(Thread), NoRepeat(runq'),
         \A t \in Thread : InQ(runq', t) <=> InQ(runq, t) \/ InQ(WokenBy(n), t),
         redex' \in [Thread -> Redex],
         \A t \in Thread : \/ redex'[t] = redex[t]
                           \/ /\ state[t] = "runnable"
                              /\ redex[t].prim \in {"none", "yield"}
                              /\ redex'[t].prim \in {"none", "yield"},
         UNCHANGED <<mval, mvars, clock, exit>>
  PROVE  RtsInv'
<1> USE DEF RtsInv
<1> DEFINE w == WokenBy(n)
<1>1. /\ timeq' \in Seq(Thread) /\ NoRepeat(timeq')
      /\ state' \in [Thread -> State] /\ at' \in [Thread -> Int]
      /\ \A t \in Thread :
            /\ InQ(w, t) => state[t] = "wait_time"
            /\ state'[t] = IF InQ(w, t) THEN "runnable" ELSE state[t]
            /\ at'[t] = IF InQ(w, t) THEN -1 ELSE at[t]
            /\ InQ(timeq', t) <=> InQ(timeq, t) /\ ~InQ(w, t)
  BY CheckTimeqQ
<1>2. \A t \in Thread : InQ(runq', t) <=> InQ(runq, t) \/ InQ(w, t)
  OBVIOUS
<1>3. UNCHANGED <<mval, data, takeput, rd, clock, exit>>
  BY DEF mvars
<1> HIDE DEF w
<1>4. TypeOK'
  BY <1>1, <1>3 DEF TypeOK
<1>5. OneQueue'
  BY <1>1, <1>2, <1>3 DEF TypeOK, OneQueue
<1>6. OneKindWaits'
  BY <1>1, <1>3, SMTT(30), ZenonT(60) DEF TypeOK, OneKindWaits, OneQueue
<1>7. StashIsForTake'
  BY <1>1, <1>3, SMTT(30), ZenonT(60) DEF TypeOK, StashIsForTake
<1>8. MarkIsForDelay'
  BY <1>1, <1>3, SMTT(30), ZenonT(60) DEF TypeOK, MarkIsForDelay
<1>9. QED BY <1>4, <1>5, <1>6, <1>7, <1>8

LEMMA RotatesQ ==
  ASSUME RtsInv, Running, NEW n \in 0..Len(timeq), CheckTimeq(n),
         runq' = Tail(runq \o WokenBy(n)) \o <<Cur>>
  PROVE  /\ runq' \in Seq(Thread) /\ NoRepeat(runq')
         /\ \A t \in Thread : InQ(runq', t) <=> InQ(runq, t) \/ InQ(WokenBy(n), t)
<1> DEFINE w == WokenBy(n)
           q == runq \o w
<1>1. /\ w \in Seq(Thread) /\ NoRepeat(w) /\ \A t : ~(InQ(runq, t) /\ InQ(w, t))
      /\ runq \in Seq(Thread) /\ NoRepeat(runq) /\ runq # <<>>
  BY CheckTimeqQ DEF RtsInv, TypeOK, OneQueue, Running
<1> HIDE DEF w
<1>2. /\ q \in Seq(Thread) /\ NoRepeat(q)
      /\ \A t : InQ(q, t) <=> InQ(runq, t) \/ InQ(w, t)
  BY <1>1, ConcatQ
<1>3. q # <<>> /\ Head(q) = Cur
  BY <1>1 DEF Cur
<1> HIDE DEF q
<1>4. /\ Tail(q) \in Seq(Thread) /\ NoRepeat(Tail(q)) /\ Cur \in Thread /\ InQ(q, Cur)
      /\ \A t : InQ(Tail(q), t) <=> InQ(q, t) /\ t # Cur
  BY <1>2, <1>3, TailQ
<1>5. /\ <<Cur>> \in Seq(Thread) /\ NoRepeat(<<Cur>>)
      /\ \A t : InQ(<<Cur>>, t) <=> t = Cur
  BY <1>4 DEF NoRepeat, InQ
<1>6. runq' = Tail(q) \o <<Cur>>
  BY DEF q, w
<1>7. /\ runq' \in Seq(Thread) /\ NoRepeat(runq')
      /\ \A t : InQ(runq', t) <=> InQ(Tail(q), t) \/ InQ(<<Cur>>, t)
  <2> DEFINE c == Tail(q)
             d == <<Cur>>
  <2>1. c \in Seq(Thread) /\ NoRepeat(c) /\ d \in Seq(Thread) /\ NoRepeat(d)
        /\ (\A t : ~(InQ(c, t) /\ InQ(d, t))) /\ runq' = c \o d
    BY <1>4, <1>5, <1>6
  <2> HIDE DEF c, d
  <2>2. /\ c \o d \in Seq(Thread) /\ NoRepeat(c \o d)
        /\ \A t : InQ(c \o d, t) <=> InQ(c, t) \/ InQ(d, t)
    BY <2>1, ConcatQ, ZenonT(30)
  <2>3. QED BY <2>1, <2>2 DEF c, d
<1>8. \A t : InQ(runq', t) <=> InQ(runq, t) \/ InQ(w, t)
  BY <1>2, <1>4, <1>5, <1>7
<1>9. QED BY <1>7, <1>8 DEF w

LEMMA PreemptOK ==
  ASSUME RtsInv, Preempt
  PROVE  RtsInv'
<1>1. PICK n \in 0..Len(timeq) : /\ CheckTimeq(n)
                                  /\ runq' = Tail(runq \o WokenBy(n)) \o <<Cur>>
                                  /\ UNCHANGED <<mval, mvars, clock, exit>>
  BY DEF Preempt, Rotates
<1>2. Running /\ redex' = redex /\ redex \in [Thread -> Redex]
  BY DEF Preempt, RtsInv, TypeOK
<1>3. QED BY <1>1, <1>2, RotatesQ, WokenOK

LEMMA IOYieldOK ==
  ASSUME RtsInv, IOYield
  PROVE  RtsInv'
<1>1. PICK n \in 0..Len(timeq) : /\ CheckTimeq(n)
                                  /\ runq' = Tail(runq \o WokenBy(n)) \o <<Cur>>
                                  /\ UNCHANGED <<mval, mvars, clock, exit>>
  BY DEF IOYield, Rotates
<1>2. /\ Running /\ Cur \in Thread /\ state[Cur] = "runnable"
      /\ redex[Cur] \in {NoRedex, Pending("yield", NIL, NIL)}
  BY CurFacts DEF IOYield, Executes
<1>3. PICK r \in {NoRedex, Pending("yield", NIL, NIL)} : redex' = [redex EXCEPT ![Cur] = r]
  BY DEF IOYield
<1>4. r \in Redex /\ r.prim \in {"none", "yield"} /\ redex[Cur].prim \in {"none", "yield"}
  BY <1>2, <1>3 DEF NoRedex, Pending, Redex
<1>5. /\ redex' \in [Thread -> Redex]
      /\ \A t \in Thread : \/ redex'[t] = redex[t]
                           \/ /\ state[t] = "runnable"
                              /\ redex[t].prim \in {"none", "yield"}
                              /\ redex'[t].prim \in {"none", "yield"}
  BY <1>2, <1>3, <1>4 DEF RtsInv, TypeOK
<1>6. QED BY <1>1, <1>2, <1>5, RotatesQ, WokenOK

LEMMA PauseExecOK ==
  ASSUME RtsInv, PauseExec
  PROVE  RtsInv'
<1>1. PICK n \in 1..Len(timeq) : CheckTimeq(n) /\ runq' = WokenBy(n)
  BY DEF PauseExec
<1>2. n \in 0..Len(timeq) /\ redex' = redex /\ redex \in [Thread -> Redex]
      /\ UNCHANGED <<mval, mvars, clock, exit>> /\ runq = <<>>
  BY DEF PauseExec, RtsInv, TypeOK
<1>3. \A t : ~InQ(runq, t)
  BY <1>2 DEF InQ
<1>4. runq' \in Seq(Thread) /\ NoRepeat(runq')
  BY <1>1, <1>2, CheckTimeqQ
<1>5. QED BY <1>1, <1>2, <1>3, <1>4, WokenOK

LEMMA DelayBeginsOK ==
  ASSUME RtsInv, NEW u \in Nat, DelayBegins(u)
  PROVE  RtsInv'
<1> USE DEF RtsInv
<1>0. Running /\ Cur \in Thread /\ redex[Cur] \in {NoRedex, Pending("delay", NIL, NIL)}
      /\ state[Cur] = "runnable" /\ clock + u \in Nat
  BY CurFacts, ClockAssumption DEF DelayBegins, Executes, TypeOK
<1>1. /\ runq' = Tail(runq)
      /\ redex' = [redex EXCEPT ![Cur] = Pending("delay", NIL, NIL)]
      /\ state' = [state EXCEPT ![Cur] = "wait_time"]
      /\ at' = [at EXCEPT ![Cur] = clock + u]
      /\ UNCHANGED <<mval, data, takeput, rd, clock, exit>>
  BY DEF DelayBegins, Suspends, mvars
<1>2. PICK i \in 0..Len(timeq) :
        timeq' = SubSeq(timeq, 1, i) \o <<Cur>> \o SubSeq(timeq, i + 1, Len(timeq))
  BY DEF DelayBegins
<1> DEFINE a == SubSeq(timeq, 1, i)
           b == SubSeq(timeq, i + 1, Len(timeq))
<1>3. /\ a \in Seq(Thread) /\ b \in Seq(Thread) /\ NoRepeat(a) /\ NoRepeat(b)
      /\ \A t : ~(InQ(a, t) /\ InQ(b, t))
      /\ \A t : InQ(timeq, t) <=> InQ(a, t) \/ InQ(b, t)
  BY SplitQ DEF TypeOK, OneQueue
<1>4. timeq' = (a \o <<Cur>>) \o b
  BY <1>2
<1> HIDE DEF a, b
<1>5. /\ <<Cur>> \in Seq(Thread) /\ NoRepeat(<<Cur>>)
      /\ \A t : InQ(<<Cur>>, t) <=> t = Cur
  BY <1>0 DEF NoRepeat, InQ
<1>6. ~InQ(timeq, Cur)
  BY <1>0 DEF OneQueue
<1>7. /\ a \o <<Cur>> \in Seq(Thread) /\ NoRepeat(a \o <<Cur>>)
      /\ \A t : InQ(a \o <<Cur>>, t) <=> InQ(a, t) \/ t = Cur
  <2>1. \A t : ~(InQ(a, t) /\ InQ(<<Cur>>, t))
    BY <1>3, <1>5, <1>6
  <2>2. QED BY <2>1, <1>3, <1>5, ConcatQ
<1>8. /\ timeq' \in Seq(Thread) /\ NoRepeat(timeq')
      /\ \A t : InQ(timeq', t) <=> InQ(timeq, t) \/ t = Cur
  <2> DEFINE c == a \o <<Cur>>
  <2>1. /\ c \in Seq(Thread) /\ NoRepeat(c) /\ timeq' = c \o b
        /\ \A t : InQ(c, t) <=> InQ(a, t) \/ t = Cur
    BY <1>4, <1>7
  <2> HIDE DEF c
  <2>2. \A t : ~(InQ(c, t) /\ InQ(b, t))
    BY <2>1, <1>3, <1>6
  <2>3. /\ timeq' \in Seq(Thread) /\ NoRepeat(timeq')
        /\ \A t : InQ(timeq', t) <=> InQ(c, t) \/ InQ(b, t)
    BY <2>1, <2>2, <1>3, ConcatQ
  <2>4. QED BY <2>1, <2>3, <1>3
<1>9. TypeOK'
  BY <1>0, <1>1, <1>8, CurFacts, SMTT(60) DEF TypeOK, Redex, Pending, State
<1>10. OneQueue'
  BY <1>0, <1>1, <1>8, CurFacts, SMTT(60) DEF TypeOK, OneQueue, Pending
<1>11. OneKindWaits'
  BY <1>0, <1>1, CurFacts DEF TypeOK, OneQueue, OneKindWaits, Pending
<1>12. StashIsForTake'
  BY <1>0, <1>1 DEF TypeOK, StashIsForTake, Pending, NoRedex
<1>13. MarkIsForDelay'
  BY <1>0, <1>1 DEF TypeOK, MarkIsForDelay, Pending, NoRedex
<1>14. QED BY <1>9, <1>10, <1>11, <1>12, <1>13

LEMMA DelayReturnsOK ==
  ASSUME RtsInv, DelayReturns
  PROVE  RtsInv'
<1> USE DEF RtsInv
<1>1. /\ Cur \in Thread /\ state[Cur] = "runnable" /\ redex[Cur].prim # "take"
      /\ redex' = [redex EXCEPT ![Cur] = NoRedex]
      /\ at' = [at EXCEPT ![Cur] = 0]
      /\ UNCHANGED <<state, mval, runq, timeq, data, takeput, rd, clock, exit>>
  BY CurFacts DEF DelayReturns, Executes, Completes, mvars, NoRedex, Pending
<1>2. TypeOK'
  BY <1>1 DEF TypeOK, Redex, NoRedex, Pending
<1>3. OneQueue'
  BY <1>1 DEF TypeOK, OneQueue
<1>4. OneKindWaits'
  BY <1>1 DEF TypeOK, OneQueue, OneKindWaits
<1>5. StashIsForTake'
  BY <1>1 DEF TypeOK, StashIsForTake
<1>6. MarkIsForDelay'
  BY <1>1 DEF TypeOK, MarkIsForDelay, NoRedex, Pending
<1>7. QED BY <1>2, <1>3, <1>4, <1>5, <1>6

LEMMA ForkOK ==
  ASSUME RtsInv, NEW t \in Thread, Fork(t)
  PROVE  RtsInv'
<1> USE DEF RtsInv
<1>1. /\ state[t] = "unborn" /\ runq' = Append(runq, t)
      /\ state' = [state EXCEPT ![t] = "runnable"]
      /\ UNCHANGED <<redex, mval, at, timeq, data, takeput, rd, clock, exit>>
  BY DEF Fork, mvars
<1>2. runq' \in Seq(Thread) /\ NoRepeat(runq')
      /\ \A x : InQ(runq', x) <=> InQ(runq, x) \/ x = t
  BY <1>1, AppendQ DEF TypeOK, OneQueue
<1>3. TypeOK'
  BY <1>1, <1>2 DEF TypeOK, State
<1>4. OneQueue'
  BY <1>1, <1>2 DEF TypeOK, OneQueue
<1>5. OneKindWaits'
  BY <1>1 DEF TypeOK, OneKindWaits
<1>6. StashIsForTake'
  BY <1>1 DEF TypeOK, StashIsForTake
<1>7. MarkIsForDelay'
  BY <1>1 DEF TypeOK, MarkIsForDelay
<1>8. QED BY <1>3, <1>4, <1>5, <1>6, <1>7

LEMMA EndsOK ==
  ASSUME RtsInv, NEW s \in {"finished", "died"}, NEW e \in {"main_done", "main_died"}, Ends(s, e)
  PROVE  RtsInv'
<1> USE DEF RtsInv
<1>1. /\ Running /\ Cur \in Thread /\ state[Cur] = "runnable" /\ redex[Cur] = NoRedex
      /\ runq' = Tail(runq)
      /\ state' = [state EXCEPT ![Cur] = s]
      /\ exit' \in {e, exit}
      /\ UNCHANGED <<redex, mval, at, timeq, data, takeput, rd, clock>>
  BY CurFacts DEF Ends, Starts, mvars
<1>2. TypeOK'
  BY <1>1, CurFacts DEF TypeOK, State
<1>3. OneQueue'
  BY <1>1, CurFacts, SMTT(60) DEF TypeOK, OneQueue
<1>4. OneKindWaits'
  BY <1>1 DEF TypeOK, OneKindWaits
<1>5. StashIsForTake'
  BY <1>1 DEF TypeOK, StashIsForTake, NoRedex, Pending
<1>6. MarkIsForDelay'
  BY <1>1 DEF TypeOK, MarkIsForDelay, NoRedex, Pending
<1>7. QED BY <1>2, <1>3, <1>4, <1>5, <1>6

LEMMA DeadlockOK ==
  ASSUME RtsInv, Deadlock
  PROVE  RtsInv'
BY DEF Deadlock, mvars, RtsInv, TypeOK, OneQueue, OneKindWaits, StashIsForTake, MarkIsForDelay

LEMMA TickOK ==
  ASSUME RtsInv, Tick
  PROVE  RtsInv'
<1>1. clock' \in 0..(ClockMod - 1)
  BY ClockAssumption DEF Tick, RtsInv, TypeOK
<1>2. UNCHANGED <<state, redex, mval, at, runq, timeq, data, takeput, rd, exit>>
  BY DEF Tick, mvars
<1>3. QED
  BY <1>1, <1>2 DEF RtsInv, TypeOK, OneQueue, OneKindWaits, StashIsForTake, MarkIsForDelay

LEMMA RtsStutterOK ==
  ASSUME RtsInv, UNCHANGED rts
  PROVE  RtsInv'
BY DEF rts, RtsInv, TypeOK, OneQueue, OneKindWaits, StashIsForTake, MarkIsForDelay

LEMMA RtsInitOK == Init => RtsInv
<1> SUFFICES ASSUME Init PROVE RtsInv
  OBVIOUS
<1>1. /\ <<>> \in Seq(Thread) /\ NoRepeat(<<>>) /\ \A t : ~InQ(<<>>, t)
      /\ <<Main>> \in Seq(Thread) /\ NoRepeat(<<Main>>) /\ \A t : InQ(<<Main>>, t) <=> t = Main
  BY ThreadAssumption DEF NoRepeat, InQ
<1>2. TypeOK
  BY <1>1, ThreadAssumption, ClockAssumption
     DEF Init, TypeOK, State, Redex, NoRedex, Pending
<1>3. OneQueue
  BY <1>1, ThreadAssumption DEF Init, OneQueue
<1>4. OneKindWaits /\ StashIsForTake /\ MarkIsForDelay
  BY <1>1 DEF Init, OneKindWaits, StashIsForTake, MarkIsForDelay, NoRedex, Pending
<1>5. QED BY <1>2, <1>3, <1>4 DEF RtsInv

(* ---- The order of timeq. ---------------------------------------------- *)

(* The threads of timeq and their times are those of before, for some      *)
(* suffix of it: order is inherited.                                       *)
LEMMA SuffixSorted ==
  ASSUME RtsInv, TimeqSorted, NEW n \in 0..Len(timeq), CheckTimeq(n)
  PROVE  TimeqSorted'
<1>1. /\ timeq' = SubSeq(timeq, n + 1, Len(timeq)) /\ Len(timeq') = Len(timeq) - n
      /\ \A i \in 1..(Len(timeq) - n) : timeq'[i] = timeq[n + i]
      /\ Len(timeq) \in Nat /\ timeq \in Seq(Thread)
  <2>1. Len(timeq) \in Nat /\ timeq \in Seq(Thread) /\ NoRepeat(timeq)
    BY LenProperties DEF RtsInv, TypeOK, OneQueue
  <2>2. timeq' = SubSeq(timeq, n + 1, Len(timeq))
    BY DEF CheckTimeq
  <2>3. QED BY <2>1, <2>2, SplitQ
<1>2. \A i \in 1..Len(timeq') : /\ n + i \in 1..Len(timeq)
                                 /\ timeq'[i] \in Thread
                                 /\ InQ(timeq', timeq'[i])
  <2>1. ASSUME NEW i \in 1..Len(timeq')
        PROVE  n + i \in 1..Len(timeq) /\ timeq'[i] = timeq[n + i]
    BY <1>1, SMTT(60)
  <2>2. \A k \in 1..Len(timeq) : timeq[k] \in Thread
    BY <1>1
  <2>3. QED BY <2>1, <2>2 DEF InQ
<1>3. \A i \in 1..Len(timeq') : at'[timeq'[i]] = at[timeq'[i]]
  BY <1>2, CheckTimeqQ
<1>4. ASSUME NEW i \in 1..Len(timeq'), NEW j \in 1..Len(timeq'), i <= j
      PROVE  at'[timeq'[i]] <= at'[timeq'[j]]
  <2>1. n + i \in 1..Len(timeq) /\ n + j \in 1..Len(timeq) /\ n + i <= n + j
    BY <1>1, <1>2, <1>4
  <2>2. at[timeq[n + i]] <= at[timeq[n + j]]
    BY <2>1 DEF TimeqSorted
  <2>3. QED BY <2>2, <1>1, <1>3, SMTT(30), ZenonT(60)
<1>5. QED BY <1>4 DEF TimeqSorted

LEMMA SameTimeqSorted ==
  ASSUME RtsInv, TimeqSorted, timeq' = timeq, at' \in [Thread -> Int],
         \A t \in Thread : state[t] = "wait_time" => at'[t] = at[t]
  PROVE  TimeqSorted'
<1>1. \A i \in 1..Len(timeq) : at'[timeq[i]] = at[timeq[i]]
  BY DEF RtsInv, TypeOK, OneQueue, InQ
<1>2. QED BY <1>1 DEF TimeqSorted

LEMMA DelayBeginsSorted ==
  ASSUME RtsInv, TimeqSorted, NEW u \in Nat, DelayBegins(u)
  PROVE  TimeqSorted'
<1> DEFINE w == clock + u
<1>0. /\ Running /\ Cur \in Thread /\ state[Cur] = "runnable" /\ w \in Nat
      /\ at \in [Thread -> Int] /\ timeq \in Seq(Thread) /\ Len(timeq) \in Nat
      /\ NoRepeat(timeq)
  BY CurFacts, ClockAssumption, LenProperties DEF DelayBegins, Executes, RtsInv, TypeOK, OneQueue
<1>1. at' = [at EXCEPT ![Cur] = w]
  BY DEF DelayBegins
<1>2. PICK i \in 0..Len(timeq) :
        /\ \A j \in 1..i : at[timeq[j]] < w
        /\ i < Len(timeq) => w <= at[timeq[i + 1]]
        /\ timeq' = SubSeq(timeq, 1, i) \o <<Cur>> \o SubSeq(timeq, i + 1, Len(timeq))
  BY DEF DelayBegins
<1> DEFINE a == SubSeq(timeq, 1, i)
           b == SubSeq(timeq, i + 1, Len(timeq))
           c == a \o <<Cur>>
<1>3. /\ a \in Seq(Thread) /\ b \in Seq(Thread) /\ Len(a) = i /\ Len(b) = Len(timeq) - i
      /\ \A k \in 1..i : a[k] = timeq[k]
      /\ \A k \in 1..(Len(timeq) - i) : b[k] = timeq[i + k]
  BY <1>0, SplitQ, SMTT(60)
<1>4. timeq' = c \o b
  BY <1>2
<1> HIDE DEF a, b
<1>5. /\ c \in Seq(Thread) /\ Len(c) = i + 1
      /\ \A k \in 1..i : c[k] = timeq[k]
      /\ c[i + 1] = Cur
  <2> DEFINE d == <<Cur>>
  <2>1. d \in Seq(Thread) /\ Len(d) = 1 /\ d[1] = Cur
    BY <1>0
  <2>2. c = a \o d
    OBVIOUS
  <2> HIDE DEF c, d
  <2>3. /\ c \in Seq(Thread) /\ Len(c) = Len(a) + Len(d)
        /\ \A k \in 1..(Len(a) + Len(d)) : c[k] = IF k <= Len(a) THEN a[k] ELSE d[k - Len(a)]
    BY <2>1, <2>2, <1>3, ConcatProperties, SMTT(30), ZenonT(60)
  <2>4. i \in Nat /\ Len(c) = i + 1
    BY <2>1, <2>3, <1>3
  <2>5. ASSUME NEW k \in 1..i PROVE c[k] = timeq[k]
    <3>1. k \in 1..(Len(a) + Len(d)) /\ k <= Len(a)
      BY <2>1, <2>4, <1>3
    <3>2. c[k] = a[k]
      BY <3>1, <2>3
    <3>3. QED BY <3>2, <1>3
  <2>6. c[i + 1] = Cur
    <3>1. /\ i + 1 \in 1..(Len(a) + Len(d)) /\ ~(i + 1 <= Len(a))
          /\ (i + 1) - Len(a) = 1
      BY <2>1, <2>4, <1>3
    <3>2. c[i + 1] = d[1]
      BY <3>1, <2>3
    <3>3. QED BY <3>2, <2>1
  <2>7. QED BY <2>3, <2>4, <2>5, <2>6
<1> HIDE DEF c
<1>6. /\ Len(timeq') = Len(timeq) + 1
      /\ \A k \in 1..i : timeq'[k] = timeq[k]
      /\ timeq'[i + 1] = Cur
      /\ \A k \in (i + 2)..(Len(timeq) + 1) : timeq'[k] = timeq[k - 1]
  <2>1. \A k \in 1..(Len(c) + Len(b)) :
          timeq'[k] = IF k <= Len(c) THEN c[k] ELSE b[k - Len(c)]
    BY <1>3, <1>4, <1>5, ConcatProperties, SMTT(60)
  <2>2. Len(timeq') = Len(c) + Len(b)
    BY <1>3, <1>4, <1>5, ConcatProperties
  <2>3. ASSUME NEW k \in (i + 2)..(Len(timeq) + 1) PROVE timeq'[k] = timeq[k - 1]
    <3>1. /\ k \in 1..(Len(c) + Len(b)) /\ ~(k <= Len(c)) /\ k - Len(c) \in 1..(Len(timeq) - i)
          /\ i + (k - Len(c)) = k - 1
      BY <1>0, <1>3, <1>5
    <3>2. QED BY <3>1, <2>1, <1>3
  <2>4. Len(timeq') = Len(timeq) + 1
    BY <2>2, <1>0, <1>3, <1>5
  <2>5. ASSUME NEW k \in 1..(i + 1) PROVE timeq'[k] = c[k]
    <3>1. k \in 1..(Len(c) + Len(b)) /\ k <= Len(c)
      BY <1>0, <1>3, <1>5, SMTT(60)
    <3>2. QED BY <3>1, <2>1
  <2>6. \A k \in 1..i : k \in 1..(i + 1)
    OBVIOUS
  <2>7. \A k \in 1..i : timeq'[k] = timeq[k]
    BY <2>5, <2>6, <1>5
  <2>8. timeq'[i + 1] = Cur
    <3>1. i + 1 \in 1..(i + 1)
      OBVIOUS
    <3>2. QED BY <3>1, <2>5, <1>5
  <2>9. QED BY <2>3, <2>4, <2>7, <2>8
<1>7. \A k \in 1..Len(timeq) : at'[timeq[k]] = at[timeq[k]] /\ at[timeq[k]] \in Int
  <2>1. ASSUME NEW k \in 1..Len(timeq) PROVE timeq[k] \in Thread /\ timeq[k] # Cur
    BY <1>0, SMTT(60) DEF RtsInv, OneQueue, InQ
  <2>2. QED BY <2>1, <1>0, <1>1
<1>8. at'[Cur] = w
  BY <1>0, <1>1
<1>9. \A k \in 1..Len(timeq) : k > i => w <= at[timeq[k]]
  <2>1. ASSUME NEW k \in 1..Len(timeq), k > i PROVE w <= at[timeq[k]]
    <3>1. i + 1 \in 1..Len(timeq) /\ i + 1 <= k /\ i < Len(timeq)
      BY <2>1, <1>0
    <3>2. at[timeq[i + 1]] <= at[timeq[k]] /\ w <= at[timeq[i + 1]]
      BY <3>1, <1>2 DEF TimeqSorted
    <3>3. QED BY <3>1, <3>2, <1>0, <1>7, SMTT(60)
  <2>2. QED BY <2>1
<1> DEFINE W(k) == at'[timeq'[k]]
<1>10. ASSUME NEW k \in 1..Len(timeq')
       PROVE  \/ k \in 1..i /\ W(k) = at[timeq[k]]
              \/ k = i + 1 /\ W(k) = w
              \/ k - 1 \in (i + 1)..Len(timeq) /\ W(k) = at[timeq[k - 1]]
  <2>1. CASE k \in 1..i
    <3>1. k \in 1..Len(timeq) /\ timeq'[k] = timeq[k]
      BY <2>1, <1>6, <1>0, SMTT(60)
    <3>2. QED BY <3>1, <2>1, <1>7
  <2>2. CASE k = i + 1
    BY <2>2, <1>6, <1>8
  <2>3. CASE k \in (i + 2)..(Len(timeq) + 1)
    <3>1. k - 1 \in (i + 1)..Len(timeq) /\ k - 1 \in 1..Len(timeq)
      BY <2>3, <1>0
    <3>2. QED BY <3>1, <2>3, <1>6, <1>7
  <2>4. QED BY <2>1, <2>2, <2>3, <1>0, <1>6
<1> HIDE DEF W, w
<1>11. ASSUME NEW j \in 1..Len(timeq'), NEW k \in 1..Len(timeq'), j <= k
       PROVE  W(j) <= W(k)
  <2>1. \A x, y \in 1..Len(timeq) : x <= y => at[timeq[x]] <= at[timeq[y]]
    BY DEF TimeqSorted
  <2>2. \A x \in 1..i : x \in 1..Len(timeq) /\ at[timeq[x]] < w
    BY <1>2, <1>0 DEF w
  <2>3. i \in Nat /\ Len(timeq) \in Nat /\ i <= Len(timeq) /\ w \in Nat
        /\ j \in Nat /\ k \in Nat /\ j <= k
    BY <1>0, <1>11, <1>6 DEF w
  <2>4. CASE j \in 1..i /\ W(j) = at[timeq[j]]
    <3>1. CASE k \in 1..i /\ W(k) = at[timeq[k]]
      <4>1. j \in 1..Len(timeq) /\ k \in 1..Len(timeq)
        BY <2>3, <2>4, <3>1
      <4>2. QED BY <4>1, <2>1, <2>3, <2>4, <3>1
    <3>2. CASE k = i + 1 /\ W(k) = w
      <4>1. at[timeq[j]] < w /\ at[timeq[j]] \in Int
        BY <2>2, <2>4, <1>7
      <4>2. QED BY <4>1, <2>3, <2>4, <3>2
    <3>3. CASE k - 1 \in (i + 1)..Len(timeq) /\ W(k) = at[timeq[k - 1]]
      <4>1. j \in 1..Len(timeq) /\ k - 1 \in 1..Len(timeq) /\ j <= k - 1
        BY <2>3, <2>4, <3>3
      <4>2. QED BY <4>1, <2>1, <2>4, <3>3
    <3>4. QED BY <3>1, <3>2, <3>3, <1>10
  <2>5. CASE j = i + 1 /\ W(j) = w
    <3>1. CASE k = i + 1 /\ W(k) = w
      BY <2>3, <2>5, <3>1
    <3>2. CASE k - 1 \in (i + 1)..Len(timeq) /\ W(k) = at[timeq[k - 1]]
      <4>1. k - 1 \in 1..Len(timeq) /\ k - 1 > i
        BY <2>3, <3>2
      <4>2. QED BY <4>1, <1>9, <2>5, <3>2
    <3>3. ~(k \in 1..i)
      BY <2>3, <2>5
    <3>4. QED BY <3>1, <3>2, <3>3, <1>10
  <2>6. CASE j - 1 \in (i + 1)..Len(timeq) /\ W(j) = at[timeq[j - 1]]
    <3>1. k - 1 \in (i + 1)..Len(timeq) /\ W(k) = at[timeq[k - 1]]
      <4>1. ~(k \in 1..i) /\ k # i + 1
        BY <2>3, <2>6
      <4>2. QED BY <4>1, <1>10
    <3>2. j - 1 \in 1..Len(timeq) /\ k - 1 \in 1..Len(timeq) /\ j - 1 <= k - 1
      BY <2>3, <2>6, <3>1
    <3>3. QED BY <3>1, <3>2, <2>1, <2>6
  <2>7. QED BY <2>4, <2>5, <2>6, <1>10
<1>12. QED BY <1>11 DEF TimeqSorted, W

----------------------------------------------------------------------------
(* What a primitive does to the values and to the other threads, with the  *)
(* queues left out.  A thread that does not run keeps its state or is      *)
(* woken.                                                                  *)
KeptOrWoken(t) ==
  state'[t] = state[t] \/ (state[t] \in {"wait_mvar", "wait_time"} /\ state'[t] = "runnable")
Steps(r) == redex' = [redex EXCEPT ![Cur] = r]

(* The running thread takes v out of its stash, or out of MVar m.          *)
Gets(m, v) ==
  \/ /\ mval[Cur] = v /\ redex[Cur] = Pending("take", m, NIL)
     /\ mval' = [mval EXCEPT ![Cur] = NIL] /\ data' = data
  \/ /\ mval[Cur] = NIL /\ data[m] = v
     /\ data' = [data EXCEPT ![m] = NIL] /\ mval' = mval

(* It puts v into m, or into the stash of the one thread that waits there. *)
HandsTo(t, m, v) ==
  /\ t # Cur /\ state[t] = "wait_mvar" /\ redex[t].prim = "take" /\ redex[t].mv = m
  /\ mval[t] = NIL
  /\ mval' = [mval EXCEPT ![t] = v] /\ data' = data
Gives(m, v) ==
  /\ data[m] = NIL
  /\ \/ data' = [data EXCEPT ![m] = v] /\ mval' = mval
     \/ \E t \in Thread : HandsTo(t, m, v)

(* Two takes do not wait at the same MVar.                                 *)
OneTakeWaitsAt(m) ==
  \A t, u \in Thread : InQ(takeput[m], t) /\ InQ(takeput[m], u) /\ data[m] = NIL => t = u
OneTakeWaits == \A m \in MVar : OneTakeWaitsAt(m)

LEMMA WakesOthers ==
  ASSUME RtsInv, NEW m \in MVar, Wakes(takeput[m])
  PROVE  \A t \in Thread : KeptOrWoken(t)
BY DEF RtsInv, TypeOK, OneQueue, Wakes, MadeRunnable, KeptOrWoken

LEMMA TakeEffect ==
  ASSUME RtsInv, NEW m \in MVar, NEW v \in Value, TakeMVar(m, v)
  PROVE  /\ Running /\ Cur \in Thread /\ Steps(NoRedex) /\ Gets(m, v)
         /\ \A t \in Thread : KeptOrWoken(t)
<1>1. /\ Running /\ Cur \in Thread /\ Steps(NoRedex) /\ Taken(m, v)
      /\ redex[Cur] \in {NoRedex, Pending("take", m, NIL)}
  BY CurFacts DEF TakeMVar, Executes, Completes, Steps
<1>2. mval[Cur] # NIL => redex[Cur] = Pending("take", m, NIL)
  BY <1>1 DEF RtsInv, StashIsForTake, NoRedex, Pending
<1>3. mval \in [Thread -> Value \cup {NIL}]
  BY DEF RtsInv, TypeOK
<1>4. CASE mval[Cur] # NIL
  BY <1>1, <1>2, <1>4 DEF Taken, Available, DropsStash, Gets, KeptOrWoken
<1>5. CASE mval[Cur] = NIL
  <2>1. mval' = mval /\ Wakes(takeput[m])
    BY <1>1, <1>3, <1>5 DEF Taken, DropsStash
  <2>2. QED BY <1>1, <1>5, <2>1, WakesOthers DEF Taken, Available, Gets
<1>6. QED BY <1>4, <1>5

LEMMA TakeBlocksEffect ==
  ASSUME RtsInv, NEW m \in MVar, TakeMVarBlocks(m)
  PROVE  /\ Running /\ Cur \in Thread /\ Steps(Pending("take", m, NIL))
         /\ data[m] = NIL /\ mval[Cur] = NIL /\ UNCHANGED <<data, mval>>
         /\ state'[Cur] = "wait_mvar"
         /\ \A t \in Thread \ {Cur} : state'[t] = state[t]
BY CurFacts DEF TakeMVarBlocks, Executes, Available, Suspends, Steps, RtsInv, TypeOK

(* A read, or a try that finds nothing: only the redex changes.            *)
LEMMA ReadEffect ==
  ASSUME RtsInv, NEW m \in MVar, NEW v \in Value, ReadMVar(m, v)
  PROVE  /\ Running /\ Cur \in Thread /\ Steps(NoRedex) /\ v = data[m] /\ mval[Cur] = NIL
         /\ UNCHANGED <<data, mval, state>>
<1>1. /\ Running /\ Cur \in Thread /\ redex[Cur] \in {NoRedex, Pending("read", m, NIL)}
      /\ mval' = [mval EXCEPT ![Cur] = NIL]
  BY CurFacts DEF ReadMVar, Executes, DropsStash
<1>2. mval[Cur] = NIL
  BY <1>1 DEF RtsInv, StashIsForTake, NoRedex, Pending
<1>3. mval' = mval
  BY <1>1, <1>2 DEF RtsInv, TypeOK
<1>4. QED BY <1>1, <1>2, <1>3 DEF ReadMVar, Available, Completes, Steps, mvars

LEMMA TryTakeEffect ==
  ASSUME RtsInv, NEW m \in MVar, NEW v, TryTakeMVar(m, v)
  PROVE  /\ Running /\ Cur \in Thread /\ Steps(NoRedex)
         /\ mval[Cur] = NIL /\ mval' = mval /\ v = data[m]
         /\ data' = [data EXCEPT ![m] = NIL]
         /\ \A t \in Thread : KeptOrWoken(t)
<1>1. Running /\ Cur \in Thread /\ Steps(NoRedex) /\ redex[Cur] = NoRedex
  BY CurFacts DEF TryTakeMVar, Starts, Completes, Steps
<1>2. mval[Cur] = NIL /\ mval \in [Thread -> Value \cup {NIL}] /\ data \in [MVar -> Value \cup {NIL}]
  BY <1>1 DEF RtsInv, TypeOK, StashIsForTake, NoRedex, Pending
<1>3. CASE Taken(m, v)
  <2>1. mval' = mval /\ Wakes(takeput[m])
    BY <1>2, <1>3 DEF Taken, DropsStash
  <2>2. QED BY <1>1, <1>2, <1>3, <2>1, WakesOthers DEF Taken, Available
<1>4. CASE v = NIL /\ Available(m) = NIL /\ UNCHANGED <<state, mval, mvars>>
  BY <1>1, <1>2, <1>4 DEF Available, mvars, KeptOrWoken
<1>5. QED BY <1>3, <1>4 DEF TryTakeMVar

LEMMA NoReaders ==
  ASSUME RtsInv, \A t \in Thread : redex[t].prim # "read", NEW m \in MVar
  PROVE  rd[m] = <<>>
<1>1. rd[m] \in Seq(Thread) /\ \A t \in Thread : ~InQ(rd[m], t)
  BY DEF RtsInv, TypeOK, OneQueue
<1>2. QED BY <1>1, EmptySeq, LenProperties, ElementOfSeq DEF InQ

LEMMA PutEffect ==
  ASSUME RtsInv, NEW m \in MVar, NEW v \in Value, OneTakeWaitsAt(m), rd[m] = <<>>,
         PutMVar(m, v)
  PROVE  /\ Running /\ Cur \in Thread /\ Steps(NoRedex) /\ Gives(m, v)
         /\ \A t \in Thread : KeptOrWoken(t)
<1>1. /\ Running /\ Cur \in Thread /\ state[Cur] = "runnable" /\ Steps(NoRedex) /\ Stored(m, v)
  BY CurFacts DEF PutMVar, Executes, Completes, Steps
<1>2. CASE takeput[m] = <<>>
  BY <1>1, <1>2 DEF Stored, Gives, KeptOrWoken
<1>3. CASE takeput[m] # <<>>
  <2>1. /\ data[m] = NIL /\ data' = data /\ Wakes(takeput[m])
        /\ mval' = [t \in Thread |-> IF InQ(takeput[m], t) THEN v ELSE mval[t]]
    BY <1>1, <1>3 DEF Stored
  <2>2. takeput[m] \in Seq(Thread) /\ mval \in [Thread -> Value \cup {NIL}] /\ redex \in [Thread -> Redex]
    BY DEF RtsInv, TypeOK
  <2>3. PICK t \in Thread : InQ(takeput[m], t)
    BY <2>2, <1>3, EmptySeq, LenProperties, ElementOfSeq DEF InQ
  <2>4. state[t] = "wait_mvar" /\ redex[t].mv = m /\ redex[t].prim = "take" /\ mval[t] = NIL
    BY <2>1, <2>3 DEF RtsInv, OneQueue, OneKindWaits, StashIsForTake
  <2>6. \A u \in Thread : InQ(takeput[m], u) <=> u = t
    BY <2>1, <2>3 DEF OneTakeWaitsAt
  <2>7. mval' = [mval EXCEPT ![t] = v]
    BY <2>1, <2>2, <2>6
  <2>8. HandsTo(t, m, v)
    BY <1>1, <2>1, <2>4, <2>7 DEF HandsTo
  <2>9. QED BY <1>1, <2>1, <2>8, WakesOthers DEF Gives
<1>4. QED BY <1>2, <1>3

LEMMA WokenEffect ==
  ASSUME RtsInv, NEW n \in 0..Len(timeq), CheckTimeq(n)
  PROVE  \A t \in Thread : KeptOrWoken(t)
<1>1. \A t : InQ(WokenBy(n), t) => InQ(timeq, t)
  BY SplitQ DEF RtsInv, TypeOK, OneQueue, WokenBy
<1>2. QED
  BY <1>1 DEF RtsInv, TypeOK, OneQueue, CheckTimeq, MadeRunnable, KeptOrWoken

(* The scheduler's own steps: nobody's primitive or value is touched.      *)
LEMMA SchedulerEffect ==
  ASSUME RtsInv, Preempt \/ PauseExec \/ Deadlock \/ Tick
  PROVE  /\ UNCHANGED <<redex, data, mval>>
         /\ \A t \in Thread : KeptOrWoken(t)
<1>1. UNCHANGED <<redex, data, mval>>
  BY DEF Preempt, Rotates, PauseExec, Deadlock, Tick, mvars
<1>2. CASE Preempt
  BY <1>1, <1>2, WokenEffect DEF Preempt, Rotates
<1>3. CASE PauseExec
  <2>1. PICK n \in 1..Len(timeq) : CheckTimeq(n)
    BY <1>3 DEF PauseExec
  <2>2. n \in 0..Len(timeq)
    OBVIOUS
  <2>3. QED BY <1>1, <2>1, <2>2, WokenEffect
<1>4. CASE Deadlock \/ Tick
  BY <1>1, <1>4 DEF Deadlock, Tick, KeptOrWoken
<1>5. QED BY <1>2, <1>3, <1>4

LEMMA YieldEffect ==
  ASSUME RtsInv, IOYield
  PROVE  /\ Running /\ Cur \in Thread /\ UNCHANGED <<data, mval>> /\ mval[Cur] = NIL
         /\ Steps(IF Alone THEN NoRedex ELSE Pending("yield", NIL, NIL))
         /\ \A t \in Thread : KeptOrWoken(t)
<1>1. PICK n \in 0..Len(timeq) : CheckTimeq(n) /\ UNCHANGED <<mval, mvars, clock, exit>>
  BY DEF IOYield, Rotates
<1>2. Running /\ Cur \in Thread /\ redex[Cur].prim # "take"
  BY CurFacts DEF IOYield, Executes, NoRedex, Pending
<1>3. mval[Cur] = NIL
  BY <1>2 DEF RtsInv, StashIsForTake
<1>4. QED BY <1>1, <1>2, <1>3, WokenEffect DEF IOYield, Steps, mvars

LEMMA DelayEffect ==
  ASSUME RtsInv, (\E u \in Nat : DelayBegins(u)) \/ DelayReturns
  PROVE  /\ Running /\ Cur \in Thread /\ UNCHANGED <<data, mval>> /\ mval[Cur] = NIL
         /\ \/ DelayReturns /\ Steps(NoRedex) /\ state' = state
            \/ /\ Steps(Pending("delay", NIL, NIL)) /\ state'[Cur] = "wait_time"
               /\ \A t \in Thread \ {Cur} : state'[t] = state[t]
<1>0. Executes("delay", NIL, NIL)
  BY DEF DelayBegins, DelayReturns
<1>1. Running /\ Cur \in Thread /\ redex[Cur].prim # "take"
  BY <1>0, CurFacts DEF Executes, NoRedex, Pending
<1>2. mval[Cur] = NIL /\ state \in [Thread -> State]
  BY <1>1 DEF RtsInv, TypeOK, StashIsForTake
<1>3. QED BY <1>1, <1>2 DEF DelayBegins, DelayReturns, Suspends, Completes, Steps, mvars

LEMMA ForkEffect ==
  ASSUME RtsInv, NEW t \in Thread, Fork(t)
  PROVE  /\ Running /\ Cur \in Thread /\ redex[Cur] = NoRedex /\ mval[Cur] = NIL
         /\ UNCHANGED <<redex, data, mval>> /\ state[t] = "unborn" /\ t # Cur
         /\ state' = [state EXCEPT ![t] = "runnable"]
BY CurFacts DEF Fork, Starts, RtsInv, StashIsForTake, NoRedex, Pending, mvars

LEMMA EndsEffect ==
  ASSUME RtsInv, NEW s, NEW e, Ends(s, e)
  PROVE  /\ Running /\ Cur \in Thread /\ redex[Cur] = NoRedex /\ mval[Cur] = NIL
         /\ UNCHANGED <<redex, data, mval>>
         /\ state' = [state EXCEPT ![Cur] = s]
BY CurFacts DEF Ends, Starts, RtsInv, StashIsForTake, NoRedex, Pending, mvars
============================================================================
