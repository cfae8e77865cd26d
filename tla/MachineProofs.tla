------------------------------ MODULE MachineProofs ------------------------------
(***************************************************************************)
(* What surrounds the runtime in one machine: the two data structures of   *)
(* c/hal.c that outlive a call, the receive ring of the UART and the heap, *)
(* and the radio.                                                          *)
(*   UartRx: the ring is a queue, for every size of the ring and of the    *)
(* hardware FIFO and any number of bytes.                                  *)
(*   Memory: the allocator never hands out a byte twice, and what is       *)
(* written into a block stays there, whatever the heap's place and size,   *)
(* the requests and the alignments.                                        *)
(*   Radio: an acknowledged message has been taken and what arrives was    *)
(* sent, in the order sent, for all traffic, losses, FIFOs and attempts.   *)
(***************************************************************************)
EXTENDS UartRx, Memory, Radio, TLAPS, SequenceTheorems

(* The next index of the ring, without the modulus.                        *)
LEMMA NextIndex ==
  ASSUME NEW i \in 0..(N - 1)
  PROVE  /\ (i + 1) % N = IF i + 1 = N THEN 0 ELSE i + 1
         /\ (i + 1) % N \in 0..(N - 1)
<1>1. N \in Nat /\ N > 1
  BY SizeAssumption
<1>2. CASE i + 1 = N
  BY <1>1, <1>2
<1>3. CASE i + 1 # N
  BY <1>1, <1>3
<1>4. QED BY <1>2, <1>3

LEMMA InitIsTyped == UartInit => UartTypeOK
BY SizeAssumption, BytesAssumption DEF UartInit, UartTypeOK, Pcs, RxByte

LEMMA StepKeepsTypes ==
  ASSUME UartTypeOK, [UartNext]_uartVars
  PROVE  UartTypeOK'
<1> USE SizeAssumption, BytesAssumption DEF UartTypeOK, Pcs
<1>0. /\ fifo # <<>> => Head(fifo) \in RxByte /\ Tail(fifo) \in Seq(RxByte)
      /\ RxByte \subseteq RxByte \cup {0} /\ RxByte \subseteq RxByte \cup {0, Garbage}
  BY HeadTailProperties
<1>1. CASE Arrive
  <2>1. arrived' \in 0..MaxBytes /\ arrived + 1 \in RxByte
    BY <1>1 DEF Arrive, RxByte
  <2>2. fifo' \in Seq(RxByte)
    <3>1. Append(fifo, arrived + 1) \in Seq(RxByte)
      BY <2>1, AppendProperties
    <3>2. QED BY <1>1, <3>1 DEF Arrive
  <2>3. QED BY <1>1, <2>1, <2>2 DEF Arrive, ring
<1>2. CASE EnableIrq
  BY <1>2 DEF EnableIrq, ring
<1>3. CASE IrqEnters \/ IrqReturns
  BY <1>3 DEF IrqEnters, IrqReturns, ring
<1>4. CASE IrqPushes
  <2>1. fifo' \in Seq(RxByte) /\ Head(fifo) \in RxByte
    BY <1>0, <1>4 DEF IrqPushes
  <2>2. head' \in 0..(N - 1)
    BY <1>4, NextIndex DEF IrqPushes
  <2>3. pushed' \in Seq(RxByte)
    <3>1. Append(pushed, Head(fifo)) \in Seq(RxByte)
      BY <2>1, AppendProperties
    <3>2. QED BY <1>4, <3>1 DEF IrqPushes
  <2>4. buf' \in [0..(N - 1) -> RxByte \cup {0}]
    BY <1>4, <2>1 DEF IrqPushes
  <2>5. QED BY <1>4, <2>1, <2>2, <2>3, <2>4 DEF IrqPushes
<1>5. CASE GetChar \/ PopTests \/ PopLoads \/ Polls \/ Yields \/ Get8Waits
  BY <1>5 DEF GetChar, PopTests, PopLoads, Polls, Yields, Get8Waits, Goes, ring
<1>6. CASE PopStores
  <2>1. tail' \in 0..(N - 1)
    BY <1>6, NextIndex DEF PopStores
  <2>2. /\ popped' = Append(popped, ch) /\ line' = Append(line, ch)
        /\ ch \in RxByte \cup {0} /\ ch \in RxByte \cup {0, Garbage}
    BY <1>6 DEF PopStores
  <2>3. popped' \in Seq(RxByte \cup {0})
    BY <2>2, AppendProperties
  <2>4. line' \in Seq(RxByte \cup {0, Garbage})
    BY <2>2, AppendProperties
  <2>5. QED BY <1>6, <2>1, <2>3, <2>4 DEF PopStores, Goes
<1>7. CASE Get8Reads
  <2>1. PICK b \in RxByte \cup {0, Garbage} : line' = Append(line, b)
    BY <1>0, <1>7 DEF Get8Reads
  <2>2. line' \in Seq(RxByte \cup {0, Garbage})
    BY <2>1, AppendProperties
  <2>3. fifo' \in Seq(RxByte)
    BY <1>0, <1>7 DEF Get8Reads
  <2>4. QED BY <1>7, <2>2, <2>3 DEF Get8Reads, Goes, ring
<1>8. CASE UNCHANGED uartVars
  BY <1>8 DEF uartVars, ring
<1>9. QED BY <1>1, <1>2, <1>3, <1>4, <1>5, <1>6, <1>7, <1>8 DEF UartNext, Handler, Reader

(* Types of the input path.                                                *)
THEOREM RingTyping == UartSpec => []UartTypeOK
<1>1. QED BY InitIsTyped, StepKeepsTypes, PTL DEF UartSpec

----------------------------------------------------------------------------
(* A push writes the first slot that is not in use; the others keep their  *)
(* place.                                                                  *)
LEMMA PushKeepsFifo ==
  ASSUME UartTypeOK, RingIsFifo, IrqPushes
  PROVE  RingIsFifo'
<1> DEFINE next == (head + 1) % N
<1>1. /\ N \in Nat /\ N > 1 /\ head \in 0..(N - 1) /\ tail \in 0..(N - 1)
      /\ next = IF head + 1 = N THEN 0 ELSE head + 1
      /\ pushed \in Seq(RxByte) /\ popped \in Seq(RxByte \cup {0}) /\ Head(fifo) \in RxByte
      /\ tail' = tail /\ popped' = popped /\ pc' = pc /\ ch' = ch
  BY SizeAssumption, NextIndex DEF UartTypeOK, IrqPushes
<1>2. CASE next = tail
  BY <1>2 DEF IrqPushes, RingIsFifo, Count, Slot
<1>3. CASE next # tail
  <2>1. /\ buf' = [buf EXCEPT ![head] = Head(fifo)] /\ head' = next
        /\ pushed' = Append(pushed, Head(fifo))
    BY <1>3 DEF IrqPushes
  <2>2. Count \in Nat /\ Count' = Count + 1 /\ Slot(Count) = head /\ Count < N
    <3>1. head' = (IF head + 1 = N THEN 0 ELSE head + 1) /\ tail' = tail /\ head' # tail
      BY <1>1, <1>3, <2>1
    <3>2. /\ N \in Nat /\ N > 1 /\ head \in 0..(N - 1) /\ tail \in 0..(N - 1)
      BY <1>1
    <3> HIDE DEF next
    <3>3. Count \in Nat /\ Count < N /\ Slot(Count) = head
      BY <3>2 DEF Count, Slot
    <3>4. Count' = Count + 1
      BY <3>1, <3>2 DEF Count
    <3>5. QED BY <3>3, <3>4
  <2>3. \A i \in 0..(Count - 1) : Slot(i) \in 0..(N - 1) /\ Slot(i) # head
    BY <1>1, <2>2 DEF Count, Slot
  <2>4. /\ Len(pushed') = Len(pushed) + 1 /\ pushed'[Len(pushed) + 1] = Head(fifo)
        /\ \A i \in 1..Len(pushed) : pushed'[i] = pushed[i]
    BY <1>1, <2>1
  <2>5. Len(pushed) = Len(popped) + Count /\ Len(popped) \in Nat
    BY <1>1 DEF RingIsFifo
  <2>6. \A i \in 0..(Count - 1) : buf'[Slot(i)] = buf[Slot(i)]
    BY <2>1, <2>3 DEF UartTypeOK
  <2>7. buf'[head] = Head(fifo)
    BY <2>1, <1>1 DEF UartTypeOK
  <2>8. \A i : Slot(i)' = Slot(i)
    BY <1>1 DEF Slot
  <2>9. \A i \in 0..(Count' - 1) : buf'[Slot(i)'] = pushed'[Len(popped') + 1 + i]
    <3>1. ASSUME NEW i \in 0..Count
          PROVE  buf'[Slot(i)] = pushed'[Len(popped) + 1 + i]
      <4>1. CASE i = Count
        BY <4>1, <2>2, <2>4, <2>5, <2>7
      <4>2. CASE i # Count
        <5>1. i \in 0..(Count - 1) /\ Len(popped) + 1 + i \in 1..Len(pushed)
          BY <4>2, <2>2, <2>5
        <5>2. buf[Slot(i)] = pushed[Len(popped) + 1 + i]
          BY <5>1 DEF RingIsFifo
        <5>3. QED BY <5>1, <5>2, <2>4, <2>6
      <4>3. QED BY <4>1, <4>2
    <3>2. QED BY <3>1, <1>1, <2>2, <2>8
  <2>10. \A i \in 1..Len(popped') : popped'[i] = pushed'[i]
    BY <1>1, <2>2, <2>4, <2>5 DEF RingIsFifo
  <2>11. pc' = "pop_store" => ch' = buf'[tail']
    <3>1. ASSUME pc = "pop_store"
          PROVE  ch = buf'[tail]
      <4>1. Count > 0 /\ ch = buf[tail]
        BY <3>1 DEF RingIsFifo
      <4>2. tail # head
        BY <4>1, <1>1 DEF Count
      <4>3. QED BY <4>1, <4>2, <2>1, <1>1 DEF UartTypeOK
    <3>2. QED BY <3>1, <1>1
  <2>12. Len(pushed') = Len(popped') + Count'
    BY <1>1, <2>2, <2>4, <2>5
  <2>13. pc' \in {"pop_load", "pop_store"} => Count' > 0
    BY <1>1, <2>2
  <2>14. QED
    BY <2>9, <2>10, <2>11, <2>12, <2>13 DEF RingIsFifo
<1>4. QED BY <1>2, <1>3

(* A pop gives back the oldest byte; the others move one slot closer.      *)
LEMMA PopKeepsFifo ==
  ASSUME UartTypeOK, RingIsFifo, PopStores
  PROVE  RingIsFifo'
<1>1. /\ N \in Nat /\ N > 1 /\ head \in 0..(N - 1) /\ tail \in 0..(N - 1)
      /\ tail' = IF tail + 1 = N THEN 0 ELSE tail + 1
      /\ pushed \in Seq(RxByte) /\ popped \in Seq(RxByte \cup {0})
      /\ head' = head /\ buf' = buf /\ pushed' = pushed /\ pc' = "caller"
      /\ popped' = Append(popped, ch) /\ ch \in RxByte \cup {0}
  BY SizeAssumption, NextIndex DEF UartTypeOK, PopStores, Goes
<1>2. Count > 0 /\ ch = buf[tail] /\ Len(pushed) = Len(popped) + Count
  BY DEF RingIsFifo, PopStores, Goes
<1>3. Count \in Nat /\ Count' = Count - 1 /\ Slot(0) = tail
  BY <1>1, <1>2 DEF Count, Slot
<1>4. \A i \in 0..(Count' - 1) : Slot(i)' = Slot(i + 1)
  BY <1>1, <1>2 DEF Count, Slot
<1>5. ch = pushed[Len(popped) + 1]
  <2>1. buf[Slot(0)] = pushed[Len(popped) + 1 + 0]
    BY <1>2, <1>3 DEF RingIsFifo
  <2>2. QED BY <2>1, <1>1, <1>2, <1>3
<1>6. /\ Len(popped') = Len(popped) + 1 /\ popped'[Len(popped) + 1] = ch
      /\ \A i \in 1..Len(popped) : popped'[i] = popped[i]
  BY <1>1
<1>7. \A i \in 1..Len(popped') : popped'[i] = pushed'[i]
  BY <1>1, <1>5, <1>6 DEF RingIsFifo
<1>8. \A i \in 0..(Count' - 1) : buf'[Slot(i)'] = pushed'[Len(popped') + 1 + i]
  <2>1. ASSUME NEW i \in 0..(Count' - 1)
        PROVE  buf[Slot(i + 1)] = pushed[Len(popped) + 1 + (i + 1)]
    BY <2>1, <1>3 DEF RingIsFifo
  <2>2. QED BY <2>1, <1>1, <1>3, <1>4, <1>6
<1>9. QED BY <1>1, <1>2, <1>3, <1>6, <1>7, <1>8 DEF RingIsFifo

LEMMA StepKeepsFifo ==
  ASSUME UartTypeOK, RingIsFifo, [UartNext]_uartVars
  PROVE  RingIsFifo'
<1> USE DEF RingIsFifo, Count, Slot
<1>1. CASE IrqPushes
  BY <1>1, PushKeepsFifo
<1>2. CASE PopStores
  BY <1>2, PopKeepsFifo
<1>3. CASE PopTests
  BY <1>3, SizeAssumption DEF PopTests, Goes, Empty, ring, UartTypeOK
<1>4. CASE PopLoads
  BY <1>4 DEF PopLoads, Goes, ring
<1>5. CASE Arrive \/ EnableIrq \/ IrqEnters \/ IrqReturns \/ UNCHANGED uartVars
  BY <1>5 DEF Arrive, EnableIrq, IrqEnters, IrqReturns, uartVars, ring
<1>6. CASE GetChar \/ Polls \/ Yields \/ Get8Waits \/ Get8Reads
  BY <1>6 DEF GetChar, Polls, Yields, Get8Waits, Get8Reads, Goes, ring
<1>7. QED BY <1>1, <1>2, <1>3, <1>4, <1>5, <1>6 DEF UartNext, Handler, Reader

(* The lock-free ring between the interrupt handler and the reader is a    *)
(* queue: bytes come out in the order they went in, none twice, none       *)
(* overwritten (uart_rx_buf_push, uart_rx_buf_pop).                        *)
THEOREM RingIsAQueue == UartSpec => []RingIsFifo
<1>1. UartInit => RingIsFifo
  BY DEF UartInit, RingIsFifo, Count, Slot
<1>2. UartTypeOK /\ RingIsFifo /\ [UartNext]_uartVars => RingIsFifo'
  BY StepKeepsFifo
<1>3. QED BY <1>1, <1>2, RingTyping, PTL DEF UartSpec

----------------------------------------------------------------------------
(* Rounding down: how far, and to a multiple.                              *)
LEMMA MaskBounds ==
  ASSUME NEW a \in Nat, NEW n \in Nat \ {0}
  PROVE  Mask(a, n) \in Nat /\ Mask(a, n) <= a /\ a < Mask(a, n) + n
<1>1. a \div n \in Nat /\ a = n * (a \div n) + (a % n) /\ (a % n) \in 0..n - 1
  OBVIOUS
<1> QED BY <1>1 DEF Mask

LEMMA EightDivides ==
  ASSUME NEW a \in Nat
  PROVE  Mask(a, 8) % 8 = 0
  BY DEF Mask

LEMMA Small ==
  ASSUME NEW a \in Nat, a < Word
  PROVE  a % Word = a
  BY HeapAssumption

LEMMA UpBounds ==
  ASSUME NEW a \in Nat, a + 7 < Word
  PROVE  Up8(a) \in Nat /\ a <= Up8(a) /\ Up8(a) <= a + 7 /\ Up8(a) % 8 = 0
<1>1. (a + 7) % Word = a + 7
  BY Small
<1> QED BY <1>1, MaskBounds, EightDivides DEF Up8

(* Where the heap lies.                                                    *)
LEMMA HeapPlace ==
  /\ HeapPtr \in Nat /\ HeapPtr % 8 = 0
  /\ HeapEnd = HeapPtr + HeapSize /\ HeapEnd \in Nat
  /\ HeapEnd + 9 < Word
  /\ \A al \in Alignments : al \in Nat \ {0} /\ HeapEnd + 9 + al < Word
<1>1. HeapPtr \in Nat /\ HeapPtr <= Start + 7 /\ HeapPtr % 8 = 0
  BY UpBounds, HeapAssumption DEF HeapPtr
<1>2. (HeapPtr + HeapSize) % Word = HeapPtr + HeapSize
  BY <1>1, Small, HeapAssumption
<1> QED BY <1>1, <1>2, HeapAssumption DEF HeapEnd

(* A request that is granted lies behind the pointer and inside the heap.  *)
LEMMA GrantedFits ==
  ASSUME NEW p \in Nat, NEW n \in Nat, p + 7 < Word, Gives(p, n)
  PROVE  /\ Up8(p) \in Nat /\ p <= Up8(p) /\ Up8(p) % 8 = 0
         /\ Up8(p) + n <= HeapEnd /\ ptr' = Up8(p) + n
<1>1. Up8(p) \in Nat /\ p <= Up8(p) /\ Up8(p) % 8 = 0
  BY UpBounds
<1>2. Up8(p) + n < Word
  BY <1>1, HeapAssumption DEF Gives, Wraps
<1>3. (Up8(p) + n) % Word = Up8(p) + n
  BY <1>1, <1>2, Small
<1>4. Up8(p) + n <= HeapEnd
  BY <1>1, <1>3, HeapPlace DEF Gives, Panics
<1> QED BY <1>1, <1>4 DEF Gives

----------------------------------------------------------------------------
(* The blocks lie one behind the other, below the pointer.                 *)
Data  == UNION {[0..n - 1 -> Int] : n \in Nat}
Block == [at : Nat, size : Nat, head : {0, Header}, owner : Thread, data : Data]
InPlace(b, p) == HeapPtr + b.head <= b.at /\ b.at + b.size <= p
Aligned(b)    == b.at % 8 = 0
Known(b)      == b.data \in [0..b.size - 1 -> Int]
Before(b, c)  == b.at + b.size <= c.at - c.head
PokesTyped    == DOMAIN poke = Thread /\ \A t \in Thread : poke[t] # NoPoke => poke[t].val \in Nat
MemInv ==
  /\ ptr \in HeapPtr..HeapEnd
  /\ blocks \in Seq(Block)
  /\ PokesTyped
  /\ \A i \in DOMAIN blocks : InPlace(blocks[i], ptr) /\ Aligned(blocks[i]) /\ Known(blocks[i])
  /\ \A i, j \in DOMAIN blocks : i < j => Before(blocks[i], blocks[j])

LEMMA BlockFields ==
  ASSUME NEW b \in Block
  PROVE  b.at \in Nat /\ b.size \in Nat /\ b.head \in {0, 8}
BY DEF Block, Header

LEMMA BlocksAre ==
  ASSUME MemInv
  PROVE  /\ Len(blocks) \in Nat /\ DOMAIN blocks = 1..Len(blocks)
         /\ \A i \in DOMAIN blocks : blocks[i] \in Block
BY DEF MemInv

LEMMA InvSuffices == MemInv => BlocksApart
<1> SUFFICES ASSUME MemInv PROVE BlocksApart
  OBVIOUS
<1>1. ASSUME NEW i \in DOMAIN blocks
      PROVE  Aligned(blocks[i]) /\ Extent(blocks[i]) \subseteq Address
  <2> DEFINE b == blocks[i]
  <2>1. b \in Block /\ InPlace(b, ptr) /\ Aligned(b)
    BY BlocksAre DEF MemInv
  <2> HIDE DEF b
  <2>2. b.at \in Nat /\ b.size \in Nat /\ b.head \in {0, 8}
    BY <2>1, BlockFields
  <2>3. Extent(b) \subseteq Address
    <3>1. ptr <= HeapEnd /\ HeapPtr \in Nat /\ HeapEnd \in Nat /\ ptr \in Nat
      BY HeapPlace DEF MemInv
    <3> QED BY <2>1, <2>2, <3>1 DEF InPlace, Extent, Address
  <2> QED BY <2>1, <2>3 DEF b
<1>2. ASSUME NEW i \in DOMAIN blocks, NEW j \in DOMAIN blocks, i < j
      PROVE  Extent(blocks[i]) \cap Extent(blocks[j]) = {}
  <2> DEFINE b == blocks[i]  c == blocks[j]
  <2>1. b \in Block /\ c \in Block /\ Before(b, c)
    BY <1>2, BlocksAre DEF MemInv
  <2> HIDE DEF b, c
  <2>2. /\ b.at \in Nat /\ b.size \in Nat /\ b.head \in {0, 8}
        /\ c.at \in Nat /\ c.size \in Nat /\ c.head \in {0, 8}
    BY <2>1, BlockFields
  <2>3. Extent(b) \cap Extent(c) = {}
    BY <2>1, <2>2 DEF Before, Extent
  <2> QED BY <2>3 DEF b, c
<1>3. ASSUME NEW i \in DOMAIN blocks, NEW j \in DOMAIN blocks, i # j
      PROVE  Extent(blocks[i]) \cap Extent(blocks[j]) = {}
  <2>1. i < j \/ j < i
    BY <1>3, BlocksAre
  <2> QED BY <2>1, <1>2
<1> QED BY <1>1, <1>3 DEF BlocksApart, Aligned

LEMMA InitHasInv == Init => MemInv
BY HeapPlace, HeapAssumption DEF Init, MemInv, PokesTyped

----------------------------------------------------------------------------
(* A new block at the end.                                                 *)
LEMMA NewKeepsInv ==
  ASSUME MemInv, NEW t \in Thread, NEW a \in Nat, NEW n \in Nat, NEW hd \in {0, Header},
         NEW d \in [0..n - 1 -> Int], New(t, a, n, hd, d), poke' = poke,
         a % 8 = 0, ptr + hd <= a, ptr' = a + n, ptr' <= HeapEnd
  PROVE  MemInv'
<1> DEFINE b == [at |-> a, size |-> n, head |-> hd, owner |-> t, data |-> d]
<1>1. b \in Block /\ Aligned(b) /\ Known(b) /\ b.at = a /\ b.size = n /\ b.head = hd
  <2>1. d \in Data
    BY DEF Data
  <2> QED BY <2>1 DEF Block, Aligned, Known
<1>2. blocks' = Append(blocks, b) /\ blocks \in Seq(Block)
  BY DEF New, MemInv
<1> HIDE DEF b
<1>3. /\ blocks' \in Seq(Block)
      /\ Len(blocks) \in Nat /\ DOMAIN blocks = 1..Len(blocks)
      /\ DOMAIN blocks' = 1..Len(blocks) + 1
      /\ \A i \in DOMAIN blocks : blocks'[i] = blocks[i]
      /\ blocks'[Len(blocks) + 1] = b
  BY <1>1, <1>2
<1>4. /\ hd \in {0, 8} /\ ptr \in Nat /\ ptr' \in HeapPtr..HeapEnd /\ ptr <= ptr'
      /\ HeapPtr \in Nat /\ HeapPtr <= ptr
  BY HeapPlace DEF Header, MemInv
<1>5. ASSUME NEW c \in Block, InPlace(c, ptr)
      PROVE  InPlace(c, ptr') /\ Before(c, b)
  BY <1>1, <1>4, <1>5, BlockFields DEF InPlace, Before
<1>6. InPlace(b, ptr')
  BY <1>1, <1>4 DEF InPlace
<1>7. ASSUME NEW i \in DOMAIN blocks'
      PROVE  InPlace(blocks'[i], ptr') /\ Aligned(blocks'[i]) /\ Known(blocks'[i])
  <2>1. CASE i \in DOMAIN blocks
    BY <1>3, <1>5, <2>1, BlocksAre DEF MemInv
  <2>2. CASE i = Len(blocks) + 1
    BY <1>1, <1>3, <1>6, <2>2
  <2> QED BY <1>3, <2>1, <2>2
<1>8. ASSUME NEW i \in DOMAIN blocks', NEW j \in DOMAIN blocks', i < j
      PROVE  Before(blocks'[i], blocks'[j])
  <2>1. i \in DOMAIN blocks
    BY <1>3, <1>8
  <2>2. CASE j \in DOMAIN blocks
    BY <1>3, <1>8, <2>1, <2>2 DEF MemInv
  <2>3. CASE j = Len(blocks) + 1
    BY <1>3, <1>5, <2>1, <2>3, BlocksAre DEF MemInv
  <2> QED BY <1>3, <2>2, <2>3
<1>9. PokesTyped'
  BY DEF PokesTyped, MemInv
<1> QED
  <2>1. ptr' \in HeapPtr'..HeapEnd'
    BY <1>4 DEF HeapPtr, HeapEnd
  <2> QED BY <2>1, <1>3, <1>7, <1>8, <1>9 DEF MemInv, Aligned, Known, Before

(* The ways to ask for memory.                                             *)
LEMMA BlankData ==
  ASSUME NEW n \in Nat
  PROVE  Blank(n) \in [0..n - 1 -> Int]
BY DEF Blank, ANY

LEMMA StoppedKeepsInv ==
  ASSUME MemInv, UNCHANGED <<ptr, blocks, poke>>
  PROVE  MemInv'
BY DEF MemInv, InPlace, Aligned, Known, Before, PokesTyped

LEMMA KmallocKeepsInv ==
  ASSUME MemInv, NEW t \in Thread, NEW p \in Nat, NEW n \in Nat,
         ptr <= p, p + 7 < Word, KmallocFrom(t, p, n)
  PROVE  MemInv'
<1>1. CASE Fails(p, n)
  BY <1>1, StoppedKeepsInv DEF Fails
<1>2. CASE Gives(p, n) /\ New(t, Up8(p), n, 0, Blank(n))
  <2>1. /\ Up8(p) \in Nat /\ p <= Up8(p) /\ Up8(p) % 8 = 0
        /\ Up8(p) + n <= HeapEnd /\ ptr' = Up8(p) + n
    BY <1>2, GrantedFits
  <2>2. ptr \in Nat
    BY HeapPlace DEF MemInv
  <2>3. poke' = poke
    BY <1>2 DEF Gives
  <2>4. Up8(p) % 8 = 0 /\ ptr + 0 <= Up8(p) /\ ptr' <= HeapEnd /\ 0 \in {0, Header}
    BY <2>1, <2>2
  <2>5. Blank(n) \in [0..n - 1 -> Int]
    BY BlankData
  <2>6. New(t, Up8(p), n, 0, Blank(n))
    BY <1>2
  <2> HIDE <1>2
  <2> QED BY <2>1, <2>3, <2>4, <2>5, <2>6, NewKeepsInv
<1> QED BY <1>1, <1>2 DEF KmallocFrom

LEMMA MallocKeepsInv ==
  ASSUME MemInv, NEW t \in Thread, NEW n \in Nat, NEW d \in [0..n - 1 -> Int], NEW put,
         MallocWith(t, n, put, d)
  PROVE  MemInv'
<1>1. CASE UNCHANGED <<ptr, blocks, poke>>
  BY <1>1, StoppedKeepsInv
<1>2. CASE ~UNCHANGED <<ptr, blocks, poke>>
  <2>1. /\ ~(Overflows(n) /\ ~Panics(ptr, Total(n))) /\ ~Fails(ptr, Total(n))
        /\ Gives(ptr, Total(n)) /\ New(t, Up8(ptr) + Header, n, Header, d)
    BY <1>2 DEF MallocWith, Fails
  <2>2. n + Header < Word
    BY <2>1, HeapAssumption DEF Overflows, Gives, Header
  <2>3. Total(n) = n + 8
    BY <2>2, Small DEF Total, Header
  <2>4. ptr \in Nat /\ ptr + 7 < Word
    BY HeapPlace, HeapAssumption DEF MemInv
  <2>5. /\ Up8(ptr) \in Nat /\ ptr <= Up8(ptr) /\ Up8(ptr) % 8 = 0
        /\ Up8(ptr) + (n + 8) <= HeapEnd /\ ptr' = Up8(ptr) + (n + 8)
    BY <2>1, <2>3, <2>4, GrantedFits
  <2>6. poke' = poke
    BY <2>1 DEF Gives
  <2>7. (Up8(ptr) + Header) % 8 = 0
    BY <2>5 DEF Header
  <2>8. /\ Up8(ptr) + Header \in Nat /\ ptr + Header <= Up8(ptr) + Header
        /\ ptr' = (Up8(ptr) + Header) + n /\ ptr' <= HeapEnd
    BY <2>4, <2>5 DEF Header
  <2> QED BY <2>1, <2>6, <2>7, <2>8, NewKeepsInv
<1> QED BY <1>1, <1>2

(* poke8 changes what an owner knows of a block, not its place.            *)
LEMMA PokeKeepsInv ==
  ASSUME MemInv, NEW t \in Thread, PokeWrites(t)
  PROVE  MemInv'
<1> DEFINE p == poke[t]
<1>1. /\ p.val \in Int /\ ptr' = ptr
      /\ blocks' = [blocks EXCEPT ![p.block].data[p.off] = p.val]
      /\ poke' = [poke EXCEPT ![t] = NoPoke]
  BY DEF PokeWrites, PokesTyped, MemInv
<1> HIDE DEF p
<1>2. DOMAIN blocks' = DOMAIN blocks
  BY <1>1
<1>3. ASSUME NEW i \in DOMAIN blocks
      PROVE  /\ blocks'[i] \in Block /\ blocks'[i].at = blocks[i].at
             /\ blocks'[i].size = blocks[i].size /\ blocks'[i].head = blocks[i].head
             /\ Known(blocks'[i])
  <2> DEFINE b == blocks[i]  d == [b.data EXCEPT ![p.off] = p.val]
  <2>1. b \in Block /\ Known(b)
    BY BlocksAre DEF MemInv
  <2>2. CASE i # p.block
    BY <1>1, <1>2, <2>1, <2>2
  <2>3. CASE i = p.block
    <3>1. blocks'[i] = [b EXCEPT !.data = d]
      BY <1>1, <2>3
    <3>2. b.size \in Nat /\ d \in [0..b.size - 1 -> Int]
      BY <1>1, <2>1, BlockFields DEF Known
    <3>3. d \in Data
      BY <3>2 DEF Data
    <3> HIDE DEF b, d
    <3>4. [b EXCEPT !.data = d] \in Block
      BY <2>1, <3>3 DEF Block
    <3>5. /\ [b EXCEPT !.data = d].at = b.at /\ [b EXCEPT !.data = d].size = b.size
          /\ [b EXCEPT !.data = d].head = b.head /\ [b EXCEPT !.data = d].data = d
      BY <2>1 DEF Block
    <3> QED BY <3>1, <3>2, <3>4, <3>5 DEF Known, b
  <2> QED BY <2>2, <2>3
<1>4. blocks' \in Seq(Block)
  <2>1. \A i \in 1..Len(blocks) : blocks'[i] \in Block
    BY <1>3, BlocksAre
  <2>2. blocks' = [i \in 1..Len(blocks) |-> blocks'[i]]
    BY <1>1, BlocksAre
  <2> QED BY <2>1, <2>2, BlocksAre
<1>5. \A i \in DOMAIN blocks' : InPlace(blocks'[i], ptr') /\ Aligned(blocks'[i]) /\ Known(blocks'[i])
  BY <1>1, <1>2, <1>3 DEF InPlace, Aligned, MemInv
<1>6. \A i, j \in DOMAIN blocks' : i < j => Before(blocks'[i], blocks'[j])
  BY <1>2, <1>3 DEF Before, MemInv
<1>7. PokesTyped'
  BY <1>1 DEF PokesTyped, MemInv
<1> QED BY <1>1, <1>4, <1>5, <1>6, <1>7 DEF MemInv, Aligned, Known, Before

LEMMA NextKeepsInv == MemInv /\ [Next]_vars => MemInv'
<1> SUFFICES ASSUME MemInv, [Next]_vars PROVE MemInv'
  OBVIOUS
<1>0. Sizes \subseteq Nat
  BY HeapAssumption
<1>1. ptr \in Nat /\ ptr + 7 < Word /\ \A al \in Alignments : al \in Nat \ {0} /\ ptr + al + 9 < Word
  BY HeapPlace, HeapAssumption DEF MemInv
<1>2. ASSUME NEW t \in Thread, NEW n \in Sizes, Kmalloc(t, n)
      PROVE  MemInv'
  BY <1>0, <1>1, <1>2, KmallocKeepsInv DEF Kmalloc
<1>3. ASSUME NEW t \in Thread, NEW n \in Sizes, Malloc(t, n)
      PROVE  MemInv'
  BY <1>0, <1>3, MallocKeepsInv, BlankData DEF Malloc
<1>4. ASSUME NEW t \in Thread, NEW n \in Sizes, NEW al \in Alignments, KmallocAligned(t, n, al)
      PROVE  MemInv'
  <2> DEFINE p == Mask((ptr + al - 1) % Word, al)
  <2>1. ptr + al - 1 \in Nat /\ ptr + al - 1 < Word /\ al \in Nat \ {0} /\ ptr + al + 9 < Word
    BY <1>1, HeapAssumption
  <2>2. (ptr + al - 1) % Word = ptr + al - 1
    BY <2>1, Small
  <2>3. p \in Nat /\ p <= ptr + al - 1 /\ ptr + al - 1 < p + al
    BY <2>1, <2>2, MaskBounds
  <2>4. ptr <= p /\ p + 7 < Word
    BY <1>1, <2>1, <2>3, HeapAssumption
  <2> HIDE DEF p
  <2>5. KmallocFrom(t, p, n)
    BY <1>4 DEF KmallocAligned, p
  <2> QED BY <1>0, <2>3, <2>4, <2>5, KmallocKeepsInv
<1>5. ASSUME NEW t \in Thread, NEW n \in Sizes, NEW k \in Sizes, Calloc(t, k, n)
      PROVE  MemInv'
  <2>1. k * n \in Nat /\ Zeros(k * n) \in [0..(k * n) - 1 -> Int]
    BY <1>0 DEF Zeros
  <2>2. CASE UNCHANGED <<ptr, blocks, poke>>
    BY <2>2, StoppedKeepsInv
  <2>3. CASE MallocWith(t, k * n, Zeros(k * n), Zeros(k * n))
    BY <2>1, <2>3, MallocKeepsInv
  <2> QED BY <1>5, <2>2, <2>3 DEF Calloc
<1>6. ASSUME NEW t \in Thread, NEW n \in Sizes, NEW i \in DOMAIN blocks, Realloc(t, i, n)
      PROVE  MemInv'
  <2> DEFINE d == [j \in 0..n - 1 |-> IF j < blocks[i].size THEN blocks[i].data[j] ELSE Blank(n)[j]]
  <2>1. blocks[i].size \in Nat /\ blocks[i].data \in [0..blocks[i].size - 1 -> Int]
    BY BlocksAre, BlockFields DEF MemInv, Known
  <2>2. n \in Nat /\ Blank(n) \in [0..n - 1 -> Int]
    BY <1>0, BlankData
  <2>3. d \in [0..n - 1 -> Int]
    <3>1. ASSUME NEW j \in 0..n - 1
          PROVE  (IF j < blocks[i].size THEN blocks[i].data[j] ELSE Blank(n)[j]) \in Int
      <4>1. j \in Nat /\ Blank(n)[j] \in Int
        BY <2>2
      <4>2. ASSUME j < blocks[i].size PROVE blocks[i].data[j] \in Int
        BY <2>1, <4>1, <4>2
      <4> QED BY <4>1, <4>2
    <3> QED BY <3>1
  <2> HIDE DEF d
  <2>4. PICK put : MallocWith(t, n, put, d)
    BY <1>6 DEF Realloc, d
  <2> QED BY <2>2, <2>3, <2>4, MallocKeepsInv
<1>7. ASSUME NEW t \in Thread, NEW i \in DOMAIN blocks, NEW k \in 0..blocks[i].size - 1, NEW v \in Byte,
             PokeReads(t, i, k, v)
      PROVE  MemInv'
  <2>1. v \in Nat
    BY HeapAssumption
  <2>2. /\ UNCHANGED <<ptr, blocks>>
        /\ DOMAIN poke' = Thread /\ poke'[t].val = v
        /\ \A t1 \in Thread \ {t} : poke'[t1] = poke[t1]
    BY <1>7 DEF PokeReads, MemInv, PokesTyped
  <2>3. PokesTyped'
    BY <2>1, <2>2 DEF MemInv, PokesTyped
  <2> QED BY <2>2, <2>3 DEF MemInv, InPlace, Aligned, Known, Before
<1>8. CASE UNCHANGED vars
  BY <1>8, StoppedKeepsInv DEF vars
<1> QED BY <1>2, <1>3, <1>4, <1>5, <1>6, <1>7, <1>8, PokeKeepsInv DEF Next

----------------------------------------------------------------------------
(* The allocator's invariant, and with it what BlocksApart says: no byte   *)
(* is handed out twice, for every heap, request and alignment.             *)
THEOREM AllocatorInvariant == Spec => []MemInv
BY InitHasInv, NextKeepsInv, PTL DEF Spec

THEOREM NothingHandedOutTwice == Spec => []BlocksApart
BY AllocatorInvariant, InvSuffices, PTL

----------------------------------------------------------------------------
(* What is in the blocks.  A thread inside poke8 has read what is still in *)
(* the memory, in a word that nobody else's block shares.                  *)
PokeFresh(t) ==
  LET p == poke[t]  b == blocks[p.block] IN
  p # NoPoke =>
    /\ p.block \in DOMAIN blocks /\ b.owner = t /\ p.off \in 0..b.size - 1
    /\ p.old = [x \in WordAt(b, p.off) \cap Address |-> mem[x]]
FullInv == MemInv /\ ContentsKept /\ \A t \in Thread : PokeFresh(t)

LEMMA WordBelow ==
  ASSUME NEW b \in Block, Aligned(b), NEW k \in 0..b.size - 1, NEW e \in Nat, e % 8 = 0,
         b.at + b.size <= e, NEW x \in WordAt(b, k)
  PROVE  x \in Nat /\ b.at <= x /\ x < e
<1> DEFINE w == Mask(k, 4)
<1>1. b.at \in Nat /\ b.size \in Nat /\ k \in Nat /\ k < b.size
  BY BlockFields
<1>2. PICK q \in Nat : w = 4 * q /\ w <= k
  <2>1. k \div 4 \in Nat /\ w = 4 * (k \div 4) /\ w <= k
    BY <1>1, MaskBounds DEF Mask
  <2> QED BY <2>1
<1>3. PICK r \in Nat : b.at = 8 * r
  BY <1>1 DEF Aligned
<1>4. PICK s \in Nat : e = 8 * s
  OBVIOUS
<1>5. x \in (b.at + w)..(b.at + w + 3)
  BY DEF WordAt
<1> HIDE DEF w
<1>6. 8 * r + 4 * q < 8 * s
  BY <1>1, <1>2, <1>3, <1>4
<1>7. 8 * r + 4 * q + 4 <= 8 * s
  BY <1>6
<1> QED BY <1>1, <1>2, <1>3, <1>4, <1>5, <1>7

LEMMA BlockBytes ==
  ASSUME MemInv, NEW i \in DOMAIN blocks
  PROVE  /\ blocks[i] \in Block /\ blocks[i].at \in Nat /\ blocks[i].size \in Nat
         /\ \A k \in 0..blocks[i].size - 1 :
              /\ blocks[i].at + k \in Address /\ blocks[i].at + k < ptr
              /\ blocks[i].at + k \in Extent(blocks[i])
         /\ blocks[i].head = Header =>
              /\ blocks[i].at - Header \in Address /\ blocks[i].at - Header < ptr
              /\ blocks[i].at - Header \in Extent(blocks[i])
<1> DEFINE b == blocks[i]
<1>1. b \in Block /\ InPlace(b, ptr)
  BY BlocksAre DEF MemInv
<1>2. ptr \in Nat /\ HeapPtr \in Nat /\ HeapEnd \in Nat /\ ptr <= HeapEnd
  BY HeapPlace DEF MemInv
<1> HIDE DEF b
<1>3. b.at \in Nat /\ b.size \in Nat /\ b.head \in {0, 8}
  BY <1>1, BlockFields
<1>4. ASSUME NEW k \in 0..b.size - 1
      PROVE  b.at + k \in Address /\ b.at + k < ptr /\ b.at + k \in Extent(b)
  BY <1>1, <1>2, <1>3 DEF InPlace, Address, Extent
<1>5. b.head = Header => b.at - Header \in Address /\ b.at - Header < ptr /\ b.at - Header \in Extent(b)
  BY <1>1, <1>2, <1>3 DEF InPlace, Address, Extent, Header
<1> QED BY <1>1, <1>3, <1>4, <1>5 DEF b

LEMMA InitHasContents == Init => FullInv
BY InitHasInv DEF Init, FullInv, ContentsKept, PokeFresh

LEMMA StoppedKeepsContents ==
  ASSUME FullInv, UNCHANGED <<ptr, mem, blocks, poke>>
  PROVE  FullInv'
<1>1. MemInv'
  BY StoppedKeepsInv DEF FullInv
<1> QED BY <1>1 DEF FullInv, ContentsKept, PokeFresh

(* A new block from address a, whose owner knows what has been put there;  *)
(* below e nothing changes.                                                *)
Hands(t, a, n, hd, d, e) ==
  /\ New(t, a, n, hd, d) /\ poke' = poke
  /\ a % 8 = 0 /\ ptr + hd <= a /\ ptr' = a + n /\ ptr' <= HeapEnd
  /\ e % 8 = 0 /\ ptr <= e
  /\ \A x \in Address : x < e => mem'[x] = mem[x]
  /\ \A k \in 0..n - 1 : d[k] \in {ANY, mem'[a + k]}
  /\ hd = Header => mem'[a - Header] = n

LEMMA NewKeepsContents ==
  ASSUME FullInv, NEW t \in Thread, NEW a \in Nat, NEW n \in Nat, NEW hd \in {0, Header},
         NEW d \in [0..n - 1 -> Int], NEW e \in Nat, Hands(t, a, n, hd, d, e)
  PROVE  FullInv'
<1> DEFINE b == [at |-> a, size |-> n, head |-> hd, owner |-> t, data |-> d]
<1>0. MemInv /\ MemInv'
  BY NewKeepsInv DEF FullInv, Hands
<1>1. blocks' = Append(blocks, b) /\ blocks \in Seq(Block)
  BY <1>0 DEF New, MemInv, Hands
<1>2. b.at = a /\ b.size = n /\ b.head = hd /\ b.data = d
  OBVIOUS
<1> HIDE DEF b
<1>3. /\ DOMAIN blocks = 1..Len(blocks) /\ DOMAIN blocks' = 1..Len(blocks) + 1 /\ Len(blocks) \in Nat
      /\ \A i \in DOMAIN blocks : blocks'[i] = blocks[i] /\ i \in DOMAIN blocks'
      /\ blocks'[Len(blocks) + 1] = b
  BY <1>1
<1>4. /\ ptr \in Nat /\ poke' = poke /\ e % 8 = 0 /\ ptr <= e
      /\ \A x \in Address : x < e => mem'[x] = mem[x]
  BY <1>0, HeapPlace DEF MemInv, Hands
<1>5. ASSUME NEW i \in DOMAIN blocks'
      PROVE  /\ \A k \in 0..blocks'[i].size - 1 : blocks'[i].data[k] \in {ANY, mem'[blocks'[i].at + k]}
             /\ blocks'[i].head = Header => mem'[blocks'[i].at - Header] = blocks'[i].size
  <2>1. CASE i \in DOMAIN blocks
    <3> DEFINE c == blocks[i]
    <3>1. /\ \A k \in 0..c.size - 1 : c.data[k] \in {ANY, mem[c.at + k]}
          /\ c.head = Header => mem[c.at - Header] = c.size
      BY <2>1 DEF FullInv, ContentsKept
    <3>2. /\ \A k \in 0..c.size - 1 : c.at + k \in Address /\ c.at + k < ptr
          /\ c.head = Header => c.at - Header \in Address /\ c.at - Header < ptr
      BY <1>0, <2>1, BlockBytes
    <3>3. \A x \in Address : x < ptr => mem'[x] = mem[x]
      BY <1>4, HeapPlace DEF Address
    <3>4. blocks'[i] = c
      BY <1>3, <2>1
    <3> HIDE DEF c
    <3> QED BY <3>1, <3>2, <3>3, <3>4
  <2>2. CASE i = Len(blocks) + 1
    <3>1. /\ \A k \in 0..n - 1 : d[k] \in {ANY, mem'[a + k]}
          /\ hd = Header => mem'[a - Header] = n
      BY DEF Hands
    <3> QED BY <1>2, <1>3, <2>2, <3>1
  <2> QED BY <1>3, <2>1, <2>2
<1>6. ASSUME NEW u \in Thread, poke[u] # NoPoke
      PROVE  PokeFresh(u)'
  <2> DEFINE p == poke[u]  c == blocks[p.block]
  <2>1. /\ p.block \in DOMAIN blocks /\ c.owner = u /\ p.off \in 0..c.size - 1
        /\ p.old = [x \in WordAt(c, p.off) \cap Address |-> mem[x]]
    BY <1>6 DEF FullInv, PokeFresh
  <2>2. c \in Block /\ Aligned(c) /\ InPlace(c, ptr) /\ c.at \in Nat /\ c.size \in Nat
    BY <1>0, <2>1, BlockBytes DEF MemInv
  <2>3. blocks'[p.block] = c /\ p.block \in DOMAIN blocks'
    BY <1>3, <2>1
  <2> HIDE DEF c
  <2>4. c.at + c.size <= e
    <3>1. c.at + c.size <= ptr
      BY <2>2 DEF InPlace
    <3> QED BY <1>4, <2>2, <3>1
  <2>5. \A x \in WordAt(c, p.off) : x < e
    BY <1>4, <2>1, <2>2, <2>4, WordBelow
  <2>6. [x \in WordAt(c, p.off) \cap Address |-> mem[x]] = [x \in WordAt(c, p.off) \cap Address |-> mem'[x]]
    BY <1>4, <2>5
  <2>7. PokeFresh(u)' <=> (p # NoPoke =>
          /\ p.block \in DOMAIN blocks' /\ c.owner = u /\ p.off \in 0..c.size - 1
          /\ p.old = [x \in WordAt(c, p.off) \cap Address |-> mem'[x]])
    BY <1>4, <2>3 DEF PokeFresh, WordAt
  <2> QED BY <2>1, <2>3, <2>6, <2>7
<1>7. \A u \in Thread : PokeFresh(u)'
  <2>1. ASSUME NEW u \in Thread, poke[u] = NoPoke
        PROVE  PokeFresh(u)'
    BY <1>4, <2>1 DEF PokeFresh
  <2> QED BY <1>6, <2>1
<1> QED BY <1>0, <1>5, <1>7 DEF FullInv, ContentsKept

LEMMA WordsOf ==
  ASSUME NEW n \in Nat
  PROVE  Words(n) \in Nat /\ Words(n) <= n /\ Words(n + 8) = Words(n) + 8
<1>1. (n + 8) \div 4 = (n \div 4) + 2
  OBVIOUS
<1> QED BY <1>1, MaskBounds DEF Words, Mask

LEMMA KmallocKeepsContents ==
  ASSUME FullInv, NEW t \in Thread, NEW p \in Nat, NEW n \in Nat,
         ptr <= p, p + 7 < Word, KmallocFrom(t, p, n)
  PROVE  FullInv'
<1>1. CASE Fails(p, n)
  BY <1>1, StoppedKeepsContents DEF Fails
<1>2. CASE Gives(p, n) /\ mem' = Cleared(Up8(p), n) /\ New(t, Up8(p), n, 0, Blank(n))
  <2> DEFINE a == Up8(p)
  <2>1. /\ a \in Nat /\ p <= a /\ a % 8 = 0
        /\ a + n <= HeapEnd /\ ptr' = a + n
    BY <1>2, GrantedFits
  <2>2. ptr \in Nat /\ HeapPtr \in Nat /\ HeapPtr <= ptr /\ HeapEnd \in Nat
    BY HeapPlace DEF FullInv, MemInv
  <2>3. poke' = poke /\ mem' = Cleared(a, n) /\ New(t, a, n, 0, Blank(n))
    BY <1>2 DEF Gives
  <2> HIDE <1>2 DEF a
  <2>4. \A x \in Address : x < a => mem'[x] = mem[x]
    BY <2>1, <2>2, <2>3, WordsOf DEF Cleared, Address
  <2>5. ASSUME NEW k \in 0..n - 1
        PROVE  Blank(n)[k] \in {ANY, mem'[a + k]}
    <3>1. a + k \in Address
      BY <2>1, <2>2 DEF Address
    <3>2. k < Words(n) => mem'[a + k] = 0
      BY <2>1, <2>3, <3>1, WordsOf DEF Cleared
    <3> QED BY <3>2 DEF Blank
  <2>6. a % 8 = 0 /\ ptr + 0 <= a /\ ptr' <= HeapEnd /\ 0 \in {0, Header} /\ ptr <= a /\ 0 # Header
    BY <2>1, <2>2 DEF Header
  <2>7. Blank(n) \in [0..n - 1 -> Int]
    BY BlankData
  <2>8. Hands(t, a, n, 0, Blank(n), a)
    BY <2>1, <2>3, <2>4, <2>5, <2>6 DEF Hands
  <2> QED BY <2>1, <2>6, <2>7, <2>8, NewKeepsContents
<1> QED BY <1>1, <1>2 DEF KmallocFrom

(* The header, and behind it what is put there or has been cleared.        *)
LEMMA MallocKeepsContents ==
  ASSUME FullInv, NEW t \in Thread, NEW n \in Nat, NEW d \in [0..n - 1 -> Int], NEW put,
         DOMAIN put \subseteq 0..n - 1,
         \A k \in 0..n - 1 : d[k] \in {ANY, IF k \in DOMAIN put THEN put[k] ELSE Blank(n)[k]},
         MallocWith(t, n, put, d)
  PROVE  FullInv'
<1>1. CASE UNCHANGED <<ptr, mem, blocks, poke>>
  BY <1>1, StoppedKeepsContents
<1>2. CASE ~UNCHANGED <<ptr, mem, blocks, poke>>
  <2> DEFINE at == Up8(ptr)  m == [Cleared(at, Total(n)) EXCEPT ![at] = n]
  <2>1. /\ ~(Overflows(n) /\ ~Panics(ptr, Total(n)))
        /\ Gives(ptr, Total(n)) /\ New(t, at + Header, n, Header, d)
        /\ mem' = [x \in Address |-> IF x - at - Header \in DOMAIN put THEN put[x - at - Header] ELSE m[x]]
    BY <1>2 DEF MallocWith, Fails
  <2>2. n + Header < Word
    BY <2>1, HeapAssumption DEF Overflows, Gives, Header
  <2>3. Total(n) = n + 8
    BY <2>2, Small DEF Total, Header
  <2>4. ptr \in Nat /\ ptr + 7 < Word /\ HeapPtr \in Nat /\ HeapPtr <= ptr /\ HeapEnd \in Nat
    BY HeapPlace, HeapAssumption DEF FullInv, MemInv
  <2>5. /\ at \in Nat /\ ptr <= at /\ at % 8 = 0
        /\ at + (n + 8) <= HeapEnd /\ ptr' = at + (n + 8)
    BY <2>1, <2>3, <2>4, GrantedFits
  <2>6. poke' = poke
    BY <2>1 DEF Gives
  <2>7. m = [x \in Address |-> IF x = at THEN n ELSE Cleared(at, n + 8)[x]]
    BY <2>3 DEF Cleared
  <2> HIDE DEF at, m
  <2>8. (at + Header) % 8 = 0
    BY <2>5 DEF Header
  <2>9. /\ at + Header \in Nat /\ ptr + Header <= at + Header
        /\ ptr' = (at + Header) + n /\ ptr' <= HeapEnd /\ Header \in {0, Header}
    BY <2>4, <2>5 DEF Header
  <2>10. ASSUME NEW x \in Address, x <= at
         PROVE  mem'[x] = m[x]
    BY <2>1, <2>5, <2>10 DEF Header, Address
  <2>11. ASSUME NEW x \in Address, x < at
         PROVE  mem'[x] = mem[x]
    BY <2>4, <2>5, <2>7, <2>10, <2>11, WordsOf DEF Cleared, Address
  <2>12. mem'[(at + Header) - Header] = n
    <3>1. (at + Header) - Header = at /\ at \in Address /\ at <= at
      BY <2>4, <2>5 DEF Header, Address
    <3> QED BY <2>7, <2>10, <3>1
  <2>13. ASSUME NEW k \in 0..n - 1
         PROVE  d[k] \in {ANY, mem'[(at + Header) + k]}
    <3> DEFINE x == (at + Header) + k
    <3>1. x \in Address /\ x - at - Header = k /\ x = at + 8 + k /\ x # at /\ x \in Nat
      BY <2>4, <2>5 DEF Header, Address
    <3>2. mem'[x] = IF k \in DOMAIN put THEN put[k] ELSE Cleared(at, n + 8)[x]
      BY <2>1, <2>7, <3>1
    <3> HIDE DEF x
    <3>3. k < Words(n) => Cleared(at, n + 8)[x] = 0
      <4>1. Words(n) \in Nat /\ Words(n + 8) = Words(n) + 8
        BY WordsOf
      <4>2. at \in Nat /\ k \in Nat
        BY <2>5
      <4>3. ASSUME NEW w \in Nat, k < w PROVE x \in at..at + (w + 8) - 1
        BY <3>1, <4>2, <4>3
      <4>4. k < Words(n) => x \in at..at + Words(n + 8) - 1
        BY <4>1, <4>3
      <4> QED BY <3>1, <4>4 DEF Cleared
    <3>4. Blank(n)[k] \in {ANY, Cleared(at, n + 8)[x]}
      BY <3>3 DEF Blank
    <3>5. d[k] \in {ANY, mem'[x]}
      BY <3>2, <3>4
    <3> QED BY <3>5 DEF x
  <2>14. New(t, at + Header, n, Header, d)
    BY <2>1
  <2>15. Hands(t, at + Header, n, Header, d, at)
    BY <2>5, <2>6, <2>8, <2>9, <2>11, <2>12, <2>13, <2>14 DEF Hands
  <2> QED BY <2>5, <2>9, <2>15, NewKeepsContents
<1> QED BY <1>1, <1>2

LEMMA ReallocKeepsContents ==
  ASSUME FullInv, NEW t \in Thread, NEW n \in Nat, NEW i \in DOMAIN blocks, Realloc(t, i, n)
  PROVE  FullInv'
<1> DEFINE b == blocks[i]
           k == ToCopy(mem[b.at - Header], n)
           put == [j \in 0..k - 1 |-> mem[b.at + j]]
           d == [j \in 0..n - 1 |-> IF j < b.size THEN b.data[j] ELSE Blank(n)[j]]
<1>1. MallocWith(t, n, put, d) /\ b.head = Header
  BY DEF Realloc
<1>2. /\ b.size \in Nat /\ b.data \in [0..b.size - 1 -> Int]
      /\ \A j \in 0..b.size - 1 : b.data[j] \in {ANY, mem[b.at + j]}
      /\ mem[b.at - Header] = b.size
  BY <1>1, BlockBytes DEF FullInv, MemInv, Known, ContentsKept
<1>3. k \in Nat /\ k <= n /\ k <= b.size /\ (k = n \/ k = b.size)
  BY <1>2 DEF ToCopy
<1>4. Blank(n) \in [0..n - 1 -> Int]
  BY BlankData
<1> HIDE DEF b, k
<1>5. ASSUME NEW j \in 0..n - 1
      PROVE  /\ (IF j < b.size THEN b.data[j] ELSE Blank(n)[j]) \in Int
             /\ d[j] \in {ANY, IF j \in DOMAIN put THEN put[j] ELSE Blank(n)[j]}
  <2>1. j \in Nat /\ Blank(n)[j] \in Int
    BY <1>4
  <2>2. CASE j < b.size
    <3>1. j \in 0..b.size - 1 /\ j \in 0..k - 1
      BY <1>2, <1>3, <2>1, <2>2
    <3> QED BY <1>2, <2>2, <3>1
  <2>3. CASE ~(j < b.size)
    <3>1. j \notin 0..k - 1
      BY <1>2, <1>3, <2>1, <2>3
    <3> QED BY <2>1, <2>3, <3>1
  <2> QED BY <2>2, <2>3
<1>6. d \in [0..n - 1 -> Int] /\ DOMAIN put \subseteq 0..n - 1
  BY <1>3, <1>5
<1> HIDE DEF put, d
<1> QED BY <1>1, <1>5, <1>6, MallocKeepsContents

(* What is read in poke8 is what is there.                                 *)
LEMMA ReadKeepsContents ==
  ASSUME FullInv, MemInv', NEW t \in Thread, NEW i \in DOMAIN blocks, NEW k \in 0..blocks[i].size - 1,
         NEW v \in Byte, PokeReads(t, i, k, v)
  PROVE  FullInv'
<1> DEFINE p == [block |-> i, off |-> k, val |-> v,
                 old |-> [x \in WordAt(blocks[i], k) \cap Address |-> mem[x]]]
<1>1. DOMAIN poke = Thread
  BY DEF FullInv, MemInv, PokesTyped
<1>2. /\ UNCHANGED <<ptr, mem, blocks>> /\ blocks[i].owner = t
      /\ poke' = [poke EXCEPT ![t] = p]
  BY DEF PokeReads
<1>3. p.block = i /\ p.off = k /\ p.old = [x \in WordAt(blocks[i], k) \cap Address |-> mem[x]]
  OBVIOUS
<1> HIDE DEF p
<1>4. PokeFresh(t)'
  BY <1>1, <1>2, <1>3 DEF PokeFresh, WordAt
<1>5. ASSUME NEW u \in Thread, u # t
      PROVE  PokeFresh(u)'
  <2>1. poke'[u] = poke[u] /\ mem' = mem /\ blocks' = blocks
    BY <1>1, <1>2, <1>5
  <2>2. PokeFresh(u)
    BY DEF FullInv
  <2> QED BY <2>1, <2>2 DEF PokeFresh, WordAt
<1> QED BY <1>2, <1>4, <1>5 DEF FullInv, ContentsKept

(* What poke8 writes is one byte: the others of the word are as they were. *)
(* No other block, and no other thread, has a byte in common with it.      *)
LEMMA WriteKeepsContents ==
  ASSUME FullInv, MemInv', NEW t \in Thread, PokeWrites(t)
  PROVE  FullInv'
<1> DEFINE p == poke[t]  c == blocks[p.block]  y == c.at + p.off
<1>0. MemInv /\ DOMAIN poke = Thread
  BY DEF FullInv, MemInv, PokesTyped
<1>1. /\ p # NoPoke /\ ptr' = ptr
      /\ mem' = [x \in Address |-> IF x = y THEN p.val ELSE IF x \in DOMAIN p.old THEN p.old[x] ELSE mem[x]]
      /\ blocks' = [blocks EXCEPT ![p.block].data[p.off] = p.val]
      /\ poke' = [poke EXCEPT ![t] = NoPoke]
  BY DEF PokeWrites
<1>2. /\ p.block \in DOMAIN blocks /\ c.owner = t /\ p.off \in 0..c.size - 1
      /\ p.old = [x \in WordAt(c, p.off) \cap Address |-> mem[x]]
  BY <1>1 DEF FullInv, PokeFresh
<1>3. /\ c \in Block /\ c.at \in Nat /\ c.size \in Nat
      /\ y \in Address /\ y \in Extent(c) /\ Aligned(c) /\ Known(c)
  BY <1>0, <1>2, BlockBytes DEF MemInv
<1>4. mem' = [x \in Address |-> IF x = y THEN p.val ELSE mem[x]]
  BY <1>1, <1>2
<1>5. /\ DOMAIN blocks' = DOMAIN blocks
      /\ \A i \in DOMAIN blocks : i # p.block => blocks'[i] = blocks[i]
      /\ blocks'[p.block] = [c EXCEPT !.data = [c.data EXCEPT ![p.off] = p.val]]
  BY <1>1, <1>2
<1>6. /\ blocks'[p.block].at = c.at /\ blocks'[p.block].size = c.size
      /\ blocks'[p.block].head = c.head /\ blocks'[p.block].owner = c.owner
      /\ blocks'[p.block].data = [c.data EXCEPT ![p.off] = p.val]
  <2> HIDE DEF c, p
  <2> QED BY <1>3, <1>5 DEF Block
<1>7. BlocksApart
  BY <1>0, InvSuffices
<1> HIDE DEF p
<1>8. ASSUME NEW i \in DOMAIN blocks
      PROVE  /\ \A k \in 0..blocks'[i].size - 1 : blocks'[i].data[k] \in {ANY, mem'[blocks'[i].at + k]}
             /\ blocks'[i].head = Header => mem'[blocks'[i].at - Header] = blocks'[i].size
  <2> DEFINE b == blocks[i]
  <2>1. /\ \A k \in 0..b.size - 1 : b.data[k] \in {ANY, mem[b.at + k]}
        /\ b.head = Header => mem[b.at - Header] = b.size
    BY DEF FullInv, ContentsKept
  <2>2. /\ \A k \in 0..b.size - 1 : b.at + k \in Address /\ b.at + k \in Extent(b)
        /\ b.head = Header => b.at - Header \in Address /\ b.at - Header \in Extent(b)
    BY <1>0, BlockBytes
  <2>3. CASE i # p.block
    <3>1. y \notin Extent(b)
      BY <1>2, <1>3, <1>7, <2>3 DEF BlocksApart
    <3>2. blocks'[i] = b
      BY <1>5, <2>3
    <3> HIDE DEF b, y
    <3> QED BY <1>4, <2>1, <2>2, <3>1, <3>2
  <2>4. CASE i = p.block
    <3>1. b = c
      BY <2>4
    <3>2. c.data \in [0..c.size - 1 -> Int]
      BY <1>3 DEF Known
    <3>3. ASSUME NEW k \in 0..c.size - 1
          PROVE  [c.data EXCEPT ![p.off] = p.val][k] \in {ANY, mem'[c.at + k]}
      <4>1. CASE k = p.off
        <5>1. [c.data EXCEPT ![p.off] = p.val][k] = p.val /\ c.at + k = y
          BY <3>2, <4>1
        <5> QED BY <1>3, <1>4, <5>1
      <4>2. CASE k # p.off
        <5>1. [c.data EXCEPT ![p.off] = p.val][k] = c.data[k] /\ c.at + k # y
          BY <1>2, <1>3, <3>2, <4>2
        <5>2. c.at + k \in Address /\ c.data[k] \in {ANY, mem[c.at + k]}
          BY <2>1, <2>2, <3>1
        <5> QED BY <1>4, <5>1, <5>2
      <4> QED BY <4>1, <4>2
    <3>4. c.head = Header => mem'[c.at - Header] = c.size
      <4>1. c.at - Header # y
        BY <1>2, <1>3 DEF Header
      <4> QED BY <1>4, <2>1, <2>2, <3>1, <4>1
    <3> QED BY <1>6, <2>4, <3>3, <3>4
  <2> QED BY <2>3, <2>4
<1>9. ASSUME NEW u \in Thread, u # t, poke[u] # NoPoke
      PROVE  PokeFresh(u)'
  <2> DEFINE q == poke[u]  b == blocks[q.block]
  <2>1. /\ q.block \in DOMAIN blocks /\ b.owner = u /\ q.off \in 0..b.size - 1
        /\ q.old = [x \in WordAt(b, q.off) \cap Address |-> mem[x]]
    BY <1>9 DEF FullInv, PokeFresh
  <2>2. q.block # p.block
    BY <1>2, <1>9, <2>1
  <2>3. b \in Block /\ Aligned(b) /\ b.at \in Nat /\ b.size \in Nat
    BY <1>0, <2>1, BlockBytes DEF MemInv
  <2>4. Before(b, c) \/ Before(c, b)
    <3>1. q.block < p.block \/ p.block < q.block
      BY <1>0, <1>2, <2>1, <2>2, BlocksAre
    <3> QED BY <1>0, <1>2, <2>1, <3>1 DEF MemInv
  <2>5. blocks'[q.block] = b /\ q.block \in DOMAIN blocks' /\ poke'[u] = q
    BY <1>0, <1>1, <1>5, <1>9, <2>1, <2>2
  <2> HIDE DEF b, c, q
  <2>6. c.head \in {0, 8} /\ b.head \in {0, 8}
    BY <1>3, <2>3, BlockFields
  <2>7. ASSUME NEW x \in WordAt(b, q.off)
        PROVE  x # y
    <3>1. CASE Before(b, c)
      <4> DEFINE e == c.at - c.head
      <4>1. b.at + b.size <= e /\ e \in Nat /\ e % 8 = 0
        <5>1. b.at + b.size <= e
          BY <3>1 DEF Before
        <5>2. PICK r \in Nat : c.at = 8 * r
          BY <1>3 DEF Aligned
        <5>3. e = 8 * r \/ e = 8 * (r - 1)
          BY <2>6, <5>2
        <5> HIDE DEF e
        <5>4. e \in Int /\ e >= 0
          BY <2>3, <5>1, <5>3
        <5> QED BY <5>1, <5>3, <5>4
      <4> HIDE DEF e
      <4>2. x \in Nat /\ x < e
        BY <2>1, <2>3, <4>1, WordBelow
      <4>3. e <= y
        BY <1>2, <1>3, <2>6 DEF e
      <4> QED BY <1>2, <1>3, <4>1, <4>2, <4>3
    <3>2. CASE Before(c, b)
      <4> DEFINE e == 8 * (b.at + b.size)
      <4>1. e \in Nat /\ e % 8 = 0 /\ b.at + b.size <= e
        BY <2>3
      <4> HIDE DEF e
      <4>2. x \in Nat /\ b.at <= x
        BY <2>1, <2>3, <4>1, WordBelow
      <4>3. y < b.at
        BY <1>2, <1>3, <2>3, <2>6, <3>2 DEF Before
      <4> QED BY <1>2, <1>3, <2>3, <4>2, <4>3
    <3> QED BY <2>4, <3>1, <3>2
  <2>8. [x \in WordAt(b, q.off) \cap Address |-> mem[x]] = [x \in WordAt(b, q.off) \cap Address |-> mem'[x]]
    <3> HIDE DEF y
    <3> QED BY <1>4, <2>7
  <2>9. PokeFresh(u)' <=> (q # NoPoke =>
          /\ q.block \in DOMAIN blocks' /\ b.owner = u /\ q.off \in 0..b.size - 1
          /\ q.old = [x \in WordAt(b, q.off) \cap Address |-> mem'[x]])
    BY <2>5 DEF PokeFresh, WordAt
  <2> QED BY <2>1, <2>5, <2>8, <2>9
<1>10. ASSUME NEW u \in Thread, u = t \/ poke[u] = NoPoke
       PROVE  PokeFresh(u)'
  <2>1. poke'[u] = NoPoke
    BY <1>0, <1>1, <1>10
  <2> QED BY <2>1 DEF PokeFresh
<1>11. \A u \in Thread : PokeFresh(u)'
  BY <1>9, <1>10
<1>12. ContentsKept'
  BY <1>5, <1>8 DEF ContentsKept
<1> QED BY <1>11, <1>12 DEF FullInv

LEMMA NextKeepsContents == FullInv /\ [Next]_vars => FullInv'
<1> SUFFICES ASSUME FullInv, [Next]_vars PROVE FullInv'
  OBVIOUS
<1>0. MemInv /\ MemInv' /\ Sizes \subseteq Nat
  BY NextKeepsInv, HeapAssumption DEF FullInv
<1>1. ptr \in Nat /\ ptr + 7 < Word /\ \A al \in Alignments : al \in Nat \ {0} /\ ptr + al + 9 < Word
  BY <1>0, HeapPlace, HeapAssumption DEF MemInv
<1>2. ASSUME NEW t \in Thread, NEW n \in Sizes, Kmalloc(t, n)
      PROVE  FullInv'
  BY <1>0, <1>1, <1>2, KmallocKeepsContents DEF Kmalloc
<1>3. ASSUME NEW t \in Thread, NEW n \in Sizes, Malloc(t, n)
      PROVE  FullInv'
  <2>1. n \in Nat /\ DOMAIN Nowhere = {} /\ MallocWith(t, n, Nowhere, Blank(n))
    BY <1>0, <1>3 DEF Malloc, Nowhere
  <2>2. Blank(n) \in [0..n - 1 -> Int]
    BY <2>1, BlankData
  <2>3. \A j \in 0..n - 1 : Blank(n)[j] \in {ANY, IF j \in DOMAIN Nowhere THEN Nowhere[j] ELSE Blank(n)[j]}
    BY <2>1
  <2> QED BY <2>1, <2>2, <2>3, MallocKeepsContents
<1>4. ASSUME NEW t \in Thread, NEW n \in Sizes, NEW al \in Alignments, KmallocAligned(t, n, al)
      PROVE  FullInv'
  <2> DEFINE p == Mask((ptr + al - 1) % Word, al)
  <2>1. ptr + al - 1 \in Nat /\ ptr + al - 1 < Word /\ al \in Nat \ {0} /\ ptr + al + 9 < Word
    BY <1>1, HeapAssumption
  <2>2. (ptr + al - 1) % Word = ptr + al - 1
    BY <2>1, Small
  <2>3. p \in Nat /\ p <= ptr + al - 1 /\ ptr + al - 1 < p + al
    BY <2>1, <2>2, MaskBounds
  <2>4. ptr <= p /\ p + 7 < Word
    BY <1>1, <2>1, <2>3, HeapAssumption
  <2> HIDE DEF p
  <2>5. KmallocFrom(t, p, n)
    BY <1>4 DEF KmallocAligned, p
  <2> QED BY <1>0, <2>3, <2>4, <2>5, KmallocKeepsContents
<1>5. ASSUME NEW t \in Thread, NEW n \in Sizes, NEW k \in Sizes, Calloc(t, k, n)
      PROVE  FullInv'
  <2> DEFINE z == Zeros(k * n)
  <2>1. k * n \in Nat /\ z \in [0..(k * n) - 1 -> Int] /\ DOMAIN z = 0..(k * n) - 1
    BY <1>0 DEF Zeros
  <2>2. CASE UNCHANGED <<ptr, mem, blocks, poke>>
    BY <2>2, StoppedKeepsContents
  <2>3. CASE MallocWith(t, k * n, z, z)
    <3> HIDE DEF z
    <3>1. \A j \in 0..(k * n) - 1 : z[j] \in {ANY, IF j \in DOMAIN z THEN z[j] ELSE Blank(k * n)[j]}
      BY <2>1
    <3> QED BY <2>1, <2>3, <3>1, MallocKeepsContents
  <2> QED BY <1>5, <2>2, <2>3 DEF Calloc
<1>6. ASSUME NEW t \in Thread, NEW n \in Sizes, NEW i \in DOMAIN blocks, Realloc(t, i, n)
      PROVE  FullInv'
  BY <1>0, <1>6, ReallocKeepsContents
<1>7. ASSUME NEW t \in Thread, NEW i \in DOMAIN blocks, NEW k \in 0..blocks[i].size - 1, NEW v \in Byte,
             PokeReads(t, i, k, v)
      PROVE  FullInv'
  BY <1>0, <1>7, ReadKeepsContents
<1>8. ASSUME NEW t \in Thread, PokeWrites(t)
      PROVE  FullInv'
  BY <1>0, <1>8, WriteKeepsContents
<1>9. CASE UNCHANGED vars
  BY <1>9, StoppedKeepsContents DEF vars
<1> QED BY <1>2, <1>3, <1>4, <1>5, <1>6, <1>7, <1>8, <1>9 DEF Next

(* What an owner has written, or was promised, is what it finds, through   *)
(* realloc (c/rts-stubs.c) and although poke8 (hs/Alloc.hs) writes back    *)
(* three bytes that it was not asked to.                                   *)
THEOREM ContentsSurvive == Spec => []ContentsKept
<1>1. FullInv => ContentsKept
  BY DEF FullInv
<1> QED BY <1>1, InitHasContents, NextKeepsContents, PTL DEF Spec

----------------------------------------------------------------------------
(***************************************************************************)
(* The radios.  Types: what a packet, a chip and the two threads hold.     *)
(***************************************************************************)
Body   == {ToPacket(m) : m \in Message} \cup {ZeroPacket, <<>>}
OutPkt == [body : Body, id : Nat, pid : Nat]
InPkt  == [body : Body, id : Nat]
Seen   == [val : {FromPacket(b) : b \in Body}, id : Nat]
SndPcs == {"recv", "drain", "read", "load", "txMode", "hasTxIntr", "hasMaxRtIntr", "txIntrClr",
           "sent", "rtIntrClr", "flush", "failed"}
ChipState == [tx : BOOLEAN, txq : Seq(OutPkt), rxq : Seq(InPkt), ds : BOOLEAN, rt : BOOLEAN,
              pid : Nat, last : {<<>>} \cup (Nat \X Body), out : Body]
SndState == [pc : SndPcs, noAck : BOOLEAN, attempt : Nat, txDone : BOOLEAN]
RcvState == [pc : {"poll", "read", "more"}, pkt : InPkt]
RadioTypeOK ==
  /\ traffic \in [Radio -> Seq(Message)] /\ acked \in BOOLEAN
  /\ chip \in [Radio -> ChipState]
  /\ snd  \in [Radio -> SndState]
  /\ rcv  \in [Radio -> RcvState]
  /\ inbox \in [Radio -> Seq(Seen)] /\ result \in [Radio -> Seq(BOOLEAN)]
  /\ took \in [Radio -> SUBSET Nat] /\ mistaken \in [Radio -> SUBSET Nat]
  /\ raced \in [Radio -> BOOLEAN] /\ slipped \in [Radio -> BOOLEAN]

(* A sender at work has a message to send.                                 *)
Busy == \A n \in Radio : snd[n].pc # "recv" => Now(n) <= Len(traffic[n])

(* The numbers in a queue rise from lo to hi; a packet is that of the      *)
(* message it is numbered with; what is in an inbox is what that message   *)
(* means.                                                                  *)
Rising(s, lo, hi) ==
  \A i \in DOMAIN s :
    lo <= s[i].id /\ s[i].id <= hi /\ \A j \in DOMAIN s : i <= j => s[i].id <= s[j].id
Carries(q, p)   == p.id \in 1..Len(traffic[q]) /\ p.body = ToPacket(traffic[q][p.id])
AllCarry(q, s)  == \A i \in DOMAIN s : Carries(q, s[i])
Told(q, e)  == /\ e.id \in 1..Len(traffic[q]) /\ Whole(traffic[q][e.id])
               /\ e.val = Meaning(traffic[q][e.id])
AllTold(q, s) == \A i \in DOMAIN s : Told(q, s[i])

(* Nothing on the way from one side to the other is made up, except what a *)
(* read of an empty FIFO gives.                                            *)
Genuine == \A n \in Radio :
  /\ AllCarry(n, chip[n].txq) /\ AllCarry(Peer(n), chip[n].rxq)
  /\ ~raced[n] => /\ AllTold(Peer(n), inbox[n])
                  /\ rcv[n].pkt # NoPkt => Carries(Peer(n), rcv[n].pkt)
                  /\ rcv[n].pc = "more" => rcv[n].pkt # NoPkt

(* The way to the inbox of n is one queue in five stages (the FIFO of the  *)
(* sender, that of the receiver, the packet in hand, the inbox, and the    *)
(* message about to be sent), and three marks keep the stages apart.       *)
Stages(n, a, b, c) ==
  /\ a <= b /\ b <= c /\ c <= Now(Peer(n))
  /\ Rising(chip[Peer(n)].txq, c, Now(Peer(n))) /\ Rising(chip[n].rxq, b, c)
  /\ ~raced[n] => /\ rcv[n].pkt # NoPkt => a <= rcv[n].pkt.id /\ rcv[n].pkt.id <= b
                  /\ Rising(inbox[n], 0, a)
Flow == \A n \in Radio : \E a, b, c \in Nat : Stages(n, a, b, c)

(* What the flags and the FIFO of the sending chip mean at each point of   *)
(* nrfSend: the payload is there, or it is gone and has been answered.     *)
Answered(q) == took[q] \cup mistaken[q]
Loaded(n) == Len(chip[n].txq) = 1 /\ chip[n].txq[1].id = Now(n) /\ ~chip[n].ds
Gone(n)   == chip[n].txq = <<>> /\ ~chip[n].rt
Taken(n)  == Now(n) \in Answered(Peer(n))
Honest(n) ==
  /\ ~snd[n].noAck
  /\ snd[n].pc \in {"recv", "drain", "read", "load"} => Gone(n) /\ ~chip[n].ds /\ ~chip[n].tx
  /\ snd[n].pc = "txMode" => Loaded(n) /\ ~chip[n].rt /\ ~chip[n].tx
  /\ snd[n].pc \in {"hasTxIntr", "hasMaxRtIntr"} => Loaded(n) \/ (Gone(n) /\ chip[n].ds /\ Taken(n))
  /\ snd[n].txDone => snd[n].pc = "hasMaxRtIntr" /\ chip[n].ds
  /\ snd[n].pc = "txIntrClr" => Gone(n) /\ Taken(n)
  /\ snd[n].pc = "sent" => Gone(n) /\ Taken(n) /\ ~chip[n].ds
  /\ snd[n].pc = "rtIntrClr" => Loaded(n) /\ chip[n].rt
  /\ snd[n].pc = "flush" => Loaded(n) /\ ~chip[n].rt
  /\ snd[n].pc = "failed" => Gone(n) /\ ~chip[n].ds
Answers(n) == \A i \in DOMAIN result[n] : result[n][i] => i \in Answered(Peer(n))
Handshake == \A n \in Radio : acked /\ ~slipped[n] => Honest(n) /\ Answers(n)

(* The inductive invariant.                                                *)
RadioInv == RadioTypeOK /\ Busy /\ Genuine /\ Flow /\ Handshake

LEMMA Peers ==
  ASSUME NEW n \in Radio
  PROVE  /\ Peer(n) \in Radio /\ Peer(n) # n /\ Peer(Peer(n)) = n
         /\ \A m \in Radio : m # n => m = Peer(n)
  BY DEF Peer, Radio

LEMMA HeadTail ==
  ASSUME NEW S, NEW q \in Seq(S), q # <<>>
  PROVE  /\ Head(q) \in S /\ Tail(q) \in Seq(S) /\ Len(q) \in Nat \ {0} /\ Len(Tail(q)) = Len(q) - 1
         /\ Head(q) = q[1] /\ \A i \in 1..Len(q) - 1 : Tail(q)[i] = q[i + 1]
  BY HeadTailProperties, EmptySeq, LenProperties

LEMMA RadioInitTyped == RadioInit => RadioTypeOK
<1> SUFFICES ASSUME RadioInit PROVE RadioTypeOK
  OBVIOUS
<1>1. traffic \in [Radio -> Seq(Message)]
  BY RadioAssumption DEF RadioInit
<1>2. ZeroPacket \in Body /\ <<>> \in Body
  BY DEF Body
<1>3. [tx |-> FALSE, txq |-> <<>>, rxq |-> <<>>, ds |-> FALSE, rt |-> FALSE,
       pid |-> 0, last |-> <<>>, out |-> ZeroPacket] \in ChipState
  BY <1>2 DEF ChipState
<1>4. NoPkt \in InPkt
  BY <1>2 DEF NoPkt, Pkt, InPkt
<1> QED BY <1>1, <1>3, <1>4 DEF RadioInit, RadioTypeOK, SndIdle, SndPcs, SndState, RcvState

(* Every step keeps the types.                                             *)
LEMMA OnAirTyped ==
  ASSUME RadioTypeOK, NEW n \in Radio, NEW heard \in BOOLEAN, NEW answered \in BOOLEAN,
         OnAir(n, heard, answered)
  PROVE  RadioTypeOK'
<1> DEFINE q == Peer(n)  p == Head(chip[n].txq)
<1>0. q \in Radio /\ q # n /\ chip[n] \in ChipState /\ chip[q] \in ChipState
  BY Peers DEF RadioTypeOK
<1>1. chip[n].txq \in Seq(OutPkt) /\ chip[n].txq # <<>> /\ chip[q].rxq \in Seq(InPkt)
  BY <1>0 DEF OnAir, ChipState
<1>2. p \in OutPkt /\ Tail(chip[n].txq) \in Seq(OutPkt)
  BY <1>1, HeadTail
<1> HIDE DEF p
<1>3. /\ Pkt(p.body, p.id) \in InPkt /\ <<p.pid, p.body>> \in Nat \X Body /\ p.id \in Nat
  BY <1>2 DEF Pkt, InPkt, OutPkt
<1>4. Append(chip[q].rxq, Pkt(p.body, p.id)) \in Seq(InPkt)
  BY <1>1, <1>3
<1>5. Taking(q, p) \in ChipState
  BY <1>0, <1>3, <1>4 DEF Taking, ChipState
<1>6. Popped(n) \in ChipState /\ [chip[n] EXCEPT !.rt = TRUE] \in ChipState
  BY <1>0, <1>2 DEF Popped, ChipState
<1> HIDE DEF q
<1>7. chip' = [chip EXCEPT ![n] = IF answered THEN Popped(n) ELSE [chip[n] EXCEPT !.rt = TRUE],
                           ![q] = IF heard THEN Taking(q, p) ELSE chip[q]]
  BY <1>0 DEF OnAir, q, p, RadioTypeOK
<1>8. chip' \in [Radio -> ChipState]
  BY <1>0, <1>5, <1>6, <1>7 DEF RadioTypeOK
<1>9. took' \in [Radio -> SUBSET Nat] /\ mistaken' \in [Radio -> SUBSET Nat] /\ slipped' \in [Radio -> BOOLEAN]
  <2>1. took' = took \/ took' = [took EXCEPT ![q] = @ \cup {p.id}]
    BY DEF OnAir, q, p
  <2>6. mistaken' = mistaken \/ mistaken' = [mistaken EXCEPT ![q] = @ \cup ({p.id} \ took[q])]
    BY DEF OnAir, q, p
  <2>2. slipped' = [slipped EXCEPT ![n] = @ \/ snd[n].pc = "flush"]
    BY DEF OnAir
  <2>3. slipped' \in [Radio -> BOOLEAN]
    BY <2>2, Zenon DEF RadioTypeOK
  <2>4. took[q] \cup {p.id} \in SUBSET Nat
    BY <1>0, <1>3 DEF RadioTypeOK
  <2>5. took' \in [Radio -> SUBSET Nat]
    BY <1>0, <2>1, <2>4, Zenon DEF RadioTypeOK
  <2>7. mistaken[q] \cup ({p.id} \ took[q]) \in SUBSET Nat
    BY <1>0, <1>3 DEF RadioTypeOK
  <2>8. mistaken' \in [Radio -> SUBSET Nat]
    BY <1>0, <2>6, <2>7, Zenon DEF RadioTypeOK
  <2> QED BY <2>3, <2>5, <2>8
<1> QED BY <1>8, <1>9 DEF OnAir, RadioTypeOK

LEMMA ChipTyped ==
  ASSUME RadioTypeOK, NEW n \in Radio, Chip(n)
  PROVE  RadioTypeOK'
<1>1. PICK h \in BOOLEAN, a \in BOOLEAN : OnAir(n, h, a)
  <2>1. (~acked) \in BOOLEAN
    BY DEF RadioTypeOK
  <2> QED BY <2>1 DEF Chip, Arrives, AnswerLost, PacketLost
<1> QED BY <1>1, OnAirTyped

(* What a read of the FIFO gives.                                          *)
LEMMA ReadTyped ==
  ASSUME RadioTypeOK, NEW n \in Radio, NEW p \in Payload(n), Reads(n, p)
  PROVE  /\ p \in InPkt
         /\ chip' \in [Radio -> ChipState] /\ raced' \in [Radio -> BOOLEAN]
<1>1. chip[n] \in ChipState /\ chip[n].rxq \in Seq(InPkt) /\ chip[n].out \in Body
  BY DEF RadioTypeOK, ChipState
<1>2. ZeroPacket \in Body
  BY DEF Body
<1>3. p \in InPkt
  <2>1. CASE RxFifoEmpty(n)
    BY <1>1, <1>2, <2>1 DEF Payload, Pkt, InPkt
  <2>2. CASE ~RxFifoEmpty(n)
    BY <1>1, <2>2, HeadTail DEF Payload, RxFifoEmpty
  <2> QED BY <2>1, <2>2
<1>4. p.body \in Body
  BY <1>3 DEF InPkt
<1> DEFINE s == IF RxFifoEmpty(n) THEN chip[n].rxq ELSE Tail(chip[n].rxq)
<1>5. s \in Seq(InPkt)
  BY <1>1, HeadTail DEF RxFifoEmpty
<1>6. chip' = [chip EXCEPT ![n] = [chip[n] EXCEPT !.rxq = s, !.out = p.body]]
  BY DEF Reads
<1> HIDE DEF s
<1>7. [chip[n] EXCEPT !.rxq = s, !.out = p.body] \in ChipState
  BY <1>1, <1>4, <1>5 DEF ChipState
<1>8. raced' = [raced EXCEPT ![n] = @ \/ RxFifoEmpty(n)]
  BY DEF Reads
<1> QED BY <1>3, <1>6, <1>7, <1>8 DEF RadioTypeOK

LEMMA ReceiverTyped ==
  ASSUME RadioTypeOK, NEW n \in Radio, Receiver(n)
  PROVE  RadioTypeOK'
<1>0. NoPkt \in InPkt /\ rcv[n].pkt \in InPkt
  BY DEF NoPkt, Pkt, InPkt, Body, RadioTypeOK, RcvState
<1>1. CASE RecvPolls(n) \/ RecvMore(n)
  <2>1. \E p \in InPkt : rcv' = [rcv EXCEPT ![n] = [pc |-> "read", pkt |-> p]]
    BY <1>0, <1>1 DEF RecvPolls, RecvMore, RcvGoes
  <2>2. UNCHANGED <<traffic, acked, chip, snd, inbox, result, took, mistaken, raced, slipped>>
    BY <1>1 DEF RecvPolls, RecvMore, hist
  <2> QED BY <2>1, <2>2 DEF RadioTypeOK, RcvState
<1>2. CASE RecvReads(n)
  <2>1. PICK p \in Payload(n) :
          /\ Reads(n, p)
          /\ rcv' = [rcv EXCEPT ![n] = [pc |-> "more", pkt |-> p]]
             \/ rcv' = [rcv EXCEPT ![n] = [pc |-> "more", pkt |-> rcv[n].pkt]]
    BY <1>2 DEF RecvReads, RcvGoes
  <2>2. p \in InPkt /\ chip' \in [Radio -> ChipState] /\ raced' \in [Radio -> BOOLEAN]
    BY <2>1, ReadTyped
  <2>3. [pc |-> "more", pkt |-> p] \in RcvState /\ [pc |-> "more", pkt |-> rcv[n].pkt] \in RcvState
    BY <1>0, <2>2 DEF RcvState
  <2>5. rcv' \in [Radio -> RcvState]
    BY <2>1, <2>3, Zenon DEF RadioTypeOK
  <2>4. UNCHANGED <<traffic, acked, snd, inbox, result, took, mistaken, slipped>>
    BY <1>2 DEF RecvReads
  <2> QED BY <2>2, <2>4, <2>5 DEF RadioTypeOK
<1>3. CASE RecvDelivers(n)
  <2> DEFINE e == [val |-> FromPacket(rcv[n].pkt.body), id |-> rcv[n].pkt.id]
  <2>1. e \in Seen
    BY <1>0 DEF Seen, InPkt
  <2>2. inbox' = inbox \/ inbox' = [inbox EXCEPT ![n] = Append(@, e)]
    BY <1>3 DEF RecvDelivers
  <2> HIDE DEF e
  <2>3. Append(inbox[n], e) \in Seq(Seen)
    BY <2>1 DEF RadioTypeOK
  <2>4. inbox' \in [Radio -> Seq(Seen)]
    BY <2>2, <2>3 DEF RadioTypeOK
  <2>5. rcv' = [rcv EXCEPT ![n] = [pc |-> "poll", pkt |-> NoPkt]]
    BY <1>3 DEF RecvDelivers, RcvGoes
  <2>6. UNCHANGED <<traffic, acked, chip, snd, result, took, mistaken, raced, slipped>>
    BY <1>3 DEF RecvDelivers, hist
  <2> QED BY <1>0, <2>4, <2>5, <2>6 DEF RadioTypeOK, RcvState
<1> QED BY <1>1, <1>2, <1>3 DEF Receiver

(* What a step of the sender changes, and how.                             *)
LEMMA SndTyped ==
  ASSUME RadioTypeOK, NEW n \in Radio, Sender(n)
  PROVE  snd' \in [Radio -> SndState]
<1>0. chip[n].ds \in BOOLEAN /\ snd[n] \in SndState /\ SndIdle \in SndState
  BY DEF RadioTypeOK, ChipState, SndIdle, SndState, SndPcs
<1>1. \E new \in SndState : snd' = [snd EXCEPT ![n] = new]
  <2>1. CASE SendStarts(n)
    <3>1. PICK b \in BOOLEAN : snd' = [snd EXCEPT ![n] = [snd[n] EXCEPT !.pc = "drain", !.noAck = b]]
      BY <2>1 DEF SendStarts
    <3>2. [snd[n] EXCEPT !.pc = "drain", !.noAck = b] \in SndState
      BY <1>0 DEF SndState, SndPcs
    <3> QED BY <3>1, <3>2
  <2>2. CASE SendDrained(n) \/ SendReads(n) \/ Loads(n) \/ TxMode(n) \/ TxIntrClr(n) \/ RtIntrClr(n) \/ FlushTx(n)
             \/ (HasTxIntr(n) /\ snd[n].noAck)
    <3>1. PICK to \in SndPcs : SndGoes(n, to)
      BY <2>2 DEF SendDrained, SendReads, Loads, TxMode, TxIntrClr, RtIntrClr, FlushTx, HasTxIntr, SndPcs
    <3>2. [snd[n] EXCEPT !.pc = to] \in SndState
      BY <1>0 DEF SndState
    <3> QED BY <3>1, <3>2 DEF SndGoes
  <2>3. CASE HasTxIntr(n) /\ ~snd[n].noAck
    <3>1. snd' = [snd EXCEPT ![n] = [snd[n] EXCEPT !.pc = "hasMaxRtIntr", !.txDone = chip[n].ds]]
      BY <2>3 DEF HasTxIntr
    <3>2. [snd[n] EXCEPT !.pc = "hasMaxRtIntr", !.txDone = chip[n].ds] \in SndState
      BY <1>0 DEF SndState, SndPcs
    <3> QED BY <3>1, <3>2
  <2>4. CASE HasMaxRtIntr(n)
    <3>1. PICK to \in SndPcs : snd' = [snd EXCEPT ![n] = [snd[n] EXCEPT !.txDone = FALSE, !.pc = to]]
      BY <2>4 DEF HasMaxRtIntr, SndPcs
    <3>2. [snd[n] EXCEPT !.txDone = FALSE, !.pc = to] \in SndState
      BY <1>0 DEF SndState
    <3> QED BY <3>1, <3>2
  <2>5. CASE RxMode(n) /\ Retries(n)
    <3>1. snd' = [snd EXCEPT ![n] = [snd[n] EXCEPT !.pc = "load", !.attempt = snd[n].attempt + 1]]
      BY <2>5 DEF Retries
    <3>2. snd[n].attempt + 1 \in Nat
      BY <1>0 DEF SndState
    <3>3. \A k \in Nat : [snd[n] EXCEPT !.pc = "load", !.attempt = k] \in SndState
      BY <1>0 DEF SndState, SndPcs
    <3> QED BY <3>1, <3>2, <3>3
  <2>6. CASE RxMode(n) /\ ~Retries(n)
    BY <1>0, <2>6 DEF RxMode, SendOk, SendLost, Returns
  <2> QED BY <2>1, <2>2, <2>3, <2>4, <2>5, <2>6 DEF Sender
<1> QED BY <1>1 DEF RadioTypeOK

LEMMA LoadedTyped ==
  ASSUME RadioTypeOK, Busy, NEW n \in Radio, Loads(n)
  PROVE  chip' \in [Radio -> ChipState]
<1> DEFINE p == [body |-> ToPacket(traffic[n][Now(n)]), id |-> Now(n), pid |-> chip[n].pid]
           d == (chip[n].pid + 1) % Pids
           s == Append(chip[n].txq, p)
<1>1. chip[n] \in ChipState /\ chip[n].txq \in Seq(OutPkt) /\ chip[n].pid \in Nat
  BY DEF RadioTypeOK, ChipState
<1>2. Now(n) \in 1..Len(traffic[n])
  BY DEF Loads, SndAt, Busy, Now, RadioTypeOK
<1>3. traffic[n][Now(n)] \in Message
  BY <1>2 DEF RadioTypeOK
<1>4. p \in OutPkt
  BY <1>1, <1>2, <1>3 DEF OutPkt, Body
<1>5. d \in Nat
  BY <1>1, RadioAssumption
<1>6. chip' = chip \/ chip' = [chip EXCEPT ![n] = [chip[n] EXCEPT !.txq = s, !.pid = d]]
  BY DEF Loads
<1> HIDE DEF p, d
<1>7. s \in Seq(OutPkt)
  BY <1>1, <1>4
<1> HIDE DEF s
<1>8. [chip[n] EXCEPT !.txq = s, !.pid = d] \in ChipState
  BY <1>1, <1>5, <1>7 DEF ChipState
<1> QED BY <1>6, <1>8, Zenon DEF RadioTypeOK

LEMMA SenderTyped ==
  ASSUME RadioTypeOK, Busy, NEW n \in Radio, Sender(n)
  PROVE  RadioTypeOK'
<1>0. chip[n] \in ChipState
  BY DEF RadioTypeOK
<1>1. chip' \in [Radio -> ChipState] /\ raced' \in [Radio -> BOOLEAN]
  <2>1. CASE SendReads(n)
    BY <2>1, ReadTyped DEF SendReads
  <2>2. CASE Loads(n)
    BY <2>2, LoadedTyped DEF Loads, RadioTypeOK
  <2>3. CASE ~SendReads(n) /\ ~Loads(n)
    <3>1. /\ raced' = raced
          /\ \/ chip' = chip
             \/ chip' = [chip EXCEPT ![n] = [chip[n] EXCEPT !.tx = TRUE]]
             \/ chip' = [chip EXCEPT ![n] = [chip[n] EXCEPT !.tx = FALSE]]
             \/ chip' = [chip EXCEPT ![n] = [chip[n] EXCEPT !.ds = FALSE]]
             \/ chip' = [chip EXCEPT ![n] = [chip[n] EXCEPT !.rt = FALSE]]
             \/ chip' = [chip EXCEPT ![n] = [chip[n] EXCEPT !.txq = <<>>]]
      BY <2>3 DEF Sender, SendStarts, SendDrained, TxMode, HasTxIntr, HasMaxRtIntr, TxIntrClr, RtIntrClr, FlushTx, RxMode
    <3>2. /\ [chip[n] EXCEPT !.tx = TRUE] \in ChipState /\ [chip[n] EXCEPT !.tx = FALSE] \in ChipState
          /\ [chip[n] EXCEPT !.ds = FALSE] \in ChipState /\ [chip[n] EXCEPT !.rt = FALSE] \in ChipState
      BY <1>0 DEF ChipState
    <3>3. \A q \in Seq(OutPkt) : [chip[n] EXCEPT !.txq = q] \in ChipState
      BY <1>0 DEF ChipState
    <3>4. [chip[n] EXCEPT !.txq = <<>>] \in ChipState
      BY <3>3, EmptySeq
    <3> QED BY <3>1, <3>2, <3>4, Zenon DEF RadioTypeOK
  <2> QED BY <2>1, <2>2, <2>3
<1>2. result' \in [Radio -> Seq(BOOLEAN)]
  <2>1. result' = result \/ \E b \in BOOLEAN : result' = [result EXCEPT ![n] = Append(result[n], b)]
    BY DEF Sender, SendStarts, SendDrained, SendReads, Loads, TxMode, HasTxIntr, HasMaxRtIntr, TxIntrClr,
           RtIntrClr, FlushTx, RxMode, SendOk, SendLost, Retries, Returns
  <2>2. \A b \in BOOLEAN : Append(result[n], b) \in Seq(BOOLEAN)
    BY AppendProperties DEF RadioTypeOK
  <2> QED BY <2>1, <2>2, Zenon DEF RadioTypeOK
<1>3. UNCHANGED <<traffic, acked, rcv, inbox, took, mistaken, slipped>>
  BY DEF Sender, SendStarts, SendDrained, SendReads, Loads, TxMode, HasTxIntr, HasMaxRtIntr, TxIntrClr,
         RtIntrClr, FlushTx, RxMode, Quiet
<1> QED BY SndTyped, <1>1, <1>2, <1>3 DEF RadioTypeOK

(* What the steps change, part by part.                                    *)
LEMMA OnAirParts ==
  ASSUME RadioTypeOK, NEW n \in Radio, NEW q \in Radio, q = Peer(n), NEW heard \in BOOLEAN, NEW answered \in BOOLEAN,
         OnAir(n, heard, answered)
  PROVE  /\ chip'[n].rxq = chip[n].rxq /\ chip'[n].tx = chip[n].tx
         /\ answered => chip'[n].txq = Tail(chip[n].txq) /\ chip'[n].ds /\ chip'[n].rt = chip[n].rt
         /\ ~answered => chip'[n].txq = chip[n].txq /\ chip'[n].ds = chip[n].ds /\ chip'[n].rt
         /\ chip'[q].txq = chip[q].txq /\ chip'[q].ds = chip[q].ds /\ chip'[q].rt = chip[q].rt /\ chip'[q].tx = chip[q].tx
         /\ \/ chip'[q].rxq = chip[q].rxq
            \/ chip'[q].rxq = Append(chip[q].rxq, Pkt(Head(chip[n].txq).body, Head(chip[n].txq).id))
<1> DEFINE p == Head(chip[n].txq)
<1>0. q # n /\ chip[n] \in ChipState /\ chip[q] \in ChipState
  BY Peers DEF RadioTypeOK
<1>1. /\ chip'[n] = IF answered THEN Popped(n) ELSE [chip[n] EXCEPT !.rt = TRUE]
      /\ chip'[q] = IF heard THEN Taking(q, p) ELSE chip[q]
  BY <1>0 DEF OnAir, RadioTypeOK
<1> HIDE DEF p
<1>2. /\ Taking(q, p).txq = chip[q].txq /\ Taking(q, p).ds = chip[q].ds
      /\ Taking(q, p).rt = chip[q].rt /\ Taking(q, p).tx = chip[q].tx
      /\ Taking(q, p).rxq = chip[q].rxq \/ Taking(q, p).rxq = Append(chip[q].rxq, Pkt(p.body, p.id))
  BY <1>0 DEF Taking, ChipState
<1>3. /\ Popped(n).rxq = chip[n].rxq /\ Popped(n).tx = chip[n].tx /\ Popped(n).rt = chip[n].rt
      /\ Popped(n).txq = Tail(chip[n].txq) /\ Popped(n).ds
  BY <1>0 DEF Popped, ChipState
<1> QED BY <1>0, <1>1, <1>2, <1>3 DEF p, ChipState

LEMMA ReadParts ==
  ASSUME RadioTypeOK, NEW n \in Radio, NEW p \in Payload(n), Reads(n, p)
  PROVE  /\ \A m \in Radio : /\ m # n => chip'[m] = chip[m] /\ raced'[m] = raced[m]
                             /\ chip'[m].txq = chip[m].txq /\ chip'[m].ds = chip[m].ds
                             /\ chip'[m].rt = chip[m].rt /\ chip'[m].tx = chip[m].tx
         /\ \/ raced'[n]
            \/ /\ chip[n].rxq # <<>> /\ chip'[n].rxq = Tail(chip[n].rxq)
               /\ p = Head(chip[n].rxq) /\ raced'[n] = raced[n]
         /\ chip'[n].rxq = chip[n].rxq \/ (chip[n].rxq # <<>> /\ chip'[n].rxq = Tail(chip[n].rxq))
<1>1. chip[n] \in ChipState
  BY DEF RadioTypeOK
<1> DEFINE s == IF RxFifoEmpty(n) THEN chip[n].rxq ELSE Tail(chip[n].rxq)
<1>2. chip' = [chip EXCEPT ![n] = [chip[n] EXCEPT !.rxq = s, !.out = p.body]]
  BY DEF Reads
<1>3. raced' = [raced EXCEPT ![n] = raced[n] \/ RxFifoEmpty(n)]
  BY DEF Reads
<1>4. \A m \in Radio : m # n => chip'[m] = chip[m] /\ raced'[m] = raced[m]
  BY <1>2, <1>3, Zenon DEF RadioTypeOK
<1>5. raced'[n] = (raced[n] \/ RxFifoEmpty(n)) /\ raced[n] \in BOOLEAN
  BY <1>3, Zenon DEF RadioTypeOK
<1>6. chip'[n] = [chip[n] EXCEPT !.rxq = s, !.out = p.body]
  BY <1>2, Zenon DEF RadioTypeOK
<1>7. /\ chip'[n].txq = chip[n].txq /\ chip'[n].ds = chip[n].ds /\ chip'[n].rxq = s
      /\ chip'[n].rt = chip[n].rt /\ chip'[n].tx = chip[n].tx
  <2> HIDE DEF s
  <2> QED BY <1>1, <1>6 DEF ChipState
<1>8. CASE RxFifoEmpty(n)
  BY <1>4, <1>5, <1>7, <1>8
<1>9. CASE ~RxFifoEmpty(n)
  <2>1. p = Head(chip[n].rxq) /\ s = Tail(chip[n].rxq) /\ chip[n].rxq # <<>>
    BY <1>9 DEF Payload, RxFifoEmpty
  <2>2. raced'[n] = raced[n]
    BY <1>5, <1>9
  <2> HIDE DEF s
  <2> QED BY <1>4, <1>7, <2>1, <2>2
<1> QED BY <1>8, <1>9

LEMMA LoadParts ==
  ASSUME RadioTypeOK, NEW n \in Radio, Loads(n)
  PROVE  /\ \A m \in Radio : m # n => chip'[m] = chip[m]
         /\ chip'[n].rxq = chip[n].rxq /\ chip'[n].ds = chip[n].ds /\ chip'[n].rt = chip[n].rt /\ chip'[n].tx = chip[n].tx
         /\ \/ chip'[n].txq = chip[n].txq /\ Len(chip[n].txq) = Depth
            \/ chip'[n].txq = Append(chip[n].txq, [body |-> ToPacket(traffic[n][Now(n)]), id |-> Now(n), pid |-> chip[n].pid])
<1> DEFINE p == [body |-> ToPacket(traffic[n][Now(n)]), id |-> Now(n), pid |-> chip[n].pid]
           d == (chip[n].pid + 1) % Pids
           s == Append(chip[n].txq, p)
<1>1. chip[n] \in ChipState
  BY DEF RadioTypeOK
<1>2. \/ chip' = chip /\ Len(chip[n].txq) = Depth
      \/ chip' = [chip EXCEPT ![n] = [chip[n] EXCEPT !.txq = s, !.pid = d]]
  BY DEF Loads
<1> HIDE DEF s, d
<1>3. CASE chip' = chip /\ Len(chip[n].txq) = Depth
  BY <1>3
<1>4. CASE chip' = [chip EXCEPT ![n] = [chip[n] EXCEPT !.txq = s, !.pid = d]]
  <2>1. chip'[n] = [chip[n] EXCEPT !.txq = s, !.pid = d] /\ \A m \in Radio : m # n => chip'[m] = chip[m]
    BY <1>4, Zenon DEF RadioTypeOK
  <2> QED BY <1>1, <2>1 DEF ChipState, s
<1> QED BY <1>2, <1>3, <1>4

(* The parts of the chip a step of the sender sets, and how far it is.     *)
Dull(n) == SendStarts(n) \/ SendDrained(n) \/ TxMode(n) \/ HasTxIntr(n) \/ HasMaxRtIntr(n)
           \/ TxIntrClr(n) \/ RtIntrClr(n) \/ FlushTx(n) \/ RxMode(n)
LEMMA DullParts ==
  ASSUME RadioTypeOK, NEW n \in Radio, Dull(n)
  PROVE  /\ \A m \in Radio : m # n => chip'[m] = chip[m]
         /\ chip'[n].rxq = chip[n].rxq
         /\ chip'[n].txq = chip[n].txq \/ chip'[n].txq = <<>>
         /\ raced' = raced
<1>1. /\ raced' = raced
      /\ \/ chip' = chip
         \/ chip' = [chip EXCEPT ![n] = [chip[n] EXCEPT !.tx = TRUE]]
         \/ chip' = [chip EXCEPT ![n] = [chip[n] EXCEPT !.tx = FALSE]]
         \/ chip' = [chip EXCEPT ![n] = [chip[n] EXCEPT !.ds = FALSE]]
         \/ chip' = [chip EXCEPT ![n] = [chip[n] EXCEPT !.rt = FALSE]]
         \/ chip' = [chip EXCEPT ![n] = [chip[n] EXCEPT !.txq = <<>>]]
  BY DEF Dull, SendStarts, SendDrained, TxMode, HasTxIntr, HasMaxRtIntr, TxIntrClr, RtIntrClr, FlushTx, RxMode
<1> QED BY <1>1 DEF RadioTypeOK, ChipState

(* The results and the counter of what has been sent.                      *)
LEMMA NowParts ==
  ASSUME RadioTypeOK, NEW n \in Radio, Sender(n)
  PROVE  /\ \A m \in Radio : m # n => result'[m] = result[m] /\ snd'[m] = snd[m] /\ Now(m)' = Now(m)
         /\ Now(n) \in Nat \ {0}
         /\ \/ result' = result /\ Now(n)' = Now(n)
            \/ Now(n)' = Now(n) + 1 /\ RxMode(n) /\ ~Retries(n)
<1>1. \/ result' = result
      \/ RxMode(n) /\ ~Retries(n) /\ \E b \in BOOLEAN : result' = [result EXCEPT ![n] = Append(result[n], b)]
  BY DEF Sender, SendStarts, SendDrained, SendReads, Loads, TxMode, HasTxIntr, HasMaxRtIntr, TxIntrClr,
         RtIntrClr, FlushTx, RxMode, SendOk, SendLost, Retries, Returns
<1>2. \A m \in Radio : m # n => snd'[m] = snd[m]
  BY DEF Sender, SendStarts, SendDrained, SendReads, Loads, TxMode, HasTxIntr, HasMaxRtIntr, TxIntrClr,
         RtIntrClr, FlushTx, RxMode, SendOk, SendLost, Retries, Returns, SndGoes, RadioTypeOK
<1>3. result[n] \in Seq(BOOLEAN) /\ Len(result[n]) \in Nat
  BY DEF RadioTypeOK
<1>4. \A b \in BOOLEAN : Len(Append(result[n], b)) = Len(result[n]) + 1
  BY <1>3
<1>5. CASE result' = result
  BY <1>2, <1>3, <1>5 DEF Now
<1>6. CASE RxMode(n) /\ ~Retries(n) /\ \E b \in BOOLEAN : result' = [result EXCEPT ![n] = Append(result[n], b)]
  <2>1. PICK b \in BOOLEAN : result' = [result EXCEPT ![n] = Append(result[n], b)]
    BY <1>6
  <2>2. result'[n] = Append(result[n], b) /\ \A m \in Radio : m # n => result'[m] = result[m]
    BY <2>1, Zenon DEF RadioTypeOK
  <2> QED BY <1>2, <1>3, <1>4, <1>6, <2>2 DEF Now
<1> QED BY <1>1, <1>5, <1>6

LEMMA BusyStep == RadioTypeOK /\ Busy /\ [RadioNext]_radioVars => Busy'
<1> SUFFICES ASSUME RadioTypeOK, Busy, [RadioNext]_radioVars, NEW m \in Radio, snd'[m].pc # "recv"
             PROVE  Now(m)' <= Len(traffic'[m])
  BY DEF Busy
<1>1. CASE UNCHANGED <<traffic, snd, result>>
  BY <1>1 DEF Busy, Now
<1>2. ASSUME NEW n \in Radio, Sender(n) PROVE Now(m)' <= Len(traffic'[m])
  <2>1. traffic' = traffic
    BY <1>2 DEF Sender, SendStarts, SendDrained, SendReads, Loads, TxMode, HasTxIntr, HasMaxRtIntr, TxIntrClr,
         RtIntrClr, FlushTx, RxMode, Quiet
  <2>2. CASE m # n
    BY <1>2, <2>1, <2>2, NowParts DEF Busy
  <2>3. CASE m = n /\ RxMode(n) /\ ~Retries(n)
    <3>1. snd' = [snd EXCEPT ![n] = SndIdle]
      BY <2>3 DEF RxMode, SendOk, SendLost, Returns
    <3> QED BY <2>3, <3>1 DEF SndIdle, RadioTypeOK
  <2>4. CASE m = n /\ ~(RxMode(n) /\ ~Retries(n))
    <3>1. Now(n)' = Now(n)
      BY <1>2, <2>4, NowParts
    <3>2. snd[n].pc # "recv" \/ SendStarts(n)
      BY <1>2 DEF Sender, SendDrained, SendReads, Loads, TxMode, HasTxIntr, HasMaxRtIntr, TxIntrClr,
         RtIntrClr, FlushTx, RxMode, SendOk, SendLost, Retries, SndAt
    <3> QED BY <2>1, <2>4, <3>1, <3>2 DEF Busy, SendStarts
  <2> QED BY <2>2, <2>3, <2>4
<1>3. ASSUME NEW n \in Radio, Chip(n) \/ Receiver(n) PROVE UNCHANGED <<traffic, snd, result>>
  BY <1>3 DEF Chip, Arrives, AnswerLost, PacketLost, OnAir, Receiver, RecvPolls, RecvReads, RecvMore, RecvDelivers
<1> QED BY <1>1, <1>2, <1>3 DEF RadioNext, radioVars

(* Queues of packets with rising numbers.                                  *)
LEMMA RisingPush ==
  ASSUME NEW S, \A x \in S : x.id \in Nat, NEW s \in Seq(S), NEW e \in S,
         NEW lo \in Nat, NEW hi \in Nat, Rising(s, lo, hi), hi <= e.id, lo <= hi
  PROVE  Rising(Append(s, e), lo, e.id)
<1>1. /\ Append(s, e) \in Seq(S) /\ Len(Append(s, e)) = Len(s) + 1 /\ Len(s) \in Nat
      /\ \A i \in 1..Len(s) : Append(s, e)[i] = s[i] /\ s[i] \in S /\ s[i].id \in Nat
      /\ Append(s, e)[Len(s) + 1] = e
  OBVIOUS
<1>2. DOMAIN s = 1..Len(s) /\ DOMAIN Append(s, e) = 1..Len(s) + 1
  BY <1>1
<1> QED BY <1>1, <1>2 DEF Rising

LEMMA RisingPop ==
  ASSUME NEW S, \A x \in S : x.id \in Nat, NEW s \in Seq(S), s # <<>>,
         NEW lo \in Nat, NEW hi \in Nat, Rising(s, lo, hi)
  PROVE  /\ lo <= Head(s).id /\ Head(s).id <= hi
         /\ Rising(s, Head(s).id, hi) /\ Rising(Tail(s), Head(s).id, hi)
<1>1. /\ Tail(s) \in Seq(S) /\ Len(Tail(s)) = Len(s) - 1 /\ Len(s) \in Nat \ {0} /\ Head(s) = s[1]
      /\ \A i \in 1..Len(s) - 1 : Tail(s)[i] = s[i + 1]
      /\ \A i \in 1..Len(s) : s[i].id \in Nat
  BY HeadTail
<1>2. DOMAIN s = 1..Len(s) /\ DOMAIN Tail(s) = 1..Len(s) - 1
  BY <1>1
<1> QED BY <1>1, <1>2 DEF Rising

LEMMA RisingWiden ==
  ASSUME NEW S, \A x \in S : x.id \in Nat, NEW s \in Seq(S),
         NEW lo \in Nat, NEW hi \in Nat, NEW lo2 \in Nat, NEW hi2 \in Nat,
         Rising(s, lo, hi), lo2 <= lo, hi <= hi2
  PROVE  Rising(s, lo2, hi2)
<1>1. \A i \in DOMAIN s : s[i].id \in Nat
  OBVIOUS
<1> QED BY <1>1 DEF Rising

(* What is genuine stays so through Append and Tail.                       *)
LEMMA CarryPushPop ==
  ASSUME NEW q, NEW S, NEW s \in Seq(S), AllCarry(q, s)
  PROVE  /\ \A e \in S : Carries(q, e) => AllCarry(q, Append(s, e))
         /\ s # <<>> => Carries(q, Head(s)) /\ AllCarry(q, Tail(s))
<1>1. ASSUME NEW e \in S, Carries(q, e) PROVE AllCarry(q, Append(s, e))
  <2>1. /\ Len(Append(s, e)) = Len(s) + 1 /\ Len(s) \in Nat /\ Append(s, e) \in Seq(S)
        /\ \A i \in 1..Len(s) : Append(s, e)[i] = s[i]
        /\ Append(s, e)[Len(s) + 1] = e
    OBVIOUS
  <2>2. DOMAIN s = 1..Len(s) /\ DOMAIN Append(s, e) = 1..Len(s) + 1
    BY <2>1
  <2> HIDE DEF Carries
  <2> QED BY <1>1, <2>1, <2>2 DEF AllCarry
<1>2. ASSUME s # <<>> PROVE Carries(q, Head(s)) /\ AllCarry(q, Tail(s))
  <2>1. /\ Tail(s) \in Seq(S) /\ Len(Tail(s)) = Len(s) - 1 /\ Len(s) \in Nat \ {0} /\ Head(s) = s[1]
        /\ \A i \in 1..Len(s) - 1 : Tail(s)[i] = s[i + 1]
    BY <1>2, HeadTail
  <2>2. DOMAIN s = 1..Len(s) /\ DOMAIN Tail(s) = 1..Len(s) - 1
    BY <2>1
  <2> QED BY <2>1, <2>2 DEF AllCarry
<1> QED BY <1>1, <1>2

LEMMA ToldPush ==
  ASSUME NEW q, NEW S, NEW s \in Seq(S), NEW e \in S, AllTold(q, s), Told(q, e)
  PROVE  AllTold(q, Append(s, e))
<1>1. /\ Len(Append(s, e)) = Len(s) + 1 /\ Len(s) \in Nat /\ Append(s, e) \in Seq(S)
      /\ \A i \in 1..Len(s) : Append(s, e)[i] = s[i]
      /\ Append(s, e)[Len(s) + 1] = e
  OBVIOUS
<1>2. DOMAIN s = 1..Len(s) /\ DOMAIN Append(s, e) = 1..Len(s) + 1
  BY <1>1
<1> QED BY <1>1, <1>2 DEF AllTold

GenuineOf(n) ==
  /\ AllCarry(n, chip[n].txq) /\ AllCarry(Peer(n), chip[n].rxq)
  /\ ~raced[n] => /\ AllTold(Peer(n), inbox[n])
                  /\ rcv[n].pkt # NoPkt => Carries(Peer(n), rcv[n].pkt)
                  /\ rcv[n].pc = "more" => rcv[n].pkt # NoPkt

LEMMA Facts ==
  ASSUME RadioTypeOK, NEW n \in Radio
  PROVE  /\ Peer(n) \in Radio /\ Peer(n) # n /\ Peer(Peer(n)) = n
         /\ chip[n].txq \in Seq(OutPkt) /\ chip[n].rxq \in Seq(InPkt) /\ inbox[n] \in Seq(Seen)
         /\ rcv[n].pkt \in InPkt /\ Now(n) \in Nat \ {0}
         /\ \A x \in OutPkt \cup InPkt \cup Seen : x.id \in Nat
         /\ traffic[n] \in Seq(Message)
<1>1. chip[n] \in ChipState /\ rcv[n] \in RcvState /\ result[n] \in Seq(BOOLEAN) /\ traffic[n] \in Seq(Message)
  BY DEF RadioTypeOK
<1>2. Len(result[n]) \in Nat
  BY <1>1
<1>3. \A x \in OutPkt \cup InPkt \cup Seen : x.id \in Nat
  BY DEF OutPkt, InPkt, Seen
<1>4. chip[n].txq \in Seq(OutPkt) /\ chip[n].rxq \in Seq(InPkt) /\ inbox[n] \in Seq(Seen) /\ rcv[n].pkt \in InPkt
  BY <1>1 DEF RadioTypeOK, ChipState, RcvState
<1> HIDE DEF RadioTypeOK
<1> QED BY <1>1, <1>2, <1>3, <1>4, Peers DEF Now

(* Steps that leave a side as it is, or empty its FIFO, keep Genuine there.*)
LEMMA GenuineKept ==
  ASSUME RadioTypeOK, Genuine, NEW n \in Radio, traffic' = traffic,
         chip'[n].txq = chip[n].txq \/ chip'[n].txq = <<>>, chip'[n].rxq = chip[n].rxq,
         inbox'[n] = inbox[n], raced'[n] = raced[n], rcv'[n] = rcv[n]
  PROVE  GenuineOf(n)'
<1>1. GenuineOf(n)
  BY DEF Genuine, GenuineOf
<1>2. AllCarry(n, <<>>)
  BY DEF AllCarry
<1> QED BY <1>1, <1>2 DEF GenuineOf, AllCarry, Carries, AllTold, Told

LEMMA GenuineOnAir ==
  ASSUME RadioTypeOK, Genuine, NEW n \in Radio, NEW heard \in BOOLEAN, NEW answered \in BOOLEAN,
         OnAir(n, heard, answered)
  PROVE  Genuine'
<1> DEFINE q == Peer(n)  p == Head(chip[n].txq)  e == Pkt(p.body, p.id)
<1>1. q \in Radio /\ q # n /\ Peer(q) = n /\ \A m \in Radio : m = n \/ m = q
  BY Peers
<1>2. /\ UNCHANGED <<traffic, inbox, raced, rcv>> /\ chip[n].txq # <<>>
  BY DEF OnAir
<1>3. p \in OutPkt /\ Carries(n, p) /\ AllCarry(n, Tail(chip[n].txq)) /\ e \in InPkt /\ Carries(n, e)
  <2>1. p \in OutPkt /\ Carries(n, p) /\ AllCarry(n, Tail(chip[n].txq))
    BY <1>2, Facts, HeadTail, CarryPushPop DEF Genuine
  <2> QED BY <2>1 DEF Carries, Pkt, OutPkt, InPkt
<1>4. AllCarry(n, chip[q].rxq) /\ AllCarry(n, Append(chip[q].rxq, e))
  <2> HIDE DEF e
  <2> QED BY <1>1, <1>3, Facts, CarryPushPop DEF Genuine
<1>5. /\ chip'[n].rxq = chip[n].rxq /\ chip'[n].txq \in {chip[n].txq, Tail(chip[n].txq)}
      /\ chip'[q].txq = chip[q].txq /\ chip'[q].rxq \in {chip[q].rxq, Append(chip[q].rxq, e)}
  BY <1>1, OnAirParts
<1> HIDE DEF q, e, p
<1>6. GenuineOf(n)'
  <2>1. GenuineOf(n) /\ AllCarry(n, chip'[n].txq)
    BY <1>3, <1>5 DEF Genuine, GenuineOf
  <2> QED BY <1>2, <1>5, <2>1 DEF GenuineOf, AllCarry, Carries, AllTold, Told
<1>7. GenuineOf(q)'
  <2>1. GenuineOf(q) /\ AllCarry(Peer(q), chip'[q].rxq)
    BY <1>1, <1>4, <1>5 DEF Genuine, GenuineOf
  <2> QED BY <1>2, <1>5, <2>1 DEF GenuineOf, AllCarry, Carries, AllTold, Told
<1> QED BY <1>1, <1>6, <1>7 DEF Genuine, GenuineOf

LEMMA GenuineReads ==
  ASSUME RadioTypeOK, Genuine, NEW n \in Radio, NEW p \in Payload(n), Reads(n, p), traffic' = traffic, inbox' = inbox,
         rcv' = rcv \/ (rcv' = [rcv EXCEPT ![n] = [pc |-> "more", pkt |-> IF rcv[n].pkt = NoPkt THEN p ELSE rcv[n].pkt]])
  PROVE  Genuine'
<1>1. ASSUME NEW m \in Radio, m # n PROVE GenuineOf(m)'
  <2>1. chip'[m] = chip[m] /\ raced'[m] = raced[m]
    BY <1>1, ReadParts
  <2>2. rcv'[m] = rcv[m]
    BY <1>1 DEF RadioTypeOK
  <2> QED BY <2>1, <2>2, GenuineKept
<1>2. AllCarry(Peer(n), chip[n].rxq) /\ GenuineOf(n)
  BY DEF Genuine, GenuineOf
<1>3. chip[n].rxq # <<>> => Carries(Peer(n), Head(chip[n].rxq)) /\ AllCarry(Peer(n), Tail(chip[n].rxq))
  BY <1>2, Facts, CarryPushPop
<1>4. AllCarry(Peer(n), chip'[n].rxq) /\ AllCarry(n, chip'[n].txq)
  BY <1>2, <1>3, ReadParts DEF GenuineOf
<1>5. ~raced'[n] => ~raced[n] /\ Carries(Peer(n), p)
  BY <1>3, ReadParts
<1>6. Carries(Peer(n), p) => p # NoPkt
  BY DEF Carries, NoPkt, Pkt
<1>7. ~raced'[n] => /\ AllTold(Peer(n), inbox[n])
                    /\ rcv'[n].pkt # NoPkt => Carries(Peer(n), rcv'[n].pkt)
                    /\ rcv'[n].pc = "more" => rcv'[n].pkt # NoPkt
  <2>1. CASE rcv' = rcv
    BY <1>2, <1>5, <2>1 DEF GenuineOf
  <2>2. CASE rcv' = [rcv EXCEPT ![n] = [pc |-> "more", pkt |-> IF rcv[n].pkt = NoPkt THEN p ELSE rcv[n].pkt]]
    <3>1. rcv'[n].pkt = (IF rcv[n].pkt = NoPkt THEN p ELSE rcv[n].pkt)
      BY <2>2 DEF RadioTypeOK
    <3> QED BY <1>2, <1>5, <1>6, <3>1 DEF GenuineOf
  <2> QED BY <2>1, <2>2
<1>8. GenuineOf(n)'
  BY <1>4, <1>7 DEF GenuineOf, AllCarry, Carries, AllTold, Told
<1> QED BY <1>1, <1>8 DEF Genuine, GenuineOf

LEMMA GenuineReceiver ==
  ASSUME RadioTypeOK, Genuine, NEW n \in Radio, Receiver(n)
  PROVE  Genuine'
<1>0. rcv[n] \in RcvState
  BY DEF RadioTypeOK
<1>1. CASE RecvPolls(n) \/ RecvMore(n)
  <2>1. \/ rcv' = [rcv EXCEPT ![n] = [pc |-> "read", pkt |-> NoPkt]]
        \/ rcv' = [rcv EXCEPT ![n] = [pc |-> "read", pkt |-> rcv[n].pkt]]
    BY <1>1 DEF RecvPolls, RecvMore, RcvGoes
  <2>2. UNCHANGED <<traffic, chip, inbox, raced>>
    BY <1>1 DEF RecvPolls, RecvMore, hist
  <2>3. ASSUME NEW m \in Radio PROVE GenuineOf(m)'
    <3>1. rcv'[m] = rcv[m] \/ (rcv'[m].pc = "read" /\ rcv'[m].pkt \in {NoPkt, rcv[m].pkt})
      BY <2>1 DEF RadioTypeOK
    <3>2. GenuineOf(m)
      BY DEF Genuine, GenuineOf
    <3> QED BY <2>2, <3>1, <3>2 DEF GenuineOf, AllCarry, Carries, AllTold, Told
  <2> QED BY <2>3 DEF Genuine, GenuineOf
<1>2. CASE RecvReads(n)
  <2>1. PICK p \in Payload(n) :
          /\ Reads(n, p)
          /\ rcv' = [rcv EXCEPT ![n] = [pc |-> "more", pkt |-> IF rcv[n].pkt = NoPkt THEN p ELSE rcv[n].pkt]]
    BY <1>2 DEF RecvReads, RcvGoes
  <2>2. UNCHANGED <<traffic, inbox>>
    BY <1>2 DEF RecvReads
  <2> QED BY <2>1, <2>2, GenuineReads
<1>3. CASE RecvDelivers(n)
  <2> DEFINE q == Peer(n)  pkt == rcv[n].pkt
             e == [val |-> FromPacket(pkt.body), id |-> pkt.id]
  <2>1. UNCHANGED <<traffic, chip, raced>> /\ rcv' = [rcv EXCEPT ![n] = [pc |-> "poll", pkt |-> NoPkt]] /\ rcv[n].pc = "more"
    BY <1>3 DEF RecvDelivers, hist, RcvGoes, RcvAt
  <2>2. inbox' = inbox \/ (inbox' = [inbox EXCEPT ![n] = Append(inbox[n], e)] /\ FromPacket(pkt.body) # NoMessage)
    BY <1>3 DEF RecvDelivers
  <2>3. q \in Radio /\ pkt \in InPkt /\ inbox[n] \in Seq(Seen) /\ traffic[q] \in Seq(Message)
    BY Facts
  <2>4. e \in Seen
    BY <2>3 DEF Seen, InPkt
  <2>5. ~raced[n] => Carries(q, pkt) /\ AllTold(q, inbox[n])
    BY <2>1 DEF Genuine
  <2>6. ~raced[n] /\ FromPacket(pkt.body) # NoMessage => Told(q, e)
    <3>1. Carries(q, pkt) => traffic[q][pkt.id] \in Message
      BY <2>3 DEF Carries
    <3> QED BY <2>5, <3>1, PacketAssumption DEF Carries, Told
  <2> HIDE DEF e, pkt, q
  <2>7. ~raced[n] => AllTold(q, inbox'[n])
    <3>1. inbox'[n] = inbox[n] \/ (inbox'[n] = Append(inbox[n], e) /\ FromPacket(pkt.body) # NoMessage)
      BY <2>2, Zenon DEF RadioTypeOK
    <3> QED BY <2>3, <2>4, <2>5, <2>6, <3>1, ToldPush
  <2>8. GenuineOf(n)'
    <3>1. rcv'[n] = [pc |-> "poll", pkt |-> NoPkt]
      BY <2>1 DEF RadioTypeOK
    <3>2. GenuineOf(n)
      BY DEF Genuine, GenuineOf
    <3> QED BY <2>1, <2>7, <3>1, <3>2 DEF GenuineOf, AllCarry, Carries, AllTold, Told, q
  <2>9. ASSUME NEW m \in Radio, m # n PROVE GenuineOf(m)'
    <3>1. rcv'[m] = rcv[m] /\ inbox'[m] = inbox[m]
      BY <2>1, <2>2, <2>9, Zenon DEF RadioTypeOK
    <3> QED BY <2>1, <3>1, GenuineKept
  <2> QED BY <2>8, <2>9 DEF Genuine, GenuineOf
<1> QED BY <1>1, <1>2, <1>3 DEF Receiver

LEMMA GenuineSender ==
  ASSUME RadioTypeOK, Busy, Genuine, NEW n \in Radio, Sender(n)
  PROVE  Genuine'
<1>1. UNCHANGED <<traffic, inbox, rcv>>
  BY DEF Sender, SendStarts, SendDrained, SendReads, Loads, TxMode, HasTxIntr, HasMaxRtIntr, TxIntrClr,
         RtIntrClr, FlushTx, RxMode, Quiet
<1>2. CASE SendReads(n)
  BY <1>1, <1>2, GenuineReads DEF SendReads
<1>3. CASE Loads(n)
  <2> DEFINE p == [body |-> ToPacket(traffic[n][Now(n)]), id |-> Now(n), pid |-> chip[n].pid]
  <2>1. raced' = raced
    BY <1>3 DEF Loads
  <2>2. ASSUME NEW m \in Radio, m # n PROVE GenuineOf(m)'
    BY <1>1, <1>3, <2>1, <2>2, LoadParts, GenuineKept
  <2>3. p.id \in 1..Len(traffic[n])
    BY <1>3, Facts DEF Busy, Loads, SndAt
  <2>4. p \in OutPkt /\ Carries(n, p)
    <3>1. chip[n].pid \in Nat /\ traffic[n][Now(n)] \in Message
      BY <2>3, Facts DEF RadioTypeOK, ChipState
    <3>2. p.id \in Nat
      BY Facts
    <3> QED BY <2>3, <3>1, <3>2 DEF OutPkt, Body, Carries
  <2>5. chip'[n].rxq = chip[n].rxq /\ chip'[n].txq \in {chip[n].txq, Append(chip[n].txq, p)}
    BY <1>3, LoadParts
  <2> HIDE DEF p
  <2>6. GenuineOf(n) /\ AllCarry(n, chip'[n].txq)
    <3>1. GenuineOf(n)
      BY DEF Genuine, GenuineOf
    <3>2. AllCarry(n, chip[n].txq) /\ chip[n].txq \in Seq(OutPkt)
      BY <3>1, Facts DEF GenuineOf
    <3> QED BY <2>4, <2>5, <3>1, <3>2, CarryPushPop
  <2>7. GenuineOf(n)'
    BY <1>1, <2>1, <2>5, <2>6 DEF GenuineOf, AllCarry, Carries, AllTold, Told
  <2> QED BY <2>2, <2>7 DEF Genuine, GenuineOf
<1>4. CASE Dull(n)
  BY <1>1, <1>4, DullParts, GenuineKept DEF Genuine, GenuineOf
<1> QED BY <1>2, <1>3, <1>4 DEF Sender, Dull

LEMMA GenuineStep == RadioTypeOK /\ Busy /\ Genuine /\ [RadioNext]_radioVars => Genuine'
<1> SUFFICES ASSUME RadioTypeOK, Busy, Genuine, [RadioNext]_radioVars PROVE Genuine'
  OBVIOUS
<1>1. CASE UNCHANGED radioVars
  BY <1>1, GenuineKept DEF radioVars, hist, Genuine, GenuineOf
<1>2. ASSUME NEW n \in Radio, Chip(n) PROVE Genuine'
  <2>1. PICK h \in BOOLEAN, a \in BOOLEAN : OnAir(n, h, a)
    <3>1. (~acked) \in BOOLEAN
      BY DEF RadioTypeOK
    <3> QED BY <1>2, <3>1 DEF Chip, Arrives, AnswerLost, PacketLost
  <2> QED BY <2>1, GenuineOnAir
<1> QED BY <1>1, <1>2, GenuineReceiver, GenuineSender DEF RadioNext

FlowOf(m) == \E a, b, c \in Nat : Stages(m, a, b, c)

(* A queue that only gets emptied, and a later message, keep the marks.    *)
LEMMA FlowKept ==
  ASSUME RadioTypeOK, Flow, NEW m \in Radio, NEW q \in Radio, q = Peer(m),
         chip'[q].txq = chip[q].txq \/ chip'[q].txq = <<>>, chip'[m].rxq = chip[m].rxq,
         inbox'[m] = inbox[m], raced'[m] = raced[m],
         rcv'[m].pkt = rcv[m].pkt \/ rcv'[m].pkt = NoPkt,
         Now(q)' = Now(q) \/ Now(q)' = Now(q) + 1
  PROVE  FlowOf(m)'
<1>1. PICK a \in Nat, b \in Nat, c \in Nat : Stages(m, a, b, c)
  BY DEF Flow
<1>2. Now(q) \in Nat /\ chip[q].txq \in Seq(OutPkt) /\ \A x \in OutPkt : x.id \in Nat
  BY Facts
<1>3. Now(q)' \in Nat /\ Now(q) <= Now(q)'
  BY <1>2
<1>4. Rising(chip[q].txq, c, Now(q)') /\ Rising(<<>>, c, Now(q)')
  <2>1. Rising(chip[q].txq, c, Now(q))
    BY <1>1 DEF Stages
  <2>2. Rising(chip[q].txq, c, Now(q)')
    BY <1>2, <1>3, <2>1, RisingWiden
  <2> QED BY <2>2 DEF Rising
<1>5. Rising(chip'[q].txq, c, Now(q)')
  BY <1>4
<1>6. c <= Now(q)'
  BY <1>1, <1>2, <1>3 DEF Stages
<1>7. Stages(m, a, b, c)'
  BY <1>1, <1>5, <1>6 DEF Stages
<1> QED BY <1>7 DEF FlowOf

(* On the air, in a read and in a delivery one packet moves a stage, and   *)
(* one mark with it.                                                       *)
LEMMA FlowOnAir ==
  ASSUME RadioTypeOK, Flow, NEW n \in Radio, NEW heard \in BOOLEAN, NEW answered \in BOOLEAN,
         OnAir(n, heard, answered)
  PROVE  Flow'
<1> DEFINE q == Peer(n)  p == Head(chip[n].txq)  e == Pkt(p.body, p.id)
<1>1. q \in Radio /\ q # n /\ Peer(q) = n /\ \A m \in Radio : m = n \/ m = q
  BY Peers
<1>2. /\ UNCHANGED <<inbox, raced, rcv>> /\ chip[n].txq # <<>> /\ Now(n)' = Now(n) /\ Now(q)' = Now(q)
  BY DEF OnAir, Now
<1>3. /\ chip'[n].rxq = chip[n].rxq /\ chip'[n].txq \in {chip[n].txq, Tail(chip[n].txq)}
      /\ chip'[q].txq = chip[q].txq /\ chip'[q].rxq \in {chip[q].rxq, Append(chip[q].rxq, e)}
  BY <1>1, OnAirParts
<1>4. FlowOf(n)'
  BY <1>1, <1>2, <1>3, FlowKept
<1>5. PICK a \in Nat, b \in Nat, c \in Nat : Stages(q, a, b, c)
  BY <1>1 DEF Flow
<1>6. /\ chip[n].txq \in Seq(OutPkt) /\ chip[q].rxq \in Seq(InPkt) /\ Now(n) \in Nat
      /\ \A x \in OutPkt : x.id \in Nat
      /\ \A x \in InPkt : x.id \in Nat
  BY <1>1, Facts
<1>7. p \in OutPkt /\ p.id \in Nat /\ e \in InPkt /\ e.id = p.id
  <2>1. p \in OutPkt
    BY <1>2, <1>6, HeadTail
  <2> QED BY <2>1 DEF OutPkt, InPkt, Pkt
<1>8. /\ c <= p.id /\ p.id <= Now(n) /\ b <= p.id
      /\ Rising(chip[n].txq, p.id, Now(n)) /\ Rising(Tail(chip[n].txq), p.id, Now(n))
      /\ Rising(chip[q].rxq, b, p.id) /\ Rising(Append(chip[q].rxq, e), b, p.id)
  <2>1. /\ Rising(chip[n].txq, c, Now(n)) /\ Rising(chip[q].rxq, b, c) /\ b <= c
    BY <1>1, <1>5 DEF Stages
  <2>2. /\ c <= p.id /\ p.id <= Now(n)
        /\ Rising(chip[n].txq, p.id, Now(n)) /\ Rising(Tail(chip[n].txq), p.id, Now(n))
    BY <1>2, <1>6, <2>1, RisingPop
  <2>3. Rising(chip[q].rxq, b, p.id)
    BY <1>6, <1>7, <2>1, <2>2, RisingWiden
  <2> HIDE DEF e, p
  <2>4. Rising(Append(chip[q].rxq, e), b, e.id)
    BY <1>6, <1>7, <2>1, <2>2, RisingPush
  <2> QED BY <1>7, <2>1, <2>2, <2>3, <2>4
<1> HIDE DEF p, e, q
<1>9. Rising(chip'[n].txq, p.id, Now(n)') /\ Rising(chip'[q].rxq, b, p.id)
  BY <1>2, <1>3, <1>8
<1>10. PICK d \in Nat : d = p.id
  BY <1>7
<1>11. Stages(q, a, b, d)'
  BY <1>1, <1>2, <1>5, <1>8, <1>9, <1>10 DEF Stages
<1>12. FlowOf(q)'
  BY <1>11 DEF FlowOf
<1> QED BY <1>1, <1>4, <1>12 DEF Flow, FlowOf

LEMMA FlowReads ==
  ASSUME RadioTypeOK, Flow, NEW n \in Radio, NEW p \in Payload(n), Reads(n, p), inbox' = inbox,
         \A m \in Radio : Now(m)' = Now(m),
         rcv' = rcv \/ (rcv' = [rcv EXCEPT ![n] = [pc |-> "more", pkt |-> IF rcv[n].pkt = NoPkt THEN p ELSE rcv[n].pkt]])
  PROVE  Flow'
<1> DEFINE q == Peer(n)
<1>1. q \in Radio /\ q # n /\ Peer(q) = n /\ \A m \in Radio : m = n \/ m = q
  BY Peers
<1>2. FlowOf(q)'
  <2>1. rcv'[q] = rcv[q]
    BY <1>1 DEF RadioTypeOK
  <2> QED BY <1>1, <2>1, ReadParts, FlowKept
<1>3. PICK a \in Nat, b \in Nat, c \in Nat : Stages(n, a, b, c)
  BY DEF Flow
<1>4. chip'[q].txq = chip[q].txq
  BY <1>1, ReadParts
<1>5. /\ chip[n].rxq \in Seq(InPkt) /\ \A x \in InPkt : x.id \in Nat
      /\ rcv[n].pkt \in InPkt
  BY Facts
<1>6. rcv'[n].pkt \in {rcv[n].pkt, p} /\ (rcv[n].pkt # NoPkt => rcv'[n].pkt = rcv[n].pkt)
  BY DEF RadioTypeOK
<1>7. CASE chip'[n].rxq = chip[n].rxq /\ raced'[n]
  <2>1. Stages(n, a, b, c)'
    BY <1>1, <1>3, <1>4, <1>7 DEF Stages
  <2> QED BY <1>1, <1>2, <2>1 DEF Flow, FlowOf
<1>8. CASE chip[n].rxq # <<>> /\ chip'[n].rxq = Tail(chip[n].rxq)
  <2> DEFINE h == Head(chip[n].rxq)
  <2>1. h.id \in Nat
    BY <1>5, <1>8, HeadTail
  <2>2. b <= h.id /\ h.id <= c /\ Rising(chip'[n].rxq, h.id, c)
    <3>1. Rising(chip[n].rxq, b, c)
      BY <1>3 DEF Stages
    <3> QED BY <1>5, <1>8, <3>1, RisingPop
  <2>3. raced'[n] \/ (p = h /\ raced'[n] = raced[n])
    BY ReadParts
  <2> HIDE DEF h, q
  <2>4. a <= h.id /\ a <= b /\ h.id <= c
    BY <1>3, <2>1, <2>2 DEF Stages
  <2>5. ~raced'[n] => /\ rcv'[n].pkt # NoPkt => a <= rcv'[n].pkt.id /\ rcv'[n].pkt.id <= h.id
                      /\ Rising(inbox[n], 0, a)
    <3> SUFFICES ASSUME ~raced'[n] PROVE /\ rcv'[n].pkt # NoPkt => a <= rcv'[n].pkt.id /\ rcv'[n].pkt.id <= h.id
                                        /\ Rising(inbox[n], 0, a)
      OBVIOUS
    <3>1. p = h /\ ~raced[n]
      BY <2>3
    <3>2. Rising(inbox[n], 0, a) /\ (rcv[n].pkt # NoPkt => a <= rcv[n].pkt.id /\ rcv[n].pkt.id <= b)
      BY <1>3, <3>1 DEF Stages
    <3>3. rcv[n].pkt.id \in Nat
      BY <1>5
    <3>4. CASE rcv'[n].pkt = p
      BY <2>1, <2>4, <3>1, <3>2, <3>4
    <3>5. CASE rcv'[n].pkt = rcv[n].pkt
      BY <2>1, <2>2, <3>2, <3>3, <3>5
    <3> QED BY <1>6, <3>2, <3>4, <3>5
  <2>6. PICK d \in Nat : d = h.id
    BY <2>1
  <2>7. Now(q)' = Now(q)
    BY <1>1
  <2>8. Stages(n, a, d, c)'
    BY <1>1, <1>3, <1>4, <2>2, <2>4, <2>5, <2>6, <2>7 DEF Stages, q
  <2> QED BY <1>1, <1>2, <2>8 DEF Flow, FlowOf
<1> QED BY <1>7, <1>8, ReadParts

LEMMA FlowReceiver ==
  ASSUME RadioTypeOK, Genuine, Flow, NEW n \in Radio, Receiver(n)
  PROVE  Flow'
<1>0. \A m \in Radio : Now(m)' = Now(m)
  BY DEF Receiver, RecvPolls, RecvReads, RecvMore, RecvDelivers, Now
<1>1. CASE RecvPolls(n) \/ RecvMore(n)
  <2>1. \/ rcv' = [rcv EXCEPT ![n] = [pc |-> "read", pkt |-> NoPkt]]
        \/ rcv' = [rcv EXCEPT ![n] = [pc |-> "read", pkt |-> rcv[n].pkt]]
    BY <1>1 DEF RecvPolls, RecvMore, RcvGoes
  <2>2. UNCHANGED <<chip, inbox, raced>>
    BY <1>1 DEF RecvPolls, RecvMore, hist
  <2>3. ASSUME NEW m \in Radio PROVE FlowOf(m)'
    <3>1. rcv'[m].pkt = rcv[m].pkt \/ rcv'[m].pkt = NoPkt
      <4>1. rcv \in [Radio -> RcvState]
        BY DEF RadioTypeOK
      <4> QED BY <2>1, <4>1
    <3> QED BY <1>0, <2>2, <3>1, Peers, FlowKept
  <2> QED BY <2>3 DEF Flow, FlowOf
<1>2. CASE RecvReads(n)
  <2>1. PICK p \in Payload(n) :
          /\ Reads(n, p)
          /\ rcv' = [rcv EXCEPT ![n] = [pc |-> "more", pkt |-> IF rcv[n].pkt = NoPkt THEN p ELSE rcv[n].pkt]]
    BY <1>2 DEF RecvReads, RcvGoes
  <2>2. inbox' = inbox
    BY <1>2 DEF RecvReads
  <2> QED BY <1>0, <2>1, <2>2, FlowReads
<1>3. CASE RecvDelivers(n)
  <2> DEFINE pkt == rcv[n].pkt
             e == [val |-> FromPacket(pkt.body), id |-> pkt.id]
  <2>1. UNCHANGED <<chip, raced>> /\ rcv' = [rcv EXCEPT ![n] = [pc |-> "poll", pkt |-> NoPkt]] /\ rcv[n].pc = "more"
    BY <1>3 DEF RecvDelivers, hist, RcvGoes, RcvAt
  <2>2. inbox' = inbox \/ inbox' = [inbox EXCEPT ![n] = Append(inbox[n], e)]
    BY <1>3 DEF RecvDelivers
  <2>3. pkt \in InPkt /\ inbox[n] \in Seq(Seen) /\ \A x \in Seen : x.id \in Nat
    BY Facts
  <2>4. e \in Seen /\ e.id = pkt.id /\ pkt.id \in Nat
    BY <2>3 DEF Seen, InPkt
  <2>5. PICK a \in Nat, b \in Nat, c \in Nat : Stages(n, a, b, c)
    BY DEF Flow
  <2> HIDE DEF e, pkt
  <2>6. rcv'[n].pkt = NoPkt /\ \A m \in Radio : m # n => rcv'[m] = rcv[m] /\ inbox'[m] = inbox[m]
    BY <2>1, <2>2 DEF RadioTypeOK
  <2>7. ASSUME NEW m \in Radio, m # n PROVE FlowOf(m)'
    BY <1>0, <2>1, <2>6, <2>7, Peers, FlowKept
  <2>8. CASE raced[n]
    <3>1. Stages(n, a, b, c)'
      BY <1>0, <2>1, <2>5, <2>8, Peers DEF Stages
    <3> QED BY <2>7, <3>1 DEF Flow, FlowOf
  <2>9. CASE ~raced[n]
    <3>1. a <= pkt.id /\ pkt.id <= b /\ Rising(inbox[n], 0, a) /\ b <= c
      BY <2>1, <2>5, <2>9 DEF Stages, Genuine, pkt
    <3>2. Rising(inbox[n], 0, pkt.id)
      BY <2>3, <2>4, <3>1, RisingWiden
    <3>3. Rising(Append(inbox[n], e), 0, pkt.id)
      BY <2>3, <2>4, <3>1, RisingPush
    <3>4. Rising(inbox'[n], 0, pkt.id)
      <4>1. inbox'[n] = inbox[n] \/ inbox'[n] = Append(inbox[n], e)
        BY <2>2, Zenon DEF RadioTypeOK
      <4> QED BY <3>2, <3>3, <4>1
    <3>5. PICK d \in Nat : d = pkt.id
      BY <2>4
    <3>6. Stages(n, d, b, c)'
      BY <1>0, <2>1, <2>5, <2>6, <3>1, <3>4, <3>5, Peers DEF Stages
    <3> QED BY <2>7, <3>6 DEF Flow, FlowOf
  <2> QED BY <2>8, <2>9
<1> QED BY <1>1, <1>2, <1>3 DEF Receiver

LEMMA FlowSender ==
  ASSUME RadioTypeOK, Busy, Flow, NEW n \in Radio, Sender(n)
  PROVE  Flow'
<1>1. UNCHANGED <<inbox, rcv>>
  BY DEF Sender, SendStarts, SendDrained, SendReads, Loads, TxMode, HasTxIntr, HasMaxRtIntr, TxIntrClr,
         RtIntrClr, FlushTx, RxMode, Quiet
<1>2. CASE SendReads(n)
  <2>1. \A m \in Radio : Now(m)' = Now(m)
    BY <1>2 DEF SendReads, Now
  <2> QED BY <1>1, <1>2, <2>1, FlowReads DEF SendReads
<1>3. CASE Loads(n)
  <2> DEFINE q == Peer(n)
             p == [body |-> ToPacket(traffic[n][Now(n)]), id |-> Now(n), pid |-> chip[n].pid]
  <2>1. UNCHANGED <<raced, result>> /\ \A m \in Radio : Now(m)' = Now(m)
    BY <1>3 DEF Loads, Now
  <2>2. q \in Radio /\ q # n /\ Peer(q) = n /\ \A m \in Radio : m = n \/ m = q
    BY Peers
  <2>3. /\ chip'[n].rxq = chip[n].rxq /\ chip'[n].txq \in {chip[n].txq, Append(chip[n].txq, p)}
        /\ chip'[q] = chip[q]
    BY <1>3, <2>2, LoadParts
  <2>4. FlowOf(n)'
    BY <1>1, <2>1, <2>2, <2>3, FlowKept
  <2>5. PICK a \in Nat, b \in Nat, c \in Nat : Stages(q, a, b, c)
    BY <2>2 DEF Flow
  <2>6. Rising(chip[n].txq, c, Now(n)) /\ c <= Now(n)
    BY <2>2, <2>5 DEF Stages
  <2>7. Rising(Append(chip[n].txq, p), c, Now(n))
    <3>1. chip[n].txq \in Seq(OutPkt) /\ Now(n) \in Nat /\ chip[n].pid \in Nat /\ \A x \in OutPkt : x.id \in Nat
      BY Facts DEF RadioTypeOK, ChipState
    <3>2. p \in OutPkt
      <4>1. Now(n) \in 1..Len(traffic[n]) /\ traffic[n] \in Seq(Message)
        BY <1>3, Facts DEF Busy, Loads, SndAt
      <4> QED BY <3>1, <4>1 DEF OutPkt, Body
    <3>3. p.id = Now(n)
      OBVIOUS
    <3> HIDE DEF p
    <3>4. Rising(Append(chip[n].txq, p), c, p.id)
      BY <2>6, <3>1, <3>2, <3>3, RisingPush
    <3> QED BY <3>3, <3>4
  <2> HIDE DEF p, q
  <2>8. Rising(chip'[n].txq, c, Now(n)')
    BY <2>1, <2>3, <2>6, <2>7
  <2>9. Stages(q, a, b, c)'
    BY <1>1, <2>1, <2>2, <2>3, <2>5, <2>8 DEF Stages
  <2> QED BY <2>2, <2>4, <2>9 DEF Flow, FlowOf
<1>4. CASE Dull(n)
  <2>1. ASSUME NEW m \in Radio PROVE FlowOf(m)'
    <3> DEFINE q == Peer(m)
    <3>1. q \in Radio /\ (Now(q)' = Now(q) \/ Now(q)' = Now(q) + 1)
      BY NowParts, Peers
    <3>2. chip'[q].txq = chip[q].txq \/ chip'[q].txq = <<>>
      BY <1>4, <3>1, DullParts
    <3>3. chip'[m].rxq = chip[m].rxq
      BY <1>4, DullParts
    <3>4. raced' = raced
      BY <1>4, DullParts
    <3> QED BY <1>1, <3>1, <3>2, <3>3, <3>4, FlowKept
  <2> QED BY <2>1 DEF Flow, FlowOf
<1> QED BY <1>2, <1>3, <1>4 DEF Sender, Dull

LEMMA FlowStep == RadioTypeOK /\ Busy /\ Genuine /\ Flow /\ [RadioNext]_radioVars => Flow'
<1> SUFFICES ASSUME RadioTypeOK, Busy, Genuine, Flow, [RadioNext]_radioVars PROVE Flow'
  OBVIOUS
<1>1. CASE UNCHANGED radioVars
  <2>1. UNCHANGED <<chip, inbox, raced, rcv, result>> /\ \A m \in Radio : Now(m)' = Now(m)
    BY <1>1 DEF radioVars, hist, Now
  <2>2. ASSUME NEW m \in Radio PROVE FlowOf(m)'
    BY <2>1, Peers, FlowKept
  <2> QED BY <2>2 DEF Flow, FlowOf
<1>2. ASSUME NEW n \in Radio, Chip(n) PROVE Flow'
  <2>1. PICK h \in BOOLEAN, a \in BOOLEAN : OnAir(n, h, a)
    <3>1. (~acked) \in BOOLEAN
      BY DEF RadioTypeOK
    <3> QED BY <1>2, <3>1 DEF Chip, Arrives, AnswerLost, PacketLost
  <2> QED BY <2>1, FlowOnAir
<1> QED BY <1>1, <1>2, FlowReceiver, FlowSender DEF RadioNext

HandOf(m) == acked /\ ~slipped[m] => Honest(m) /\ Answers(m)

(* The handshake of a side is only changed by its sender and its own chip. *)
LEMMA HandKept ==
  ASSUME RadioTypeOK, Handshake, NEW m \in Radio, NEW q \in Radio, q = Peer(m), acked' = acked,
         slipped'[m] = slipped[m], snd'[m] = snd[m], result'[m] = result[m], Answered(q) \subseteq Answered(q)',
         chip'[m].txq = chip[m].txq, chip'[m].ds = chip[m].ds, chip'[m].rt = chip[m].rt, chip'[m].tx = chip[m].tx
  PROVE  HandOf(m)'
<1>1. HandOf(m)
  BY DEF Handshake, HandOf
<1>2. acked' /\ ~slipped'[m] => Honest(m)'
  BY <1>1 DEF HandOf, Honest, Loaded, Gone, Taken, Now
<1>3. acked' /\ ~slipped'[m] => Answers(m)'
  BY <1>1 DEF HandOf, Answers
<1> QED BY <1>2, <1>3 DEF HandOf

LEMMA HandOnAir ==
  ASSUME RadioTypeOK, Handshake, NEW n \in Radio, NEW heard \in BOOLEAN, NEW answered \in BOOLEAN,
         OnAir(n, heard, answered)
  PROVE  Handshake'
<1> DEFINE q == Peer(n)  p == Head(chip[n].txq)
<1>1. q \in Radio /\ q # n /\ Peer(q) = n /\ \A m \in Radio : m = n \/ m = q
  BY Peers
<1>2. UNCHANGED <<acked, snd, result>> /\ chip[n].tx /\ chip[n].txq # <<>> /\ ~chip[n].rt /\ (answered => heard \/ ~acked)
  BY DEF OnAir
<1>3. /\ Answered(q) \subseteq Answered(q)' /\ Answered(n)' = Answered(n)
      /\ heard => p.id \in Answered(q)'
  BY <1>1 DEF OnAir, RadioTypeOK, Answered
<1>4. /\ slipped'[q] = slipped[q]
      /\ ~slipped'[n] => ~slipped[n] /\ snd[n].pc # "flush"
  BY <1>1 DEF OnAir, RadioTypeOK
<1>5. HandOf(q)'
  BY <1>1, <1>2, <1>3, <1>4, OnAirParts, HandKept
<1>6. ASSUME acked, ~slipped'[n] PROVE Honest(n)' /\ Answers(n)'
  <2>1. Honest(n) /\ Answers(n) /\ ~slipped[n] /\ snd[n].pc # "flush"
    BY <1>4, <1>6 DEF Handshake
  <2>2. Answers(n)'
    BY <1>2, <1>3, <2>1 DEF Answers
  <2>3. snd[n].pc \in SndPcs /\ chip[n].txq \in Seq(OutPkt) /\ chip[n].tx \in BOOLEAN
    BY Facts DEF RadioTypeOK, SndState, ChipState
  <2>4. snd[n].pc \in {"hasTxIntr", "hasMaxRtIntr"} /\ Loaded(n)
    BY <1>2, <2>1, <2>3 DEF Honest, SndPcs, Gone, Loaded
  <2>5. p.id = Now(n) /\ Tail(chip[n].txq) = <<>>
    <3>1. Head(chip[n].txq) = chip[n].txq[1] /\ Len(Tail(chip[n].txq)) = 0 /\ Tail(chip[n].txq) \in Seq(OutPkt)
      BY <1>2, <2>3, <2>4, HeadTail DEF Loaded
    <3> QED BY <2>4, <3>1, EmptySeq DEF Loaded
  <2>6. Now(n)' = Now(n)
    BY <1>2 DEF Now
  <2>7. CASE answered
    <3>1. Gone(n)' /\ chip'[n].ds /\ Taken(n)'
      <4>1. chip'[n].txq = Tail(chip[n].txq) /\ chip'[n].ds /\ chip'[n].rt = chip[n].rt
        BY <1>1, <2>7, OnAirParts
      <4>2. p.id \in Answered(q)'
        BY <1>2, <1>3, <1>6, <2>7
      <4> QED BY <1>2, <2>5, <2>6, <4>1, <4>2 DEF Gone, Taken
    <3> QED BY <1>2, <2>1, <2>2, <2>4, <3>1 DEF Honest, SndPcs
  <2>8. CASE ~answered
    <3>1. Loaded(n)' /\ chip'[n].ds = chip[n].ds
      <4>1. chip'[n].txq = chip[n].txq /\ chip'[n].ds = chip[n].ds
        BY <1>1, <2>8, OnAirParts
      <4> QED BY <2>4, <2>6, <4>1 DEF Loaded
    <3> QED BY <1>2, <2>1, <2>2, <2>4, <3>1 DEF Honest, SndPcs
  <2> QED BY <2>7, <2>8
<1>7. HandOf(n)'
  BY <1>2, <1>6 DEF HandOf
<1> QED BY <1>1, <1>5, <1>7 DEF Handshake, HandOf

LEMMA HandReceiver ==
  ASSUME RadioTypeOK, Handshake, NEW n \in Radio, Receiver(n)
  PROVE  Handshake'
<1>1. UNCHANGED <<acked, snd, result, slipped, took, mistaken>>
  BY DEF Receiver, RecvPolls, RecvReads, RecvMore, RecvDelivers, hist
<1>2. ASSUME NEW m \in Radio
      PROVE  chip'[m].txq = chip[m].txq /\ chip'[m].ds = chip[m].ds /\ chip'[m].rt = chip[m].rt /\ chip'[m].tx = chip[m].tx
  <2>1. CASE RecvReads(n)
    BY <2>1, ReadParts DEF RecvReads
  <2>2. CASE ~RecvReads(n)
    BY <2>2 DEF Receiver, RecvPolls, RecvMore, RecvDelivers
  <2> QED BY <2>1, <2>2
<1>3. ASSUME NEW m \in Radio PROVE HandOf(m)'
  BY <1>1, <1>2, Peers, HandKept DEF Answered
<1> QED BY <1>3 DEF Handshake, HandOf

(* The sender of one side, and the promise about that side.                *)
LEMMA HandSender ==
  ASSUME RadioTypeOK, Handshake, NEW n \in Radio, Sender(n)
  PROVE  Handshake'
<1> DEFINE q == Peer(n)
<1>1. UNCHANGED <<acked, took, mistaken, slipped>> /\ \A m \in Radio : Answered(m)' = Answered(m)
  BY DEF Sender, SendStarts, SendDrained, SendReads, Loads, TxMode, HasTxIntr, HasMaxRtIntr, TxIntrClr,
         RtIntrClr, FlushTx, RxMode, Quiet, Answered
<1>2. ASSUME NEW m \in Radio, m # n PROVE HandOf(m)'
  <2>1. /\ chip'[m].txq = chip[m].txq /\ chip'[m].ds = chip[m].ds /\ chip'[m].rt = chip[m].rt /\ chip'[m].tx = chip[m].tx
    <3>1. CASE SendReads(n)
      BY <3>1, ReadParts DEF SendReads
    <3>2. CASE Loads(n)
      BY <1>2, <3>2, LoadParts
    <3>3. CASE Dull(n)
      BY <1>2, <3>3, DullParts
    <3> QED BY <3>1, <3>2, <3>3 DEF Sender, Dull
  <2> QED BY <1>1, <1>2, <2>1, NowParts, Peers, HandKept
<1>3. ASSUME acked, ~slipped[n] PROVE Honest(n)' /\ Answers(n)'
  <2>0. /\ Honest(n) /\ Answers(n) /\ ~snd[n].noAck
        /\ chip[n] \in ChipState /\ snd[n] \in SndState /\ chip[n].txq \in Seq(OutPkt)
    BY <1>3, Facts DEF Handshake, Honest, RadioTypeOK
  <2>1. CASE RxMode(n) /\ ~Retries(n)
    <3>1. /\ snd'[n] = SndIdle /\ chip'[n] = [chip[n] EXCEPT !.tx = FALSE]
          /\ \/ snd[n].pc = "sent" /\ result'[n] = Append(result[n], TRUE)
             \/ snd[n].pc = "failed" /\ result'[n] = Append(result[n], FALSE)
      BY <2>1 DEF RxMode, SendOk, SendLost, Returns, SndAt, RadioTypeOK
    <3>2. Gone(n) /\ ~chip[n].ds /\ (snd[n].pc = "sent" => Taken(n))
      BY <2>0, <3>1 DEF Honest
    <3>3. /\ chip'[n].txq = <<>> /\ ~chip'[n].rt /\ ~chip'[n].ds /\ ~chip'[n].tx
      BY <2>0, <3>1, <3>2 DEF Gone, ChipState
    <3>4. Honest(n)'
      BY <3>1, <3>3 DEF Honest, Gone, SndIdle
    <3>5. Answers(n)'
      <4>1. result[n] \in Seq(BOOLEAN) /\ Len(result[n]) \in Nat
        BY DEF RadioTypeOK
      <4>2. \A b \in BOOLEAN : /\ DOMAIN Append(result[n], b) = 1..Len(result[n]) + 1
                              /\ \A i \in 1..Len(result[n]) : Append(result[n], b)[i] = result[n][i]
                              /\ Append(result[n], b)[Len(result[n]) + 1] = b
        BY <4>1
      <4>3. DOMAIN result[n] = 1..Len(result[n])
        BY <4>1
      <4>4. \A i \in 1..Len(result[n]) : result[n][i] => i \in Answered(Peer(n))
        BY <2>0, <4>3 DEF Answers
      <4>5. CASE snd[n].pc = "sent" /\ result'[n] = Append(result[n], TRUE)
        <5>1. Len(result[n]) + 1 \in Answered(Peer(n))
          BY <3>2, <4>5 DEF Taken, Now
        <5> QED BY <1>1, <4>1, <4>2, <4>4, <4>5, <5>1, Peers DEF Answers
      <4>6. CASE result'[n] = Append(result[n], FALSE)
        BY <1>1, <4>1, <4>2, <4>4, <4>6, Peers DEF Answers
      <4> QED BY <3>1, <4>5, <4>6
    <3> QED BY <3>4, <3>5
  <2>2. CASE ~(RxMode(n) /\ ~Retries(n))
    <3>1. Now(n)' = Now(n) /\ result' = result
      BY <2>2, NowParts
    <3>2. Answers(n)' /\ (Taken(n)' <=> Taken(n))
      BY <1>1, <2>0, <3>1, Peers DEF Answers, Taken
    <3>3. CASE SendReads(n)
      <4>1. /\ snd[n].pc = "read" /\ snd'[n] = [snd[n] EXCEPT !.pc = "drain"]
        BY <3>3 DEF SendReads, SndGoes, SndAt, RadioTypeOK
      <4>2. chip'[n].txq = chip[n].txq /\ chip'[n].ds = chip[n].ds /\ chip'[n].rt = chip[n].rt /\ chip'[n].tx = chip[n].tx
        BY <3>3, ReadParts DEF SendReads
      <4> QED BY <2>0, <3>2, <4>1, <4>2 DEF Honest, Gone, SndState
    <3>4. CASE Loads(n)
      <4>1. /\ snd[n].pc = "load" /\ snd'[n] = [snd[n] EXCEPT !.pc = "txMode"]
        BY <3>4 DEF Loads, SndGoes, SndAt, RadioTypeOK
      <4>2. chip[n].txq = <<>> /\ Len(chip[n].txq) # Depth
        BY <2>0, <4>1, RadioAssumption DEF Honest, Gone
      <4> DEFINE p == [body |-> ToPacket(traffic[n][Now(n)]), id |-> Now(n), pid |-> chip[n].pid]
      <4>3. chip'[n].txq = Append(<<>>, p) /\ p.id = Now(n)
        BY <3>4, <4>2, LoadParts
      <4> HIDE DEF p
      <4>4. Len(chip'[n].txq) = 1 /\ chip'[n].txq[1] = p
        <5>1. Append(<<>>, p) = <<p>>
          OBVIOUS
        <5> QED BY <4>3, <5>1
      <4>5. chip'[n].ds = chip[n].ds /\ chip'[n].rt = chip[n].rt /\ chip'[n].tx = chip[n].tx
        BY <3>4, LoadParts
      <4>6. Loaded(n)'
        BY <2>0, <3>1, <4>1, <4>3, <4>4, <4>5 DEF Loaded, Honest
      <4> QED BY <2>0, <3>2, <4>1, <4>5, <4>6 DEF Honest, Gone, SndState
    <3>5. CASE SendStarts(n)
      <4>1. /\ snd[n].pc = "recv" /\ snd'[n] = [snd[n] EXCEPT !.pc = "drain", !.noAck = FALSE] /\ chip' = chip
        BY <1>3, <3>5 DEF SendStarts, SndAt, RadioTypeOK
      <4> QED BY <2>0, <3>2, <4>1 DEF Honest, Gone, SndState
    <3>6. CASE SendDrained(n)
      <4>1. /\ snd[n].pc = "drain" /\ chip' = chip
            /\ snd'[n] = [snd[n] EXCEPT !.pc = "load"] \/ snd'[n] = [snd[n] EXCEPT !.pc = "read"]
        BY <3>6 DEF SendDrained, SndGoes, SndAt, RadioTypeOK
      <4> QED BY <2>0, <3>2, <4>1 DEF Honest, Gone, SndState
    <3>7. CASE TxMode(n)
      <4>1. /\ snd[n].pc = "txMode" /\ chip'[n] = [chip[n] EXCEPT !.tx = TRUE]
            /\ snd'[n] = [snd[n] EXCEPT !.pc = "hasTxIntr"]
        BY <3>7 DEF TxMode, SndGoes, SndAt, RadioTypeOK
      <4>2. chip'[n].txq = chip[n].txq /\ chip'[n].ds = chip[n].ds
        BY <2>0, <4>1 DEF ChipState
      <4>3. Loaded(n)'
        BY <2>0, <3>1, <4>1, <4>2 DEF Honest, Loaded
      <4> QED BY <2>0, <3>2, <4>1, <4>3 DEF Honest, SndState
    <3>8. CASE HasTxIntr(n)
      <4>1. /\ snd[n].pc = "hasTxIntr" /\ chip' = chip
            /\ snd'[n] = [snd[n] EXCEPT !.pc = "hasMaxRtIntr", !.txDone = chip[n].ds]
        BY <2>0, <3>8 DEF HasTxIntr, SndAt, RadioTypeOK
      <4>2. Loaded(n)' \/ (Gone(n)' /\ chip'[n].ds /\ Taken(n)')
        BY <2>0, <3>1, <3>2, <4>1 DEF Honest, Loaded, Gone
      <4> QED BY <2>0, <3>2, <4>1, <4>2 DEF Honest, SndState
    <3>9. CASE HasMaxRtIntr(n)
      <4>1. /\ snd[n].pc = "hasMaxRtIntr" /\ chip' = chip
            /\ snd'[n] = [snd[n] EXCEPT !.txDone = FALSE,
                         !.pc = IF snd[n].txDone THEN "txIntrClr"
                                   ELSE IF chip[n].rt THEN "rtIntrClr" ELSE "hasTxIntr"]
        BY <3>9 DEF HasMaxRtIntr, SndAt, RadioTypeOK
      <4>2. /\ Loaded(n) \/ (Gone(n) /\ chip[n].ds /\ Taken(n))
            /\ snd[n].txDone => chip[n].ds
        BY <2>0, <4>1 DEF Honest
      <4>3. (Loaded(n)' <=> Loaded(n)) /\ (Gone(n)' <=> Gone(n))
        BY <3>1, <4>1 DEF Loaded, Gone
      <4>4. CASE snd[n].txDone
        <5>1. Gone(n)' /\ Taken(n)'
          BY <3>2, <4>2, <4>3, <4>4 DEF Loaded
        <5>2. snd'[n].pc = "txIntrClr" /\ ~snd'[n].txDone /\ ~snd'[n].noAck
          BY <2>0, <4>1, <4>4 DEF SndState
        <5> QED BY <3>2, <5>1, <5>2 DEF Honest
      <4>5. CASE ~snd[n].txDone /\ chip[n].rt
        <5>1. Loaded(n)' /\ chip'[n].rt
          BY <4>1, <4>2, <4>3, <4>5 DEF Gone
        <5>2. snd'[n].pc = "rtIntrClr" /\ ~snd'[n].txDone /\ ~snd'[n].noAck
          BY <2>0, <4>1, <4>5 DEF SndState
        <5> QED BY <3>2, <5>1, <5>2 DEF Honest
      <4>6. CASE ~snd[n].txDone /\ ~chip[n].rt
        <5>1. Loaded(n)' \/ (Gone(n)' /\ chip'[n].ds /\ Taken(n)')
          BY <3>2, <4>1, <4>2, <4>3
        <5>2. snd'[n].pc = "hasTxIntr" /\ ~snd'[n].txDone /\ ~snd'[n].noAck
          BY <2>0, <4>1, <4>6 DEF SndState
        <5> QED BY <3>2, <5>1, <5>2 DEF Honest
      <4> QED BY <4>4, <4>5, <4>6
    <3>10. CASE TxIntrClr(n)
      <4>1. /\ snd[n].pc = "txIntrClr" /\ chip'[n] = [chip[n] EXCEPT !.ds = FALSE]
            /\ snd'[n] = [snd[n] EXCEPT !.pc = "sent"]
        BY <3>10 DEF TxIntrClr, SndGoes, SndAt, RadioTypeOK
      <4>2. Gone(n) /\ Taken(n)
        BY <2>0, <4>1 DEF Honest
      <4>3. Gone(n)' /\ Taken(n)' /\ ~chip'[n].ds
        BY <2>0, <3>2, <4>1, <4>2 DEF Gone, ChipState
      <4> QED BY <2>0, <3>2, <4>1, <4>3 DEF Honest, SndState
    <3>11. CASE RtIntrClr(n)
      <4>1. /\ snd[n].pc = "rtIntrClr" /\ chip'[n] = [chip[n] EXCEPT !.rt = FALSE]
            /\ snd'[n] = [snd[n] EXCEPT !.pc = "flush"]
        BY <3>11 DEF RtIntrClr, SndGoes, SndAt, RadioTypeOK
      <4>2. chip'[n].txq = chip[n].txq /\ chip'[n].ds = chip[n].ds /\ ~chip'[n].rt
        BY <2>0, <4>1 DEF ChipState
      <4>3. Loaded(n)'
        BY <2>0, <3>1, <4>1, <4>2 DEF Honest, Loaded
      <4> QED BY <2>0, <3>2, <4>1, <4>2, <4>3 DEF Honest, SndState
    <3>12. CASE FlushTx(n)
      <4>1. /\ snd[n].pc = "flush" /\ chip'[n] = [chip[n] EXCEPT !.txq = <<>>]
            /\ snd'[n] = [snd[n] EXCEPT !.pc = "failed"]
        BY <3>12 DEF FlushTx, SndGoes, SndAt, RadioTypeOK
      <4>2. chip'[n].txq = <<>> /\ ~chip'[n].ds /\ ~chip'[n].rt
        BY <2>0, <4>1 DEF ChipState, Honest, Loaded
      <4>3. Gone(n)' /\ ~chip'[n].ds
        BY <4>2 DEF Gone
      <4> QED BY <2>0, <3>2, <4>1, <4>3 DEF Honest, SndState
    <3>13. CASE RxMode(n) /\ Retries(n)
      <4>1. /\ snd[n].pc = "failed" /\ chip'[n] = [chip[n] EXCEPT !.tx = FALSE]
            /\ snd'[n] = [snd[n] EXCEPT !.pc = "load", !.attempt = snd[n].attempt + 1]
        BY <3>13 DEF RxMode, Retries, SndAt, RadioTypeOK
      <4>2. chip'[n].txq = <<>> /\ ~chip'[n].ds /\ ~chip'[n].rt /\ ~chip'[n].tx
        BY <2>0, <4>1 DEF ChipState, Honest, Gone
      <4>3. snd'[n].pc = "load" /\ ~snd'[n].txDone /\ ~snd'[n].noAck
        BY <2>0, <4>1 DEF SndState, Honest
      <4> QED BY <3>2, <4>2, <4>3 DEF Honest, Gone
    <3> QED BY <2>2, <3>3, <3>4, <3>5, <3>6, <3>7, <3>8, <3>9, <3>10, <3>11, <3>12, <3>13 DEF Sender
  <2> QED BY <2>1, <2>2
<1>4. HandOf(n)'
  BY <1>1, <1>3 DEF HandOf
<1> QED BY <1>2, <1>4 DEF Handshake, HandOf

LEMMA HandStep == RadioTypeOK /\ Handshake /\ [RadioNext]_radioVars => Handshake'
<1> SUFFICES ASSUME RadioTypeOK, Handshake, [RadioNext]_radioVars PROVE Handshake'
  OBVIOUS
<1>1. CASE UNCHANGED radioVars
  <2>1. UNCHANGED <<chip, acked, snd, result, slipped, took, mistaken>>
    BY <1>1 DEF radioVars, hist
  <2>2. ASSUME NEW m \in Radio PROVE HandOf(m)'
    BY <2>1, Peers, HandKept DEF Answered
  <2> QED BY <2>2 DEF Handshake, HandOf
<1>2. ASSUME NEW n \in Radio, Chip(n) PROVE Handshake'
  <2>1. PICK h \in BOOLEAN, a \in BOOLEAN : OnAir(n, h, a)
    <3>1. (~acked) \in BOOLEAN
      BY DEF RadioTypeOK
    <3> QED BY <1>2, <3>1 DEF Chip, Arrives, AnswerLost, PacketLost
  <2> QED BY <2>1, HandOnAir
<1> QED BY <1>1, <1>2, HandReceiver, HandSender DEF RadioNext

----------------------------------------------------------------------------
LEMMA RadioInitHolds == RadioInit => RadioInv
<1> SUFFICES ASSUME RadioInit PROVE RadioInv
  OBVIOUS
<1>1. RadioTypeOK
  BY RadioInitTyped
<1>2. ASSUME NEW n \in Radio
      PROVE  /\ chip[n].txq = <<>> /\ chip[n].rxq = <<>> /\ ~chip[n].ds /\ ~chip[n].rt /\ ~chip[n].tx
             /\ inbox[n] = <<>> /\ result[n] = <<>> /\ rcv[n].pkt = NoPkt /\ rcv[n].pc = "poll" /\ snd[n] = SndIdle
  BY DEF RadioInit
<1>3. ASSUME NEW n \in Radio PROVE Now(n) = 1
  BY <1>2, <1>3 DEF Now
<1>4. Busy /\ Genuine
  BY <1>2, Peers DEF Busy, Genuine, AllCarry, AllTold, SndIdle
<1>5. Flow
  <2>1. ASSUME NEW n \in Radio PROVE Stages(n, 0, 0, 0)
    BY <1>2, <1>3, Peers DEF Stages, Rising
  <2> QED BY <2>1 DEF Flow
<1>6. Handshake
  <2>1. ASSUME NEW n \in Radio PROVE Honest(n) /\ Answers(n)
    BY <1>2 DEF Honest, Answers, Gone, SndIdle
  <2> QED BY <2>1 DEF Handshake
<1> QED BY <1>1, <1>4, <1>5, <1>6 DEF RadioInv

LEMMA RadioTypedStep == RadioTypeOK /\ Busy /\ [RadioNext]_radioVars => RadioTypeOK'
<1> SUFFICES ASSUME RadioTypeOK, Busy, [RadioNext]_radioVars PROVE RadioTypeOK'
  OBVIOUS
<1>1. CASE UNCHANGED radioVars
  BY <1>1 DEF radioVars, hist, RadioTypeOK
<1> QED BY <1>1, ChipTyped, ReceiverTyped, SenderTyped DEF RadioNext

LEMMA RadioStepHolds == RadioInv /\ [RadioNext]_radioVars => RadioInv'
BY RadioTypedStep, BusyStep, GenuineStep, FlowStep, HandStep DEF RadioInv

(* Every reachable state satisfies the invariant.                          *)
THEOREM RadioInvariant == RadioSpec => []RadioInv
<1>1. RadioInit => RadioInv
  BY RadioInitHolds
<1>2. RadioInv /\ [RadioNext]_radioVars => RadioInv'
  BY RadioStepHolds
<1> QED BY <1>1, <1>2, PTL DEF RadioSpec

(* nrfSend (hs/NRF.hs) returns True only for a message that the other      *)
(* radio has taken or held for a repeat, through lost packets, lost        *)
(* answers, retransmissions and new attempts, unless a packet slipped out  *)
(* before the flush.                                                       *)
THEOREM AckedMeansTaken == RadioSpec => []AckedIsTaken
<1>1. RadioInv => AckedIsTaken
  BY DEF RadioInv, Handshake, Answers, Answered, AckedIsTaken
<1> QED BY <1>1, RadioInvariant, PTL

(* The messages of a side have different packets.                          *)
AllDifferent(s) == \A i, j \in DOMAIN s : ToPacket(s[i]) = ToPacket(s[j]) => i = j
Different       == \A t \in Traffic, n \in Radio : AllDifferent(t.sides[n])

(* What a chip compares a packet with is the packet of a message it took,  *)
(* so what it holds for a repeat is one.                                   *)
Remembers(n) ==
  \A d, b : chip[n].last = <<d, b>> =>
    \E j \in took[n] : j \in 1..Len(traffic[Peer(n)]) /\ b = ToPacket(traffic[Peer(n)][j])
RepeatsTrue == \A n \in Radio : AllDifferent(traffic[n]) /\ mistaken[n] = {} /\ Remembers(n)

LEMMA LastKept ==
  ASSUME RadioTypeOK, NEW n \in Radio, Receiver(n) \/ Sender(n)
  PROVE  UNCHANGED <<took, mistaken, traffic>> /\ \A m \in Radio : chip'[m].last = chip[m].last
<1>0. chip \in [Radio -> ChipState] /\ chip[n] \in ChipState
  BY DEF RadioTypeOK
<1>1. UNCHANGED <<took, mistaken, traffic>>
  BY DEF Receiver, RecvPolls, RecvReads, RecvMore, RecvDelivers, hist, Sender, SendStarts, SendDrained,
         SendReads, Loads, TxMode, HasTxIntr, HasMaxRtIntr, TxIntrClr, RtIntrClr, FlushTx, RxMode, Quiet
<1>3. CASE chip' = chip
  BY <1>1, <1>3
<1>4. ASSUME NEW p, Reads(n, p) PROVE \A m \in Radio : chip'[m].last = chip[m].last
  <2> DEFINE c == [chip[n] EXCEPT !.rxq = IF RxFifoEmpty(n) THEN @ ELSE Tail(@), !.out = p.body]
  <2>1. chip' = [chip EXCEPT ![n] = c]
    BY <1>0, <1>4 DEF Reads
  <2>2. c.last = chip[n].last
    BY <1>0 DEF ChipState
  <2> HIDE DEF c
  <2> QED BY <1>0, <2>1, <2>2
<1>5. CASE Loads(n)
  <2> DEFINE p == [body |-> ToPacket(traffic[n][Now(n)]), id |-> Now(n), pid |-> chip[n].pid]
             c == [chip[n] EXCEPT !.txq = Append(@, p), !.pid = (@ + 1) % Pids]
  <2>1. chip' = chip \/ chip' = [chip EXCEPT ![n] = c]
    BY <1>0, <1>5 DEF Loads
  <2>2. c.last = chip[n].last
    BY <1>0 DEF ChipState
  <2> HIDE DEF c
  <2> QED BY <1>0, <1>1, <1>3, <2>1, <2>2
<1>6. CASE Dull(n)
  <2> DEFINE t == [chip[n] EXCEPT !.tx = TRUE]   f == [chip[n] EXCEPT !.tx = FALSE]
             d == [chip[n] EXCEPT !.ds = FALSE]  r == [chip[n] EXCEPT !.rt = FALSE]
             e == [chip[n] EXCEPT !.txq = <<>>]
  <2>1. \/ chip' = chip
        \/ \E c \in {t, f, d, r, e} : chip' = [chip EXCEPT ![n] = c]
    BY <1>6 DEF Dull, SendStarts, SendDrained, TxMode, HasTxIntr, HasMaxRtIntr, TxIntrClr, RtIntrClr, FlushTx, RxMode
  <2>2. \A c \in {t, f, d, r, e} : c.last = chip[n].last
    BY <1>0 DEF ChipState
  <2> HIDE DEF t, f, d, r, e
  <2>3. CASE chip' # chip
    <3>1. PICK c \in {t, f, d, r, e} : chip' = [chip EXCEPT ![n] = c]
      BY <2>1, <2>3
    <3> QED BY <1>0, <1>1, <2>2, <3>1
  <2> QED BY <1>3, <2>3
<1>7. CASE RecvPolls(n) \/ RecvMore(n) \/ RecvDelivers(n)
  BY <1>3, <1>7 DEF RecvPolls, RecvMore, RecvDelivers
<1>8. CASE RecvReads(n) \/ SendReads(n)
  <2>1. PICK p \in Payload(n) : Reads(n, p)
    BY <1>8 DEF RecvReads, SendReads
  <2> QED BY <1>1, <1>4, <2>1
<1> QED BY <1>1, <1>5, <1>6, <1>7, <1>8 DEF Receiver, Sender, Dull

LEMMA RepeatsOnAir ==
  ASSUME RadioInv, RepeatsTrue, NEW n \in Radio, NEW heard \in BOOLEAN, NEW answered \in BOOLEAN,
         OnAir(n, heard, answered)
  PROVE  RepeatsTrue'
<1> DEFINE q == Peer(n)  p == Head(chip[n].txq)
<1>1. q \in Radio /\ q # n /\ Peer(q) = n /\ \A m \in Radio : m = n \/ m = q
  BY Peers
<1>2. chip[n] \in ChipState /\ chip[q] \in ChipState /\ RadioTypeOK /\ Genuine
  BY <1>1 DEF RadioInv, RadioTypeOK
<1>3. traffic' = traffic /\ chip[n].txq # <<>>
  BY DEF OnAir
<1>4. p \in OutPkt /\ Carries(n, p)
  BY <1>2, <1>3, Facts, HeadTail, CarryPushPop DEF Genuine
<1>5. /\ took'[q] = IF heard /\ ~Repeat(q, p) THEN took[q] \cup {p.id} ELSE took[q]
      /\ mistaken'[q] = IF heard /\ Repeat(q, p) THEN mistaken[q] \cup ({p.id} \ took[q]) ELSE mistaken[q]
      /\ took'[n] = took[n] /\ mistaken'[n] = mistaken[n]
  BY <1>1, <1>2 DEF OnAir, RadioTypeOK
<1>6. /\ chip'[n].last = chip[n].last
      /\ chip'[q].last = IF heard /\ ~Repeat(q, p) THEN <<p.pid, p.body>> ELSE chip[q].last
  <2>1. /\ chip'[n] = IF answered THEN Popped(n) ELSE [chip[n] EXCEPT !.rt = TRUE]
        /\ chip'[q] = IF heard THEN Taking(q, p) ELSE chip[q]
    BY <1>1, <1>2 DEF OnAir, RadioTypeOK
  <2> HIDE DEF p, q
  <2>2. Popped(n).last = chip[n].last /\ [chip[n] EXCEPT !.rt = TRUE].last = chip[n].last
    BY <1>2 DEF Popped, ChipState
  <2>3. Taking(q, p).last = IF Repeat(q, p) THEN chip[q].last ELSE <<p.pid, p.body>>
    BY <1>2 DEF Taking, ChipState
  <2> QED BY <2>1, <2>2, <2>3
<1>7. Remembers(n) /\ Remembers(q) /\ mistaken[q] = {} /\ mistaken[n] = {} /\ AllDifferent(traffic[n])
  BY <1>1 DEF RepeatsTrue
<1> HIDE DEF p
<1>8. Repeat(q, p) => p.id \in took[q]
  <2> SUFFICES ASSUME Repeat(q, p) PROVE p.id \in took[q]
    OBVIOUS
  <2>1. PICK j \in took[q] : j \in 1..Len(traffic[n]) /\ p.body = ToPacket(traffic[n][j])
    BY <1>1, <1>7 DEF Repeat, Remembers
  <2>2. traffic[n] \in Seq(Message)
    BY <1>2 DEF RadioTypeOK
  <2>3. p.id = j
    <3>1. DOMAIN traffic[n] = 1..Len(traffic[n])
      BY <2>2
    <3>2. p.id \in 1..Len(traffic[n]) /\ ToPacket(traffic[n][p.id]) = ToPacket(traffic[n][j])
      BY <1>4, <2>1 DEF Carries
    <3> QED BY <1>7, <2>1, <3>1, <3>2, Zenon DEF AllDifferent
  <2> QED BY <2>1, <2>3
<1> HIDE DEF q
<1>9. mistaken'[q] = {} /\ mistaken'[n] = {}
  BY <1>5, <1>7, <1>8
<1>10. Remembers(n)'
  BY <1>3, <1>5, <1>6, <1>7 DEF Remembers
<1>11. Remembers(q)'
  <2>1. CASE heard /\ ~Repeat(q, p)
    <3> SUFFICES ASSUME NEW d, NEW b, chip'[q].last = <<d, b>>
                 PROVE  \E j \in took'[q] : j \in 1..Len(traffic[n]) /\ b = ToPacket(traffic[n][j])
      BY <1>1, <1>3 DEF Remembers
    <3>1. b = p.body /\ p.id \in took'[q]
      BY <1>5, <1>6, <2>1
    <3> QED BY <1>4, <3>1 DEF Carries
  <2>2. CASE ~(heard /\ ~Repeat(q, p))
    BY <1>1, <1>3, <1>5, <1>6, <1>7, <2>2 DEF Remembers
  <2> QED BY <2>1, <2>2
<1>12. \A m \in Radio : AllDifferent(traffic[m])'
  BY <1>3 DEF RepeatsTrue, AllDifferent
<1> QED BY <1>1, <1>9, <1>10, <1>11, <1>12 DEF RepeatsTrue

(* With messages that have different packets, no chip ever holds one for a *)
(* repeat of another, and nrfSend returns True only for a message that the *)
(* other radio has taken (unless a packet slipped out): however many       *)
(* attempts it makes, and however few the identities are.                  *)
THEOREM DifferentNeverMistaken ==
  Different => (RadioSpec => [](NeverMistaken /\
    \A n \in Radio : acked /\ ~slipped[n] => \A i \in DOMAIN result[n] : result[n][i] => i \in took[Peer(n)]))
<1> SUFFICES ASSUME Different
             PROVE  RadioSpec => [](NeverMistaken /\ \A n \in Radio : acked /\ ~slipped[n] =>
                                      \A i \in DOMAIN result[n] : result[n][i] => i \in took[Peer(n)])
  OBVIOUS
<1>1. RadioInit => RepeatsTrue
  <2> SUFFICES ASSUME RadioInit, NEW n \in Radio
               PROVE  AllDifferent(traffic[n]) /\ mistaken[n] = {} /\ Remembers(n)
    BY DEF RepeatsTrue
  <2>1. AllDifferent(traffic[n])
    BY DEF RadioInit, Different
  <2>2. mistaken[n] = {} /\ chip[n].last = <<>>
    BY DEF RadioInit
  <2>3. \A d, b : <<d, b>> # <<>>
    OBVIOUS
  <2> QED BY <2>1, <2>2, <2>3 DEF Remembers
<1>2. RadioInv /\ RepeatsTrue /\ [RadioNext]_radioVars => RepeatsTrue'
  <2> SUFFICES ASSUME RadioInv, RepeatsTrue, [RadioNext]_radioVars PROVE RepeatsTrue'
    OBVIOUS
  <2>0. RadioTypeOK
    BY DEF RadioInv
  <2>1. ASSUME UNCHANGED <<took, mistaken, traffic>>, \A m \in Radio : chip'[m].last = chip[m].last
        PROVE  RepeatsTrue'
    BY <2>1, Peers DEF RepeatsTrue, Remembers, AllDifferent
  <2>2. CASE UNCHANGED radioVars
    BY <2>1, <2>2 DEF radioVars, hist
  <2>3. ASSUME NEW n \in Radio, Chip(n) PROVE RepeatsTrue'
    <3>1. PICK h \in BOOLEAN, a \in BOOLEAN : OnAir(n, h, a)
      <4>1. (~acked) \in BOOLEAN
        BY <2>0 DEF RadioTypeOK
      <4> QED BY <2>3, <4>1 DEF Chip, Arrives, AnswerLost, PacketLost
    <3> QED BY <3>1, RepeatsOnAir
  <2> QED BY <2>0, <2>1, <2>2, <2>3, LastKept DEF RadioNext
<1>3. RadioInv /\ RepeatsTrue =>
        NeverMistaken /\ \A n \in Radio : acked /\ ~slipped[n] =>
                           \A i \in DOMAIN result[n] : result[n][i] => i \in took[Peer(n)]
  BY Peers DEF RadioInv, Handshake, Answers, Answered, RepeatsTrue, NeverMistaken
<1> QED BY <1>1, <1>2, <1>3, RadioInvariant, PTL DEF RadioSpec

(* What netRecv (hs/NetChan.hs) delivers is what was sent, unchanged and   *)
(* in the order sent, as long as the two threads of a side have not read   *)
(* its FIFO at the same time.                                              *)
THEOREM InboxInOrder == RadioSpec => []InOrder
<1>1. RadioInv => InOrder
  <2> SUFFICES ASSUME RadioInv, NEW n \in Radio, ~raced[n], NEW i \in DOMAIN inbox[n]
               PROVE  LET m == traffic[Peer(n)][inbox[n][i].id] IN
                      /\ inbox[n][i].id > 0 /\ Whole(m) /\ inbox[n][i].val = Meaning(m)
                      /\ i > 1 => inbox[n][i - 1].id <= inbox[n][i].id
    BY DEF InOrder
  <2>1. Told(Peer(n), inbox[n][i])
    BY DEF RadioInv, Genuine, AllTold
  <2>2. inbox[n] \in Seq(Seen)
    BY DEF RadioInv, RadioTypeOK
  <2>3. PICK a \in Nat : Rising(inbox[n], 0, a)
    BY DEF RadioInv, Flow, Stages
  <2>4. i > 1 => inbox[n][i - 1].id <= inbox[n][i].id
    <3>1. DOMAIN inbox[n] = 1..Len(inbox[n]) /\ Len(inbox[n]) \in Nat
      BY <2>2
    <3> QED BY <2>3, <3>1 DEF Rising
  <2>5. traffic[Peer(n)] \in Seq(Message)
    BY Facts DEF RadioInv
  <2> QED BY <2>1, <2>4, <2>5 DEF Told
<1> QED BY <1>1, RadioInvariant, PTL
=============================================================================
