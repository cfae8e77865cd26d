------------------------------- MODULE UartRx -------------------------------
(***************************************************************************)
(* Serial input: the receive FIFO of the mini UART, the interrupt handler  *)
(* that drains it into a ring buffer (c/hal.c), and UART.getChar, which    *)
(* reads the ring first and falls back to the FIFO itself.  One CPU: the   *)
(* handler runs between any two memory accesses of getChar, to its end;    *)
(* bytes arrive at any time.                                               *)
(***************************************************************************)
EXTENDS Integers, Sequences

CONSTANTS
  N,          \* UART_RX_BUF_SIZE
  FifoDepth,  \* depth of the hardware FIFO
  MaxBytes,   \* how many bytes arrive (bound); they are numbered from 1
  Garbage     \* what reading the empty FIFO returns

ASSUME SizeAssumption  == N \in Nat /\ N > 1
ASSUME BytesAssumption == FifoDepth \in Nat /\ MaxBytes \in Nat /\ Garbage \notin 1..MaxBytes

VARIABLES
  fifo,       \* the hardware FIFO
  buf, head, tail,   \* uart_rx_buf, uart_rx_head, uart_rx_tail
  irqOn,      \* uart_interrupt_init has been called
  irq,        \* the handler is running
  pc, ch,     \* the reader: where it is, and the local ch of uart_rx_buf_pop
  arrived,    \* how many bytes have arrived
  pushed, popped,    \* the bytes the ring has accepted and given back
  line        \* what getChar has returned

ring == <<buf, head, tail>>
uartVars == <<fifo, ring, irqOn, irq, pc, ch, arrived, pushed, popped, line>>

RxByte  == 1..MaxBytes
Empty == tail = head

UartInit ==
  /\ fifo = <<>>
  /\ buf = [i \in 0..(N - 1) |-> 0] /\ head = 0 /\ tail = 0
  /\ irqOn = FALSE /\ irq = FALSE
  /\ pc = "caller" /\ ch = 0
  /\ arrived = 0 /\ pushed = <<>> /\ popped = <<>> /\ line = <<>>

----------------------------------------------------------------------------
(* A byte comes in on the wire; the hardware drops it when its FIFO is     *)
(* full.                                                                   *)
Arrive ==
  /\ arrived < MaxBytes
  /\ arrived' = arrived + 1
  /\ fifo' = IF Len(fifo) < FifoDepth THEN Append(fifo, arrived + 1) ELSE fifo
  /\ UNCHANGED <<ring, irqOn, irq, pc, ch, pushed, popped, line>>

(* initUartInterrupt.                                                      *)
EnableIrq ==
  /\ ~irqOn /\ pc = "caller"
  /\ irqOn' = TRUE
  /\ UNCHANGED <<fifo, ring, irq, pc, ch, arrived, pushed, popped, line>>

(* irq_dispatch_c, its UART part: one iteration of the drain loop a step.  *)
IrqEnters ==
  /\ irqOn /\ ~irq /\ fifo # <<>>
  /\ irq' = TRUE
  /\ UNCHANGED <<fifo, ring, irqOn, pc, ch, arrived, pushed, popped, line>>
IrqPushesOver ==        \* mutant: the ring is never full
  /\ irq /\ fifo # <<>>
  /\ fifo' = Tail(fifo)
  /\ buf' = [buf EXCEPT ![head] = Head(fifo)]
  /\ head' = (head + 1) % N
  /\ pushed' = Append(pushed, Head(fifo))
  /\ UNCHANGED <<tail, irqOn, irq, pc, ch, arrived, popped, line>>
IrqPushes ==
  /\ irq /\ fifo # <<>>
  /\ fifo' = Tail(fifo)
  /\ LET next == (head + 1) % N IN
     IF next # tail
       THEN /\ buf' = [buf EXCEPT ![head] = Head(fifo)]
            /\ head' = next
            /\ pushed' = Append(pushed, Head(fifo))
       ELSE UNCHANGED <<buf, head, pushed>>
  /\ UNCHANGED <<tail, irqOn, irq, pc, ch, arrived, popped, line>>
IrqReturns ==
  /\ irq /\ fifo = <<>>
  /\ irq' = FALSE
  /\ UNCHANGED <<fifo, ring, irqOn, pc, ch, arrived, pushed, popped, line>>

----------------------------------------------------------------------------
(* The reader runs when the handler does not.                              *)
Goes(from, to) == ~irq /\ pc = from /\ pc' = to

GetChar ==
  /\ Goes("caller", "pop")
  /\ UNCHANGED <<fifo, ring, irqOn, irq, ch, arrived, pushed, popped, line>>

(* uart_rx_buf_pop: the test, the load and the store of the new tail.      *)
PopTests ==
  /\ Goes("pop", IF Empty THEN "poll" ELSE "pop_load")
  /\ UNCHANGED <<fifo, ring, irqOn, irq, ch, arrived, pushed, popped, line>>
PopLoads ==
  /\ Goes("pop_load", "pop_store")
  /\ ch' = buf[tail]
  /\ UNCHANGED <<fifo, ring, irqOn, irq, arrived, pushed, popped, line>>
PopStores ==
  /\ Goes("pop_store", "caller")
  /\ tail' = (tail + 1) % N
  /\ popped' = Append(popped, ch)
  /\ line'   = Append(line, ch)
  /\ UNCHANGED <<fifo, buf, head, irqOn, irq, ch, arrived, pushed>>

(* The fallback: hasData, then c_uart_get8, which waits for the FIFO in C  *)
(* and reads it; or yield and start again.                                 *)
Polls ==
  /\ Goes("poll", IF fifo # <<>> THEN "get8" ELSE "yield")
  /\ UNCHANGED <<fifo, ring, irqOn, irq, ch, arrived, pushed, popped, line>>
YieldsToPoll ==         \* mutant: goes on polling the FIFO only
  /\ Goes("yield", "poll")
  /\ UNCHANGED <<fifo, ring, irqOn, irq, ch, arrived, pushed, popped, line>>
Yields ==
  /\ Goes("yield", "pop")
  /\ UNCHANGED <<fifo, ring, irqOn, irq, ch, arrived, pushed, popped, line>>
Get8Waits ==
  /\ fifo # <<>>
  /\ Goes("get8", "get8_read")
  /\ UNCHANGED <<fifo, ring, irqOn, irq, ch, arrived, pushed, popped, line>>
Get8Reads ==
  /\ Goes("get8_read", "caller")
  /\ IF fifo # <<>> THEN line' = Append(line, Head(fifo)) /\ fifo' = Tail(fifo)
                    ELSE line' = Append(line, Garbage) /\ UNCHANGED fifo
  /\ UNCHANGED <<ring, irqOn, irq, ch, arrived, pushed, popped>>

Handler == IrqEnters \/ IrqPushes \/ IrqReturns
Reader  == GetChar \/ PopTests \/ PopLoads \/ PopStores
             \/ Polls \/ Yields \/ Get8Waits \/ Get8Reads
UartNext    == Arrive \/ EnableIrq \/ Handler \/ Reader

UartSpec == UartInit /\ [][UartNext]_uartVars

(* The CPU takes a pending interrupt, the handler returns, and the reader  *)
(* is scheduled (RunnableRuns of Threads).                                 *)
UartFairSpec == UartSpec /\ WF_uartVars(Handler) /\ WF_uartVars(Reader)

----------------------------------------------------------------------------
(* The i-th slot from tail on, and how many are in use.                    *)
Slot(i) == IF tail + i < N THEN tail + i ELSE tail + i - N
Count   == IF tail <= head THEN head - tail ELSE head - tail + N

Pcs == {"caller", "pop", "pop_load", "pop_store", "poll", "yield", "get8", "get8_read"}

UartTypeOK ==
  /\ fifo \in Seq(RxByte)
  /\ buf \in [0..(N - 1) -> RxByte \cup {0}]
  /\ head \in 0..(N - 1) /\ tail \in 0..(N - 1)
  /\ irqOn \in BOOLEAN /\ irq \in BOOLEAN
  /\ pc \in Pcs /\ ch \in RxByte \cup {0}
  /\ arrived \in 0..MaxBytes
  /\ pushed \in Seq(RxByte) /\ popped \in Seq(RxByte \cup {0}) /\ line \in Seq(RxByte \cup {0, Garbage})

(* The ring between the handler and the reader is a queue, without a lock: *)
(* what is popped and what waits from tail to head is what was pushed, in  *)
(* order, and the byte already loaded is the one at tail, whatever the     *)
(* handler does in between (the slot between head and tail stays free).    *)
RingIsFifo ==
  /\ Len(pushed) = Len(popped) + Count
  /\ \A i \in 1..Len(popped) : popped[i] = pushed[i]
  /\ \A i \in 0..(Count - 1) : buf[Slot(i)] = pushed[Len(popped) + 1 + i]
  /\ pc \in {"pop_load", "pop_store"} => Count > 0
  /\ pc = "pop_store" => ch = buf[tail]

(* What was in the ring is returned in the end, unless the reader has left *)
(* the ring for the FIFO (uart_rx_buf_pop, getChar).                       *)
RingDrains == ~Empty ~> (Empty \/ pc \in {"get8", "get8_read"})

(* "Either way, green threads get CPU time while waiting for input"        *)
(* (UART.hs 62): nobody waits for a byte inside c_uart_get8.               *)
ThreadsGetTime == pc = "get8" => fifo # <<>>
============================================================================
