------------------------------- MODULE Memory -------------------------------
(***************************************************************************)
(* The heap: kmalloc (c/hal.c), the malloc family on it (c/rts-stubs.c),   *)
(* alloc and poke8 (hs/Alloc.hs).  A pointer goes up, nothing is freed.    *)
(* poke8 reads a word and writes it back with one byte changed, and its    *)
(* thread can be preempted in between.  Addresses wrap around at Word.     *)
(***************************************************************************)
EXTENDS Integers, Sequences, TLC

CONSTANTS
  Thread,
  Word,       \* 2^32
  Start,      \* __heap_start__
  HeapSize,   \* HEAP_SIZE
  Sizes,      \* that are asked for
  Alignments, \* asked of kmalloc_aligned: powers of two
  Byte,       \* what is written
  JUNK,       \* what the memory holds at power-up
  MaxBlocks,  \* allocated in a behaviour (bound)
  MaxPokes    \* begun in a behaviour (bound)

Mask(a, n) == (a \div n) * n                     \* a & ~(n - 1)
Up8(a)     == Mask((a + 7) % Word, 8)
HeapPtr    == Up8(Start)                         \* heap_init
HeapEnd    == (HeapPtr + HeapSize) % Word

(* The heap ends well below the top of the address space, and what it is   *)
(* aligned to is small.                                                    *)
ASSUME HeapAssumption ==
  /\ Word \in Nat /\ Start \in Nat /\ HeapSize \in Nat
  /\ Start + HeapSize + 16 < Word
  /\ \A al \in Alignments : al \in Nat \ {0} /\ Start + HeapSize + 16 + al < Word
  /\ Sizes \subseteq 0..Word - 1 /\ MaxBlocks \in Nat /\ MaxPokes \in Nat
  /\ Byte \subseteq Nat /\ JUNK \in Nat

VARIABLES
  ptr,        \* heap_ptr
  mem,        \* the bytes of the heap; a word of C is kept in its first byte
  blocks,     \* handed out, with what their owners know to be in them
  mode,       \* up, panic (kmalloc has rebooted), wild (kmalloc has wrapped around)
  poke,       \* what a thread inside poke8 has read
  pokes       \* bound: how many there were
vars == <<ptr, mem, blocks, mode, poke, pokes>>

Address == HeapPtr..HeapEnd - 1
ANY     == -1                                    \* the owner does not know
NoPoke  == [block |-> 0]

Init ==
  /\ ptr    = HeapPtr
  /\ mem    = [a \in Address |-> JUNK]
  /\ blocks = <<>>
  /\ mode   = "up"
  /\ poke   = [t \in Thread |-> NoPoke]
  /\ pokes  = 0

(* kmalloc from pointer p: the words of the block are cleared, so that up  *)
(* to three bytes at its end are not.                                      *)
Words(n)       == Mask(n, 4)
Cleared(at, n) == [a \in Address |-> IF a \in at..at + Words(n) - 1 THEN 0 ELSE mem[a]]
PanicsEarly(p, n) == (p + n) % Word > HeapEnd    \* mutant: tests before it rounds up
Panics(p, n)   == (Up8(p) + n) % Word > HeapEnd
Wraps(p, n)    == ~Panics(p, n) /\ Up8(p) + n >= Word
Fails(p, n)    ==
  /\ Panics(p, n) \/ Wraps(p, n)
  /\ mode' = IF Panics(p, n) THEN "panic" ELSE "wild"
  /\ UNCHANGED <<ptr, mem, blocks, poke, pokes>>
Gives(p, n)    ==
  /\ ~Panics(p, n) /\ ~Wraps(p, n)
  /\ ptr' = Up8(p) + n
  /\ UNCHANGED <<mode, poke, pokes>>

Blank(n) == [k \in 0..n - 1 |-> IF k < Words(n) THEN 0 ELSE ANY]
New(t, a, n, hd, d) ==
  blocks' = Append(blocks, [at |-> a, size |-> n, head |-> hd, owner |-> t, data |-> d])
Up(t) == mode = "up" /\ Len(blocks) < MaxBlocks /\ poke[t] = NoPoke

(* c_kmalloc (alloc of hs/Alloc.hs) and kmalloc_aligned.                   *)
KmallocFrom(t, p, n) ==
  \/ Fails(p, n)
  \/ /\ Gives(p, n)
     /\ mem' = Cleared(Up8(p), n)
     /\ New(t, Up8(p), n, 0, Blank(n))
Kmalloc(t, n) == Up(t) /\ KmallocFrom(t, ptr, n)
KmallocAligned(t, n, al) == Up(t) /\ KmallocFrom(t, Mask((ptr + al - 1) % Word, al), n)

----------------------------------------------------------------------------
(* malloc: a header of eight bytes holds the size.  put is what is then    *)
(* copied into the block, d what its owner knows to be in it.              *)
Header          == 8                             \* MALLOC_HEADER_SIZE
Total(n)        == (n + Header) % Word
Overflows(n)    == n + Header >= Word
MallocWith(t, n, put, d) ==
  LET at == Up8(ptr)
      m  == [Cleared(at, Total(n)) EXCEPT ![at] = n] IN
  IF Overflows(n) /\ ~Panics(ptr, Total(n))
    THEN mode' = "wild" /\ UNCHANGED <<ptr, mem, blocks, poke, pokes>>
    ELSE \/ Fails(ptr, Total(n))
         \/ /\ Gives(ptr, Total(n))
            /\ mem' = [a \in Address |-> IF a - at - Header \in DOMAIN put THEN put[a - at - Header] ELSE m[a]]
            /\ New(t, at + Header, n, Header, d)
Nowhere == [k \in {} |-> 0]
Zeros(n) == [k \in 0..n - 1 |-> 0]

Malloc(t, n) == Up(t) /\ MallocWith(t, n, Nowhere, Blank(n))          \* mmap, _sbrk
Calloc(t, k, n) ==
  /\ Up(t)
  /\ IF k * n >= Word THEN mode' = "wild" /\ UNCHANGED <<ptr, mem, blocks, poke, pokes>>
     ELSE MallocWith(t, k * n, Zeros(k * n), Zeros(k * n))

(* realloc takes the old size from the header, and never frees the block.  *)
ToCopyNew(old, n) == n                           \* mutant: the new size
ToCopy(old, n)    == IF old < n THEN old ELSE n
Realloc(t, i, n) ==
  LET b == blocks[i]  old == mem[b.at - Header]  k == ToCopy(old, n) IN
  /\ Up(t) /\ b.owner = t /\ b.head = Header /\ n > 0
  /\ MallocWith(t, n, [j \in 0..k - 1 |-> mem[b.at + j]],
                [j \in 0..n - 1 |-> IF j < b.size THEN b.data[j] ELSE Blank(n)[j]])

----------------------------------------------------------------------------
(* poke8: the word, then the word with the byte changed.                   *)
WordAt(b, k)  == (b.at + Mask(k, 4))..(b.at + Mask(k, 4) + 3)
PokeReads(t, i, k, v) ==
  LET b == blocks[i] IN
  /\ mode = "up" /\ poke[t] = NoPoke /\ b.owner = t /\ k < b.size
  /\ pokes < MaxPokes /\ pokes' = pokes + 1
  /\ poke' = [poke EXCEPT ![t] = [block |-> i, off |-> k, val |-> v,
                                  old |-> [a \in WordAt(b, k) \cap Address |-> mem[a]]]]
  /\ UNCHANGED <<ptr, mem, blocks, mode>>
PokeWrites(t) ==
  LET p == poke[t]  b == blocks[p.block] IN
  /\ mode = "up" /\ p # NoPoke
  /\ mem' = [a \in Address |-> IF a = b.at + p.off THEN p.val
                               ELSE IF a \in DOMAIN p.old THEN p.old[a] ELSE mem[a]]
  /\ blocks' = [blocks EXCEPT ![p.block].data[p.off] = p.val]
  /\ poke' = [poke EXCEPT ![t] = NoPoke]
  /\ UNCHANGED <<ptr, mode, pokes>>

Next ==
  \E t \in Thread :
    \/ \E n \in Sizes :
         \/ Kmalloc(t, n) \/ Malloc(t, n)
         \/ \E al \in Alignments : KmallocAligned(t, n, al)
         \/ \E k \in Sizes : Calloc(t, k, n)
         \/ \E i \in DOMAIN blocks : Realloc(t, i, n)
    \/ \E i \in DOMAIN blocks : \E k \in 0..blocks[i].size - 1, v \in Byte : PokeReads(t, i, k, v)
    \/ PokeWrites(t)
Spec == Init /\ [][Next]_vars
Symmetric == Permutations(Thread)

----------------------------------------------------------------------------
(* Blocks are aligned, inside the heap, and have no byte in common, those  *)
(* of their headers included; as long as kmalloc has not wrapped around.   *)
Extent(b) == b.at - b.head..b.at + b.size - 1
BlocksApart ==
  /\ \A i \in DOMAIN blocks : blocks[i].at % 8 = 0 /\ Extent(blocks[i]) \subseteq Address
  /\ \A i, j \in DOMAIN blocks : i # j => Extent(blocks[i]) \cap Extent(blocks[j]) = {}

(* What an owner has written, or was promised ("eval.c assumes malloc      *)
(* returns 0d pages", hal.c 284), is what it finds, through realloc and    *)
(* although poke8 writes back three bytes that it was not asked to.        *)
ContentsKept ==
  \A i \in DOMAIN blocks : LET b == blocks[i] IN
    /\ \A k \in 0..b.size - 1 : b.data[k] \in {ANY, mem[b.at + k]}
    /\ b.head = Header => mem[b.at - Header] = b.size

(* No request ever passes the test of kmalloc by wrapping around.          *)
NeverWild == mode # "wild"
=============================================================================
