------------------------------ MODULE Umalloc ------------------------------
(***************************************************************************)
(* malloc and free of a userland program (userland/umalloc.h) over the     *)
(* break that SYS_SBRK moves.  A block is a header followed by its usable  *)
(* bytes; the free ones are linked in address order through next, which is *)
(* stored in the header.  Addresses are offsets from heap_start.  A header *)
(* that a merge has swallowed is dead memory and is left out of blk.       *)
(***************************************************************************)
EXTENDS Integers, FiniteSets, Functions, TLC

CONSTANTS UMALLOC_ALIGN, UMALLOC_HDR_SIZE, UMALLOC_MIN_GROW,
          UHeapEnd,   \* heap_end - heap_start of the process
          USizes      \* sizes the program asks for

ASSUME UmallocConstants ==
  /\ UMALLOC_ALIGN \in Nat \ {0} /\ UMALLOC_HDR_SIZE \in Nat \ {0}
  /\ UMALLOC_HDR_SIZE % UMALLOC_ALIGN = 0 /\ UMALLOC_MIN_GROW % UMALLOC_ALIGN = 0
  /\ UHeapEnd \in Nat /\ USizes \subseteq Nat

VARIABLES blk,        \* the headers: address -> [size, next, free]
          free_list,  \* umalloc_free_list
          brk,        \* the break of the process, heap_brk
          owned       \* what the program holds: address of the block, size asked
umVars == <<blk, free_list, brk, owned>>

NULL == -1

umalloc_align_up(x) == ((x + UMALLOC_ALIGN - 1) \div UMALLOC_ALIGN) * UMALLOC_ALIGN

End(b, a) == a + UMALLOC_HDR_SIZE + b[a].size

(* A list: the headers b and the first free block.                         *)
List(b, head) == [b |-> b, head |-> head]

(* The walk of umalloc_list_insert: the last block of the list from cur on *)
(* that lies below a.                                                      *)
RECURSIVE Before(_, _, _)
Before(b, cur, a) == IF b[cur].next # NULL /\ b[cur].next < a
                     THEN Before(b, b[cur].next, a) ELSE cur

PushFront(l, a) == List([l.b EXCEPT ![a].next = l.head], a)

umalloc_list_insert(l, a) ==
  IF l.head = NULL \/ a < l.head
  THEN PushFront(l, a)
  ELSE LET cur == Before(l.b, l.head, a)
       IN List([l.b EXCEPT ![a].next = l.b[cur].next, ![cur].next = a], l.head)

(* First fit: the first block of the list from cur on that is large enough,*)
(* with the block before it.                                               *)
RECURSIVE Find(_, _, _, _)
Find(b, prev, cur, size) ==
  IF cur = NULL \/ (b[cur].free /\ b[cur].size >= size) THEN <<prev, cur>>
  ELSE Find(b, cur, b[cur].next, size)

Unlink(l, prev, cur) ==
  IF prev # NULL THEN List([l.b EXCEPT ![prev].next = l.b[cur].next], l.head)
  ELSE List(l.b, l.b[cur].next)

(* What umalloc_grow asks of SYS_SBRK, and what SYS_SBRK refuses.          *)
Chunk(size) == LET c == size + UMALLOC_HDR_SIZE
               IN IF c < UMALLOC_MIN_GROW THEN UMALLOC_MIN_GROW ELSE c

SbrkRefuses(chunk) == brk + chunk > UHeapEnd

AddHeader(b, a, size) == (a :> [size |-> size, next |-> NULL, free |-> TRUE]) @@ b

umalloc_grow(l, size) == List(AddHeader(l.b, brk, Chunk(size) - UMALLOC_HDR_SIZE), l.head)

WorthSplitting(l, cur, size) == l.b[cur].size >= size + UMALLOC_HDR_SIZE + UMALLOC_ALIGN

Split(l, cur, size) ==
  LET rem == cur + UMALLOC_HDR_SIZE + size
      cut == List(AddHeader(l.b, rem, l.b[cur].size - size - UMALLOC_HDR_SIZE), l.head)
      ins == umalloc_list_insert(cut, rem)
  IN List([ins.b EXCEPT ![cur].size = size], ins.head)

(* The block cur leaves umalloc as the program's.                          *)
Hand(l, cur, asked) ==
  LET size == umalloc_align_up(asked)
      s == IF WorthSplitting(l, cur, size) THEN Split(l, cur, size) ELSE l
  IN /\ blk' = [s.b EXCEPT ![cur].free = FALSE, ![cur].next = NULL]
     /\ free_list' = s.head
     /\ owned' = owned \cup {[a |-> cur, size |-> asked]}

umalloc(asked) ==
  LET size == umalloc_align_up(asked)
      f == Find(blk, NULL, free_list, size)
      l == List(blk, free_list)
  IN /\ asked # 0
     /\ \/ /\ f[2] # NULL
           /\ Hand(Unlink(l, f[1], f[2]), f[2], asked)
           /\ UNCHANGED brk
        \/ /\ f[2] = NULL /\ ~SbrkRefuses(Chunk(size))
           /\ Hand(umalloc_grow(l, size), brk, asked)
           /\ brk' = brk + Chunk(size)

(* umalloc returns NULL: for no bytes, or when SYS_SBRK refuses.           *)
UmallocFails(asked) ==
  LET size == umalloc_align_up(asked)
  IN /\ asked = 0 \/ (Find(blk, NULL, free_list, size)[2] = NULL /\ SbrkRefuses(Chunk(size)))
     /\ UNCHANGED umVars

ufree(o) ==
  LET a   == o.a
      l   == umalloc_list_insert(List([blk EXCEPT ![a].free = TRUE], free_list), a)
      nxt == l.b[a].next
  IN /\ blk' = IF nxt # NULL /\ End(l.b, a) = nxt
               THEN Restrict([l.b EXCEPT ![a].size = @ + UMALLOC_HDR_SIZE + l.b[nxt].size,
                                         ![a].next = l.b[nxt].next],
                             DOMAIN l.b \ {nxt})
               ELSE l.b
     /\ free_list' = l.head
     /\ owned' = owned \ {o}
     /\ UNCHANGED brk

umalloc_Init == blk = <<>> /\ free_list = NULL /\ brk = 0 /\ owned = {}

umalloc_Next == \/ \E n \in USizes : umalloc(n) \/ UmallocFails(n)
                \/ \E o \in owned : ufree(o)

-----------------------------------------------------------------------------
(* Whatever is allocated, split, freed and merged, the blocks tile the     *)
(* heap from its start to the break, so no two overlap and none is lost;   *)
(* the list links exactly the free ones, each once and in address order;   *)
(* and a pointer the program holds has a block of its own, not free, with  *)
(* the bytes asked for (umalloc and ufree, umalloc.h:81-133).              *)
HeapTiled ==
  LET Starts == DOMAIN blk
      Free == {a \in Starts : blk[a].free}
      After(a) == {x \in Free : x > a}
      Lowest(S) == IF S = {} THEN NULL ELSE CHOOSE x \in S : \A y \in S : x <= y
  IN /\ {End(blk, a) : a \in Starts} \cup {0} = Starts \cup {brk}
     /\ \A a, b \in Starts : a < b => End(blk, a) <= b
     /\ free_list = Lowest(Free)
     /\ \A a \in Free : blk[a].next = Lowest(After(a))
     /\ {o.a : o \in owned} = Starts \ Free
     /\ \A o \in owned : blk[o.a].size >= o.size
     /\ \A o, q \in owned : o.a = q.a => o = q
=============================================================================
