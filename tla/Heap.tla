-------------------------------- MODULE Heap --------------------------------
(***************************************************************************)
(* The kernel heap: the bitmap allocator of libc/heap.c over one static    *)
(* arena, and kmalloc/kfree of libc/mem.c on top of it.                    *)
(*                                                                         *)
(* The arena starts with a KHEAPBLOCKBM header.  The rest is cut into      *)
(* slots of BSize bytes, and the bitmap (one byte per slot, stored in the  *)
(* first slots) holds 0 for a free slot and the id of an allocation for a  *)
(* used one.  There is no length anywhere: an allocation is a maximal run  *)
(* of one id, so freeing is right only while neighbours have different     *)
(* ids.  Addresses are offsets from the arena, which is page-aligned.  The *)
(* lfb field is written and never read; it is left out.                    *)
(***************************************************************************)
EXTENDS Integers, FiniteSets

CONSTANTS KHEAP_SIZE,   \* bytes of the arena
          KHEAP_BSIZE,  \* bytes per bitmap slot
          HdrSize,      \* sizeof(KHEAPBLOCKBM)
          WordSize,     \* sizeof(uintptr_t), the back pointer of kmalloc
          PageSize,     \* alignment of an aligned allocation
          IdMod,        \* ids are uint8_t: 256
          Sizes         \* sizes that callers ask for

ASSUME HeapConstants ==
  /\ KHEAP_SIZE \in Nat /\ KHEAP_BSIZE \in Nat \ {0}
  /\ HdrSize \in Nat \ {0} /\ HdrSize < KHEAP_SIZE
  /\ WordSize \in Nat \ {0} /\ PageSize \in Nat \ {0}
  /\ IdMod \in Nat /\ IdMod > 5
  /\ Sizes \subseteq Nat

VARIABLES kheap_ready,  \* kheap_ensure_init has run
          bm,           \* the bitmap
          used,         \* slots in use, as the block header counts them
          live          \* the allocations their owners have not freed
heapVars == <<kheap_ready, bm, used, live>>

-----------------------------------------------------------------------------
(* Slots and addresses.                                                    *)

BlockSize == KHEAP_SIZE - HdrSize

CeilDiv(a, b) == IF (a \div b) * b < a THEN (a \div b) + 1 ELSE a \div b

bcnt == BlockSize \div KHEAP_BSIZE

SlotSet == 0 .. bcnt - 1

Reserved == 0 .. CeilDiv(bcnt, KHEAP_BSIZE) - 1

SlotAddr(x) == HdrSize + x * KHEAP_BSIZE

AlignUp(p) == ((p + PageSize - 1) \div PageSize) * PageSize

(* An allocation as its owner knows it: the pointer p, the size asked for, *)
(* and, in the word below p, the raw pointer.  x and n are the slots that  *)
(* k_heapBMAlloc gave it.                                                  *)
Run(a) == a.x .. a.x + a.n - 1

-----------------------------------------------------------------------------
(* The arena as kmalloc finds it: kheap_ensure_init lays it out on the     *)
(* first call.                                                             *)
InitialMap == [x \in SlotSet |-> IF x \in Reserved THEN 5 ELSE 0]

Map == IF kheap_ready THEN bm ELSE InitialMap

UsedSlots == IF kheap_ready THEN used ELSE CeilDiv(bcnt, KHEAP_BSIZE)

(* uint8_t increment.                                                      *)
Inc(c) == IF c = IdMod - 1 THEN 0 ELSE c + 1

NextIdOnly(a, b) == IF Inc(a) = 0 THEN 1 ELSE Inc(a)

(* k_heapBMGetNID: the first id after a that is neither 0 nor b, so the    *)
(* third at the latest.                                                    *)
GetNID(a, b) == LET c == Inc(a)
                IN IF c \notin {0, b} THEN c
                   ELSE IF Inc(c) \notin {0, b} THEN Inc(c)
                   ELSE Inc(Inc(c))

FreeRunAt(x, n) == x + n <= bcnt /\ \A i \in x .. x + n - 1 : Map[i] = 0

(* The slots where the scan of k_heapBMAlloc may end: the first free run   *)
(* of n slots.  The loop itself is in MCServices.                          *)
FirstFit(x, n) == FreeRunAt(x, n) /\ \A y \in 0 .. x - 1 : ~FreeRunAt(y, n)

EnoughBytes(size) == BlockSize - UsedSlots * KHEAP_BSIZE >= size

LeftId(x) == IF x > 0 THEN Map[x - 1] ELSE 0

RightId(x) == IF x < bcnt THEN Map[x] ELSE 0

HeapInit == /\ kheap_ready = FALSE
            /\ bm = [x \in SlotSet |-> 0]
            /\ used = 0
            /\ live = {}

(* Room for the back pointer and the worst alignment padding.              *)
RawSize(size, align) == size + WordSize + (IF align THEN PageSize ELSE 0)

Pointer(raw, align) == IF align THEN AlignUp(raw + WordSize) ELSE raw + WordSize

Kmalloc(size, align) ==
  /\ EnoughBytes(RawSize(size, align))
  /\ LET n == CeilDiv(RawSize(size, align), KHEAP_BSIZE)
     IN \E x \in SlotSet :
          /\ FirstFit(x, n)
          /\ LET nid == GetNID(LeftId(x), RightId(x + n))
                 raw == SlotAddr(x)
             IN /\ bm' = [i \in SlotSet |-> IF i \in x .. x + n - 1 THEN nid ELSE Map[i]]
                /\ live' = live \cup {[p |-> Pointer(raw, align), size |-> size,
                                       align |-> align, raw |-> raw, x |-> x, n |-> n]}
          /\ used' = UsedSlots + n
  /\ kheap_ready' = TRUE

KmallocFails(size, align) ==
  /\ \/ ~EnoughBytes(RawSize(size, align))
     \/ \A x \in SlotSet : ~FreeRunAt(x, CeilDiv(RawSize(size, align), KHEAP_BSIZE))
  /\ kheap_ready' = TRUE
  /\ bm' = Map
  /\ used' = UsedSlots
  /\ UNCHANGED live

(* The end of the run that starts at bi, as the loop of k_heapBMFree finds *)
(* it: the first slot with another id.                                     *)
RunEnd(bi) == CHOOSE e \in bi + 1 .. bcnt :
                /\ \A i \in bi .. e - 1 : bm[i] = bm[bi]
                /\ e < bcnt => bm[e] # bm[bi]

(* kfree reads the raw pointer below p and k_heapBMFree clears its run.    *)
Kfree(a) ==
  /\ kheap_ready
  /\ LET bi == (a.raw - HdrSize) \div KHEAP_BSIZE
         e  == RunEnd(bi)
     IN /\ bm' = [i \in SlotSet |-> IF i \in bi .. e - 1 THEN 0 ELSE bm[i]]
        /\ used' = used - (e - bi)
  /\ live' = live \ {a}
  /\ UNCHANGED kheap_ready

HeapNext == \/ \E size \in Sizes, align \in BOOLEAN :
                 Kmalloc(size, align) \/ KmallocFails(size, align)
            \/ \E a \in live : Kfree(a)

-----------------------------------------------------------------------------
(* The bitmap is the allocations: once the arena is laid out, the slots    *)
(* marked used are the bitmap's own and the runs of what is allocated, no  *)
(* two of these overlap, and the header counts them exactly.  A kfree that *)
(* clears a neighbour's slots, or leaves some of its own, breaks it.  What *)
(* an owner writes stays in its run: the size bytes at p and the back      *)
(* pointer below p are inside it, whatever the alignment padding.          *)
AllocationsApart ==
  /\ kheap_ready =>
       /\ {x \in SlotSet : bm[x] # 0} = Reserved \cup UNION {Run(a) : a \in live}
       /\ \A a \in live : Run(a) \subseteq SlotSet /\ Run(a) \cap Reserved = {}
       /\ \A a, b \in live : a # b => Run(a) \cap Run(b) = {}
       /\ used = Cardinality({x \in SlotSet : bm[x] # 0})
  /\ \A a \in live : /\ SlotAddr(a.x) <= a.p - WordSize
                     /\ a.p + a.size <= SlotAddr(a.x + a.n)
                     /\ a.align => a.p % PageSize = 0
=============================================================================
