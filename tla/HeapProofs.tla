----------------------------- MODULE HeapProofs -----------------------------
(***************************************************************************)
(* Proofs about Heap, for every size of the arena, of its slots and of the *)
(* ids, and for every set of requests.                                     *)
(***************************************************************************)
EXTENDS Heap, FiniteSetTheorems, TLAPS

Heap_Spec == HeapInit /\ [][HeapNext]_heapVars

(***************************************************************************)
(* The inductive invariant                                                 *)
(***************************************************************************)
Ids == 0 .. IdMod - 1

Allocations == [p : Int, size : Nat, align : BOOLEAN, raw : Int, x : Nat, n : Nat \ {0}]

(* What the owner of a writes is inside a's run. *)
InsideRun(a) == /\ SlotAddr(a.x) <= a.p - WordSize
                /\ a.p + a.size <= SlotAddr(a.x + a.n)
                /\ a.align => a.p % PageSize = 0

UsedIn(m) == {i \in SlotSet : m[i] # 0}

(* The bitmap m holds the allocations l and u counts its used slots.  Each *)
(* allocation is a run of one id that ends where the id ends: the id in    *)
(* the slot after it is another, which is what k_heapBMFree relies on.     *)
Holds(m, l, u) ==
  /\ m \in [SlotSet -> Ids]
  /\ l \subseteq Allocations
  /\ \A a \in l : /\ a.x + a.n <= bcnt
                  /\ a.raw = SlotAddr(a.x)
                  /\ InsideRun(a)
                  /\ \A i \in Run(a) : m[i] = m[a.x] /\ m[i] # 0 /\ i \notin Reserved
                  /\ a.x + a.n < bcnt => m[a.x + a.n] # m[a.x]
  /\ \A a, b \in l : a # b => Run(a) \cap Run(b) = {}
  /\ \A i \in SlotSet : m[i] # 0 <=> i \in Reserved \/ \E a \in l : i \in Run(a)
  /\ u = Cardinality(UsedIn(m))

HeapInv ==
  /\ Holds(Map, live, UsedSlots)
  /\ ~kheap_ready => live = {}

(***************************************************************************)
(* Arithmetic                                                              *)
(***************************************************************************)
(* Division rounds down. *)
LEMMA DivBounds ==
  ASSUME NEW a \in Nat, NEW b \in Nat \ {0}
  PROVE  /\ a \div b \in Nat
         /\ (a \div b) * b <= a
         /\ a < (a \div b) * b + b
  OBVIOUS

(* A multiple divides exactly. *)
LEMMA DivExact ==
  ASSUME NEW x \in Nat, NEW b \in Nat \ {0}
  PROVE  (x * b) \div b = x /\ (x * b) % b = 0
  OBVIOUS

(* CeilDiv rounds up. *)
LEMMA CeilBounds ==
  ASSUME NEW a \in Nat, NEW b \in Nat \ {0}
  PROVE  /\ CeilDiv(a, b) \in Nat
         /\ CeilDiv(a, b) * b >= a
         /\ CeilDiv(a, b) <= a
         /\ a > 0 => CeilDiv(a, b) > 0
  BY DivBounds DEF CeilDiv

(* AlignUp gives the next multiple of the page size. *)
LEMMA AlignUpOK ==
  ASSUME NEW q \in Nat
  PROVE  /\ AlignUp(q) \in Nat /\ AlignUp(q) % PageSize = 0
         /\ q <= AlignUp(q) /\ AlignUp(q) < q + PageSize
<1>1. PageSize \in Nat \ {0} /\ q + PageSize - 1 \in Nat
  BY HeapConstants
<1> DEFINE d == (q + PageSize - 1) \div PageSize
<1>2. d \in Nat /\ d * PageSize <= q + PageSize - 1
      /\ q + PageSize - 1 < d * PageSize + PageSize
  BY <1>1, DivBounds
<1>3. (d * PageSize) % PageSize = 0
  BY <1>1, <1>2, DivExact
<1> HIDE DEF d
<1>4. d * PageSize \in Nat
  BY <1>1, <1>2
<1>5. AlignUp(q) = d * PageSize
  BY DEF AlignUp, d
<1> QED
  BY <1>1, <1>2, <1>3, <1>4, <1>5

(* The slots and the reserved ones. *)
LEMMA SlotsOK ==
  /\ bcnt \in Nat /\ KHEAP_BSIZE \in Nat \ {0} /\ HdrSize \in Nat
  /\ CeilDiv(bcnt, KHEAP_BSIZE) \in 0 .. bcnt
  /\ SlotSet \subseteq Nat /\ Reserved \subseteq SlotSet
<1>1. BlockSize \in Nat /\ KHEAP_BSIZE \in Nat \ {0} /\ HdrSize \in Nat
  BY HeapConstants DEF BlockSize
<1>2. bcnt \in Nat
  BY <1>1, DivBounds DEF bcnt
<1>3. CeilDiv(bcnt, KHEAP_BSIZE) \in 0 .. bcnt
  BY <1>1, <1>2, CeilBounds
<1> QED
  BY <1>1, <1>2, <1>3 DEF SlotSet, Reserved

(* k_heapBMGetNID gives an id that is neither 0 nor a neighbour's. *)
LEMMA GetNIDOK ==
  ASSUME NEW a \in Ids, NEW b \in Ids
  PROVE  GetNID(a, b) \in Ids \ {0, a, b}
  BY HeapConstants DEF GetNID, Inc, Ids

(* The run of an allocation has room for the back pointer, the padding and *)
(* the size asked for.                                                     *)
LEMMA PointerInside ==
  ASSUME NEW size \in Sizes, NEW align \in BOOLEAN, NEW x \in Nat, NEW n \in Nat,
         n = CeilDiv(RawSize(size, align), KHEAP_BSIZE)
  PROVE  /\ n > 0 /\ SlotAddr(x) \in Nat /\ Pointer(SlotAddr(x), align) \in Nat
         /\ SlotAddr(x) <= Pointer(SlotAddr(x), align) - WordSize
         /\ Pointer(SlotAddr(x), align) + size <= SlotAddr(x + n)
         /\ align => Pointer(SlotAddr(x), align) % PageSize = 0
<1>1. /\ size \in Nat /\ WordSize \in Nat \ {0} /\ PageSize \in Nat \ {0}
      /\ HdrSize \in Nat /\ KHEAP_BSIZE \in Nat \ {0}
  BY HeapConstants
<1>2. RawSize(size, align) \in Nat \ {0}
  BY <1>1 DEF RawSize
<1>3. n > 0 /\ n * KHEAP_BSIZE >= RawSize(size, align)
  BY <1>1, <1>2, CeilBounds
<1>4. x * KHEAP_BSIZE \in Nat /\ n * KHEAP_BSIZE \in Nat
      /\ (x + n) * KHEAP_BSIZE = x * KHEAP_BSIZE + n * KHEAP_BSIZE
  BY <1>1
<1>5. SlotAddr(x) \in Nat /\ SlotAddr(x + n) = SlotAddr(x) + n * KHEAP_BSIZE
  BY <1>1, <1>4 DEF SlotAddr
<1> DEFINE q == SlotAddr(x) + WordSize
<1>6. AlignUp(q) \in Nat /\ AlignUp(q) % PageSize = 0
      /\ q <= AlignUp(q) /\ AlignUp(q) < q + PageSize
  BY <1>1, <1>5, AlignUpOK
<1>7. CASE align
  <2>1. Pointer(SlotAddr(x), align) = AlignUp(q)
        /\ RawSize(size, align) = size + WordSize + PageSize
    BY <1>7 DEF Pointer, RawSize
  <2> QED
    BY <1>1, <1>3, <1>4, <1>5, <1>6, <2>1
<1>8. CASE ~align
  <2>1. Pointer(SlotAddr(x), align) = q /\ RawSize(size, align) = size + WordSize
    BY <1>1, <1>8 DEF Pointer, RawSize
  <2> QED
    BY <1>1, <1>3, <1>4, <1>5, <1>8, <2>1
<1> QED
  BY <1>7, <1>8

(***************************************************************************)
(* Allocation and freeing, on any bitmap                                   *)
(***************************************************************************)
(* A run of n slots has n slots. *)
LEMMA RunSize ==
  ASSUME NEW x \in Nat, NEW n \in Nat
  PROVE  IsFiniteSet(x .. x + n - 1) /\ Cardinality(x .. x + n - 1) = n
  BY FS_Interval

(* The slots the bitmap marks used are finitely many. *)
LEMMA UsedFinite ==
  ASSUME NEW m
  PROVE  IsFiniteSet(UsedIn(m))
<1>1. IsFiniteSet(SlotSet)
  BY SlotsOK, FS_Interval DEF SlotSet
<1> QED
  BY <1>1, FS_Subset DEF UsedIn

(* The run of an allocation. *)
LEMMA RunOK ==
  ASSUME NEW a \in Allocations, a.x + a.n <= bcnt
  PROVE  /\ a.x \in Nat /\ a.n \in Nat \ {0}
         /\ Run(a) = a.x .. a.x + a.n - 1
         /\ a.x \in Run(a) /\ a.x + a.n - 1 \in Run(a) /\ Run(a) \subseteq SlotSet
         /\ a.x + a.n < bcnt => a.x + a.n \in SlotSet \ Run(a)
<1>1. a.x \in Nat /\ a.n \in Nat \ {0}
  BY DEF Allocations
<1>2. bcnt \in Nat
  BY SlotsOK
<1> QED
  BY <1>1, <1>2 DEF Run, SlotSet

(* A free run gets an id that its neighbours do not have. *)
LEMMA AllocOK ==
  ASSUME NEW m, NEW l, NEW u, Holds(m, l, u),
         NEW a \in Allocations, a.x + a.n <= bcnt, a.raw = SlotAddr(a.x), InsideRun(a),
         \A i \in Run(a) : m[i] = 0,
         NEW id \in Ids \ {0},
         a.x > 0 => m[a.x - 1] # id,
         a.x + a.n < bcnt => m[a.x + a.n] # id
  PROVE  Holds([i \in SlotSet |-> IF i \in Run(a) THEN id ELSE m[i]], l \cup {a}, u + a.n)
<1> DEFINE w == [i \in SlotSet |-> IF i \in Run(a) THEN id ELSE m[i]]
           k == l \cup {a}
<1>1. /\ a.x \in Nat /\ a.n \in Nat \ {0} /\ bcnt \in Nat
      /\ Run(a) = a.x .. a.x + a.n - 1 /\ a.x \in Run(a) /\ Run(a) \subseteq SlotSet
  BY SlotsOK DEF Allocations, Run, SlotSet
<1>2. \A b \in l : /\ b.x \in Nat /\ b.n \in Nat \ {0} /\ b.x + b.n <= bcnt
                   /\ Run(b) = b.x .. b.x + b.n - 1
                   /\ b.x \in Run(b) /\ b.x + b.n - 1 \in Run(b) /\ Run(b) \subseteq SlotSet
                   /\ b.x + b.n < bcnt => b.x + b.n \in SlotSet
  <2>1. \A b \in l : b \in Allocations /\ b.x + b.n <= bcnt
    BY DEF Holds
  <2> QED
    BY <2>1, RunOK
<1>3. \A b \in l : Run(b) \cap Run(a) = {}
  BY DEF Holds
<1>4. w \in [SlotSet -> Ids]
  BY DEF Holds
<1>5. /\ \A i \in Run(a) : w[i] = id
      /\ \A i \in SlotSet \ Run(a) : w[i] = m[i]
  BY <1>1
<1> HIDE DEF w
<1>6. \A i \in Run(a) : i \notin Reserved
  BY <1>1 DEF Holds
<1>7. ASSUME NEW b \in k
      PROVE  /\ b.x + b.n <= bcnt
             /\ b.raw = SlotAddr(b.x)
             /\ InsideRun(b)
             /\ \A i \in Run(b) : w[i] = w[b.x] /\ w[i] # 0 /\ i \notin Reserved
             /\ b.x + b.n < bcnt => w[b.x + b.n] # w[b.x]
  <2>1. CASE b = a
    <3>1. a.x + a.n < bcnt => w[a.x + a.n] # w[a.x]
      <4> SUFFICES ASSUME a.x + a.n < bcnt PROVE w[a.x + a.n] # w[a.x]
        OBVIOUS
      <4>1. a.x + a.n \in SlotSet \ Run(a)
        BY <1>1 DEF SlotSet
      <4> QED
        BY <1>1, <1>5, <4>1
    <3> QED
      BY <1>1, <1>5, <1>6, <2>1, <3>1
  <2>2. CASE b \in l
    <3>1. \A i \in Run(b) : w[i] = m[i]
      BY <1>2, <1>3, <1>5, <2>2
    <3>2. /\ b.raw = SlotAddr(b.x) /\ InsideRun(b)
          /\ \A i \in Run(b) : m[i] = m[b.x] /\ m[i] # 0 /\ i \notin Reserved
          /\ b.x + b.n < bcnt => m[b.x + b.n] # m[b.x]
      BY <2>2 DEF Holds
    <3>3. ASSUME b.x + b.n < bcnt PROVE w[b.x + b.n] # w[b.x]
      <4> DEFINE e == b.x + b.n
      <4>1. e \in SlotSet /\ e - 1 \in Run(b)
        BY <1>2, <2>2, <3>3
      <4>2. CASE e \in Run(a)
        <5>0. e \in Nat \ {0} /\ a.x \in Nat /\ a.n \in Nat
          <6>1. b.x \in Nat /\ b.n \in Nat \ {0}
            BY <1>2, <2>2
          <6>2. a.x \in Nat /\ a.n \in Nat
            BY <1>1
          <6> QED
            BY <6>1, <6>2
        <5>1. e = a.x
          <6>1. e - 1 \notin Run(a)
            BY <1>3, <2>2, <4>1
          <6>2. e \in a.x .. a.x + a.n - 1 /\ e - 1 \notin a.x .. a.x + a.n - 1
            BY <1>1, <4>2, <6>1
          <6> HIDE DEF e
          <6> QED
            BY <5>0, <6>2
        <5>2. m[a.x - 1] # id
          <6>1. a.x > 0
            BY <5>0, <5>1
          <6> QED
            BY <6>1
        <5>3. w[e] = id /\ w[b.x] = m[b.x] /\ m[e - 1] = m[b.x]
          BY <1>2, <1>5, <2>2, <3>1, <3>2, <4>1, <4>2
        <5> QED
          BY <5>1, <5>2, <5>3
      <4>3. CASE e \notin Run(a)
        BY <1>2, <1>5, <2>2, <3>1, <3>2, <3>3, <4>1, <4>3
      <4> QED
        BY <4>2, <4>3
    <3> QED
      BY <1>2, <2>2, <3>1, <3>2, <3>3
  <2> QED
    BY <2>1, <2>2
<1>8. \A b, c \in k : b # c => Run(b) \cap Run(c) = {}
  BY <1>3 DEF Holds
<1>9. \A i \in SlotSet : w[i] # 0 <=> i \in Reserved \/ \E b \in k : i \in Run(b)
  <2> SUFFICES ASSUME NEW i \in SlotSet
               PROVE  w[i] # 0 <=> i \in Reserved \/ \E b \in k : i \in Run(b)
    OBVIOUS
  <2>1. CASE i \in Run(a)
    BY <1>5, <2>1
  <2>2. CASE i \notin Run(a)
    BY <1>5, <2>2 DEF Holds
  <2> QED
    BY <2>1, <2>2
<1>10. u + a.n = Cardinality(UsedIn(w))
  <2>1. UsedIn(w) = UsedIn(m) \cup Run(a) /\ UsedIn(m) \cap Run(a) = {}
    BY <1>1, <1>5 DEF UsedIn
  <2>2. IsFiniteSet(Run(a)) /\ Cardinality(Run(a)) = a.n
    BY <1>1, RunSize
  <2>3. Cardinality(UsedIn(w)) = Cardinality(UsedIn(m)) + Cardinality(Run(a)) - Cardinality({})
    BY <2>1, <2>2, UsedFinite, FS_Union
  <2>4. Cardinality({}) = 0 /\ Cardinality(UsedIn(m)) \in Nat
    BY UsedFinite, FS_EmptySet, FS_CardinalityType
  <2> QED
    BY <1>1, <2>2, <2>3, <2>4 DEF Holds
<1>11. k \subseteq Allocations
  BY DEF Holds
<1> HIDE DEF k
<1>12. Holds(w, k, u + a.n)
  BY <1>4, <1>7, <1>8, <1>9, <1>10, <1>11 DEF Holds
<1> QED
  BY <1>12 DEF w, k

(* Clearing the run of an allocation frees it and nothing else. *)
LEMMA FreeOK ==
  ASSUME NEW m, NEW l, NEW u, Holds(m, l, u), NEW a \in l
  PROVE  Holds([i \in SlotSet |-> IF i \in Run(a) THEN 0 ELSE m[i]], l \ {a}, u - a.n)
<1> DEFINE w == [i \in SlotSet |-> IF i \in Run(a) THEN 0 ELSE m[i]]
           k == l \ {a}
<1>1. \A b \in l : /\ b.x \in Nat /\ b.n \in Nat \ {0} /\ b.x + b.n <= bcnt
                   /\ Run(b) = b.x .. b.x + b.n - 1
                   /\ b.x \in Run(b) /\ b.x + b.n - 1 \in Run(b) /\ Run(b) \subseteq SlotSet
                   /\ b.x + b.n < bcnt => b.x + b.n \in SlotSet
  <2>1. \A b \in l : b \in Allocations /\ b.x + b.n <= bcnt
    BY DEF Holds
  <2> QED
    BY <2>1, RunOK
<1>2. \A b \in k : Run(b) \cap Run(a) = {}
  BY DEF Holds
<1>3. w \in [SlotSet -> Ids]
  BY HeapConstants DEF Holds, Ids
<1>4. /\ \A i \in Run(a) : w[i] = 0
      /\ \A i \in SlotSet \ Run(a) : w[i] = m[i]
  BY <1>1
<1> HIDE DEF w
<1>5. ASSUME NEW b \in k
      PROVE  /\ b.x + b.n <= bcnt
             /\ b.raw = SlotAddr(b.x)
             /\ InsideRun(b)
             /\ \A i \in Run(b) : w[i] = w[b.x] /\ w[i] # 0 /\ i \notin Reserved
             /\ b.x + b.n < bcnt => w[b.x + b.n] # w[b.x]
  <2>1. \A i \in Run(b) : w[i] = m[i]
    BY <1>1, <1>2, <1>4
  <2>2. /\ b.raw = SlotAddr(b.x) /\ InsideRun(b)
        /\ \A i \in Run(b) : m[i] = m[b.x] /\ m[i] # 0 /\ i \notin Reserved
        /\ b.x + b.n < bcnt => m[b.x + b.n] # m[b.x]
    BY DEF Holds
  <2>3. b.x + b.n < bcnt => b.x + b.n \in SlotSet
    BY <1>1
  <2> QED
    BY <1>1, <1>4, <2>1, <2>2, <2>3
<1>6. \A b, c \in k : b # c => Run(b) \cap Run(c) = {}
  BY DEF Holds
<1>7. \A i \in SlotSet : w[i] # 0 <=> i \in Reserved \/ \E b \in k : i \in Run(b)
  <2> SUFFICES ASSUME NEW i \in SlotSet
               PROVE  w[i] # 0 <=> i \in Reserved \/ \E b \in k : i \in Run(b)
    OBVIOUS
  <2>1. CASE i \in Run(a)
    BY <1>2, <1>4, <2>1 DEF Holds
  <2>2. CASE i \notin Run(a)
    BY <1>4, <2>2 DEF Holds
  <2> QED
    BY <2>1, <2>2
<1>8. u - a.n = Cardinality(UsedIn(w))
  <2>1. UsedIn(w) = UsedIn(m) \ Run(a) /\ UsedIn(m) \cap Run(a) = Run(a)
    BY <1>1, <1>4 DEF UsedIn, Holds
  <2>2. Cardinality(Run(a)) = a.n
    BY <1>1, RunSize
  <2>3. Cardinality(UsedIn(w)) = Cardinality(UsedIn(m)) - Cardinality(Run(a))
    BY <2>1, UsedFinite, FS_Difference
  <2> QED
    BY <2>2, <2>3 DEF Holds
<1>9. k \subseteq Allocations
  BY DEF Holds
<1> HIDE DEF k
<1>10. Holds(w, k, u - a.n)
  BY <1>3, <1>5, <1>6, <1>7, <1>8, <1>9 DEF Holds
<1> QED
  BY <1>10 DEF w, k

(***************************************************************************)
(* The steps                                                               *)
(***************************************************************************)
(* Ids on both sides of a run. *)
LEMMA NeighbourIds ==
  ASSUME HeapInv, NEW x \in SlotSet, NEW n \in Nat
  PROVE  LeftId(x) \in Ids /\ RightId(x + n) \in Ids
<1>1. Map \in [SlotSet -> Ids] /\ 0 \in Ids
  BY HeapConstants DEF HeapInv, Holds, Ids
<1>2. bcnt \in Nat /\ x \in Nat /\ x < bcnt
  BY SlotsOK DEF SlotSet
<1>3. x > 0 => x - 1 \in SlotSet
  BY <1>2 DEF SlotSet
<1>4. x + n < bcnt => x + n \in SlotSet
  BY <1>2 DEF SlotSet
<1> QED
  BY <1>1, <1>3, <1>4 DEF LeftId, RightId

(* kmalloc adds one allocation. *)
LEMMA KmallocOK ==
  ASSUME HeapInv, NEW size \in Sizes, NEW align \in BOOLEAN, Kmalloc(size, align)
  PROVE  HeapInv'
<1> DEFINE n == CeilDiv(RawSize(size, align), KHEAP_BSIZE)
           Rec(x) == [p |-> Pointer(SlotAddr(x), align), size |-> size, align |-> align,
                      raw |-> SlotAddr(x), x |-> x, n |-> n]
           Nid(x) == GetNID(LeftId(x), RightId(x + n))
<1>1. PICK x \in SlotSet :
        /\ FirstFit(x, n)
        /\ bm' = [i \in SlotSet |-> IF i \in x .. x + n - 1 THEN Nid(x) ELSE Map[i]]
        /\ live' = live \cup {Rec(x)}
        /\ used' = UsedSlots + n
  BY DEF Kmalloc
<1>2. RawSize(size, align) \in Nat
  BY HeapConstants DEF RawSize
<1>3. n \in Nat /\ x \in Nat
  BY <1>2, SlotsOK, CeilBounds
<1> DEFINE a == Rec(x)
           id == Nid(x)
<1>4. id \in Ids \ {0, LeftId(x), RightId(x + n)}
  BY <1>3, NeighbourIds, GetNIDOK
<1> HIDE DEF n
<1>5. /\ n > 0 /\ SlotAddr(x) \in Nat /\ Pointer(SlotAddr(x), align) \in Nat
      /\ SlotAddr(x) <= Pointer(SlotAddr(x), align) - WordSize
      /\ Pointer(SlotAddr(x), align) + size <= SlotAddr(x + n)
      /\ align => Pointer(SlotAddr(x), align) % PageSize = 0
  BY <1>3, PointerInside DEF n
<1>6. /\ a.x = x /\ a.n = n /\ a.raw = SlotAddr(x) /\ a.align = align /\ a.size = size
      /\ a.p = Pointer(SlotAddr(x), align)
      /\ Run(a) = x .. x + n - 1
  BY DEF Run
<1>7. a \in Allocations
  BY <1>3, <1>5, HeapConstants DEF Allocations
<1> HIDE DEF a, id
<1>8. InsideRun(a)
  BY <1>5, <1>6 DEF InsideRun
<1>9. x + n <= bcnt /\ \A i \in Run(a) : Map[i] = 0
  BY <1>1, <1>6 DEF FirstFit, FreeRunAt
<1>10. /\ x > 0 => Map[x - 1] # id
       /\ x + n < bcnt => Map[x + n] # id
  BY <1>4 DEF LeftId, RightId
<1>11. Holds([i \in SlotSet |-> IF i \in Run(a) THEN id ELSE Map[i]], live \cup {a}, UsedSlots + n)
  BY <1>4, <1>6, <1>7, <1>8, <1>9, <1>10, AllocOK DEF HeapInv
<1>12. kheap_ready' /\ Map' = bm' /\ UsedSlots' = used'
  BY DEF Kmalloc, Map, UsedSlots
<1>13. bm' = [i \in SlotSet |-> IF i \in Run(a) THEN id ELSE Map[i]]
       /\ live' = live \cup {a} /\ used' = UsedSlots + n
  BY <1>1, <1>6 DEF a, id
<1>14. Holds(Map', live', UsedSlots')
  BY <1>11, <1>12, <1>13
<1> QED
  BY <1>12, <1>14 DEF HeapInv

(* kfree finds the end of the run by its id: it is where the run ends. *)
LEMMA RunEndOK ==
  ASSUME HeapInv, kheap_ready, NEW a \in live
  PROVE  RunEnd(a.x) = a.x + a.n
<1>1. bm \in [SlotSet -> Ids] /\ Holds(bm, live, UsedSlots)
  BY DEF HeapInv, Map, Holds
<1>2. a \in Allocations /\ a.x + a.n <= bcnt
  BY <1>1 DEF Holds
<1>3. a.x \in Nat /\ a.n \in Nat \ {0} /\ bcnt \in Nat /\ Run(a) = a.x .. a.x + a.n - 1
  BY <1>2, RunOK, SlotsOK
<1>4. /\ \A i \in a.x .. a.x + a.n - 1 : bm[i] = bm[a.x]
      /\ a.x + a.n < bcnt => bm[a.x + a.n] # bm[a.x]
  BY <1>1, <1>3 DEF Holds
<1> DEFINE x == a.x
           n == a.n
           P(e) == /\ \A i \in x .. e - 1 : bm[i] = bm[x]
                   /\ e < bcnt => bm[e] # bm[x]
<1>5. x + n \in x + 1 .. bcnt /\ P(x + n)
  BY <1>2, <1>3, <1>4
<1>6. ASSUME NEW e \in x + 1 .. bcnt, P(e) PROVE e = x + n
  <2>0. x \in Nat /\ n \in Nat \ {0} /\ bcnt \in Nat /\ e \in Nat /\ x + n <= bcnt
        /\ x + 1 <= e /\ e <= bcnt
    BY <1>2, <1>3
  <2>1. ASSUME e < x + n PROVE FALSE
    <3>1. e \in x .. x + n - 1 /\ e < bcnt
      BY <2>0, <2>1
    <3> QED
      BY <1>4, <1>6, <3>1
  <2>2. ASSUME x + n < e PROVE FALSE
    <3>1. x + n \in x .. e - 1 /\ x + n < bcnt
      BY <2>0, <2>2
    <3> QED
      BY <1>4, <1>6, <3>1
  <2> QED
    BY <2>0, <2>1, <2>2
<1>7. RunEnd(x) = CHOOSE e \in x + 1 .. bcnt : P(e)
  BY DEF RunEnd
<1> HIDE DEF P, x, n
<1>8. RunEnd(x) = x + n
  BY <1>5, <1>6, <1>7
<1> QED
  BY <1>8 DEF x, n

(* kfree frees exactly the allocation it is given. *)
LEMMA KfreeOK ==
  ASSUME HeapInv, NEW a \in live, Kfree(a)
  PROVE  HeapInv'
<1>1. kheap_ready /\ kheap_ready' /\ live' = live \ {a}
  BY DEF Kfree
<1>2. Holds(bm, live, used) /\ Map' = bm' /\ UsedSlots' = used'
  BY <1>1 DEF HeapInv, Map, UsedSlots
<1>3. a \in Allocations /\ a.x + a.n <= bcnt /\ a.raw = SlotAddr(a.x)
  BY <1>2 DEF Holds
<1>4. a.x \in Nat /\ a.n \in Nat /\ Run(a) = a.x .. a.x + a.n - 1
  BY <1>3, RunOK
<1>5. (a.raw - HdrSize) \div KHEAP_BSIZE = a.x
  <2>1. a.raw - HdrSize = a.x * KHEAP_BSIZE
    BY <1>3, <1>4, SlotsOK DEF SlotAddr
  <2> QED
    BY <1>4, <2>1, SlotsOK, DivExact
<1>6. RunEnd(a.x) = a.x + a.n
  BY <1>1, RunEndOK
<1>7. /\ bm' = [i \in SlotSet |-> IF i \in a.x .. RunEnd(a.x) - 1 THEN 0 ELSE bm[i]]
      /\ used' = used - (RunEnd(a.x) - a.x)
  BY <1>5 DEF Kfree
<1>8. RunEnd(a.x) - a.x = a.n
  BY <1>4, <1>6
<1>9. bm' = [i \in SlotSet |-> IF i \in Run(a) THEN 0 ELSE bm[i]] /\ used' = used - a.n
  BY <1>4, <1>6, <1>7, <1>8
<1>10. Holds(bm', live', used')
  BY <1>1, <1>2, <1>9, FreeOK
<1> QED
  BY <1>1, <1>2, <1>10 DEF HeapInv

(* The arena before the first kmalloc: only the bitmap's own slots. *)
LEMMA HeapInitOK == HeapInit => HeapInv
<1> SUFFICES ASSUME HeapInit PROVE HeapInv
  OBVIOUS
<1> DEFINE c == CeilDiv(bcnt, KHEAP_BSIZE)
<1>1. ~kheap_ready /\ live = {} /\ Map = InitialMap /\ UsedSlots = c
  BY DEF HeapInit, Map, UsedSlots
<1>2. InitialMap \in [SlotSet -> Ids]
  BY HeapConstants DEF InitialMap, Ids
<1>3. \A i \in SlotSet : InitialMap[i] # 0 <=> i \in Reserved
  BY DEF InitialMap
<1>4. UsedIn(InitialMap) = Reserved
  BY <1>3, SlotsOK DEF UsedIn
<1>5. Cardinality(Reserved) = c
  <2>1. c \in Nat /\ Reserved = 0 .. 0 + c - 1
    BY SlotsOK DEF Reserved
  <2> HIDE DEF c
  <2> QED
    BY <2>1, RunSize
<1>6. Holds(InitialMap, {}, c)
  BY <1>2, <1>3, <1>4, <1>5 DEF Holds
<1> QED
  BY <1>1, <1>6 DEF HeapInv

(* Every step of the kernel heap. *)
LEMMA HeapNextOK == HeapInv /\ [HeapNext]_heapVars => HeapInv'
<1> SUFFICES ASSUME HeapInv, [HeapNext]_heapVars PROVE HeapInv'
  OBVIOUS
<1>1. ASSUME NEW size \in Sizes, NEW align \in BOOLEAN, Kmalloc(size, align) PROVE HeapInv'
  BY <1>1, KmallocOK
<1>2. ASSUME NEW size \in Sizes, NEW align \in BOOLEAN, KmallocFails(size, align) PROVE HeapInv'
  <2>1. kheap_ready' /\ Map' = Map /\ UsedSlots' = UsedSlots /\ live' = live
    BY <1>2 DEF KmallocFails, Map, UsedSlots
  <2> QED
    BY <2>1 DEF HeapInv
<1>3. ASSUME NEW a \in live, Kfree(a) PROVE HeapInv'
  BY <1>3, KfreeOK
<1>4. CASE UNCHANGED heapVars
  <2>1. kheap_ready' = kheap_ready /\ Map' = Map /\ UsedSlots' = UsedSlots /\ live' = live
    BY <1>4 DEF heapVars, Map, UsedSlots
  <2> QED
    BY <2>1 DEF HeapInv
<1> QED
  BY <1>1, <1>2, <1>3, <1>4 DEF HeapNext

(* The invariant says what AllocationsApart says. *)
LEMMA InvIsApart == HeapInv => AllocationsApart
<1> SUFFICES ASSUME HeapInv PROVE AllocationsApart
  OBVIOUS
<1>1. \A a \in live : InsideRun(a)
  BY DEF HeapInv, Holds
<1>2. ASSUME kheap_ready
      PROVE  /\ {x \in SlotSet : bm[x] # 0} = Reserved \cup UNION {Run(a) : a \in live}
             /\ \A a \in live : Run(a) \subseteq SlotSet /\ Run(a) \cap Reserved = {}
             /\ \A a, b \in live : a # b => Run(a) \cap Run(b) = {}
             /\ used = Cardinality({x \in SlotSet : bm[x] # 0})
  <2>1. Holds(bm, live, used)
    BY <1>2 DEF HeapInv, Map, UsedSlots
  <2>2. \A a \in live : a \in Allocations /\ a.x + a.n <= bcnt
    BY <2>1 DEF Holds
  <2>3. \A a \in live : Run(a) \subseteq SlotSet
    BY <2>2, RunOK
  <2>4. {x \in SlotSet : bm[x] # 0} = Reserved \cup UNION {Run(a) : a \in live}
    <3>1. Reserved \subseteq SlotSet
      BY SlotsOK
    <3>2. \A i \in SlotSet : bm[i] # 0 <=> i \in Reserved \/ \E a \in live : i \in Run(a)
      BY <2>1 DEF Holds
    <3> QED
      BY <2>3, <3>1, <3>2
  <2> QED
    BY <2>1, <2>3, <2>4 DEF Holds, UsedIn
<1> QED
  BY <1>1, <1>2 DEF AllocationsApart, InsideRun

(***************************************************************************)
(* The theorems                                                            *)
(***************************************************************************)
(* The inductive invariant holds in every reachable state of libc/heap.c.  *)
THEOREM HeapInvariance == Heap_Spec => []HeapInv
<1> QED
  BY HeapInitOK, HeapNextOK, PTL DEF Heap_Spec

(* kmalloc never hands out memory that is in use, kfree frees exactly what *)
(* kmalloc gave, and the bytes an owner may write are inside its run.      *)
THEOREM AllocationsStayApart == Heap_Spec => []AllocationsApart
<1> QED
  BY InvIsApart, HeapInvariance, PTL
=============================================================================
