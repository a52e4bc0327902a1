---------------------------- MODULE VirtioProofs ---------------------------
(***************************************************************************)
(* Proof that the VirtIO driver implements BlockDevice, for every drive,   *)
(* every length of transfer and every width of the ring indices.           *)
(***************************************************************************)
EXTENDS Storage, TLAPS

(* Storage with a VirtIO drive. *)
vblk_Spec == blk_Init /\ kind = "vblk" /\ [][blk_Next]_blk_vars

(***************************************************************************)
(* The inductive invariant                                                 *)
(***************************************************************************)
Index == 0 .. IdxMod - 1

After(i) == (i + 1) % IdxMod

VirtioTypeOK ==
  /\ disk \in [Sectors -> Words]
  /\ call \in BD!Calls \cup {NoCall}
  /\ drv \in [pc : {"probe", "idle", "poll"}, active : BOOLEAN,
              avail_head : Index, used_last : Index]
  /\ mem \in [hdr : [type : {"none", "read", "write"}, sector : Nat], len : Nat,
              dma : Seq(Words), stat : {0, 1}, avail_idx : Index, used_idx : Index]
  /\ dev \in [dead : BOOLEAN, seen : Index]

(* No request is under way: all indices agree. *)
Quiet ==
  /\ drv.pc # "poll"
  /\ drv.pc = "probe" => call = NoCall
  /\ mem.avail_idx = drv.avail_head /\ dev.seen = drv.avail_head
  /\ mem.used_idx = drv.avail_head /\ drv.used_last = drv.avail_head

(* The chain holds the call. *)
Requested ==
  /\ drv.pc = "poll" /\ call # NoCall
  /\ mem.hdr = [type |-> call.op, sector |-> call.lba] /\ mem.len = call.n
  /\ call.op = "write" => mem.dma = call.data
  /\ drv.avail_head = After(drv.used_last) /\ mem.avail_idx = drv.avail_head

(* The device has not looked at it. *)
Waiting == Requested /\ dev.seen = drv.used_last /\ mem.used_idx = drv.used_last

(* What a status of 0 stands for. *)
Carried ==
  /\ call.op = "read" => mem.dma = Fetch(call.lba, call.n)
  /\ call.op = "write" => \A s \in BD!Span(call) : disk[s] = BD!Word(call, s)

(* The device has answered it. *)
Answered ==
  /\ Requested /\ dev.seen = drv.avail_head /\ mem.used_idx = drv.avail_head
  /\ mem.stat = 0 => Carried

(* The driver gave up on a dead device; no call follows. *)
GivenUp == drv.pc = "idle" /\ dev.dead /\ call = NoCall /\ ret.code # 0

VirtioInv ==
  /\ kind = "vblk"
  /\ VirtioTypeOK
  /\ Quiet \/ Waiting \/ Answered \/ GivenUp

(***************************************************************************)
(* Calls and indices                                                       *)
(***************************************************************************)
(* What a call is. *)
LEMMA CallOK ==
  ASSUME NEW c \in BD!Calls
  PROVE  /\ c # NoCall /\ c.op \in {"read", "write"}
         /\ c.lba \in Sectors /\ c.lba \in Nat /\ c.n \in Nat \ {0}
         /\ BD!Span(c) = c.lba .. c.lba + c.n - 1 /\ BD!Span(c) \subseteq Sectors
         /\ c.op = "write" => c.data \in [1 .. c.n -> Words]
<1>1. \/ \E l \in Sectors, n \in 1 .. MaxCount, b \in BOOLEAN :
           /\ l .. (l + n - 1) \subseteq Sectors
           /\ c = [op |-> "read", lba |-> l, n |-> n, data |-> <<>>, irq |-> b]
      \/ \E l \in Sectors, n \in 1 .. MaxCount, b \in BOOLEAN :
           /\ l .. (l + n - 1) \subseteq Sectors
           /\ \E d \in [1 .. n -> Words] :
                c = [op |-> "write", lba |-> l, n |-> n, data |-> d, irq |-> b]
  BY DEF BD!Calls
<1>2. /\ c.op \in {"read", "write"} /\ c.lba \in Sectors /\ c.n \in 1 .. MaxCount
      /\ c.lba .. (c.lba + c.n - 1) \subseteq Sectors
      /\ c.op = "write" => c.data \in [1 .. c.n -> Words]
  BY <1>1
<1>3. c # NoCall
  BY <1>2 DEF NoCall
<1>4. c.lba \in Nat /\ c.n \in Nat \ {0}
  <2>1. c.lba \in Sectors /\ c.n \in 1 .. MaxCount
    BY <1>2
  <2>2. c.lba \in Nat
    BY <2>1, BlockConstants
  <2>3. c.n \in Nat /\ c.n # 0
    BY <2>1, BlockConstants
  <2> QED
    BY <2>2, <2>3
<1>5. BD!Span(c) = c.lba .. c.lba + c.n - 1
  BY DEF BD!Span
<1> QED
  BY <1>2, <1>3, <1>4, <1>5

(* An index moves when it is advanced. *)
LEMMA AfterOK ==
  ASSUME NEW i \in Index
  PROVE  After(i) \in Index /\ After(i) # i
<1>1. CASE i = IdxMod - 1
  BY <1>1, VirtioConstants DEF After, Index
<1>2. CASE i < IdxMod - 1
  <2>1. (i + 1) % IdxMod = i + 1
    BY <1>2, VirtioConstants DEF Index
  <2> QED
    BY <1>2, <2>1, VirtioConstants DEF After, Index
<1> QED
  BY <1>1, <1>2, VirtioConstants DEF Index

(***************************************************************************)
(* The steps of the driver and of the device                               *)
(***************************************************************************)
(* What a step of the drive does to BlockDevice: a step of it, or nothing. *)
Mapped == BD!Next \/ UNCHANGED BD!vars

(* Initially the indices agree, and BlockDevice is in an initial state. *)
LEMMA VirtioInitOK ==
  ASSUME blk_Init, kind = "vblk"
  PROVE  VirtioInv /\ BD!Init
<1>1. vblk_Init
  BY DEF blk_Init
<1>2. VirtioTypeOK
  BY <1>1, VirtioConstants DEF blk_Init, vblk_Init, VirtioTypeOK, Index
<1>3. Quiet
  BY <1>1 DEF blk_Init, vblk_Init, Quiet
<1>4. BD!Init
  BY DEF blk_Init, BD!Init, BD!NoCall, NoCall
<1> QED
  BY <1>2, <1>3, <1>4 DEF VirtioInv

(* blk_read and blk_write are entered. *)
LEMMA CallStep ==
  ASSUME VirtioInv, blk_call
  PROVE  VirtioInv' /\ BD!Invoke
<1>1. /\ drv.pc = "idle" /\ call = NoCall /\ call' \in BD!Calls
      /\ ret' = BD!NoRet /\ (dev.dead => ret.code = 0)
      /\ UNCHANGED <<kind, disk, drv, mem, dev>>
  BY DEF blk_call, state
<1>2. Quiet
  BY <1>1 DEF VirtioInv, Waiting, Answered, Requested, GivenUp
<1>3. Quiet'
  BY <1>1, <1>2 DEF Quiet
<1>4. VirtioTypeOK'
  BY <1>1 DEF VirtioInv, VirtioTypeOK, BD!Calls, BD!NoRet
<1>5. BD!Invoke
  BY <1>1 DEF BD!Invoke, BD!NoCall, NoCall
<1> QED
  BY <1>1, <1>3, <1>4, <1>5 DEF VirtioInv

(* vblk_init_one finds the queue and sets the driver up. *)
LEMMA InitOneStep ==
  ASSUME VirtioInv, vblk_init_one, UNCHANGED kind
  PROVE  VirtioInv' /\ Mapped
<1>1. /\ drv.pc = "probe" /\ UNCHANGED <<disk, call, ret, mem, dev, kind>>
      /\ \E b \in BOOLEAN : drv' = [drv EXCEPT !.pc = "idle", !.active = b]
  <2>1. PICK size \in 0 .. VqMax + 1 :
               drv' = [drv EXCEPT !.pc = "idle", !.active = size \in 1 .. VqMax]
    BY DEF vblk_init_one
  <2>2. (size \in 1 .. VqMax) \in BOOLEAN
    OBVIOUS
  <2>3. \E b \in BOOLEAN : drv' = [drv EXCEPT !.pc = "idle", !.active = b]
    BY <2>1, <2>2, Zenon
  <2> QED
    BY <2>3 DEF vblk_init_one, calls
<1>2. Quiet
  BY <1>1 DEF VirtioInv, Waiting, Answered, Requested, GivenUp
<1>3. VirtioTypeOK'
  BY <1>1 DEF VirtioInv, VirtioTypeOK
<1>4. Quiet'
  BY <1>1, <1>2 DEF Quiet, VirtioInv, VirtioTypeOK
<1>5. UNCHANGED BD!vars
  BY <1>1 DEF BD!vars
<1> QED
  BY <1>1, <1>3, <1>4, <1>5 DEF VirtioInv, Mapped

(* vblk_issue refuses the call, or fills the chain and moves the available *)
(* index. *)
LEMMA IssueStep ==
  ASSUME VirtioInv, vblk_issue, UNCHANGED kind
  PROVE  VirtioInv' /\ Mapped
<1>1. drv.pc = "idle" /\ call # NoCall /\ UNCHANGED <<disk, dev, kind>>
  BY DEF vblk_issue
<1>2. Quiet
  BY <1>1 DEF VirtioInv, Waiting, Answered, Requested, GivenUp
<1>3. call \in BD!Calls
  BY <1>1 DEF VirtioInv, VirtioTypeOK
<1>4. CASE ~drv.active \/ call.n > VqMax
  <2>1. ret' = [code |-> -1, data |-> <<>>] /\ call' = NoCall /\ UNCHANGED <<drv, mem>>
    BY <1>4 DEF vblk_issue, Return
  <2>2. BD!Fail
    BY <1>1, <2>1 DEF BD!Fail, BD!NoCall, NoCall
  <2>3. VirtioTypeOK' /\ Quiet'
    BY <1>1, <1>2, <2>1 DEF VirtioInv, VirtioTypeOK, Quiet
  <2> QED
    BY <1>1, <2>2, <2>3 DEF VirtioInv, Mapped, BD!Next
<1>5. CASE ~(~drv.active \/ call.n > VqMax)
  <2>1. /\ mem' = [mem EXCEPT !.hdr = [type |-> call.op, sector |-> call.lba],
                              !.len = call.n,
                              !.dma = IF call.op = "write" THEN call.data ELSE @,
                              !.avail_idx = After(drv.avail_head)]
        /\ drv' = [drv EXCEPT !.avail_head = After(@), !.pc = "poll"]
        /\ UNCHANGED <<call, ret>>
    BY <1>5 DEF vblk_issue, After
  <2>2. After(drv.avail_head) \in Index
    BY AfterOK DEF VirtioInv, VirtioTypeOK
  <2>3. call.op = "write" => call.data \in Seq(Words)
    BY <1>3, CallOK
  <2>4. VirtioTypeOK'
    BY <1>1, <1>3, <2>1, <2>2, <2>3, CallOK DEF VirtioInv, VirtioTypeOK
  <2>5. Requested'
    BY <1>1, <1>2, <2>1 DEF VirtioInv, VirtioTypeOK, Requested, Quiet
  <2>6. Waiting'
    BY <1>1, <1>2, <2>1, <2>5 DEF VirtioInv, VirtioTypeOK, Waiting, Quiet
  <2>7. UNCHANGED BD!vars
    BY <1>1, <2>1 DEF BD!vars
  <2> QED
    BY <1>1, <2>4, <2>6, <2>7 DEF VirtioInv, Mapped
<1> QED
  BY <1>4, <1>5

(* The poll sees the used index move: status 0 is success, any other a     *)
(* failure. *)
LEMMA PollStep ==
  ASSUME VirtioInv, vblk_poll, UNCHANGED kind
  PROVE  VirtioInv' /\ Mapped
<1>1. /\ drv.pc = "poll" /\ mem.used_idx # drv.used_last
      /\ drv' = [drv EXCEPT !.used_last = mem.used_idx, !.pc = "idle"]
      /\ vblk_return(mem.stat = 0)
      /\ UNCHANGED <<disk, mem, dev, kind>>
  BY DEF vblk_poll, UsedMoved
<1>2. Answered
  BY <1>1 DEF VirtioInv, Quiet, Waiting, GivenUp
<1>3. call \in BD!Calls /\ call # NoCall /\ call' = NoCall
  BY <1>1, <1>2 DEF VirtioInv, VirtioTypeOK, Answered, Requested, vblk_return, Return
<1>4. VirtioTypeOK'
  BY <1>1, <1>3 DEF VirtioInv, VirtioTypeOK
<1>5. Quiet'
  BY <1>1, <1>2, <1>3 DEF VirtioInv, VirtioTypeOK, Quiet, Answered, Requested
<1>6. CASE mem.stat = 0
  <2>1. Carried
    BY <1>2, <1>6 DEF Answered
  <2>2. \A s \in BD!Promised(call) : disk[s] = BD!Word(call, s)
    BY <2>1, <1>3, CallOK DEF Carried, BD!Promised
  <2>3. ret' = [code |-> 0, data |-> IF call.op = "read"
                                     THEN SubSeq(mem.dma, 1, call.n) ELSE <<>>]
    BY <1>1, <1>6 DEF vblk_return, Return
  <2>4. call.op = "read" => SubSeq(mem.dma, 1, call.n) = BD!Slice(call)
    <3> SUFFICES ASSUME call.op = "read"
                 PROVE  SubSeq(mem.dma, 1, call.n) = BD!Slice(call)
      OBVIOUS
    <3>1. mem.dma = [i \in 1 .. call.n |-> disk[call.lba + i - 1]]
      BY <2>1 DEF Carried, Fetch
    <3>2. call.n \in Nat
      BY <1>3, CallOK
    <3>3. mem.dma \in Seq(Words)
      BY DEF VirtioInv, VirtioTypeOK
    <3>4. DOMAIN mem.dma = 1 .. call.n
      BY <3>1
    <3>5. Len(mem.dma) = call.n
      BY <3>2, <3>3, <3>4
    <3>6. SubSeq(mem.dma, 1, call.n) = mem.dma
      BY <3>2, <3>3, <3>5
    <3> QED
      BY <3>1, <3>6 DEF BD!Slice
  <2>5. ret' = [code |-> 0, data |-> IF call.op = "read" THEN BD!Slice(call) ELSE <<>>]
    BY <2>3, <2>4
  <2>6. BD!Succeed
    BY <1>1, <1>3, <2>2, <2>5 DEF BD!Succeed, BD!NoCall, NoCall
  <2> QED
    BY <1>1, <1>4, <1>5, <2>6 DEF VirtioInv, Mapped, BD!Next
<1>7. CASE mem.stat # 0
  <2>1. ret' = [code |-> -1, data |-> <<>>]
    BY <1>1, <1>7 DEF vblk_return, Return
  <2>2. BD!Fail
    BY <1>1, <1>3, <2>1 DEF BD!Fail, BD!NoCall, NoCall
  <2> QED
    BY <1>1, <1>4, <1>5, <2>2 DEF VirtioInv, Mapped, BD!Next
<1> QED
  BY <1>6, <1>7

(* The poll runs out on a dead device. *)
LEMMA TimeoutStep ==
  ASSUME VirtioInv, vblk_timeout, UNCHANGED kind
  PROVE  VirtioInv' /\ Mapped
<1>1. /\ drv.pc = "poll" /\ dev.dead
      /\ drv' = [drv EXCEPT !.pc = "idle"]
      /\ ret' = [code |-> -1, data |-> <<>>] /\ call' = NoCall
      /\ UNCHANGED <<disk, mem, dev, kind>>
  BY DEF vblk_timeout, vblk_return, Return
<1>2. call # NoCall
  BY <1>1 DEF VirtioInv, Quiet, Waiting, Answered, Requested, GivenUp
<1>3. VirtioTypeOK' /\ GivenUp'
  BY <1>1 DEF VirtioInv, VirtioTypeOK, GivenUp
<1>4. BD!Fail
  BY <1>1, <1>2 DEF BD!Fail, BD!NoCall, NoCall
<1> QED
  BY <1>1, <1>3, <1>4 DEF VirtioInv, Mapped, BD!Next

(* Storing the first words of a write is a step of BlockDevice. *)
LEMMA StoredOK ==
  ASSUME disk \in [Sectors -> Words], call \in BD!Calls, call.op = "write",
         NEW k \in 0 .. call.n
  PROVE  /\ Stored(call.lba, call.data, k) \in [Sectors -> Words]
         /\ disk' = Stored(call.lba, call.data, k) /\ UNCHANGED <<call, ret, kind>>
              => BD!Store
<1> DEFINE S == call.lba .. call.lba + k - 1
<1>1. /\ call.lba \in Nat /\ call.n \in Nat /\ call.data \in [1 .. call.n -> Words]
      /\ BD!Span(call) = call.lba .. call.lba + call.n - 1
  BY CallOK
<1>2. ASSUME NEW s \in S PROVE s - call.lba + 1 \in 1 .. call.n
  <2>1. /\ call.lba \in Int /\ call.n \in Int /\ k \in Int /\ k <= call.n
        /\ s \in Int /\ call.lba <= s /\ s <= call.lba + k - 1
    BY <1>1
  <2>2. s - call.lba + 1 \in Int /\ 1 <= s - call.lba + 1 /\ s - call.lba + 1 <= call.n
    BY <2>1
  <2> QED
    BY <2>1, <2>2
<1>3. \A s \in S : call.data[s - call.lba + 1] \in Words
  BY <1>1, <1>2
<1>4. Stored(call.lba, call.data, k) \in [Sectors -> Words]
  BY <1>3 DEF Stored
<1>5. S \in SUBSET BD!Span(call)
  BY <1>1
<1>6. Stored(call.lba, call.data, k) =
        [s \in Sectors |-> IF s \in S THEN BD!Word(call, s) ELSE disk[s]]
  BY DEF Stored, BD!Word
<1>7. ASSUME disk' = Stored(call.lba, call.data, k), UNCHANGED <<call, ret, kind>>
      PROVE  BD!Store
  <2>1. \E T \in SUBSET BD!Span(call) :
           disk' = [s \in Sectors |-> IF s \in T THEN BD!Word(call, s) ELSE disk[s]]
    BY <1>5, <1>6, <1>7
  <2> QED
    BY <1>7, <2>1 DEF BD!Store
<1> QED
  BY <1>4, <1>7

(* The device follows the chain, carries the call out or fails part way,   *)
(* and answers. *)
LEMMA DeviceStep ==
  ASSUME VirtioInv, vblk_dev, UNCHANGED kind
  PROVE  VirtioInv' /\ Mapped
<1> DEFINE l == call.lba
           n == call.n
           m == [mem EXCEPT !.used_idx = After(@)]
<1>1. /\ ~dev.dead /\ dev.seen # mem.avail_idx
      /\ dev' = [dev EXCEPT !.seen = After(@)] /\ UNCHANGED <<call, ret, drv, kind>>
  BY DEF vblk_dev, After
<1>2. Waiting
  BY <1>1 DEF VirtioInv, Quiet, Answered, Requested, GivenUp
<1>3. call \in BD!Calls
  BY <1>2 DEF VirtioInv, VirtioTypeOK, Waiting, Requested
<1>4. /\ mem.hdr.sector = l /\ mem.len = n /\ mem.hdr.type = call.op
      /\ call.op = "write" => mem.dma = call.data
  BY <1>2 DEF Waiting, Requested
<1>5. /\ l \in Nat /\ n \in Nat \ {0} /\ l .. l + n - 1 \subseteq Sectors
      /\ BD!Span(call) = l .. l + n - 1 /\ call.op \in {"read", "write"}
  BY <1>3, CallOK
<1>6. \/ /\ mem' = [m EXCEPT !.stat = 0, !.dma = IF call.op = "read"
                                                 THEN Fetch(l, n) ELSE @]
         /\ disk' = IF call.op = "write" THEN Stored(l, call.data, n) ELSE disk
      \/ /\ mem' = [m EXCEPT !.stat = 1]
         /\ \E k \in 0 .. n - 1 :
               disk' = IF call.op = "write" THEN Stored(l, call.data, k) ELSE disk
  BY <1>4, <1>5 DEF vblk_dev, After
<1>7. \E k \in 0 .. n :
         /\ disk' = IF call.op = "write" THEN Stored(l, call.data, k) ELSE disk
         /\ mem'.stat = 0 => k = n
  <2>1. ASSUME mem' = [m EXCEPT !.stat = 1] PROVE mem'.stat = 1
    BY <2>1 DEF VirtioInv, VirtioTypeOK
  <2>2. n \in 0 .. n /\ 0 .. n - 1 \subseteq 0 .. n
    BY <1>5
  <2> QED
    BY <1>6, <2>1, <2>2
<1>8. disk' \in [Sectors -> Words] /\ Mapped
  <2>1. CASE call.op = "write"
    BY <2>1, <1>1, <1>3, <1>7, StoredOK DEF Mapped, BD!Next, VirtioInv, VirtioTypeOK
  <2>2. CASE call.op # "write"
    <3>1. disk' = disk
      BY <2>2, <1>7
    <3> QED
      BY <1>1, <3>1 DEF Mapped, BD!vars, VirtioInv, VirtioTypeOK
  <2> QED
    BY <2>1, <2>2
<1>9. After(mem.used_idx) \in Index /\ After(dev.seen) \in Index
  BY AfterOK DEF VirtioInv, VirtioTypeOK
<1>10. Fetch(l, n) \in Seq(Words)
  <2>1. \A i \in 1 .. n : l + i - 1 \in l .. l + n - 1
    BY <1>5
  <2>2. \A i \in 1 .. n : disk[l + i - 1] \in Words
    BY <2>1, <1>5 DEF VirtioInv, VirtioTypeOK
  <2> QED
    BY <2>2, <1>5 DEF Fetch
<1>11. VirtioTypeOK'
  BY <1>1, <1>6, <1>8, <1>9, <1>10 DEF VirtioInv, VirtioTypeOK
<1>12. /\ mem'.hdr = mem.hdr /\ mem'.len = mem.len /\ mem'.avail_idx = mem.avail_idx
       /\ call.op = "write" => mem'.dma = mem.dma
       /\ mem'.used_idx = After(mem.used_idx) /\ dev'.seen = After(dev.seen)
       /\ mem'.stat = 0 /\ call.op = "read" => mem'.dma = Fetch(l, n)
  <2>1. dev'.seen = After(dev.seen)
    BY <1>1 DEF VirtioInv, VirtioTypeOK
  <2>2. CASE mem' = [m EXCEPT !.stat = 0, !.dma = IF call.op = "read"
                                                  THEN Fetch(l, n) ELSE @]
    BY <2>1, <2>2 DEF VirtioInv, VirtioTypeOK
  <2>3. CASE mem' = [m EXCEPT !.stat = 1]
    BY <2>1, <2>3 DEF VirtioInv, VirtioTypeOK
  <2> QED
    BY <1>6, <2>2, <2>3
<1>13. Requested'
  BY <1>1, <1>2, <1>12 DEF Waiting, Requested
<1>14. ASSUME mem'.stat = 0 PROVE Carried'
  <2>1. CASE call.op = "read"
    <3>1. disk' = disk
      BY <2>1, <1>7
    <3> QED
      BY <1>1, <1>12, <1>14, <2>1, <3>1 DEF Carried, Fetch
  <2>2. CASE call.op = "write"
    <3>1. disk' = Stored(l, call.data, n)
      BY <2>2, <1>7, <1>14
    <3>2. \A s \in BD!Span(call) : disk'[s] = BD!Word(call, s)
      BY <3>1, <1>5 DEF Stored, BD!Word
    <3>3. BD!Span(call)' = BD!Span(call) /\ \A s : BD!Word(call, s)' = BD!Word(call, s)
      BY <1>1 DEF BD!Span, BD!Word
    <3> QED
      BY <1>1, <2>2, <3>2, <3>3 DEF Carried
  <2> QED
    BY <1>5, <2>1, <2>2
<1>15. Answered'
  BY <1>1, <1>2, <1>12, <1>13, <1>14 DEF Answered, Waiting, Requested
<1> QED
  BY <1>1, <1>8, <1>11, <1>15 DEF VirtioInv

(* The device dies. *)
LEMMA DiesStep ==
  ASSUME VirtioInv, DeviceDies
  PROVE  VirtioInv' /\ UNCHANGED BD!vars
<1>1. dev' = [dev EXCEPT !.dead = TRUE] /\ UNCHANGED <<kind, disk, call, ret, drv, mem>>
  BY DEF DeviceDies
<1>2. VirtioTypeOK' /\ dev'.seen = dev.seen /\ dev'.dead
  BY <1>1 DEF VirtioInv, VirtioTypeOK
<1>3. (Quiet => Quiet') /\ (Requested => Requested') /\ (GivenUp => GivenUp')
  BY <1>1, <1>2 DEF Quiet, Requested, GivenUp
<1>4. Carried => Carried'
  BY <1>1 DEF Carried, Fetch, BD!Span, BD!Word
<1>5. (Waiting => Waiting') /\ (Answered => Answered')
  BY <1>1, <1>2, <1>3, <1>4 DEF Waiting, Answered
<1>6. UNCHANGED BD!vars
  BY <1>1 DEF BD!vars
<1> QED
  BY <1>1, <1>2, <1>3, <1>5, <1>6 DEF VirtioInv

(* Nothing happens. *)
LEMMA StutterStep ==
  ASSUME VirtioInv, UNCHANGED blk_vars
  PROVE  VirtioInv' /\ UNCHANGED BD!vars
<1>1. UNCHANGED <<kind, disk, call, ret, drv, mem, dev>>
  BY DEF blk_vars
<1>2. VirtioTypeOK'
  BY <1>1 DEF VirtioInv, VirtioTypeOK, BD!Calls
<1>3. (Quiet => Quiet') /\ (Requested => Requested') /\ (GivenUp => GivenUp')
  BY <1>1 DEF Quiet, Requested, GivenUp
<1>4. Carried => Carried'
  BY <1>1 DEF Carried, Fetch, BD!Span, BD!Word
<1>5. (Waiting => Waiting') /\ (Answered => Answered')
  BY <1>1, <1>3, <1>4 DEF Waiting, Answered
<1>6. UNCHANGED BD!vars
  BY <1>1 DEF BD!vars
<1> QED
  BY <1>1, <1>2, <1>3, <1>5, <1>6 DEF VirtioInv

(* Every step keeps the invariant and is a step of BlockDevice, or none. *)
LEMMA VirtioNextOK == VirtioInv /\ [blk_Next]_blk_vars => VirtioInv' /\ [BD!Next]_BD!vars
<1> SUFFICES ASSUME VirtioInv, [blk_Next]_blk_vars
             PROVE  VirtioInv' /\ Mapped
  BY DEF Mapped
<1>1. CASE blk_call
  BY <1>1, CallStep DEF Mapped, BD!Next
<1>2. CASE Driver
  <2>1. vblk_Driver /\ UNCHANGED kind
    BY <1>2 DEF Driver, VirtioInv
  <2> QED
    BY <2>1, InitOneStep, IssueStep, PollStep, TimeoutStep DEF vblk_Driver
<1>3. CASE Device
  <2>1. vblk_dev /\ UNCHANGED kind
    BY <1>3 DEF Device, vblk_Device, VirtioInv
  <2> QED
    BY <2>1, DeviceStep
<1>4. CASE DeviceDies
  BY <1>4, DiesStep DEF Mapped
<1>5. CASE UNCHANGED blk_vars
  BY <1>5, StutterStep DEF Mapped
<1> QED
  BY <1>1, <1>2, <1>3, <1>4, <1>5 DEF blk_Next

(***************************************************************************)
(* The theorem                                                             *)
(***************************************************************************)
(* On a VirtIO drive blk_read and blk_write (ata.c:410-422) keep the       *)
(* promise of BlockDevice, however many calls are made before the device   *)
(* dies: a call that returned 0 read or stored what the disk holds, also   *)
(* when the 16-bit indices wrap (vblk_issue, virtio_blk.c). *)
THEOREM VirtioKeepsPromise == vblk_Spec => DriversKeepPromise
<1>1. blk_Init /\ kind = "vblk" => VirtioInv /\ BD!Init
  BY VirtioInitOK
<1>2. VirtioInv /\ [blk_Next]_blk_vars => VirtioInv' /\ [BD!Next]_BD!vars
  BY VirtioNextOK
<1> QED
  BY <1>1, <1>2, PTL DEF vblk_Spec, DriversKeepPromise, BD!Spec
=============================================================================
