----------------------------- MODULE VirtioBlk -----------------------------
(* The VirtIO block driver (src/drivers/virtio_blk.c) and its device.  One  *)
(* chain of three descriptors is reused for every request, so the available *)
(* ring always names descriptor 0 and only its 16-bit index moves.          *)
EXTENDS BlockCalls

CONSTANTS VqMax,    \* VQ_MAXSIZE: entries of the largest queue, and sectors
                    \* of vblk_dma (128)
          IdxMod    \* values of a ring index (2^16)

ASSUME VirtioConstants == VqMax \in Nat /\ IdxMod \in Nat /\ IdxMod > 1

vblk_Init ==
    /\ drv = [pc |-> "probe", active |-> FALSE, avail_head |-> 0, used_last |-> 0]
    /\ mem = [hdr |-> [type |-> "none", sector |-> 0], len |-> 0, dma |-> <<>>,
              stat |-> 0, avail_idx |-> 0, used_idx |-> 0]
    /\ dev = [dead |-> FALSE, seen |-> 0]

\* vblk_init_one: a queue of no entry or of more than VQ_MAXSIZE is refused.
vblk_init_one ==
    /\ drv.pc = "probe"
    /\ \E size \in 0..VqMax + 1 :
          drv' = [drv EXCEPT !.pc = "idle", !.active = size \in 1..VqMax]
    /\ UNCHANGED <<calls, mem, dev>>

\* vblk_read_sectors and vblk_write_sectors, and vblk_issue up to the
\* notification.
vblk_issue ==
    /\ drv.pc = "idle"
    /\ call # NoCall
    /\ IF ~drv.active \/ call.n > VqMax
       THEN Return(-1, <<>>) /\ UNCHANGED <<drv, mem>>
       ELSE /\ mem' = [mem EXCEPT
                         !.hdr = [type |-> call.op, sector |-> call.lba],
                         !.len = call.n,
                         !.dma = IF call.op = "write" THEN call.data ELSE @,
                         !.avail_idx = (drv.avail_head + 1) % IdxMod]
            /\ drv' = [drv EXCEPT !.avail_head = (@ + 1) % IdxMod, !.pc = "poll"]
            /\ UNCHANGED <<call, ret>>
    /\ UNCHANGED <<disk, dev>>

vblk_return(ok) ==
    Return(IF ok THEN 0 ELSE -1,
           IF ok /\ call.op = "read" THEN SubSeq(mem.dma, 1, call.n) ELSE <<>>)

UsedAhead == mem.used_idx > drv.used_last

\* The used index moved: the status byte is the answer.
UsedMoved == mem.used_idx # drv.used_last

vblk_poll ==
    /\ drv.pc = "poll"
    /\ UsedMoved
    /\ drv' = [drv EXCEPT !.used_last = mem.used_idx, !.pc = "idle"]
    /\ vblk_return(mem.stat = 0)
    /\ UNCHANGED <<disk, mem, dev>>

vblk_timeout ==
    /\ drv.pc = "poll"
    /\ dev.dead
    /\ ~UsedMoved
    /\ drv' = [drv EXCEPT !.pc = "idle"]
    /\ vblk_return(FALSE)
    /\ UNCHANGED <<disk, mem, dev>>

\* The device follows the chain: header, data, status, then the used ring.
vblk_dev ==
    /\ ~dev.dead
    /\ dev.seen # mem.avail_idx
    /\ LET lba == mem.hdr.sector
           n == mem.len
           ok == lba..(lba + n - 1) \subseteq Sectors
           m == [mem EXCEPT !.used_idx = (@ + 1) % IdxMod]
       IN  \/ /\ ok
              /\ mem' = [m EXCEPT !.stat = 0,
                                  !.dma = IF mem.hdr.type = "read"
                                          THEN Fetch(lba, n) ELSE @]
              /\ disk' = IF mem.hdr.type = "write"
                         THEN Stored(lba, mem.dma, n) ELSE disk
           \/ /\ mem' = [m EXCEPT !.stat = 1]
              /\ \E k \in 0..n - 1 :
                    disk' = IF ok /\ mem.hdr.type = "write"
                            THEN Stored(lba, mem.dma, k) ELSE disk
    /\ dev' = [dev EXCEPT !.seen = (@ + 1) % IdxMod]
    /\ UNCHANGED <<call, ret, drv>>

vblk_Driver == vblk_init_one \/ vblk_issue \/ vblk_poll \/ vblk_timeout
vblk_Device == vblk_dev
=============================================================================
