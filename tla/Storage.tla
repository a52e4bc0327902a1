------------------------------ MODULE Storage ------------------------------
(* blk_read and blk_write over whichever drive the volume is on             *)
(* (src/drivers/ata.c:410-422): the file systems above, one of the four     *)
(* drivers and its controller below.  One call is in progress at a time:    *)
(* nothing in a driver yields the processor.                                *)
EXTENDS Nvme, Ahci, VirtioBlk, Ata

VARIABLE kind       \* the controller: DRIVE_TYPE_*, or "xhci" in Devices

blk_vars == <<kind, disk, call, ret, drv, mem, dev>>

BD == INSTANCE BlockDevice WITH posted <- kind = "ata"

blk_Init ==
    /\ kind \in {"nvme", "ahci", "vblk", "ata"}
    /\ disk \in [Sectors -> Words]
    /\ call = NoCall
    /\ ret = BD!NoRet
    /\ \/ kind = "nvme" /\ nvme_Init
       \/ kind = "ahci" /\ ahci_Init
       \/ kind = "vblk" /\ vblk_Init
       \/ kind = "ata" /\ ata_Init

\* A file system calls blk_read or blk_write once the drive has been probed.
\* Bound: no call follows the one that found the controller dead.
blk_call ==
    /\ kind # "xhci"
    /\ drv.pc = "idle"
    /\ call = NoCall
    /\ dev.dead => ret.code = 0
    /\ call' \in BD!Calls
    /\ kind # "ahci" => call'.irq      \* only AHCI looks at the clock
    /\ ret' = BD!NoRet
    /\ UNCHANGED <<kind, disk, state>>

\* blk_read and blk_write dispatch on the type of the drive.
Driver ==
    /\ \/ kind = "nvme" /\ nvme_Driver
       \/ kind = "ahci" /\ ahci_Driver
       \/ kind = "vblk" /\ vblk_Driver
       \/ kind = "ata" /\ ata_Driver
    /\ UNCHANGED kind

Device ==
    /\ \/ kind = "nvme" /\ nvme_Device
       \/ kind = "ahci" /\ ahci_Device
       \/ kind = "vblk" /\ vblk_Device
       \/ kind = "ata" /\ ata_Device
    /\ UNCHANGED kind

\* The controller stops answering, for good.
DeviceDies ==
    /\ kind # "xhci"
    /\ ~dev.dead
    /\ dev' = [dev EXCEPT !.dead = TRUE]
    /\ UNCHANGED <<kind, disk, call, ret, drv, mem>>

blk_Next == blk_call \/ Driver \/ Device \/ DeviceDies

Fairness == WF_blk_vars(Driver) /\ WF_blk_vars(Device)

---------------------------------------------------------------------------
\* Whatever the drive, and whatever error or silence its controller meets a
\* command with, the driver keeps the promise of module BlockDevice: what a
\* call that returned 0 read or wrote is what the disk holds (blk_read and
\* blk_write, ata.c:410-422; "Returns 0 on success", ata.h).
DriversKeepPromise == BD!Spec

\* Every call returns, though the controller may die at any moment: each
\* polling loop is bounded (nvme.c:137,165, virtio_blk.c:115, ata.c:22,32).
\* The AHCI loop counts ticks (ahci.c:179), so it needs interrupts.
CallReturns ==
    (call # NoCall /\ (kind = "ahci" => call.irq)) ~> (call = NoCall)
=============================================================================
