------------------------------ MODULE Devices ------------------------------
(* The drivers that share rings and registers with a controller: a disk      *)
(* under blk_read and blk_write (Storage), or the xHCI controller and the    *)
(* USB devices boot finds behind it (Usb).  They share no state, so the      *)
(* machine has one or the other.                                             *)
EXTENDS Storage, Usb

Init ==
    \/ blk_Init
    \/ /\ kind = "xhci"
       /\ usb_Init
       /\ disk = [s \in Sectors |-> CHOOSE w \in Words : TRUE]
       /\ call = NoCall
       /\ ret = BD!NoRet

UsbStep == kind = "xhci" /\ usb_Next /\ UNCHANGED <<kind, calls>>

Next == blk_Next \/ UsbStep

Spec == Init /\ [][Next]_blk_vars /\ Fairness

---------------------------------------------------------------------------
\* Where the controller is the xHCI one: on the command ring and on every EP0
\* ring a TRB of the last lap never looks new, and none queued is overlooked
\* (ring_enqueue, xhci.c:108-129); and a device is recorded under its own slot
\* and port, though events are told apart by their type alone (probe_port,
\* xhci.c:355-420).
UsbSound == kind = "xhci" => RingsInStep /\ SlotsAgree
=============================================================================
