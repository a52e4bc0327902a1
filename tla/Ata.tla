-------------------------------- MODULE Ata --------------------------------
(* The ATA driver (src/drivers/ata.c), programmed I/O, and its drive.  The  *)
(* LBA goes through byte registers: a 28-bit command takes three and a      *)
(* nibble, a 48-bit command takes each register twice, the high byte first, *)
(* and the drive keeps the previous byte.  Sectors then pass one at a time, *)
(* each when the drive raises DRQ.  After a write the driver sends CACHE    *)
(* FLUSH, waits while BSY is set, and returns 0 whatever it finds.          *)
EXTENDS BlockCalls

CONSTANT Nibble     \* values of the LBA bits in the drive register (16)

Lba28 == Base ^ 3 * Nibble    \* 0x10000000

AtaRegs == {"lo", "mid", "hi"}

NoCommand == [op |-> "none", lba |-> 0, n |-> 0]

ata_Init ==
    /\ drv = [pc |-> "identify", present |-> FALSE, s |-> 0, buf |-> <<>>]
    /\ mem = <<>>
    /\ dev = [dead |-> FALSE, bsy |-> FALSE, drq |-> FALSE, err |-> FALSE,
              cmd |-> NoCommand, i |-> 0, data |-> <<>>]

\* ata_identify_drive: no drive, a packet device or an error leave it out.
ata_identify_drive ==
    /\ drv.pc = "identify"
    /\ \E found \in IF dev.dead THEN {FALSE} ELSE BOOLEAN :
          drv' = [drv EXCEPT !.pc = "idle", !.present = found]
    /\ UNCHANGED <<calls, mem, dev>>

\* The bytes written to each LBA register, first to last, and the low bits
\* of the drive register.
Registers(lba) ==
    IF lba >= Lba28
    THEN [lo |-> <<Digit(lba, 3), Digit(lba, 0)>>,
          mid |-> <<Digit(lba, 4), Digit(lba, 1)>>,
          hi |-> <<Digit(lba, 5), Digit(lba, 2)>>,
          drive |-> 0, ext |-> TRUE]
    ELSE [lo |-> <<Digit(lba, 0)>>, mid |-> <<Digit(lba, 1)>>,
          hi |-> <<Digit(lba, 2)>>,
          drive |-> (lba \div Base ^ 3) % Nibble, ext |-> FALSE]

\* The sector the drive makes of them.
Addressed(r) ==
    LET last(f) == f[Len(f)]
        low == last(r.lo) + Base * (last(r.mid) + Base * last(r.hi))
    IN  IF r.ext
        THEN low + Base ^ 3 * (r.lo[1] + Base * (r.mid[1] + Base * r.hi[1]))
        ELSE low + Base ^ 3 * r.drive

\* ata_read_sectors and ata_write_sectors up to the command: a drive that
\* stays busy is given up.
ata_command ==
    /\ drv.pc = "idle"
    /\ call # NoCall
    /\ \/ /\ ~drv.present \/ (dev.bsy /\ dev.dead)
          /\ Return(-1, <<>>)
          /\ UNCHANGED <<drv, dev>>
       \/ /\ drv.present /\ ~dev.bsy
          /\ dev' = [dev EXCEPT
                       !.cmd = [op |-> call.op,
                                lba |-> Addressed(Registers(call.lba)),
                                n |-> call.n],
                       !.i = 0, !.err = FALSE,
                       !.bsy = call.op = "read", !.drq = call.op = "write"]
          /\ drv' = [drv EXCEPT !.pc = "data"]
          /\ UNCHANGED <<call, ret>>
    /\ UNCHANGED <<disk, mem>>

ata_end(code, data) ==
    /\ drv' = [drv EXCEPT !.pc = "idle", !.s = 0, !.buf = <<>>]
    /\ Return(code, data)

\* ata_wait_drq: an error, or a drive that never raises DRQ.
ata_no_data ==
    /\ drv.pc = "data"
    /\ dev.err \/ (dev.dead /\ ~dev.drq)
    /\ ata_end(-1, <<>>)
    /\ UNCHANGED <<disk, mem, dev>>

\* The 256 words of one sector, in.
ata_sector_in ==
    /\ drv.pc = "data" /\ call.op = "read"
    /\ dev.drq /\ ~dev.err
    /\ LET buf == drv.buf \o dev.data
       IN  IF drv.s + 1 = call.n THEN ata_end(0, buf)
           ELSE /\ drv' = [drv EXCEPT !.s = @ + 1, !.buf = buf]
                /\ UNCHANGED <<call, ret>>
    /\ dev' = [dev EXCEPT !.drq = FALSE, !.data = <<>>, !.i = @ + 1,
                          !.bsy = dev.i + 1 < dev.cmd.n]
    /\ UNCHANGED <<disk, mem>>

\* The 256 words of one sector, out.
ata_sector_out ==
    /\ drv.pc = "data" /\ call.op = "write"
    /\ dev.drq /\ ~dev.err
    /\ drv' = [drv EXCEPT !.s = @ + 1,
                          !.pc = IF drv.s + 1 = call.n THEN "flush" ELSE "data"]
    /\ dev' = [dev EXCEPT !.drq = FALSE, !.bsy = TRUE,
                          !.data = <<call.data[drv.s + 1]>>]
    /\ UNCHANGED <<call, ret, disk, mem>>

\* CACHE FLUSH, which a busy drive ignores, and the wait for BSY whose result
\* is not looked at.
ata_flush ==
    /\ drv.pc = "flush"
    /\ ~dev.bsy \/ dev.dead
    /\ ata_end(0, <<>>)
    /\ UNCHANGED <<disk, mem, dev>>

\* The drive fetches or stores one sector, or fails; it asks for the next
\* sector of a write with DRQ.
ata_dev ==
    /\ dev.bsy /\ ~dev.dead
    /\ LET s == dev.cmd.lba + dev.i
       IN  \/ /\ s \in Sectors
              /\ IF dev.cmd.op = "read"
                 THEN /\ dev' = [dev EXCEPT !.bsy = FALSE, !.drq = TRUE,
                                            !.data = <<disk[s]>>]
                      /\ UNCHANGED disk
                 ELSE /\ dev' = [dev EXCEPT !.bsy = FALSE, !.i = @ + 1,
                                            !.data = <<>>,
                                            !.drq = dev.i + 1 < dev.cmd.n]
                      /\ disk' = [disk EXCEPT ![s] = dev.data[1]]
           \/ /\ dev' = [dev EXCEPT !.bsy = FALSE, !.err = TRUE, !.data = <<>>]
              /\ UNCHANGED disk
    /\ UNCHANGED <<call, ret, drv, mem>>

ata_Driver == ata_identify_drive \/ ata_command \/ ata_no_data \/ ata_sector_in
              \/ ata_sector_out \/ ata_flush
ata_Device == ata_dev
=============================================================================
