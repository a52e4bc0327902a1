-------------------------------- MODULE Ahci --------------------------------
(* The AHCI driver (src/drivers/ahci.c) and one SATA port.  Every command   *)
(* goes through slot 0: the driver fills the command table and the DMA      *)
(* buffer, sets bit 0 of CI, and polls until the bit clears, the task file  *)
(* shows an error, or 5000 ticks have passed.  With interrupts disabled no  *)
(* tick passes.  A port that meets an error halts and keeps CI and the      *)
(* error bit (AHCI 1.3.1, 6.2.2); the driver never restarts it.             *)
EXTENDS BlockCalls

CONSTANT DmaSects   \* AHCI_DMA_SECTS, sectors of ahci_dma (64)

ahci_Init ==
    /\ drv = [pc |-> "probe", active |-> FALSE]
    /\ mem = [ctbl |-> [op |-> "none"], dma |-> <<>>]
    /\ dev = [dead |-> FALSE, running |-> FALSE, ci |-> 0, err |-> FALSE]

\* port_init: stopped, its lists set, and started again.
port_init(port) == [port EXCEPT !.running = TRUE]

\* The command table of port_identify.
IdentifyTable == [op |-> "identify"]

\* ahci_init: a SATA disk is found on the port and asked to identify itself,
\* or there is none.
ahci_init ==
    /\ drv.pc = "probe"
    /\ \/ /\ mem' = [mem EXCEPT !.ctbl = IdentifyTable]
          /\ dev' = [port_init(dev) EXCEPT !.ci = 1]
          /\ drv' = [drv EXCEPT !.pc = "poll"]
       \/ /\ drv' = [drv EXCEPT !.pc = "idle"]
          /\ UNCHANGED <<mem, dev>>
    /\ UNCHANGED calls

\* The six LBA bytes of the register FIS, low byte first.
Fis(c) ==
    [op |-> c.op, lba |-> [i \in 0..5 |-> Digit(c.lba, i)], count |-> c.n]

\* ahci_read_sectors and ahci_write_sectors up to the write of CI.
ahci_issue ==
    /\ drv.pc = "idle"
    /\ call # NoCall
    /\ IF ~drv.active \/ call.n > DmaSects
       THEN Return(-1, <<>>) /\ UNCHANGED state
       ELSE /\ mem' = [ctbl |-> Fis(call),
                       dma |-> IF call.op = "write" THEN call.data ELSE mem.dma]
            /\ dev' = [dev EXCEPT !.ci = 1]
            /\ drv' = [drv EXCEPT !.pc = "poll"]
            /\ UNCHANGED <<call, ret>>
    /\ UNCHANGED disk

\* The port's answer reaches the driver: port_identify ends the probe, the
\* others return to the caller.
ahci_end(ok) ==
    /\ drv' = [pc |-> "idle",
               active |-> drv.active \/ (ok /\ mem.ctbl.op = "identify")]
    /\ IF call = NoCall THEN UNCHANGED <<call, ret>>
       ELSE IF ok THEN Return(0, IF call.op = "read"
                                 THEN SubSeq(mem.dma, 1, call.n) ELSE <<>>)
       ELSE Return(-1, <<>>)
    /\ UNCHANGED <<disk, mem, dev>>

\* The polling loop looks at the error bit before CI.
ahci_poll ==
    /\ drv.pc = "poll"
    /\ dev.err \/ dev.ci = 0
    /\ ahci_end(~dev.err)

\* 5000 ticks: none passes while interrupts are disabled.
ahci_deadline ==
    /\ drv.pc = "poll"
    /\ dev.dead
    /\ call.irq
    /\ ~dev.err /\ dev.ci = 1
    /\ ahci_end(FALSE)

\* The port runs the command of slot 0, or meets an error after storing some
\* of its sectors.
ahci_dev ==
    /\ dev.ci = 1 /\ dev.running /\ ~dev.dead
    /\ LET ct == mem.ctbl
           lba == IF ct.op = "identify" THEN 0
                  ELSE ct.lba[0] + Base * (ct.lba[1] + Base * (ct.lba[2]
                       + Base * (ct.lba[3] + Base * (ct.lba[4]
                       + Base * ct.lba[5]))))
           n == IF ct.op = "identify" THEN 0 ELSE ct.count
           ok == lba..(lba + n - 1) \subseteq Sectors
       IN  \/ /\ ok
              /\ mem' = IF ct.op = "read"
                        THEN [mem EXCEPT !.dma = Fetch(lba, n)] ELSE mem
              /\ disk' = IF ct.op = "write" THEN Stored(lba, mem.dma, n)
                         ELSE disk
              /\ dev' = [dev EXCEPT !.ci = 0]
           \/ /\ dev' = [dev EXCEPT !.err = TRUE, !.running = FALSE]
              /\ \E k \in 0..n - 1 \cup {0} :
                    disk' = IF ok /\ ct.op = "write"
                            THEN Stored(lba, mem.dma, k) ELSE disk
              /\ UNCHANGED mem
    /\ UNCHANGED <<call, ret, drv>>

ahci_Driver == ahci_init \/ ahci_issue \/ ahci_poll \/ ahci_deadline
ahci_Device == ahci_dev
=============================================================================
