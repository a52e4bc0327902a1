-------------------------------- MODULE Nvme --------------------------------
(* The NVMe driver (src/drivers/nvme.c) and its controller.  Two pairs of   *)
(* rings, 0 for admin and 1 for I/O commands.  The driver writes a command  *)
(* at the submission tail and rings the doorbell; the controller runs it    *)
(* and writes a completion whose phase bit flips on every lap; the driver   *)
(* polls the entry at its head for its own phase.  The command identifier   *)
(* is left out: the driver never reads it back.                             *)
EXTENDS BlockCalls

CONSTANTS QDepth,   \* NVME_Q_DEPTH, entries of a ring
          Bounce    \* sectors of io_data, and of a 4096-byte block (8)

Word == Base ^ 4    \* values of a command double word

Queues == 0..1
Ring == 0..QDepth - 1
NextSlot(i) == (i + 1) % QDepth

\* A submission entry the controller has fetched: its contents are dead.
Fetched == [op |-> "fetched"]

\* The admin commands of nvme_init_one, in order.
AdminCommands == <<"identify_ctrl", "identify_ns", "create_cq", "create_sq">>

nvme_Init ==
    /\ drv = [pc |-> "enable", present |-> FALSE, lba_size |-> 1, stage |-> 1,
              tail |-> [q \in Queues |-> 0], head |-> [q \in Queues |-> 0],
              phase |-> [q \in Queues |-> 1], done |-> 0, buf |-> <<>>]
    /\ mem = [sq |-> [q \in Queues |-> [i \in Ring |-> Fetched]],
              cq |-> [q \in Queues |-> [i \in Ring |-> [phase |-> 0, sc |-> 0]]],
              id_buf |-> 0, io_data |-> <<>>]
    /\ dev = [dead |-> FALSE, made |-> {},
              sqtail |-> [q \in Queues |-> 0], sqhead |-> [q \in Queues |-> 0],
              cqtail |-> [q \in Queues |-> 0], cqhead |-> [q \in Queues |-> 0],
              phase |-> [q \in Queues |-> 1]]

\* nvme_init_one up to CSTS: ready, or a fatal status or a timeout.
nvme_enable ==
    /\ drv.pc = "enable"
    /\ \/ ~dev.dead /\ drv' = [drv EXCEPT !.pc = "submit"]
       \/ drv' = [drv EXCEPT !.pc = "idle"]
    /\ UNCHANGED <<calls, mem, dev>>

---------------------------------------------------------------------------
(* Commands.                                                               *)

Queue == IF drv.present THEN 1 ELSE 0

\* Sectors of the next command of a call: the bounce buffer takes Bounce of
\* 512 bytes, a 4096-byte block is read for one sector at a time.
BatchOf(left) == IF drv.lba_size = 1 /\ left < Bounce THEN left
                 ELSE IF drv.lba_size = 1 THEN Bounce ELSE 1

Batch == BatchOf(call.n - drv.done)

\* cdw10, cdw11 and cdw12 of the next command; nlb is one less than the
\* number of blocks.
IoCommand ==
    LET blk == (call.lba + drv.done) \div drv.lba_size
    IN  [op |-> call.op, lo |-> blk % Word, hi |-> blk \div Word,
         nlb |-> IF drv.lba_size = 1 THEN Batch - 1 ELSE 0]

Command ==
    IF drv.present THEN IoCommand ELSE [op |-> AdminCommands[drv.stage]]

\* admin_cmd and io_cmd: the entry, the tail, the doorbell.  A write copies
\* its words to io_data first.
nvme_submit ==
    /\ drv.pc = "submit"
    /\ LET q == Queue
           t == NextSlot(drv.tail[q])
       IN  /\ mem' = [mem EXCEPT !.sq[q][drv.tail[q]] = Command,
                                 !.io_data =
                          IF drv.present /\ call.op = "write"
                          THEN SubSeq(call.data, drv.done + 1, drv.done + Batch)
                          ELSE @]
           /\ drv' = [drv EXCEPT !.tail[q] = t, !.pc = "poll"]
           /\ dev' = [dev EXCEPT !.sqtail[q] = t]
    /\ UNCHANGED calls

StartOfBlock ==
    IF call.op # "read" THEN <<>>
    ELSE IF drv.lba_size = 1 THEN SubSeq(mem.io_data, 1, Batch)
    ELSE <<mem.io_data[1]>>

\* The sectors of io_data a finished read hands over: the whole batch, or
\* the one sector of the block at the call's offset.
Taken ==
    IF call.op # "read" THEN <<>>
    ELSE IF drv.lba_size = 1 THEN SubSeq(mem.io_data, 1, Batch)
    ELSE <<mem.io_data[((call.lba + drv.done) % drv.lba_size) + 1]>>

\* The driver's view of the ring after one completion: the phase it waits for
\* flips when the head comes round.
Consumed(q) ==
    LET h == NextSlot(drv.head[q])
    IN  [drv EXCEPT !.head[q] = h,
                    !.phase[q] = IF h = 0 THEN 1 - @ ELSE @]

\* nvme_init_one after an admin command that ended with sc = 0: the block
\* size is kept, and the drive is there once both I/O queues are.
nvme_init_next(d) ==
    LET last == drv.stage = Len(AdminCommands)
    IN  /\ drv' = [d EXCEPT
                     !.lba_size = IF drv.stage = 2 THEN mem.id_buf ELSE @,
                     !.present = last,
                     !.stage = IF last THEN @ ELSE @ + 1,
                     !.pc = IF last THEN "idle" ELSE "submit"]
        /\ UNCHANGED <<call, ret>>

\* The loops of nvme_read_sectors and nvme_write_sectors after a command that
\* ended with sc = 0.
nvme_io_next(d) ==
    LET done == drv.done + Batch
        buf == drv.buf \o Taken
    IN  IF done < call.n
        THEN /\ drv' = [d EXCEPT !.done = done, !.buf = buf, !.pc = "submit"]
             /\ UNCHANGED <<call, ret>>
        ELSE /\ drv' = [d EXCEPT !.pc = "idle", !.done = 0, !.buf = <<>>]
             /\ Return(0, buf)

\* What follows a command that failed or timed out: the drive is not added,
\* or the call returns -1.
nvme_fail(d) ==
    /\ drv' = [d EXCEPT !.pc = "idle", !.done = 0, !.buf = <<>>]
    /\ IF drv.present THEN Return(-1, <<>>) ELSE UNCHANGED <<call, ret>>

\* A completion of the phase waited for stands at the head.
nvme_complete ==
    /\ drv.pc = "poll"
    /\ LET q == Queue
           cqe == mem.cq[q][drv.head[q]]
           d == Consumed(q)
       IN  /\ cqe.phase = drv.phase[q]
           /\ IF cqe.sc # 0 THEN nvme_fail(d)
              ELSE IF drv.present THEN nvme_io_next(d) ELSE nvme_init_next(d)
           /\ dev' = [dev EXCEPT !.cqhead[q] = d.head[q]]
    /\ UNCHANGED <<disk, mem>>

\* The polling loop runs out.
nvme_timeout ==
    /\ drv.pc = "poll"
    /\ dev.dead
    /\ mem.cq[Queue][drv.head[Queue]].phase # drv.phase[Queue]
    /\ nvme_fail(drv)
    /\ UNCHANGED <<disk, mem, dev>>

\* nvme_read_sectors and nvme_write_sectors: an absent drive, a block size
\* other than 512 or 4096, and a write to 4096-byte blocks are refused.
Refused ==
    \/ ~drv.present
    \/ drv.lba_size \notin {1, Bounce}
    \/ call.op = "write" /\ drv.lba_size # 1

nvme_call ==
    /\ drv.pc = "idle"
    /\ call # NoCall
    /\ IF Refused
       THEN Return(-1, <<>>) /\ UNCHANGED drv
       ELSE drv' = [drv EXCEPT !.pc = "submit"] /\ UNCHANGED <<call, ret>>
    /\ UNCHANGED <<disk, mem, dev>>

---------------------------------------------------------------------------
(* The controller.                                                         *)

\* The completion of the command at the head of queue q, with memory m.
Posted(q, m, sc) ==
    /\ mem' = [m EXCEPT !.sq[q][dev.sqhead[q]] = Fetched,
                        !.cq[q][dev.cqtail[q]] =
                            [phase |-> dev.phase[q], sc |-> sc]]
    /\ dev' = [dev EXCEPT
                 !.sqhead[q] = NextSlot(@),
                 !.cqtail[q] = NextSlot(@),
                 !.phase[q] = IF NextSlot(dev.cqtail[q]) = 0 THEN 1 - @ ELSE @,
                 !.made = IF sc = 0 /\ q = 0
                          THEN @ \cup {mem.sq[0][dev.sqhead[0]].op} ELSE @]

\* A command can be fetched: there is one, its completion fits, and the I/O
\* queues have been made.
Fetchable(q) ==
    /\ ~dev.dead
    /\ dev.sqhead[q] # dev.sqtail[q]
    /\ NextSlot(dev.cqtail[q]) # dev.cqhead[q]
    /\ q = 1 => {"create_cq", "create_sq"} \subseteq dev.made

nvme_dev_admin ==
    /\ Fetchable(0)
    /\ \/ \E size \in {1, Bounce, 2 * Bounce} :
             /\ mem.sq[0][dev.sqhead[0]].op = "identify_ns"
             /\ Posted(0, [mem EXCEPT !.id_buf = size], 0)
       \/ mem.sq[0][dev.sqhead[0]].op # "identify_ns" /\ Posted(0, mem, 0)
       \/ Posted(0, mem, 1)
    /\ UNCHANGED <<calls, drv>>

\* An I/O command runs, or fails after storing some of its sectors.
nvme_dev_io ==
    /\ Fetchable(1)
    /\ LET cmd == mem.sq[1][dev.sqhead[1]]
           size == mem.id_buf
           lba == (cmd.hi * Word + cmd.lo) * size
           n == (cmd.nlb + 1) * size
           ok == lba..(lba + n - 1) \subseteq Sectors /\ n <= Bounce
       IN  \/ /\ ok /\ cmd.op = "read"
              /\ Posted(1, [mem EXCEPT !.io_data = Fetch(lba, n)], 0)
              /\ UNCHANGED disk
           \/ /\ ok /\ cmd.op = "write"
              /\ Posted(1, mem, 0)
              /\ disk' = Stored(lba, mem.io_data, n)
           \/ /\ Posted(1, mem, 1)
              /\ \E k \in 0..n - 1 :
                    disk' = IF ok /\ cmd.op = "write"
                            THEN Stored(lba, mem.io_data, k) ELSE disk
    /\ UNCHANGED <<call, ret, drv>>

nvme_Driver == nvme_enable \/ nvme_submit \/ nvme_complete \/ nvme_timeout
               \/ nvme_call
nvme_Device == nvme_dev_admin \/ nvme_dev_io
=============================================================================
