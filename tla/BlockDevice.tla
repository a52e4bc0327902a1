---------------------------- MODULE BlockDevice ----------------------------
(* What blk_read and blk_write promise the file systems, whatever drive is  *)
(* behind them (src/drivers/ata.c, ata.h): the abstract specification that  *)
(* module Storage shows each of the four drivers to implement.              *)
(*                                                                          *)
(* A call works on the sectors lba .. lba+n-1.  A read that returns 0       *)
(* returns what the disk holds; a write that returns 0 has stored every     *)
(* sector; a call that returns -1 may have stored any part of its sectors,  *)
(* and touches no other.  A drive written without a last look at its status *)
(* (posted) may lose the last sector of a write that returned 0.            *)
EXTENDS Integers, Sequences

CONSTANTS Sectors,   \* the sectors of the drive
          Words,     \* what a sector may hold
          MaxCount   \* the longest transfer that is called for

VARIABLES disk,      \* [Sectors -> Words]
          call,      \* the call in progress
          ret,       \* what the last call returned
          posted     \* does the drive acknowledge the last sector unseen?

vars == <<disk, call, ret, posted>>

NoCall == [op |-> "none", lba |-> 0, n |-> 0, data |-> <<>>, irq |-> TRUE]

NoRet == [code |-> 0, data |-> <<>>]

\* The sectors of a call.
Span(c) == c.lba .. c.lba + c.n - 1

\* What a write puts in sector s.
Word(c, s) == c.data[s - c.lba + 1]

\* The sectors of a call read in order.
Slice(c) == [i \in 1..c.n |-> disk[c.lba + i - 1]]

\* irq: a call from the kernel's shell runs with interrupts enabled, one
\* from a system call does not.
Calls ==
    LET spans == {s \in Sectors \X (1..MaxCount) :
                      s[1]..(s[1] + s[2] - 1) \subseteq Sectors}
    IN  {[op |-> "read", lba |-> s[1], n |-> s[2], data |-> <<>>, irq |-> b] :
            s \in spans, b \in BOOLEAN}
        \cup UNION {{[op |-> "write", lba |-> s[1], n |-> s[2],
                      data |-> d, irq |-> b] :
                        d \in [1..s[2] -> Words], b \in BOOLEAN} : s \in spans}

Init ==
    /\ disk \in [Sectors -> Words]
    /\ call = NoCall
    /\ ret = NoRet
    /\ posted \in BOOLEAN

Invoke ==
    /\ call = NoCall
    /\ call' \in Calls
    /\ ret' = NoRet
    /\ UNCHANGED <<disk, posted>>

\* The drive stores some sectors of a write.
Store ==
    /\ call.op = "write"
    /\ \E S \in SUBSET Span(call) :
          disk' = [s \in Sectors |-> IF s \in S THEN Word(call, s) ELSE disk[s]]
    /\ UNCHANGED <<call, ret, posted>>

\* The sectors a write must have stored before it returns 0.
Promised(c) ==
    IF c.op # "write" THEN {}
    ELSE Span(c) \ (IF posted THEN {c.lba + c.n - 1} ELSE {})

Succeed ==
    /\ call # NoCall
    /\ \A s \in Promised(call) : disk[s] = Word(call, s)
    /\ ret' = [code |-> 0,
               data |-> IF call.op = "read" THEN Slice(call) ELSE <<>>]
    /\ call' = NoCall
    /\ UNCHANGED <<disk, posted>>

Fail ==
    /\ call # NoCall
    /\ ret' = [code |-> -1, data |-> <<>>]
    /\ call' = NoCall
    /\ UNCHANGED <<disk, posted>>

Next == Invoke \/ Store \/ Succeed \/ Fail

Spec == Init /\ [][Next]_vars
=============================================================================
