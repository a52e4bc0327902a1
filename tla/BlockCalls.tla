----------------------------- MODULE BlockCalls -----------------------------
(* What the four disk drivers share: the interface of blk_read/blk_write.   *)
EXTENDS DriverState, Integers, Sequences

CONSTANTS Sectors, Words, MaxCount,
          Base      \* values of a byte of an LBA register (256)

ASSUME BlockConstants == Sectors \subseteq Nat /\ MaxCount \in Nat

VARIABLES disk,     \* the medium
          call,     \* the blk_read or blk_write in progress
          ret       \* what the last one returned

calls == <<disk, call, ret>>

NoCall == [op |-> "none", lba |-> 0, n |-> 0, data |-> <<>>, irq |-> TRUE]

\* The driver returns to the file system.
Return(code, data) ==
    /\ ret' = [code |-> code, data |-> data]
    /\ call' = NoCall

\* Digit i of an LBA, as the byte registers hold it.
Digit(lba, i) == (lba \div Base ^ i) % Base

\* n sectors of the medium from lba.
Fetch(lba, n) == [i \in 1..n |-> disk[lba + i - 1]]

\* The medium with the first k words of data stored from lba.
Stored(lba, data, k) ==
    [s \in Sectors |-> IF s \in lba..(lba + k - 1) THEN data[s - lba + 1]
                       ELSE disk[s]]
=============================================================================
