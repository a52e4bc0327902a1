-------------------------------- MODULE Ext2 --------------------------------
(***************************************************************************)
(* The ext2 driver, fs/ext2.c, on a disk that may lose power between any   *)
(* two block writes and may fail any of them.                              *)
(*                                                                         *)
(* On disk are the block and inode bitmaps, the free counters of the group *)
(* descriptors, the inodes, the pointer blocks, the directory blocks and   *)
(* the data.  The driver keeps nothing in memory between two calls, and    *)
(* calls do not interleave (see Fat32).  A call is the list of block       *)
(* writes that it will make, computed from what it reads; each write says  *)
(* how the call goes on when the write, or the read it updates, fails.     *)
(* Except for file data a block write is taken to be atomic, and a failed  *)
(* one to have changed nothing.                                            *)
(*                                                                         *)
(* Sizes count cells, Units to a block; what is kept of a cell is which    *)
(* file wrote it, and as which of its cells.  Left out are the counters of *)
(* the superblock and i_blocks, which the driver writes and never reads;   *)
(* extents and double indirect blocks, which it refuses to write; and the  *)
(* node pool, whose end shows as a lookup that misses.                     *)
(***************************************************************************)
EXTENDS Integers, SequencesExt

CONSTANTS first_data_block, blocks_count, blocks_per_group,
          inodes_count, inodes_per_group, first_ino,
          Meta,       \* blocks of bitmaps and inode tables
          NDir,       \* direct pointers of an inode: 12
          Ptrs,       \* pointers of a pointer block
          Units,      \* cells of a block
          DirUnits,   \* 4-byte units of a directory block
          Names,      \* file names
          NameLen,    \* lengths of these and of ".", ".." and "sub", in bytes
          MaxFiles,   \* bound: files in the life of the volume
          MaxCells,   \* bound: size of a file, in cells
          MaxOps,     \* bound: calls
          MaxFaults   \* bound: crashes and I/O errors

Blocks == first_data_block .. blocks_count - 1
Inos == 1 .. inodes_count
Root == 2
Sub == first_ino                  \* a subdirectory, made with the volume
Folders == {Root, Sub}

GroupOf(b) == (b - first_data_block) \div blocks_per_group
InoGroupOf(i) == (i - 1) \div inodes_per_group
Groups == {GroupOf(b) : b \in Blocks}
CounterMod == 65536               \* the counters are uint16_t

VARIABLES blockBm,  \* blocks marked in the block bitmaps
          inodeBm,  \* inodes marked in the inode bitmaps
          freeBlks, \* bg_free_blocks_count, by group
          freeInos, \* bg_free_inodes_count, by group
          inode,    \* the inode tables
          ptrs,     \* blocks as pointer blocks
          dents,    \* blocks as directory blocks
          data,     \* blocks as data
          write_supported,
          op,       \* the call in progress
          lastId,   \* identity of the file created last
          calls,    \* calls so far
          faults,   \* crashes and I/O errors so far
          torn,     \* a fault hit a move half-way
          stray     \* a pointer block was taken, and then no block for it to point at
disk == <<blockBm, inodeBm, freeBlks, freeInos, inode, ptrs, dents, data>>
ghosts == <<lastId, calls, faults, torn, stray>>
ext2Vars == <<disk, write_supported, op, ghosts>>

NoInode == [kind |-> "none", links |-> 0, size |-> 0, id |-> 0, blk |-> [k \in 0 .. NDir |-> 0]]
NewFile(id) == [NoInode EXCEPT !.kind = "file", !.links = 1, !.id = id]
NoPtrs == [k \in 0 .. Ptrs - 1 |-> 0]
Rec(i, n, len) == [ino |-> i, name |-> n, len |-> len]
Tag(id, u) == id * MaxCells + u
NoCell == -1
NoOp == [kind |-> "none", todo |-> <<>>]

(* The least rec_len for a name: header and name, aligned, in units.       *)
Need(n) == (8 + NameLen[n] + 3) \div 4

-----------------------------------------------------------------------------
(* Reading the volume.                                                     *)

(* get_block; 0 is a hole.                                                 *)
get_block(m, k) ==
  IF k < NDir THEN m.blk[k]
  ELSE IF k - NDir < Ptrs /\ m.blk[NDir] # 0 THEN ptrs[m.blk[NDir]][k - NDir]
  ELSE 0

BlocksFor(size) == (size + Units - 1) \div Units

FileBlocks(m) == [k \in 1 .. BlocksFor(m.size) |-> get_block(m, k - 1)]

(* The records of a directory in the order of every scan, each as its      *)
(* block and its index there.                                              *)
Records(d) == FlattenSeq([k \in 1 .. BlocksFor(inode[d].size) |->
                LET b == get_block(inode[d], k - 1)
                IN IF b = 0 THEN <<>> ELSE [i \in 1 .. Len(dents[b]) |-> <<b, i>>]])

RecAt(l) == dents[l[1]][l[2]]

(* ext2_finddir: the first live record with the name.                      *)
Matches(d, n) == LET s == Records(d)
                 IN {j \in 1 .. Len(s) : RecAt(s[j]).ino # 0 /\ RecAt(s[j]).name = n}

Found(d, n) == Records(d)[Min(Matches(d, n))]

(* The offset of record i in its block.                                    *)
Offset(recs, i) == FoldFunction(+, 0, [j \in 1 .. i - 1 |-> recs[j].len])

-----------------------------------------------------------------------------
(* The block writes of a call.  The last field says how the call goes on   *)
(* when the write fails.                                                   *)

Skip(n) == [why |-> "skip", n |-> n]                  \* drop n writes, go on
Instead(steps) == [why |-> "instead", steps |-> steps]
Stop == Instead(<<>>)                                 \* return
PlainScan(k, m) == [why |-> "plain scan", k |-> k, m |-> m]  \* alloc_block_near: on to alloc_block
NoBlock(k, m) == [why |-> "no block", k |-> k, m |-> m]      \* get_or_alloc_block returns 0

BitStep(bs, taken, f) == [k |-> "bit", bs |-> bs, taken |-> taken, f |-> f]
CountStep(g, n, f) == [k |-> "count", g |-> g, n |-> n, f |-> f]
InoBitStep(i, taken, f) == [k |-> "inobit", i |-> i, taken |-> taken, f |-> f]
InoCountStep(i, n, f) == [k |-> "inocount", g |-> InoGroupOf(i), n |-> n, f |-> f]
InodeStep(i, m, f) == [k |-> "inode", i |-> i, m |-> m, f |-> f]
PtrStep(b, p, f) == [k |-> "ptr", b |-> b, p |-> p, f |-> f]
DirStep(b, recs, f) == [k |-> "dir", b |-> b, recs |-> recs, f |-> f]
ClearStep(l, f) == [k |-> "clear", b |-> l[1], at |-> Offset(dents[l[1]], l[2]), f |-> f]
DataStep(b, u, n, f) == [k |-> "data", b |-> b, u |-> u, n |-> n, f |-> f]
CopyStep(b, to, f) == [k |-> "copy", b |-> b, to |-> to, f |-> f]

TakeSteps(b, f) == <<BitStep({b}, TRUE, f), CountStep(GroupOf(b), -1, f)>>

CountInFirst(i) == <<InoBitStep(i, TRUE, Stop), InoCountStep(1, -1, Stop)>>

TakeInode(i) == <<InoBitStep(i, TRUE, Stop), InoCountStep(i, -1, Stop)>>

(* free_block for each of bs: the callers ignore its errors.               *)
FreeSteps(bs) ==
  FlattenSeq([i \in 1 .. Len(bs) |->
    <<BitStep({bs[i]}, FALSE, Skip(2)), CountStep(GroupOf(bs[i]), 1, Skip(1))>>])

FreeInode(i) == <<InoBitStep(i, FALSE, Skip(2)), InoCountStep(i, 1, Skip(1))>>

-----------------------------------------------------------------------------
(* Allocation, with v for the bitmap and the counters as the writes before *)
(* it will have left them.                                                 *)

OnDisk == [bm |-> blockBm, free |-> freeBlks]

Taken(v, b) == [bm |-> v.bm \cup {b}, free |-> [v.free EXCEPT ![GroupOf(b)] = (@ - 1) % CounterMod]]

Available(v) == {b \in Blocks \ v.bm : v.free[GroupOf(b)] # 0}

(* Groups are scanned in order, and blocks in order inside a group.        *)
alloc_block(v) == IF Available(v) = {} THEN 0 ELSE Min(Available(v))

alloc_block_near(v, goal) == IF goal \in Available(v) THEN goal ELSE alloc_block(v)

(* alloc_block_run: in the first group with a free block, the longest run  *)
(* up to `want`, and the first of these.                                   *)
FindRun(v, want) ==
  LET g == GroupOf(alloc_block(v))
      runs == {r \in Available(v) \X (1 .. want) :
                 \A b \in r[1] .. r[1] + r[2] - 1 : b \in Available(v) /\ GroupOf(b) = g}
      len == Max({r[2] : r \in runs})
      start == Min({r[1] : r \in {r \in runs : r[2] = len}})
  IN IF Available(v) = {} THEN <<>> ELSE [i \in 1 .. len |-> start + i - 1]

FreeInodes == {i \in Inos \ inodeBm : i >= first_ino /\ freeInos[InoGroupOf(i)] # 0}

Grant(b, v, f) == [b |-> b, v |-> IF b = 0 THEN v ELSE Taken(v, b),
                   steps |-> IF b = 0 THEN <<>> ELSE TakeSteps(b, f)]

(* alloc_block_near, with plain after its own writes have failed.          *)
TakeNear(v, goal, plain, k, m) ==
  Grant(IF plain THEN alloc_block(v) ELSE alloc_block_near(v, goal), v,
        IF ~plain /\ goal \in Available(v) THEN PlainScan(k, m) ELSE NoBlock(k, m))

After(b) == IF b = 0 THEN 0 ELSE b + 1

(* get_or_alloc_block for block k of m, whose pointer block reads as p:    *)
(* the writes, the block (0: none), and v, m and p as they are then.       *)
Have(b, v, m, p) == [b |-> b, v |-> v, m |-> m, p |-> p, steps |-> <<>>]
NoRoom(v, m, p) == Have(0, v, m, p)

SetDirect(t, m, p, k) == [Have(t.b, t.v, [m EXCEPT !.blk[k] = t.b], p) EXCEPT !.steps = t.steps]

Direct(v, m, p, k, plain) ==
  IF m.blk[k] # 0 THEN Have(m.blk[k], v, m, p)
  ELSE SetDirect(TakeNear(v, IF k = 0 THEN 0 ELSE After(m.blk[k - 1]), plain, k, m), m, p, k)

SetEntry(t, m, q, k) ==
  [Have(t.b, t.v, m, q) EXCEPT !.steps = Append(t.steps, PtrStep(m.blk[NDir], q, NoBlock(k, m)))]

Fill(t, v, m, p, k) == IF t.b = 0 THEN NoRoom(v, m, p)
                       ELSE SetEntry(t, m, [p EXCEPT ![k - NDir] = t.b], k)

Entry(v, m, p, k, plain) ==
  LET j == k - NDir
  IN IF p[j] # 0 THEN Have(p[j], v, m, p)
     ELSE Fill(TakeNear(v, After(IF j = 0 THEN m.blk[NDir - 1] ELSE p[j - 1]), plain, k, m), v, m, p, k)

(* The pointer block that is taken for block k of m: its writes, and what  *)
(* it reads as.                                                            *)
StalePointer(b, k, m) == [steps |-> TakeSteps(b, NoBlock(k, m)), p |-> ptrs[b]]

ZeroedPointer(b, k, m) ==
  [steps |-> Append(TakeSteps(b, NoBlock(k, m)), PtrStep(b, NoPtrs, NoBlock(k, m))), p |-> NoPtrs]

EntryBehind(z, b, v, m, k) ==
  [Entry(Taken(v, b), [m EXCEPT !.blk[NDir] = b], z.p, k, FALSE) EXCEPT !.steps = z.steps \o @]

PointTo(b, v, m, p, k) == IF b = 0 THEN NoRoom(v, m, p)
                          ELSE EntryBehind(ZeroedPointer(b, k, m), b, v, m, k)

NewPointer(v, m, p, k) == PointTo(alloc_block(v), v, m, p, k)

get_or_alloc_block(v, m, p, k, plain) ==
  IF k < NDir THEN Direct(v, m, p, k, plain)
  ELSE IF k >= NDir + Ptrs THEN NoRoom(v, m, p)
  ELSE IF m.blk[NDir] = 0 THEN NewPointer(v, m, p, k)
  ELSE Entry(v, m, p, k, plain)

PtrsOf(m) == IF m.blk[NDir] = 0 THEN NoPtrs ELSE ptrs[m.blk[NDir]]

-----------------------------------------------------------------------------
(* Writing a file.                                                         *)

(* Phase 1 of ext2_write: the blocks k .. last, until one cannot be had;   *)
(* `upto` counts the blocks there are then.                                *)
Ensure(m, k, last, plain) ==
  LET Extend(a, r, j) == [v |-> r.v, m |-> r.m, p |-> r.p, steps |-> a.steps \o r.steps,
                          upto |-> IF r.b = 0 THEN j ELSE j + 1]
      Get(a, j) == IF a.upto < j THEN a
                   ELSE Extend(a, get_or_alloc_block(a.v, a.m, a.p, j, plain /\ j = k), j)
  IN FoldLeft(Get, [v |-> OnDisk, m |-> m, p |-> PtrsOf(m), steps |-> <<>>, upto |-> k],
              [j \in 1 .. last - k + 1 |-> k + j - 1])

(* The end of ext2_write, with `end` the last cell written.                *)
Finish(i, m, end) == InodeStep(i, [m EXCEPT !.size = Max({@, end})], Stop)

(* What is written when the write of the cells [from, to) fails.           *)
CountedBefore(from, to) == to

CountedAfter(from, to) == from

(* Phase 2 over the cells [off, end), one write per block.                 *)
DataSteps(i, m, p, off, end) ==
  LET lo == off \div Units
      hi == (end - 1) \div Units
      Block(k) == IF k < NDir THEN m.blk[k] ELSE p[k - NDir]
      Put(k) == LET from == Max({off, k * Units})
                    to == Min({end, (k + 1) * Units})
                    done == CountedAfter(from, to)
                IN DataStep(Block(k), from, to - from,
                            IF done = off THEN Stop ELSE Instead(<<Finish(i, m, done)>>))
  IN IF end <= off THEN <<>>
     ELSE Append([j \in 1 .. hi - lo + 1 |-> Put(lo + j - 1)], Finish(i, m, end))

ThenData(a, i, off, end) == a.steps \o DataSteps(i, a.m, a.p, off, Min({end, a.upto * Units}))

WriteSteps(i, m, k, off, end, plain) ==
  ThenData(Ensure(m, k, (end - 1) \div Units, plain), i, off, end)

-----------------------------------------------------------------------------
(* Directory entries.                                                      *)

Used(r) == IF r.ino = 0 THEN 0 ELSE Need(r.name)

(* Record j of recs makes room for the name: a free record is taken whole, *)
(* a live one is split behind what it uses.                                *)
Placed(recs, j, n, i) ==
  LET r == recs[j]
  IN IF r.ino = 0 THEN [recs EXCEPT ![j] = Rec(i, n, r.len)]
     ELSE SubSeq(recs, 1, j - 1) \o <<[r EXCEPT !.len = Used(r)], Rec(i, n, r.len - Used(r))>>
            \o SubSeq(recs, j + 1, Len(recs))

(* The other half of ext2_insert_dirent: a new block for the directory,    *)
(* whose inode reads as m.                                                 *)
EntryInNew(a, d, n, i, undo, rest) ==
  a.steps \o
  IF a.b = 0 THEN undo
  ELSE <<DirStep(a.b, <<Rec(i, n, DirUnits)>>, Instead(undo)),
         InodeStep(d, [a.m EXCEPT !.size = @ + Units], Instead(undo))>> \o rest

AppendSteps(d, n, i, m, plain, undo, rest) ==
  EntryInNew(get_or_alloc_block(OnDisk, m, PtrsOf(m), BlocksFor(m.size), plain),
             d, n, i, undo, rest)

(* ext2_insert_dirent, with the caller's writes after success and failure. *)
InsertSteps(d, n, i, undo, rest) ==
  LET s == Records(d)
      fits == {j \in 1 .. Len(s) : RecAt(s[j]).len - Used(RecAt(s[j])) >= Need(n)}
      l == s[Min(fits)]
  IN IF fits = {} THEN AppendSteps(d, n, i, inode[d], FALSE, undo, rest)
     ELSE <<DirStep(l[1], Placed(dents[l[1]], l[2], n, i), Instead(undo))>> \o rest

-----------------------------------------------------------------------------
(* Calls.  A file is not removed while a descriptor of it is open, so a    *)
(* node's inode number is that of a name of the file.                      *)

Target(d, n) == RecAt(Found(d, n)).ino

(* A call on a file: ext2_unlink and ext2_rename refuse directories.       *)
NamesFile(d, n) == Matches(d, n) # {} /\ inode[Target(d, n)].kind # "dir"

(* A pointer block is taken and the inode never written.                   *)
Strays(todo) == LET kinds == {todo[j].k : j \in DOMAIN todo}
                IN "ptr" \in kinds /\ "inode" \notin kinds

(* No call is in progress.                                                 *)
Ready == op.kind = "none" /\ ~torn /\ calls < MaxOps

Begin(o) == /\ o.todo # <<>>
            /\ op' = o
            /\ calls' = calls + 1
            /\ stray' = (stray \/ Strays(o.todo))
            /\ UNCHANGED <<disk, write_supported, faults, torn>>

(* vfs_open with O_CREATE: a lookup, then this.                            *)
ext2_create(d, n) ==
  /\ write_supported
  /\ lastId < MaxFiles /\ Matches(d, n) = {}
  /\ FreeInodes # {}
  /\ LET i == Min(FreeInodes)
         made == <<InodeStep(i, NewFile(lastId + 1), Stop)>>
     IN Begin([kind |-> "create", i |-> i, d |-> d, n |-> n, undo |-> FreeInode(i), rest |-> made,
              todo |-> TakeInode(i) \o InsertSteps(d, n, i, FreeInode(i), made)])
  /\ lastId' = lastId + 1

ext2_write(d, n, off, end) ==
  /\ write_supported
  /\ NamesFile(d, n)
  /\ LET i == Target(d, n)
     IN /\ off < end /\ off <= inode[i].size
        /\ Begin([kind |-> "write", i |-> i, off |-> off, end |-> end,
                 todo |-> WriteSteps(i, inode[i], off \div Units, off, end, FALSE)])
  /\ UNCHANGED lastId

(* In the root, old_dir and new_dir are the same node, and a name that     *)
(* fits is rewritten in place; below it each lookup makes a new node.      *)
ext2_rename(d, n, d2, n2) ==
  /\ write_supported
  /\ NamesFile(d, n)
  /\ LET l == Found(d, n)
         i == Target(d, n)
         clear == <<ClearStep(l, Stop)>>
         inPlace == d = Root /\ d2 = Root /\ Need(n2) <= RecAt(l).len
         steps == IF inPlace
                  THEN <<DirStep(l[1], [dents[l[1]] EXCEPT ![l[2]].name = n2], Stop)>>
                  ELSE InsertSteps(d2, n2, i, <<>>, clear)
     IN Begin([kind |-> "rename", i |-> i, d |-> d2, n |-> n2, undo |-> <<>>, rest |-> clear,
              todo |-> steps])
  /\ UNCHANGED lastId

NonZero(s) == SelectSeq(s, LAMBDA b : b # 0)

(* The blocks ext2_unlink frees: direct, pointed at, the pointer block.    *)
DataBlocks(m) == NonZero([k \in 1 .. NDir |-> m.blk[k - 1]] \o [k \in 1 .. Ptrs |-> PtrsOf(m)[k - 1]])

BlocksToFree(m) == DataBlocks(m) \o NonZero(<<m.blk[NDir]>>)

(* The name goes first; then a link, or with the last one everything.      *)
LinkFirst(l, i) ==
  LET m == inode[i]
  IN IF m.links > 1 THEN <<InodeStep(i, [m EXCEPT !.links = @ - 1], Stop), ClearStep(l, Stop)>>
     ELSE <<ClearStep(l, Stop)>> \o FreeSteps(BlocksToFree(m)) \o FreeInode(i)
            \o <<InodeStep(i, NoInode, Stop)>>

UnlinkSteps(l, i) ==
  LET m == inode[i]
  IN IF m.links > 1 THEN <<ClearStep(l, Stop), InodeStep(i, [m EXCEPT !.links = @ - 1], Stop)>>
     ELSE <<ClearStep(l, Stop)>> \o FreeSteps(BlocksToFree(m)) \o FreeInode(i)
            \o <<InodeStep(i, NoInode, Stop)>>

ext2_unlink(d, n) ==
  /\ write_supported
  /\ NamesFile(d, n)
  /\ Begin([kind |-> "unlink", todo |-> UnlinkSteps(Found(d, n), Target(d, n))])
  /\ UNCHANGED lastId

Contiguous(bs) == \A k \in 1 .. Len(bs) - 1 : bs[k + 1] = bs[k] + 1

CopySteps(old, run) ==
  [k \in 1 .. Len(run) |-> CopyStep(old[k], run[k], Instead(FreeSteps(run)))]

(* The inode and the pointer block of i, pointed at the run.               *)
RepointSteps(i, run) ==
  LET m == inode[i]
      direct == [k \in 0 .. NDir |-> IF k < NDir /\ k < Len(run) THEN run[k + 1] ELSE m.blk[k]]
      p == [k \in 0 .. Ptrs - 1 |-> IF NDir + k < Len(run) THEN run[NDir + k + 1] ELSE PtrsOf(m)[k]]
  IN <<InodeStep(i, [m EXCEPT !.blk = direct], Instead(FreeSteps(run)))>>
       \o IF Len(run) > NDir THEN <<PtrStep(m.blk[NDir], p, Stop)>> ELSE <<>>

(* Copy everything, repoint the file, free the old blocks.                 *)
MoveSteps(i, old, run) == CopySteps(old, run) \o RepointSteps(i, run) \o FreeSteps(old)

(* ext2_defrag_one.                                                        *)
DefragSteps(i) ==
  LET old == FileBlocks(inode[i])
      run == FindRun(OnDisk, Len(old))
      take == <<BitStep(ToSet(run), TRUE, Stop), CountStep(GroupOf(run[1]), -Len(run), Stop)>>
  IN IF 0 \in ToSet(old) \/ Contiguous(old) \/ run = <<>> THEN <<>>
     ELSE take \o IF Len(run) < Len(old) THEN FreeSteps(run) ELSE MoveSteps(i, old, run)

(* The records of d from index j on for which it has something to do; each *)
(* is looked up again by name.                                             *)
ToMove(d, j) ==
  LET s == Records(d)
  IN {r \in j .. Len(s) : /\ RecAt(s[r]).ino # 0 /\ NamesFile(d, RecAt(s[r]).name)
                          /\ DefragSteps(Target(d, RecAt(s[r]).name)) # <<>>}

MoveNext(d, j) ==
  LET r == Min(ToMove(d, j))
  IN IF ToMove(d, j) = {} THEN NoOp
     ELSE [kind |-> "defrag", d |-> d, idx |-> r + 1,
           todo |-> DefragSteps(Target(d, RecAt(Records(d)[r]).name))]

(* vfs_defrag calls it with the root of the volume.                        *)
ext2_defrag == Begin(MoveNext(Root, 1)) /\ UNCHANGED lastId

DefragNext == /\ op.kind = "defrag" /\ op.todo = <<>>
              /\ op' = MoveNext(op.d, op.idx)
              /\ UNCHANGED <<disk, write_supported, ghosts>>

-----------------------------------------------------------------------------
(* The writes of the call in progress.                                     *)

Step == Head(op.todo)
Pending(k) == op.todo # <<>> /\ Step.k = k

Continue(todo) == op' = IF todo = <<>> /\ op.kind # "defrag" THEN NoOp ELSE [op EXCEPT !.todo = todo]

Done == Continue(Tail(op.todo)) /\ UNCHANGED <<write_supported, ghosts>>

Mark(set, elems, taken) == IF taken THEN set \cup elems ELSE set \ elems

WriteBitmap ==
  /\ \/ /\ Pending("bit")
        /\ blockBm' = Mark(blockBm, Step.bs, Step.taken)
        /\ UNCHANGED inodeBm
     \/ /\ Pending("inobit")
        /\ inodeBm' = Mark(inodeBm, {Step.i}, Step.taken)
        /\ UNCHANGED blockBm
  /\ Done
  /\ UNCHANGED <<freeBlks, freeInos, inode, ptrs, dents, data>>

WriteGroupDesc ==
  /\ \/ /\ Pending("count")
        /\ freeBlks' = [freeBlks EXCEPT ![Step.g] = (@ + Step.n) % CounterMod]
        /\ UNCHANGED freeInos
     \/ /\ Pending("inocount")
        /\ freeInos' = [freeInos EXCEPT ![Step.g] = (@ + Step.n) % CounterMod]
        /\ UNCHANGED freeBlks
  /\ Done
  /\ UNCHANGED <<blockBm, inodeBm, inode, ptrs, dents, data>>

write_inode ==
  /\ Pending("inode")
  /\ inode' = [inode EXCEPT ![Step.i] = Step.m]
  /\ Done
  /\ UNCHANGED <<blockBm, inodeBm, freeBlks, freeInos, ptrs, dents, data>>

WritePointers ==
  /\ Pending("ptr")
  /\ ptrs' = [ptrs EXCEPT ![Step.b] = Step.p]
  /\ Done
  /\ UNCHANGED <<blockBm, inodeBm, freeBlks, freeInos, inode, dents, data>>

(* The old entry of a move is found again by its offset.                   *)
EntryCleared(recs, at) ==
  [j \in DOMAIN recs |-> IF Offset(recs, j) = at THEN [recs[j] EXCEPT !.ino = 0] ELSE recs[j]]

WriteDirBlock ==
  /\ \/ Pending("dir") /\ dents' = [dents EXCEPT ![Step.b] = Step.recs]
     \/ Pending("clear") /\ dents' = [dents EXCEPT ![Step.b] = EntryCleared(@, Step.at)]
  /\ Done
  /\ UNCHANGED <<blockBm, inodeBm, freeBlks, freeInos, inode, ptrs, data>>

(* The first n cells of the step are on disk.                              *)
PutCells(n) ==
  data' = [data EXCEPT ![Step.b] = [u \in 0 .. Units - 1 |->
             LET from == Step.u % Units
             IN IF u \in from .. from + n - 1 THEN Tag(inode[op.i].id, Step.u + u - from) ELSE @[u]]]

WriteData ==
  /\ \/ Pending("data") /\ PutCells(Step.n)
     \/ Pending("copy") /\ data' = [data EXCEPT ![Step.to] = data[Step.b]]
  /\ Done
  /\ UNCHANGED <<blockBm, inodeBm, freeBlks, freeInos, inode, ptrs, dents>>

-----------------------------------------------------------------------------
(* Failures.                                                               *)

(* A moved file has its new entry and still its old one.                   *)
HalfDone == op.kind = "rename" /\ Pending("clear")

AfterFailure ==
  LET f == Step.f
  IN CASE f.why = "skip" -> SubSeq(op.todo, f.n + 1, Len(op.todo))
       [] f.why = "instead" -> f.steps
       [] f.why = "plain scan" /\ op.kind = "write" ->
            WriteSteps(op.i, f.m, f.k, op.off, op.end, TRUE)
       [] f.why = "plain scan" /\ op.kind # "write" ->
            AppendSteps(op.d, op.n, op.i, f.m, TRUE, op.undo, op.rest)
       [] f.why = "no block" /\ op.kind = "write" ->
            DataSteps(op.i, f.m, PtrsOf(f.m), op.off, Min({op.end, f.k * Units}))
       [] f.why = "no block" /\ op.kind # "write" -> op.undo

Fault == /\ faults < MaxFaults /\ faults' = faults + 1
         /\ torn' = (torn \/ HalfDone)
         /\ UNCHANGED <<blockBm, inodeBm, freeBlks, freeInos, inode, ptrs, dents,
                        write_supported, lastId, calls, stray>>

(* Data may have reached the disk in part.                                 *)
PartOfData == \/ data' = data
              \/ Pending("data") /\ \E n \in 1 .. Step.n : PutCells(n)

WriteFails == /\ op.todo # <<>>
              /\ PartOfData
              /\ Continue(AfterFailure)
              /\ Fault

(* Power is lost, and the volume is mounted again.                         *)
Crash == /\ op.kind # "none"
         /\ PartOfData
         /\ op' = NoOp
         /\ Fault

-----------------------------------------------------------------------------
(* A volume in use: a subdirectory, and a file with two names.  The last   *)
(* block of the file is away from the others and half used.                *)
FirstFile == first_ino + 1
Base == first_data_block
FileSize == (NDir + 1) * Units - 1
Far == blocks_count - 3
SomeName == CHOOSE n \in Names : \A o \in Names : NameLen[n] <= NameLen[o]

DirInode(b) == [NoInode EXCEPT !.kind = "dir", !.links = 2, !.size = Units, !.blk[0] = b]

UsedBlocks == Meta \cup (Base + 1 .. Base + 3 + NDir) \cup {Far}
UsedInos == 1 .. FirstFile

VolumeInUse ==
  /\ blockBm = UsedBlocks
  /\ inodeBm = UsedInos
  /\ freeBlks = [g \in Groups |-> Cardinality({b \in Blocks \ UsedBlocks : GroupOf(b) = g})]
  /\ freeInos = [g \in Groups |-> Cardinality({i \in Inos \ UsedInos : InoGroupOf(i) = g})]
  /\ inode = [i \in Inos |->
        CASE i = Root -> [DirInode(Base + 1) EXCEPT !.links = 3]
          [] i = Sub -> DirInode(Base + 2)
          [] i = FirstFile -> [kind |-> "file", links |-> 2, size |-> FileSize, id |-> 1,
                               blk |-> [k \in 0 .. NDir |-> IF k = NDir THEN Base + 3 ELSE Base + 4 + k]]
          [] OTHER -> NoInode]
  /\ ptrs = [b \in Blocks |-> IF b \in {Base + 3} \cup (Blocks \ UsedBlocks)
                             THEN [NoPtrs EXCEPT ![0] = Far] ELSE NoPtrs]
  /\ dents = [b \in Blocks |->
        CASE b = Base + 1 -> <<Rec(Root, ".", 3), Rec(Root, "..", 3), Rec(Sub, "sub", 3),
                               Rec(FirstFile, SomeName, DirUnits - 9)>>
          [] b = Base + 2 -> <<Rec(Sub, ".", 3), Rec(Root, "..", 3),
                               Rec(FirstFile, SomeName, DirUnits - 6)>>
          [] OTHER -> <<>>]
  /\ data = [b \in Blocks |-> [u \in 0 .. Units - 1 |->
        CASE b \in Base + 4 .. Base + 3 + NDir -> Tag(1, (b - Base - 4) * Units + u)
          [] b = Far /\ u < Units - 1 -> Tag(1, NDir * Units + u)
          [] OTHER -> NoCell]]

(* ext2_mount decides once whether the volume may be written.              *)
ext2_Init ==
  /\ VolumeInUse
  /\ write_supported \in BOOLEAN
  /\ op = NoOp
  /\ lastId = 1 /\ calls = 0 /\ faults = 0 /\ torn = FALSE /\ stray = FALSE

Calls ==
  /\ Ready
  /\ \/ ext2_defrag
     \/ \E d \in Folders, n \in Names :
          \/ ext2_create(d, n) \/ ext2_unlink(d, n)
          \/ \E off, end \in 0 .. MaxCells : ext2_write(d, n, off, end)
          \/ \E d2 \in Folders, n2 \in Names : ext2_rename(d, n, d2, n2)

Writes == \/ WriteBitmap \/ WriteGroupDesc \/ write_inode \/ WritePointers \/ WriteDirBlock
          \/ WriteData \/ DefragNext

ext2_Next == Calls \/ Writes \/ WriteFails \/ Crash

-----------------------------------------------------------------------------
(* Properties.  They are about the disk and hold between any two writes,   *)
(* so they hold of what a crash leaves.  Nothing is claimed after a fault  *)
(* between the two writes of a move.                                       *)

(* The entries of files, but for the one a move is about to clear, and the *)
(* one ext2_create has written ahead of its inode.                         *)
FileLocs ==
  {l \in ToSet(Records(Root)) \cup ToSet(Records(Sub)) :
     /\ RecAt(l).ino # 0 /\ inode[RecAt(l).ino].kind # "dir"
     /\ ~(HalfDone /\ l[1] = Step.b /\ Offset(dents[l[1]], l[2]) = Step.at)
     /\ ~(op.kind = "create" /\ RecAt(l).ino = op.i)}

NamedFiles == {RecAt(l).ino : l \in FileLocs}

AllBlocks(m) == Append(DataBlocks(m), m.blk[NDir])

(* No block belongs to two files, or to one twice, or to a file while the  *)
(* bitmap calls it free: whatever order of bitmap, counter, pointer and    *)
(* inode writes a crash or an error cuts short.                            *)
BlocksOwned ==
  ~torn =>
    LET blocks == [i \in NamedFiles \cup Folders |-> NonZero(AllBlocks(inode[i]))]
    IN /\ \A i \in DOMAIN blocks : /\ IsInjective(blocks[i])
                                   /\ ToSet(blocks[i]) \subseteq blockBm \ Meta
       /\ \A i, j \in DOMAIN blocks : i # j => ToSet(blocks[i]) \cap ToSet(blocks[j]) = {}
       /\ DOMAIN blocks \subseteq inodeBm

(* ext2_read of a whole file.                                              *)
ext2_read(i) == LET bs == FileBlocks(inode[i])
                IN IF 0 \in ToSet(bs) THEN <<>>
                   ELSE [u \in 0 .. inode[i].size - 1 |-> data[bs[u \div Units + 1]][u % Units]]

(* A file reads, to its full size, as what was written to it: no hole, and *)
(* nothing of an earlier owner of a block, although ext2_write does not    *)
(* clear the blocks it takes.                                              *)
OwnContents ==
  ~torn => \A i \in NamedFiles : ext2_read(i) = [u \in 0 .. inode[i].size - 1 |-> Tag(inode[i].id, u)]

(* Without faults the books are exact between two calls: marked are the    *)
(* blocks and inodes in use and no others, and the counters say how many   *)
(* are not.  (One leak is excepted: see stray.)                            *)
AccountsExact ==
  faults = 0 /\ ~stray /\ op.kind = "none" =>
    /\ blockBm = Meta \cup (UNION {ToSet(AllBlocks(inode[i])) : i \in NamedFiles \cup Folders} \ {0})
    /\ inodeBm = 1 .. first_ino - 1 \cup NamedFiles \cup Folders
    /\ \A g \in Groups :
         /\ freeBlks[g] = Cardinality({b \in Blocks \ blockBm : GroupOf(b) = g})
         /\ freeInos[g] = Cardinality({i \in Inos \ inodeBm : InoGroupOf(i) = g})

(* The records of a directory block tile it, each with room for its name:  *)
(* every scan steps from record to record by rec_len alone.  And a file    *)
(* with several names has as many links: otherwise removing one name       *)
(* frees the blocks that the other still leads to (ext2_unlink).           *)
DirectoriesSound ==
  /\ \A d \in Folders : \A k \in 1 .. BlocksFor(inode[d].size) :
       LET recs == dents[FileBlocks(inode[d])[k]]
       IN /\ Offset(recs, Len(recs) + 1) = DirUnits
          /\ \A j \in DOMAIN recs : 4 * recs[j].len >= 8 + NameLen[recs[j].name]
  /\ ~torn => \A i \in NamedFiles :
                LET names == Cardinality({l \in FileLocs : RecAt(l).ino = i})
                IN names > 1 => inode[i].links >= names
=============================================================================
