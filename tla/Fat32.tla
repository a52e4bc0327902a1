------------------------------- MODULE Fat32 --------------------------------
(***************************************************************************)
(* The FAT32 driver, fs/fat32.c, on a disk that may lose power between any *)
(* two sector writes and may fail any of them.                             *)
(*                                                                         *)
(* On disk are the file allocation table, the directory clusters and the   *)
(* data clusters; in memory the one-sector FAT cache, the allocation hint, *)
(* the open nodes and the node pool.  A call runs without interleaving     *)
(* (system calls run with interrupts off, and the shell waits while a      *)
(* process runs: see Process), so a call is the list of sector writes that *)
(* it will make, computed from what it reads, and the writes are made one  *)
(* by one.  Only the first FAT copy is ever read back, so a set FAT entry  *)
(* has three outcomes: written, not written, and written in the first copy *)
(* but not in the mirror, which the code reports as a failure.             *)
(*                                                                         *)
(* A FAT sector that cannot be read looks like the end of a chain, and     *)
(* like a cluster in use: a call goes by the FAT as its lookups saw it,    *)
(* which is the cache or, once in a while, the cache with a link missing.  *)
(* The volume is small: the address of "cluster" FAT32_EOC is outside the  *)
(* disk, and reading or writing there fails.                               *)
(*                                                                         *)
(* A cell is a sector of a cluster; what is kept of its contents is which  *)
(* file wrote it, and as which of its sectors (0: zeroed).  Files carry an *)
(* identity that no name and no cluster number gives.                      *)
(***************************************************************************)
EXTENDS Integers, Sequences, FiniteSetsExt

CONSTANTS MaxCluster,     \* clusters are 2 .. MaxCluster
          Units,          \* cells per cluster
          EntPer,         \* directory entries per cluster
          Names,          \* 8.3 names
          MaxFiles,       \* bound: files created in the life of the volume
          MaxSize,        \* bound: size of a file, in cells
          MaxFaults       \* bound: crashes, I/O errors, exhaustions of the pool

Clusters == 2 .. MaxCluster
FAT32_EOC == MaxCluster + 1
Root == 2
Sub == 3
Ids == 1 .. MaxFiles

VARIABLES fat,      \* the first FAT
          ents,     \* directory entries of a cluster
          data,     \* cells of a cluster
          cache,    \* fat_buf: the FAT as the driver sees it
          hint,     \* next_free_hint
          node,     \* open nodes, by file
          pool_full, \* all MAX_VFS_NODES nodes are handed out
          op,       \* the call in progress
          lastId,   \* identity of the file created last
          faults,   \* crashes, I/O errors and exhaustions of the node pool so far
          torn,     \* a fault hit an unlink or a move half-way
          short,    \* files with a data write that failed
          cut       \* files written or moved by a call that saw part of their chain
disk == <<fat, ents, data>>
memory == <<cache, hint, node, pool_full>>
ghosts == <<lastId, faults, torn, short, cut>>
vars == <<disk, memory, op, ghosts>>

NoEntry == [kind |-> "end", name |-> "", first |-> 0, size |-> 0, id |-> 0]
Deleted == [NoEntry EXCEPT !.kind = "deleted"]
DirEntry == [kind |-> "dir", name |-> "sub", first |-> Sub, size |-> 0, id |-> 0]
FileEntry(n, c, size, id) == [kind |-> "file", name |-> n, first |-> c, size |-> size, id |-> id]
At(l) == ents[l[1]][l[2]]
Tag(id, u) == id * MaxSize + u
Closed == [open |-> FALSE, inode |-> 0, size |-> 0, l |-> <<Root, 0>>]
Idle == [kind |-> "none", todo |-> <<>>]

(* A volume in use: an empty subdirectory, and in the root one file whose  *)
(* two clusters are out of order and whose last cell is not in use.        *)
VolumeInUse ==
  /\ fat = [c \in Clusters |-> CASE c \in {Root, Sub, 4} -> FAT32_EOC
                                 [] c = 5 -> 4
                                 [] OTHER -> 0]
  /\ ents = [c \in Clusters |-> [e \in 0 .. EntPer - 1 |->
              CASE c = Root /\ e = 0 -> DirEntry
                [] c = Root /\ e = 1 -> FileEntry(CHOOSE n \in Names : TRUE, 5, 2 * Units - 1, 1)
                [] OTHER -> NoEntry]]
  /\ data = [c \in Clusters |-> [u \in 0 .. Units - 1 |->
              CASE c = 5 -> Tag(1, u)
                [] c = 4 /\ u < Units - 1 -> Tag(1, Units + u)
                [] OTHER -> 0]]
  /\ lastId = 1

Init ==
  /\ VolumeInUse
  /\ cache = fat
  /\ hint = 2
  /\ node = [id \in Ids |-> Closed]
  /\ pool_full = FALSE
  /\ op = Idle
  /\ faults = 0 /\ torn = FALSE /\ short = {} /\ cut = {}

-----------------------------------------------------------------------------
(* Reading the volume: through the cache for chains, as the code does.     *)

(* What the calls of fat32_next_cluster in a call may return: the cached   *)
(* links, with FAT32_EOC for one whose sector could not be read.           *)
Lookups == {cache} \cup IF faults < MaxFaults
                          THEN {[cache EXCEPT ![c] = FAT32_EOC] : c \in Clusters}
                          ELSE {}

RECURSIVE Chain(_, _)
Chain(f, c) == IF c \in Clusters THEN <<c>> \o Chain([f EXCEPT ![c] = 0], f[c]) ELSE <<>>

RECURSIVE SlotsOf(_)
SlotsOf(chain) == IF chain = <<>> THEN <<>>
                  ELSE [i \in 1 .. EntPer |-> <<Head(chain), i - 1>>] \o SlotsOf(Tail(chain))

DirSlots(f, d) == SlotsOf(Chain(f, d))

Valid(l) == At(l).kind \in {"file", "dir"}

(* Directory scans stop at the first end mark.                             *)
Listed(f, d) == LET s == DirSlots(f, d)
                IN {i \in 1 .. Len(s) : Valid(s[i]) /\ \A j \in 1 .. i - 1 : At(s[j]).kind # "end"}

Matches(d, n) == LET s == DirSlots(cache, d) IN {i \in Listed(cache, d) : At(s[i]).name = n}

FreeSlots(f, d) == LET s == DirSlots(f, d)
                   IN {i \in 1 .. Len(s) : At(s[i]).kind \in {"end", "deleted"}}

-----------------------------------------------------------------------------
(* Allocation.  Both searches go from the hint to the end and then wrap.   *)

SearchStart(h) == IF h \in Clusters THEN h ELSE 2

ScanOrder(h) == LET s == SearchStart(h)
                IN [i \in 1 .. MaxCluster - 1 |->
                      IF s + i - 1 <= MaxCluster THEN s + i - 1 ELSE s + i - MaxCluster]

(* fat32_alloc_cluster: the first free cluster, or 0.                      *)
FindCluster(f, h) ==
  LET o == ScanOrder(h)
      free == {i \in 1 .. Len(o) : f[o[i]] = 0}
  IN IF free = {} THEN 0 ELSE o[Min(free)]

(* fat32_alloc_run: of the free runs inside [hint, end] and [2, hint), the *)
(* longest, cut to `want`; the first of these in scan order.               *)
FindRun(f, h, want) ==
  LET s == SearchStart(h)
      o == ScanOrder(h)
      runs == {r \in (1 .. Len(o)) \X (1 .. want) :
                 LET lo == o[r[1]]
                     hi == lo + r[2] - 1
                 IN /\ hi <= IF lo >= s THEN MaxCluster ELSE s - 1
                    /\ \A c \in lo .. hi : f[c] = 0}
      best == {r \in runs : \A q \in runs : q[2] <= r[2]}
      r == CHOOSE r \in best : \A q \in best : r[1] <= q[1]
  IN IF runs = {} THEN [start |-> 0, len |-> 0] ELSE [start |-> o[r[1]], len |-> r[2]]

-----------------------------------------------------------------------------
(* The sector writes of a call.                                            *)

TakeFirst(c) == [k |-> "first", c |-> c, v |-> FAT32_EOC, hint |-> c + 1, have |-> 0]

AllocSteps(r, have) ==
  [i \in 1 .. r.len |->
     [k |-> "alloc", c |-> r.start + i - 1, have |-> have,
      v |-> IF i < r.len THEN r.start + i ELSE FAT32_EOC,
      hint |-> IF i < r.len THEN 0 ELSE r.start + r.len]]

ZeroSteps(r, have) ==
  [i \in 1 .. r.len |-> [k |-> "zero", c |-> r.start + i - 1, have |-> have]]

LinkStep(c, v, have) == [k |-> "link", c |-> c, v |-> v, hint |-> 0, have |-> have]

FreeButLast(chain) ==
  [i \in 1 .. Len(chain) - 1 |-> [k |-> "free", c |-> chain[i], v |-> 0, hint |-> 0, have |-> 0]]

FreeSteps(chain) ==
  [i \in 1 .. Len(chain) |-> [k |-> "free", c |-> chain[i], v |-> 0, hint |-> 0, have |-> 0]]

EntryStep(k, l, e) == [k |-> k, l |-> l, e |-> e]

Marked(f, r) == [c \in Clusters |->
                   IF c \in r.start .. r.start + r.len - 2 THEN c + 1
                   ELSE IF c = r.start + r.len - 1 THEN FAT32_EOC ELSE f[c]]

RunChain(r) == [i \in 1 .. r.len |-> r.start + i - 1]

LinkFirst(r, tail, have) ==
  <<LinkStep(tail, r.start, have)>> \o AllocSteps(r, have) \o ZeroSteps(r, have)

(* One turn of the growth loop of fat32_write: a run is taken, zeroed and  *)
(* only then linked to the tail.                                           *)
GrowRun(r, tail, have) ==
  AllocSteps(r, have) \o ZeroSteps(r, have) \o <<LinkStep(tail, r.start, have)>>

RECURSIVE Grow(_, _, _, _)
Grow(f, h, chain, need) ==
  LET have == Len(chain)
      r == FindRun(f, h, need - have)
      more == Grow(Marked(f, r), r.start + r.len, chain \o RunChain(r), need)
  IN IF have >= need \/ r.len = 0 THEN [steps |-> <<>>, chain |-> chain]
     ELSE [steps |-> GrowRun(r, chain[have], have) \o more.steps, chain |-> more.chain]

FlushStep(reach) == [k |-> "flush", reach |-> reach]

(* The data loop of fat32_write over the cells [off, end), one write per   *)
(* cluster, then the directory entry; nothing when no cell fits.           *)
DataSteps(chain, off, end) ==
  LET lo == off \div Units
      hi == (end - 1) \div Units
  IN IF end <= off THEN <<>>
     ELSE [i \in 1 .. hi - lo + 1 |->
             LET base == (lo + i - 1) * Units
             IN [k |-> "data", c |-> chain[lo + i], before |-> Max({off, base}),
                 from |-> Max({off, base}) - base,
                 to |-> Min({end, base + Units}) - base - 1,
                 reach |-> Min({end, base + Units})]]
          \o <<FlushStep(end)>>

(* fat32_insert_dirent: the first free slot, or a new cluster that is      *)
(* allocated, zeroed, linked and then given the entry.                     *)
InsertSteps(f, d, e) ==
  LET s == DirSlots(f, d)
      c == FindCluster(f, hint)
  IN IF FreeSlots(f, d) # {} THEN <<EntryStep("insert", s[Min(FreeSlots(f, d))], e)>>
     ELSE IF c = 0 THEN <<>>
     ELSE <<[TakeFirst(c) EXCEPT !.k = "alloc"], [k |-> "zero", c |-> c, have |-> 0],
            LinkStep(s[Len(s)][1], c, 0), EntryStep("insert", <<c, 0>>, e)>>

-----------------------------------------------------------------------------
(* Calls.  The callers never use a node that another call has made stale:  *)
(* a file is open once, and is not removed, moved or defragmented while it *)
(* is open.                                                                *)

(* No call is in progress: the guard of all of them, see Calls.            *)
Ready == op.kind = "none" /\ ~torn

(* A lookup of the call may have failed.                                   *)
Counted(failed) == /\ failed => faults < MaxFaults
                   /\ faults' = faults + IF failed THEN 1 ELSE 0

(* The file id, if its chain from first on is only partly there in f.      *)
CutOff(f, first, id) == IF Chain(f, first) = Chain(cache, first) THEN {} ELSE {id}

(* alloc_node: nodes are never given back, so the pool runs out some day.  *)
PoolRunsOut == /\ ~pool_full
               /\ pool_full' = TRUE
               /\ faults < MaxFaults /\ faults' = faults + 1
               /\ UNCHANGED <<disk, cache, hint, node, op, lastId, torn, short, cut>>

Found(d, n) == DirSlots(cache, d)[Min(Matches(d, n))]

fat32_finddir(d, n) ==
  /\ Matches(d, n) # {}
  /\ ~node[At(Found(d, n)).id].open
  /\ ~pool_full
  /\ LET e == At(Found(d, n))
     IN node' = [node EXCEPT ![e.id] = [open |-> TRUE, inode |-> e.first, size |-> e.size,
                                        l |-> Found(d, n)]]
  /\ UNCHANGED <<disk, cache, hint, pool_full, op, ghosts>>

Close(id) == /\ node[id].open
             /\ node' = [node EXCEPT ![id] = Closed]
             /\ UNCHANGED <<disk, cache, hint, pool_full, op, ghosts>>

(* Another volume's FAT takes the cache sector, and the next lookup reads  *)
(* the disk again.  It shows only when the cache has missed an update.     *)
Evict == /\ cache # fat
         /\ cache' = fat
         /\ UNCHANGED <<disk, hint, node, pool_full, op, ghosts>>

(* vfs_open with O_CREATE calls this when the lookup returned nothing,     *)
(* which a used up node pool, or a failed read, makes it do for a name     *)
(* that exists.                                                            *)
fat32_create(f, d, n) ==
  LET e == FileEntry(n, 0, 0, lastId + 1)
      steps == InsertSteps(f, d, e)
      missed == Matches(d, n) # {} /\ ~(d = Root /\ pool_full)
  IN /\ lastId < MaxFiles
     /\ d # Root => ~pool_full
     /\ missed => f = cache
     /\ steps # <<>>
     /\ Counted(missed \/ steps # InsertSteps(cache, d, e))
     /\ op' = [kind |-> "create", id |-> lastId + 1, todo |-> steps, l |-> steps[Len(steps)].l]
     /\ lastId' = lastId + 1
     /\ UNCHANGED <<disk, memory, torn, short, cut>>

WritePlan(f, id, off, end) ==
  LET n == node[id]
      c == FindCluster(f, hint)
      taken == IF n.inode = 0 /\ c # 0 THEN [f EXCEPT ![c] = FAT32_EOC] ELSE f
      h == IF n.inode = 0 THEN c + 1 ELSE hint
      first == IF n.inode = 0 THEN c ELSE n.inode
      g == Grow(taken, h, Chain(taken, first), (end + Units - 1) \div Units)
  IN IF first = 0 THEN [kind |-> "none", todo |-> <<>>]
     ELSE [kind |-> "write", id |-> id, off |-> off, end |-> end, chain |-> g.chain,
           todo |-> (IF n.inode = 0 THEN <<TakeFirst(c)>> ELSE <<>>) \o g.steps
                    \o DataSteps(g.chain, off, Min({end, Len(g.chain) * Units}))]

fat32_write(f, id, off, end) ==
  /\ node[id].open
  /\ off < end /\ off <= node[id].size
  /\ op' = WritePlan(f, id, off, end) /\ op'.todo # <<>>
  /\ Counted(op' # WritePlan(cache, id, off, end))
  /\ cut' = IF faults' = faults THEN cut ELSE cut \cup CutOff(f, node[id].inode, id)
  /\ UNCHANGED <<disk, memory, lastId, torn, short>>

fat32_unlink(f, d, n) ==
  /\ Matches(d, n) # {}
  /\ ~pool_full
  /\ LET l == Found(d, n)
         chain == Chain(f, At(l).first)
     IN /\ ~node[At(l).id].open
        /\ Counted(chain # Chain(cache, At(l).first))
        /\ op' = [kind |-> "unlink", l |-> l, chain |-> chain,
                  todo |-> Append(FreeSteps(chain), EntryStep("erase", l, Deleted))]
  /\ UNCHANGED <<disk, memory, lastId, torn, short, cut>>

(* In the root a rename rewrites the name in place.  The two lookups of a  *)
(* path below it give two nodes, so there even a rename inside one         *)
(* directory is a move: insert, then erase.                                *)
RenameSteps(f, l, e, d, d2) ==
  LET insert == InsertSteps(f, d2, e)
  IN IF d = Root /\ d2 = Root THEN <<EntryStep("name", l, e)>>
     ELSE IF insert = <<>> THEN <<>>
     ELSE Append(insert, EntryStep("erase", l, Deleted))

fat32_rename(f, d, n, d2, n2) ==
  /\ Matches(d, n) # {}
  /\ ~pool_full
  /\ LET l == Found(d, n)
         e == [At(l) EXCEPT !.name = n2]
         steps == RenameSteps(f, l, e, d, d2)
     IN /\ ~node[At(l).id].open
        /\ steps # <<>>
        /\ Counted(steps # RenameSteps(cache, l, e, d, d2))
        /\ op' = [kind |-> "rename", l |-> l, chain |-> <<>>, todo |-> steps]
  /\ UNCHANGED <<disk, memory, lastId, torn, short, cut>>

Contiguous(chain) == \A i \in 1 .. Len(chain) - 1 : chain[i + 1] = chain[i] + 1

CopySteps(chain, r) ==
  [i \in 1 .. r.len |-> [k |-> "copy", c |-> r.start + i - 1, from |-> chain[i]]]

RepointAfresh(l, chain, r) ==
  AllocSteps(r, 0) \o CopySteps(chain, r)
    \o <<EntryStep("repoint", l, FileEntry(At(l).name, r.start, 0, At(l).id))>> \o FreeSteps(chain)

(* fat32_defrag_one: copy everything, repoint the entry, free the old.     *)
MoveSteps(l, chain, r) ==
  AllocSteps(r, 0) \o CopySteps(chain, r)
    \o <<EntryStep("repoint", l, [At(l) EXCEPT !.first = r.start])>> \o FreeSteps(chain)

DefragSteps(f, l) ==
  LET chain == Chain(f, At(l).first)
      r == FindRun(f, hint, Len(chain))
  IN IF Contiguous(chain) THEN <<>>
     ELSE IF r.len < Len(chain) THEN AllocSteps(r, 0) \o FreeSteps(RunChain(r))
     ELSE MoveSteps(l, chain, r)

(* The entries of the root, from index i on, that fat32_defrag has to      *)
(* move; it finds each of them again by name.  Without a node, none.       *)
ToMove(f, i) == LET s == DirSlots(cache, Root)
                IN {j \in Listed(cache, Root) :
                      /\ j >= i /\ ~pool_full
                      /\ At(s[j]).kind = "file"
                      /\ DefragSteps(f, Found(Root, At(s[j]).name)) # <<>>}

(* whole: the walk that counted the clusters saw all of them.              *)
MoveEntry(f, j) ==
  LET l == Found(Root, At(DirSlots(cache, Root)[j]).name)
      first == At(l).first
  IN [kind |-> "defrag", idx |-> j + 1, todo |-> DefragSteps(f, l),
      run |-> RunChain(FindRun(f, hint, Len(Chain(f, first)))),
      whole |-> Chain(f, first) = Chain(cache, first)]

(* The next entry moved is the first that has to be, unless a failed read  *)
(* hides that one or makes it look in order.                               *)
DefragFrom(i) ==
  \E f \in Lookups : \E j \in ToMove(f, i) :
    LET next == MoveEntry(f, j)
        l == Found(Root, At(DirSlots(cache, Root)[j]).name)
    IN /\ f = cache \/ j = Min(ToMove(f, i))
       /\ op' = next
       /\ Counted(ToMove(cache, i) = {} \/ next # MoveEntry(cache, Min(ToMove(cache, i))))
       /\ cut' = cut \cup CutOff(f, At(l).first, At(l).id)

fat32_defrag == /\ \A id \in Ids : ~node[id].open
                /\ DefragFrom(1)
                /\ UNCHANGED <<disk, memory, lastId, torn, short>>

(* The scan ends behind the last entry, or where reading the directory     *)
(* fails.                                                                  *)
DefragNext ==
  /\ op.kind = "defrag" /\ op.todo = <<>>
  /\ \/ DefragFrom(op.idx)
     \/ op' = Idle /\ Counted(ToMove(cache, op.idx) # {}) /\ UNCHANGED cut
  /\ UNCHANGED <<disk, memory, lastId, torn, short>>

(* fat32_create returns a node for the entry it wrote, if there is one.    *)
CreateDone ==
  /\ op.kind = "create" /\ op.todo = <<>>
  /\ op' = Idle
  /\ node' = IF ~pool_full
             THEN [node EXCEPT ![op.id] = [open |-> TRUE, inode |-> 0, size |-> 0, l |-> op.l]]
             ELSE node
  /\ UNCHANGED <<disk, cache, hint, pool_full, ghosts>>

-----------------------------------------------------------------------------
(* The writes of the call in progress.                                     *)

Step == Head(op.todo)

Pending(kinds) == op.todo # <<>> /\ Step.k \in kinds

(* The rest of the call; the callers of create and defrag have more to do. *)
Continue(todo) == op' = IF todo = <<>> /\ op.kind \notin {"create", "defrag"}
                        THEN Idle ELSE [op EXCEPT !.todo = todo]

FatKinds == {"first", "alloc", "link", "free"}
EntryKinds == {"insert", "erase", "name", "repoint"}

(* fat32_set_fat_entry keeps the cached sector in step with the disk.      *)
UpdateCache == cache' = [cache EXCEPT ![Step.c] = Step.v]

(* fat32_set_fat_entry, all copies; with the assignments that follow it.   *)
SetFatEntry ==
  /\ Pending(FatKinds)
  /\ fat' = [fat EXCEPT ![Step.c] = Step.v]
  /\ UpdateCache
  /\ hint' = IF Step.hint = 0 THEN hint ELSE Step.hint
  /\ node' = IF Step.k = "first" THEN [node EXCEPT ![op.id].inode = Step.c] ELSE node
  /\ Continue(Tail(op.todo))
  /\ UNCHANGED <<ents, data, pool_full, ghosts>>

ZeroCluster ==
  /\ Pending({"zero"})
  /\ data' = [data EXCEPT ![Step.c] = [u \in 0 .. Units - 1 |-> 0]]
  /\ ents' = [ents EXCEPT ![Step.c] = [e \in 0 .. EntPer - 1 |-> NoEntry]]
  /\ Continue(Tail(op.todo))
  /\ UNCHANGED <<fat, memory, ghosts>>

(* The cells of the step up to `to` are on disk.                           *)
WriteCells(to) ==
  data' = [data EXCEPT ![Step.c] =
             [u \in 0 .. Units - 1 |->
                IF u \in Step.from .. to THEN Tag(op.id, Step.before + u - Step.from)
                ELSE data[Step.c][u]]]

WriteData == /\ Pending({"data"})
             /\ WriteCells(Step.to)
             /\ Continue(Tail(op.todo))
             /\ UNCHANGED <<fat, ents, memory, ghosts>>

CopyCluster == /\ Pending({"copy"})
               /\ data' = [data EXCEPT ![Step.c] = data[Step.from]]
               /\ Continue(Tail(op.todo))
               /\ UNCHANGED <<fat, ents, memory, ghosts>>

WriteEntry == /\ Pending(EntryKinds)
              /\ ents' = [ents EXCEPT ![Step.l[1]][Step.l[2]] = Step.e]
              /\ Continue(Tail(op.todo))
              /\ UNCHANGED <<fat, data, memory, ghosts>>

SizeAsked == Max({node[op.id].size, op.end})

NewSize == Max({node[op.id].size, Step.reach})

(* The end of fat32_write: node->size, then fat32_flush_dirent.            *)
FlushDirent ==
  /\ Pending({"flush"})
  /\ node' = [node EXCEPT ![op.id].size = NewSize]
  /\ LET l == node[op.id].l
     IN ents' = [ents EXCEPT ![l[1]][l[2]].size = NewSize,
                             ![l[1]][l[2]].first = node[op.id].inode]
  /\ Continue(Tail(op.todo))
  /\ UNCHANGED <<fat, data, cache, hint, pool_full, ghosts>>

-----------------------------------------------------------------------------
(* A write that fails, and what each caller does about it.                 *)

(* A chain is freed whose entry is still there, or the moved file has both *)
(* its old and its new entry.                                              *)
HalfDone == \/ op.kind = "unlink" /\ \E i \in DOMAIN op.chain : fat[op.chain[i]] = 0
            \/ op.kind = "rename" /\ Pending({"erase"})

AfterFailure ==
  CASE op.kind \in {"unlink", "defrag"} /\ Step.k = "free" -> Tail(op.todo)
    [] op.kind = "defrag" /\ Step.k \in {"copy", "repoint"} -> FreeSteps(op.run)
    [] op.kind = "write" /\ Step.k \in {"alloc", "zero", "link"} ->
         DataSteps(op.chain, op.off, Min({op.end, Step.have * Units}))
    [] op.kind = "write" /\ Step.k = "data" -> <<FlushStep(Step.reach)>>
    [] OTHER -> <<>>

(* Only a call that goes on after the failure keeps its place.             *)
Fail(todo) ==
  /\ faults < MaxFaults /\ faults' = faults + 1
  /\ torn' = (torn \/ (HalfDone /\ Step.k = "erase"))
  /\ op' = IF todo = <<>> /\ op.kind # "defrag" THEN Idle ELSE [op EXCEPT !.todo = todo]
  /\ UNCHANGED <<lastId, cut>>

SetFatEntryFails ==
  /\ Pending(FatKinds)
  /\ fat' \in {fat, [fat EXCEPT ![Step.c] = Step.v]}
  /\ Fail(AfterFailure)
  /\ UNCHANGED <<ents, data, memory, short>>

(* The failed run of sectors may have reached the disk in part, and its    *)
(* bytes are already counted as written.                                   *)
WriteDataFails ==
  /\ Pending({"data"})
  /\ \E to \in Step.from - 1 .. Step.to : WriteCells(to)
  /\ Fail(AfterFailure)
  /\ short' = short \cup {op.id}
  /\ UNCHANGED <<fat, ents, memory>>

(* The read that precedes it fails: nothing of this cluster is counted.    *)
ReadDataFails ==
  /\ Pending({"data"})
  /\ Fail(IF Step.before = op.off THEN <<>> ELSE <<FlushStep(Step.before)>>)
  /\ UNCHANGED <<disk, memory, short>>

WriteFails ==
  /\ Pending(EntryKinds \cup {"zero", "copy"})
  /\ Fail(AfterFailure)
  /\ UNCHANGED <<disk, memory, short>>

(* Freeing the old chain, fat32_defrag_one cannot read the next link: the  *)
(* cluster at hand is freed, the rest is not found any more.               *)
FreeWalkFails ==
  /\ op.kind = "defrag" /\ Pending({"free"}) /\ Len(op.todo) > 1
  /\ \A i \in DOMAIN op.run : Step.c # op.run[i]
  /\ Fail(<<Step>>)
  /\ UNCHANGED <<disk, memory, short>>

(* The result of fat32_flush_dirent is ignored.                            *)
FlushFails ==
  /\ Pending({"flush"})
  /\ node' = [node EXCEPT ![op.id].size = NewSize]
  /\ Fail(<<>>)
  /\ UNCHANGED <<disk, cache, hint, pool_full, short>>

(* Power is lost and the volume is mounted again.                          *)
Crash ==
  /\ \/ data' = data
     \/ Pending({"data"}) /\ \E to \in Step.from .. Step.to : WriteCells(to)
  /\ cache' = fat
  /\ hint' = 2
  /\ node' = [id \in Ids |-> Closed]
  /\ pool_full' = FALSE
  /\ op' = Idle
  /\ faults < MaxFaults /\ faults' = faults + 1
  /\ torn' = (torn \/ HalfDone)
  /\ UNCHANGED <<fat, ents, lastId, short, cut>>

Calls ==
  /\ Ready
  /\ \/ \E d \in {Root, Sub}, n \in Names :
          \/ fat32_finddir(d, n)
          \/ \E f \in Lookups :
               \/ fat32_create(f, d, n) \/ fat32_unlink(f, d, n)
               \/ \E d2 \in {Root, Sub}, n2 \in Names : fat32_rename(f, d, n, d2, n2)
     \/ \E id \in Ids :
          \/ Close(id)
          \/ \E f \in Lookups, off, end \in 0 .. MaxSize : fat32_write(f, id, off, end)
     \/ fat32_defrag \/ Evict \/ PoolRunsOut

Writes == \/ SetFatEntry \/ ZeroCluster \/ WriteData \/ CopyCluster \/ WriteEntry \/ FlushDirent
          \/ CreateDone \/ DefragNext

Failures == SetFatEntryFails \/ WriteDataFails \/ ReadDataFails \/ WriteFails
            \/ FreeWalkFails \/ FlushFails

Next == Calls \/ Writes \/ Failures \/ Crash

Spec == Init /\ [][Next]_vars

-----------------------------------------------------------------------------
(* Properties.  They are about the disk, and hold between any two sector   *)
(* writes, so they hold of what a crash leaves.                            *)

SeqSet(s) == {s[i] : i \in DOMAIN s}

DirClusters == SeqSet(Chain(fat, Root)) \cup SeqSet(Chain(fat, Sub))

(* The files on the disk, but for the one a half-done unlink or move is    *)
(* about to erase.                                                         *)
FileLocs == {l \in DirClusters \X (0 .. EntPer - 1) :
               At(l).kind = "file" /\ ~(HalfDone /\ l = op.l)}

FileChain(l) == Chain(fat, At(l).first)

EndsWell(chain) == chain # <<>> => fat[chain[Len(chain)]] = FAT32_EOC

(* No file and no directory ever runs into a free cluster, into a cycle or *)
(* into a cluster of another: at every point where a crash or an I/O error *)
(* can strike, and whatever the FAT cache missed of a half-failed update,  *)
(* until a fault hits an unlink or a move half-way.                        *)
ChainsSound ==
  ~torn =>
    LET chains == {FileChain(l) : l \in FileLocs}
                    \cup {Chain(fat, Root), Chain(fat, Sub)}
    IN /\ \A ch \in chains : EndsWell(ch)
       /\ \A ch, dh \in chains : ch # dh => SeqSet(ch) \cap SeqSet(dh) = {}
       /\ \A l, m \in FileLocs : At(l).first # 0 /\ l # m => At(l).first # At(m).first

(* fat32_read: the cells of the file in order.                             *)
fat32_read(l) ==
  LET chain == FileChain(l)
  IN [u \in 0 .. Min({At(l).size, Len(chain) * Units}) - 1 |->
        data[chain[u \div Units + 1]][u % Units]]

(* A file's entry never promises more than its chain holds, and every cell *)
(* it promises is one that was written to this file, at this place: never  *)
(* what an earlier owner of the cluster left there.  Left out are files    *)
(* that a call cut off because a FAT sector could not be read (see         *)
(* LeftAsItWas) and, for the cells, those with a failed data write (see    *)
(* NothingLeaksOut).                                                       *)
OwnData ==
  ~torn => \A l \in FileLocs :
             LET contents == fat32_read(l)
             IN At(l).id \notin cut =>
                  /\ DOMAIN contents = 0 .. At(l).size - 1
                  /\ At(l).id \notin short =>
                       \A u \in DOMAIN contents : contents[u] = Tag(At(l).id, u)

(* Without faults no cluster is lost: between two calls, the clusters that *)
(* are marked used are those of the files and directories.                 *)
NothingLost ==
  faults = 0 /\ op.kind = "none" =>
    {c \in Clusters : fat[c] # 0} = DirClusters \cup UNION {SeqSet(FileChain(l)) : l \in FileLocs}

FilesAsTheyWere ==
  FileLocs' = FileLocs /\ \A l \in FileLocs : fat32_read(l)' = fat32_read(l)

(* Moving a file never changes what it reads as: once its whole chain has  *)
(* been counted, no write of a defrag, no failure of a read or write in it *)
(* and no crash changes a single cell of any file.                         *)
DefragKeepsFiles == [][op.kind = "defrag" /\ op.whole => FilesAsTheyWere]_vars

(* What fat32_defrag_one's comments promise: whatever goes wrong, nothing  *)
(* is lost, and a file that could not be moved is left exactly as it was.  *)
LeftAsItWas == [][op.kind = "defrag" => FilesAsTheyWere]_vars

(* What fat32_write's comment promises: what was in a cluster before it    *)
(* was allocated never shows as file data.                                 *)
NothingLeaksOut ==
  ~torn => \A l \in FileLocs : \A u \in DOMAIN fat32_read(l) :
             fat32_read(l)[u] \in {0, Tag(At(l).id, u)}
=============================================================================
