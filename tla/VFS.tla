-------------------------------- MODULE VFS ---------------------------------
(***************************************************************************)
(* The virtual file system, fs/vfs.c: the mount table, the descriptor      *)
(* tables of the tasks, and the calls that relate them, while tasks come   *)
(* and go in the slots of the task pool.                                   *)
(*                                                                         *)
(* A path is a sequence of names.  The file-system drivers are seen as the *)
(* VFS sees them: a driver holds a tree of files with their sizes, and a   *)
(* pool of file-system structures that a mount takes from and nothing      *)
(* gives back; NTFS and XFS nodes have no write, create, unlink or rename. *)
(* Every lookup makes a new node, which has its own copy of the size.      *)
(* Calls do not interleave (see Process).  A call that returns an error    *)
(* before it has changed anything is a stuttering step and has no action.  *)
(***************************************************************************)
EXTENDS Integers, Sequences, FiniteSets

CONSTANTS MAX_MOUNTS,  \* slots of the mount table
          MAX_FD,      \* descriptors of a task
          MAX_FS,      \* MAX_FAT32_FS and its like: structures of each driver
          Slots,       \* the task pool
          Idle,        \* idle_task, which runs the shell
          Volumes,     \* partitions
          Driver,      \* the file system on a partition
          MountPaths,  \* paths that volumes are mounted at
          Dirs, Files, \* relative paths of directories and of files
          MaxSize,     \* bound: size of a file
          MaxStarts    \* bound: tasks started

ASSUME VfsConstants ==
  /\ MAX_MOUNTS \in Nat /\ MAX_FD \in Nat
  /\ MAX_FS \in [{"fat32", "ext2", "xfs", "ntfs"} -> Nat]
  /\ MaxSize \in Nat /\ MaxStarts \in Nat
  /\ Idle \notin Slots
  /\ Driver \in [Volumes -> {"fat32", "ext2", "xfs", "ntfs"}]
  /\ MountPaths \subseteq Seq(STRING)

Tasks == Slots \cup {Idle}
Drivers == {"fat32", "ext2", "xfs", "ntfs"}
MountSlots == 0 .. MAX_MOUNTS - 1
Fds == 0 .. MAX_FD - 1

VARIABLES mount_table,  \* path, active flag, root node and volume of each mount
          fs_pool_used, \* file-system structures taken, by driver
          fd_table,     \* the descriptors of each task
          files,        \* sizes of the files of a volume, -1: no such file
          program,      \* which program is in a slot (0: none yet)
          running,      \* tasks that are not DONE
          starts        \* programs started so far
vfsVars == <<mount_table, fs_pool_used, fd_table, files, program, running, starts>>

(* A root node is known by the structure its mount took.                   *)
NoRoot == <<"none", 0>>
NoMount == [active |-> FALSE, path |-> <<>>, root |-> NoRoot, vol |-> CHOOSE v \in Volumes : TRUE]
Closed == [active |-> FALSE]
NodeOf(root, v, r) == [root |-> root, vol |-> v, rel |-> r,
                       size |-> IF r \in Files THEN files[v][r] ELSE 0]

-----------------------------------------------------------------------------
(* Paths.                                                                  *)

FreeMounts == {i \in MountSlots : ~mount_table[i].active}

(* The path of mount i is a prefix of p that ends at a slash or at the end *)
(* of p.  After the prefix "/" comes neither, unless p is "/".             *)
Covers(i, p) ==
  LET m == mount_table[i].path
  IN /\ mount_table[i].active
     /\ Len(m) <= Len(p) /\ SubSeq(p, 1, Len(m)) = m
     /\ m = <<>> => p = <<>>

LastOfLongest(i, p) ==
  /\ Covers(i, p)
  /\ \A j \in MountSlots : Covers(j, p) =>
       \/ Len(mount_table[j].path) < Len(mount_table[i].path)
       \/ Len(mount_table[j].path) = Len(mount_table[i].path) /\ j <= i

(* The loop of find_mount keeps the first of the longest.                  *)
find_mount(i, p) ==
  /\ Covers(i, p)
  /\ \A j \in MountSlots : Covers(j, p) =>
       \/ Len(mount_table[j].path) < Len(mount_table[i].path)
       \/ Len(mount_table[j].path) = Len(mount_table[i].path) /\ i <= j

first_mount(i) == /\ mount_table[i].active
                  /\ \A j \in 0 .. i - 1 : ~mount_table[j].active

(* Some path leads to r on mount i: a relative one if i is the first       *)
(* mount, or the absolute one, if no other mount is in the way.            *)
resolve_path(i, r) == \/ first_mount(i)
                      \/ mount_table[i].active /\ find_mount(i, mount_table[i].path \o r)

Exists(v, r) == r \in Dirs \/ (r \in Files /\ files[v][r] >= 0)

split_parent(r) == SubSeq(r, 1, Len(r) - 1)

Writable(v) == Driver[v] \in {"fat32", "ext2"}

-----------------------------------------------------------------------------
(* Mounting.  The slot gets its path before the volume is known to be any  *)
(* good.  A driver may refuse before it takes a structure or after.        *)

alloc_fs(v) == fs_pool_used[Driver[v]] < MAX_FS[Driver[v]]

PathStored(i, p) == [mount_table EXCEPT ![i].path = p]

vfs_mount(v, p) ==
  \E i \in FreeMounts :
    /\ \A j \in FreeMounts : i <= j
    /\ alloc_fs(v)
    /\ LET n == fs_pool_used[Driver[v]] + 1
       IN /\ fs_pool_used' = [fs_pool_used EXCEPT ![Driver[v]] = n]
          /\ mount_table' = [mount_table EXCEPT ![i] =
                               [active |-> TRUE, path |-> p, root |-> <<Driver[v], n>>, vol |-> v]]
    /\ UNCHANGED <<fd_table, files, program, running, starts>>

MountFails(v, p) ==
  \E i \in FreeMounts :
    /\ \A j \in FreeMounts : i <= j
    /\ mount_table' = PathStored(i, p)
    /\ \/ UNCHANGED fs_pool_used
       \/ /\ alloc_fs(v)
          /\ fs_pool_used' = [fs_pool_used EXCEPT ![Driver[v]] = @ + 1]
    /\ UNCHANGED <<fd_table, files, program, running, starts>>

ClosedUnder(table, root) ==
  [f \in Fds |-> IF table[f].active /\ table[f].node.root = root THEN Closed ELSE table[f]]

OnlyTheShells(root) == [fd_table EXCEPT ![Idle] = ClosedUnder(@, root)]

(* close_fds_under for the idle task and for every slot.                   *)
CloseEverywhere(root) == [t \in Tasks |-> ClosedUnder(fd_table[t], root)]

(* The first active entry with exactly this path.                          *)
UmountTarget(i, p) ==
  /\ mount_table[i].active /\ mount_table[i].path = p
  /\ \A j \in 0 .. i - 1 : ~(mount_table[j].active /\ mount_table[j].path = p)

vfs_umount(p) ==
  \E i \in MountSlots :
    /\ UmountTarget(i, p)
    /\ fd_table' = CloseEverywhere(mount_table[i].root)
    /\ mount_table' = [mount_table EXCEPT ![i] = [NoMount EXCEPT !.path = p]]
    /\ UNCHANGED <<fs_pool_used, files, program, running, starts>>

-----------------------------------------------------------------------------
(* Descriptors.  by is the program that opened it.                         *)

FreeFds(t) == {f \in Fds : ~fd_table[t][f].active}

(* The end of vfs_open: the first free descriptor, if there is one.        *)
TakeFd(t, node, append) ==
  \/ FreeFds(t) = {} /\ UNCHANGED fd_table
  \/ \E f \in FreeFds(t) :
       /\ \A g \in FreeFds(t) : f <= g
       /\ fd_table' = [fd_table EXCEPT ![t][f] =
                         [active |-> TRUE, node |-> node, by |-> program[t],
                          offset |-> IF append THEN node.size ELSE 0]]

vfs_open(t, i, r, append) ==
  /\ t \in running
  /\ resolve_path(i, r) /\ Exists(mount_table[i].vol, r)
  /\ TakeFd(t, NodeOf(mount_table[i].root, mount_table[i].vol, r), append)
  /\ UNCHANGED <<mount_table, fs_pool_used, files, program, running, starts>>

(* O_CREATE: the file is there to stay, descriptor or not.                 *)
OpenCreates(t, i, r) ==
  /\ t \in running
  /\ LET v == mount_table[i].vol
     IN /\ resolve_path(i, r)
        /\ ~Exists(v, r) /\ split_parent(r) \in Dirs /\ Writable(v)
        /\ files' = [files EXCEPT ![v][r] = 0]
        /\ TakeFd(t, [NodeOf(mount_table[i].root, v, r) EXCEPT !.size = 0], FALSE)
  /\ UNCHANGED <<mount_table, fs_pool_used, program, running, starts>>

vfs_close(t, f) ==
  /\ t \in running /\ fd_table[t][f].active
  /\ fd_table' = [fd_table EXCEPT ![t][f] = Closed]
  /\ UNCHANGED <<mount_table, fs_pool_used, files, program, running, starts>>

IsFile(fd) == fd.active /\ fd.node.rel \in Files

(* Reads stop at the size the node had when it was looked up.              *)
vfs_read(t, f, n) ==
  /\ t \in running /\ IsFile(fd_table[t][f])
  /\ LET fd == fd_table[t][f]
         end == IF fd.offset + n < fd.node.size THEN fd.offset + n ELSE fd.node.size
     IN /\ fd.offset < end
        /\ fd_table' = [fd_table EXCEPT ![t][f].offset = end]
  /\ UNCHANGED <<mount_table, fs_pool_used, files, program, running, starts>>

vfs_seek(t, f, o) ==
  /\ t \in running /\ fd_table[t][f].active
  /\ fd_table' = [fd_table EXCEPT ![t][f].offset = o]
  /\ UNCHANGED <<mount_table, fs_pool_used, files, program, running, starts>>

(* Writes through the node: its size, then the size on the disk.           *)
vfs_write(t, f, n) ==
  /\ t \in running /\ IsFile(fd_table[t][f])
  /\ LET fd == fd_table[t][f]
         end == fd.offset + n
         new == IF end > fd.node.size THEN end ELSE fd.node.size
     IN /\ Writable(fd.node.vol)
        /\ fd.offset <= fd.node.size /\ end <= MaxSize
        /\ fd_table' = [fd_table EXCEPT ![t][f] = [@ EXCEPT !.offset = end, !.node.size = new]]
        /\ files' = IF files[fd.node.vol][fd.node.rel] < 0 THEN files
                    ELSE [files EXCEPT ![fd.node.vol][fd.node.rel] = new]
  /\ UNCHANGED <<mount_table, fs_pool_used, program, running, starts>>

vfs_unlink(t, i, r) ==
  /\ t \in running
  /\ LET v == mount_table[i].vol
     IN /\ resolve_path(i, r) /\ Exists(v, r) /\ Writable(v)
        /\ files' = [files EXCEPT ![v][r] = -1]
  /\ UNCHANGED <<mount_table, fs_pool_used, fd_table, program, running, starts>>

SameMount(i, j) == i = j

(* The drivers do not look whether the new name is taken; it then names    *)
(* either file.                                                            *)
vfs_rename(t, i, r, j, s) ==
  /\ t \in running
  /\ LET v == mount_table[i].vol
         w == mount_table[j].vol
     IN /\ SameMount(i, j)
        /\ resolve_path(i, r) /\ resolve_path(j, s)
        /\ Exists(v, r) /\ split_parent(s) \in Dirs /\ Writable(v) /\ r # s
        /\ \E n \in {files[v][r], files[w][s]} \ {-1} :
             files' = [files EXCEPT ![v][r] = -1, ![w][s] = n]
  /\ UNCHANGED <<mount_table, fs_pool_used, fd_table, program, running, starts>>

-----------------------------------------------------------------------------
(* Tasks, as far as the descriptor tables go: exit leaves the table as it  *)
(* is, and submission of a task resets the table of the slot it takes.     *)

ResetTable(t) == [fd_table EXCEPT ![t] = [f \in Fds |-> Closed]]

TaskStart(t) ==
  /\ t \in Slots \ running /\ starts < MaxStarts
  /\ starts' = starts + 1
  /\ program' = [program EXCEPT ![t] = starts + 1]
  /\ running' = running \cup {t}
  /\ fd_table' = ResetTable(t)
  /\ UNCHANGED <<mount_table, fs_pool_used, files>>

TaskExit(t) ==
  /\ t \in Slots \cap running
  /\ running' = running \ {t}
  /\ UNCHANGED <<mount_table, fs_pool_used, fd_table, files, program, starts>>

vfs_init ==
  /\ mount_table = [i \in MountSlots |-> NoMount]
  /\ fs_pool_used = [d \in Drivers |-> 0]
  /\ fd_table = [t \in Tasks |-> [f \in Fds |-> Closed]]
  /\ files = [v \in Volumes |-> [r \in Files |-> 0]]
  /\ program = [t \in Tasks |-> 0]
  /\ running = {Idle}
  /\ starts = 0

(* The shell, and elf_exec for it, close what they open before the command *)
(* ends (for exec see Process!PromptHoldsNothing), so at the start of a    *)
(* call only programs have descriptors.                                    *)
SystemCalls(t) ==
  \/ \E i \in MountSlots, r \in Dirs \cup Files :
       \E append \in BOOLEAN : vfs_open(t, i, r, append)
  \/ \E i \in MountSlots, r \in Files :
       \/ OpenCreates(t, i, r) \/ vfs_unlink(t, i, r)
       \/ \E j \in MountSlots, s \in Files : vfs_rename(t, i, r, j, s)
  \/ \E f \in Fds : \/ vfs_close(t, f)
                    \/ \E n \in 1 .. MaxSize : vfs_read(t, f, n) \/ vfs_write(t, f, n)
                    \/ \E o \in 0 .. MaxSize : vfs_seek(t, f, o)

vfs_Next ==
  \/ \E v \in Volumes, p \in MountPaths : vfs_mount(v, p) \/ MountFails(v, p)
  \/ \E p \in MountPaths : vfs_umount(p)
  \/ \E t \in Slots : SystemCalls(t)
  \/ \E t \in Slots : TaskStart(t) \/ TaskExit(t)

-----------------------------------------------------------------------------
(* No descriptor of any task, running or ended, outlives the mount it was  *)
(* opened under: vfs_umount closes them in every table, and a volume that  *)
(* is mounted again has a new root.  And a program has only descriptors    *)
(* that it opened itself, although an ended one leaves its own open and    *)
(* its slot is used again.                                                 *)
DescriptorsSound ==
  \A t \in Tasks, f \in Fds :
    fd_table[t][f].active =>
      /\ \E i \in MountSlots : /\ mount_table[i].active
                               /\ mount_table[i].root = fd_table[t][f].node.root
                               /\ mount_table[i].vol = fd_table[t][f].node.vol
      /\ t \in running => fd_table[t][f].by = program[t]

(* Mounting over a path that is already mounted hides one of the two, and  *)
(* unmounting the path takes away the one that was visible: the entry that *)
(* vfs_umount clears is the one that find_mount leads to.  A mount that    *)
(* failed half-way is neither.                                             *)
UmountTakesVisible ==
  \A p \in MountPaths, i \in MountSlots :
    UmountTarget(i, p) => find_mount(i, p) /\ mount_table[i].root # NoRoot
=============================================================================
