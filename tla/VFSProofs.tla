----------------------------- MODULE VFSProofs ------------------------------
(***************************************************************************)
(* Proofs about VFS, for every number of mounts, descriptors, tasks and    *)
(* volumes, and for every set of paths.                                    *)
(***************************************************************************)
EXTENDS VFS, TLAPS

vfs_Spec == vfs_init /\ [][vfs_Next]_vfsVars

(***************************************************************************)
(* The inductive invariant                                                 *)
(***************************************************************************)
Roots == (Drivers \cup {"none"}) \X Nat

Mounts == [active : BOOLEAN, path : MountPaths \cup {<<>>}, root : Roots,
           vol : Volumes \cup {NoMount.vol}]

Nodes == [root : Roots, vol : Volumes, rel : Dirs \cup Files, size : Int]

Open == [active : {TRUE}, node : Nodes, by : Nat, offset : Int]

VfsTypeOK ==
  /\ mount_table \in [MountSlots -> Mounts]
  /\ fs_pool_used \in [Drivers -> Nat]
  /\ fd_table \in [Tasks -> [Fds -> Open \cup {Closed}]]
  /\ files \in [Volumes -> [Files -> Int]]
  /\ program \in [Tasks -> Nat]
  /\ running \subseteq Tasks
  /\ starts \in Nat

(* An active mount has a path it was mounted at, a volume, and a structure *)
(* that its driver has handed out.                                         *)
MountsBacked ==
  \A i \in MountSlots : mount_table[i].active =>
    /\ mount_table[i].path \in MountPaths
    /\ mount_table[i].vol \in Volumes
    /\ mount_table[i].root[1] = Driver[mount_table[i].vol]
    /\ mount_table[i].root[2] \in 1 .. fs_pool_used[mount_table[i].root[1]]

(* Two mounts never have the same root, so that closing what is open under *)
(* a root closes nothing of another mount.                                 *)
RootsDistinct ==
  \A i, j \in MountSlots :
    /\ mount_table[i].active /\ mount_table[j].active
    /\ mount_table[i].root = mount_table[j].root
    => i = j

VfsInv == VfsTypeOK /\ MountsBacked /\ RootsDistinct /\ DescriptorsSound

(***************************************************************************)
(* Paths                                                                   *)
(***************************************************************************)
(* A path is its own longest prefix.                                       *)
LEMMA WholePrefix ==
  ASSUME NEW S, NEW p \in Seq(S)
  PROVE  SubSeq(p, 1, Len(p)) = p
  OBVIOUS

(* The entry vfs_umount clears is the one find_mount leads to: a mount     *)
(* that covers a path and is as long as the path has that very path.       *)
LEMMA TargetIsVisible == VfsInv => UmountTakesVisible
<1> SUFFICES ASSUME VfsInv, NEW p \in MountPaths, NEW i \in MountSlots, UmountTarget(i, p)
             PROVE  find_mount(i, p) /\ mount_table[i].root # NoRoot
  BY DEF UmountTakesVisible
<1>1. p \in Seq(STRING) /\ Len(p) \in Nat
  BY VfsConstants
<1>2. SubSeq(p, 1, Len(p)) = p
  BY <1>1, WholePrefix
<1>3. mount_table[i].active /\ mount_table[i].path = p
  BY DEF UmountTarget
<1>4. Covers(i, p)
  BY <1>1, <1>2, <1>3 DEF Covers
<1>5. ASSUME NEW j \in MountSlots, Covers(j, p)
      PROVE  \/ Len(mount_table[j].path) < Len(mount_table[i].path)
             \/ Len(mount_table[j].path) = Len(mount_table[i].path) /\ i <= j
  <2>1. mount_table[j].active /\ mount_table[j].path \in Seq(STRING)
        /\ Len(mount_table[j].path) \in Nat /\ Len(mount_table[j].path) <= Len(p)
    BY <1>5, VfsConstants DEF Covers, VfsInv, MountsBacked
  <2>2. CASE Len(mount_table[j].path) = Len(p)
    <3>1. mount_table[j].path = p
      BY <1>2, <1>5, <2>2 DEF Covers
    <3>2. j \notin 0 .. i - 1
      BY <2>1, <3>1 DEF UmountTarget
    <3>3. i \in Int /\ j \in Int /\ j >= 0
      BY VfsConstants DEF MountSlots
    <3>4. i <= j
      BY <3>2, <3>3
    <3> QED
      BY <1>3, <2>2, <3>4
  <2> QED
    BY <1>1, <1>3, <2>1, <2>2
<1>6. mount_table[i].root # NoRoot
  <2>1. mount_table[i].root[1] \in Drivers
    BY <1>3, VfsConstants DEF VfsInv, MountsBacked, Drivers
  <2> QED
    BY <2>1 DEF NoRoot, Drivers
<1> QED
  BY <1>4, <1>5, <1>6 DEF find_mount

(***************************************************************************)
(* The steps                                                               *)
(***************************************************************************)
(* A descriptor of task t under a mount, opened by the program in t.       *)
OpenedUnder(d, t, i) ==
  /\ d \in Open
  /\ mount_table[i].active
  /\ d.node.root = mount_table[i].root /\ d.node.vol = mount_table[i].vol
  /\ t \in running => d.by = program[t]

mountVars == <<mount_table, fs_pool_used, program, running, starts>>

(* A call that leaves the mounts and the tasks alone, and at most writes   *)
(* one descriptor, preserves the invariant if that descriptor is closed or *)
(* is under a mount.                                                       *)
LEMMA OneDescriptorOK ==
  ASSUME VfsInv, UNCHANGED mountVars, files' \in [Volumes -> [Files -> Int]],
         NEW t \in Tasks, NEW f \in Fds, NEW d,
         d = Closed \/ \E i \in MountSlots : OpenedUnder(d, t, i),
         fd_table' = [fd_table EXCEPT ![t][f] = d]
  PROVE  VfsInv'
<1>1. d \in Open \cup {Closed}
  BY DEF OpenedUnder
<1>2. VfsTypeOK'
  <2>1. fd_table' \in [Tasks -> [Fds -> Open \cup {Closed}]]
    BY <1>1 DEF VfsInv, VfsTypeOK
  <2> QED
    BY <2>1 DEF VfsInv, VfsTypeOK, mountVars
<1>3. MountsBacked' /\ RootsDistinct'
  BY DEF VfsInv, MountsBacked, RootsDistinct, mountVars
<1>4. DescriptorsSound'
  <2> SUFFICES ASSUME NEW u \in Tasks, NEW g \in Fds, fd_table'[u][g].active
               PROVE  /\ \E i \in MountSlots :
                           /\ mount_table[i].active
                           /\ mount_table[i].root = fd_table'[u][g].node.root
                           /\ mount_table[i].vol = fd_table'[u][g].node.vol
                      /\ u \in running => fd_table'[u][g].by = program[u]
    BY DEF DescriptorsSound, mountVars
  <2>1. CASE u = t /\ g = f
    <3>1. fd_table'[u][g] = d
      BY <2>1 DEF VfsInv, VfsTypeOK
    <3>2. d # Closed
      BY <3>1 DEF Closed
    <3> QED
      BY <2>1, <3>1, <3>2 DEF OpenedUnder
  <2>2. CASE ~(u = t /\ g = f)
    <3>1. fd_table'[u][g] = fd_table[u][g]
      BY <2>2 DEF VfsInv, VfsTypeOK
    <3> QED
      BY <3>1 DEF VfsInv, DescriptorsSound
  <2> QED
    BY <2>1, <2>2
<1> QED
  BY <1>2, <1>3, <1>4 DEF VfsInv

(* A call that leaves every descriptor as it is.                           *)
LEMMA NoDescriptorOK ==
  ASSUME VfsInv, UNCHANGED mountVars, files' \in [Volumes -> [Files -> Int]],
         fd_table' = fd_table
  PROVE  VfsInv'
  BY DEF VfsInv, VfsTypeOK, MountsBacked, RootsDistinct, DescriptorsSound, mountVars

(* The end of vfs_open, with a node under an active mount.                 *)
LEMMA TakeFdOK ==
  ASSUME VfsInv, UNCHANGED mountVars, files' \in [Volumes -> [Files -> Int]],
         NEW t \in Tasks, NEW i \in MountSlots, NEW node \in Nodes, NEW append \in BOOLEAN,
         mount_table[i].active,
         node.root = mount_table[i].root, node.vol = mount_table[i].vol,
         TakeFd(t, node, append)
  PROVE  VfsInv'
<1> DEFINE d == [active |-> TRUE, node |-> node, by |-> program[t],
                 offset |-> IF append THEN node.size ELSE 0]
<1>1. CASE fd_table' = fd_table
  BY <1>1, NoDescriptorOK
<1>2. ASSUME NEW f \in FreeFds(t), fd_table' = [fd_table EXCEPT ![t][f] = d]
      PROVE  VfsInv'
  <2>1. d \in Open
    BY DEF Open, Nodes, VfsInv, VfsTypeOK
  <2>2. OpenedUnder(d, t, i)
    BY <2>1 DEF OpenedUnder
  <2>3. f \in Fds
    BY DEF FreeFds
  <2> HIDE DEF d
  <2> QED
    BY <1>2, <2>2, <2>3, OneDescriptorOK
<1> QED
  BY <1>1, <1>2 DEF TakeFd

(* vfs_open, with or without O_CREATE, under any mount that resolve_path   *)
(* leads to.                                                               *)
LEMMA OpenOK ==
  ASSUME VfsInv, NEW t \in Slots, NEW i \in MountSlots, NEW r \in Dirs \cup Files,
         NEW append \in BOOLEAN,
         vfs_open(t, i, r, append) \/ (r \in Files /\ OpenCreates(t, i, r))
  PROVE  VfsInv'
<1> DEFINE v == mount_table[i].vol
           node == NodeOf(mount_table[i].root, v, r)
<1>1. mount_table[i].active
  BY DEF vfs_open, OpenCreates, resolve_path, first_mount
<1>2. v \in Volumes /\ mount_table[i].root \in Roots
  BY <1>1 DEF VfsInv, VfsTypeOK, MountsBacked, Mounts
<1>3. /\ node \in Nodes /\ node.root = mount_table[i].root /\ node.vol = v
  BY <1>2 DEF NodeOf, Nodes, VfsInv, VfsTypeOK
<1>4. UNCHANGED mountVars /\ t \in Tasks
  BY DEF vfs_open, OpenCreates, mountVars, Tasks
<1>5. CASE vfs_open(t, i, r, append)
  <2>1. TakeFd(t, node, append) /\ files' \in [Volumes -> [Files -> Int]]
    BY <1>5 DEF vfs_open, VfsInv, VfsTypeOK
  <2> HIDE DEF node
  <2> QED
    BY <1>1, <1>3, <1>4, <2>1, TakeFdOK
<1>6. CASE r \in Files /\ OpenCreates(t, i, r)
  <2> DEFINE new == [node EXCEPT !.size = 0]
  <2>1. TakeFd(t, new, FALSE) /\ files' = [files EXCEPT ![v][r] = 0]
    BY <1>6 DEF OpenCreates
  <2>2. files' \in [Volumes -> [Files -> Int]]
    BY <1>2, <1>6, <2>1 DEF VfsInv, VfsTypeOK
  <2>3. new \in Nodes /\ new.root = mount_table[i].root /\ new.vol = v
    <3> HIDE DEF node
    <3> QED
      BY <1>3 DEF Nodes
  <2> HIDE DEF new
  <2> QED
    BY <1>1, <1>4, <2>1, <2>2, <2>3, TakeFdOK
<1> QED
  BY <1>5, <1>6

(* Calls through a descriptor keep it under its mount: close ends it, and  *)
(* the others write the offset and the node's copy of the size.            *)
LEMMA DescriptorCallOK ==
  ASSUME VfsInv, NEW t \in Slots, NEW f \in Fds,
         \/ vfs_close(t, f)
         \/ \E n \in 1 .. MaxSize : vfs_read(t, f, n) \/ vfs_write(t, f, n)
         \/ \E o \in 0 .. MaxSize : vfs_seek(t, f, o)
  PROVE  VfsInv'
<1> DEFINE fd == fd_table[t][f]
<1>1. t \in Tasks /\ fd.active /\ UNCHANGED mountVars
  BY DEF vfs_close, vfs_read, vfs_write, vfs_seek, IsFile, mountVars, Tasks
<1>2. fd \in Open
  <2>1. fd \in Open \cup {Closed}
    BY <1>1 DEF VfsInv, VfsTypeOK
  <2> QED
    BY <1>1, <2>1 DEF Closed
<1>3. PICK i \in MountSlots : OpenedUnder(fd, t, i)
  BY <1>1, <1>2 DEF VfsInv, DescriptorsSound, OpenedUnder
<1>4. files \in [Volumes -> [Files -> Int]]
  BY DEF VfsInv, VfsTypeOK
<1>5. CASE vfs_close(t, f)
  <2>1. fd_table' = [fd_table EXCEPT ![t][f] = Closed] /\ files' = files
    BY <1>5 DEF vfs_close
  <2> QED
    BY <1>1, <1>4, <2>1, OneDescriptorOK
(* A new offset o and a new size n.                                        *)
<1>6. ASSUME NEW o \in Int, NEW n \in Int, files' \in [Volumes -> [Files -> Int]],
             fd_table' = [fd_table EXCEPT ![t][f] = [@ EXCEPT !.offset = o, !.node.size = n]]
      PROVE  VfsInv'
  <2> DEFINE d == [fd EXCEPT !.offset = o, !.node.size = n]
  <2>1. d \in Open /\ d.node.root = fd.node.root /\ d.node.vol = fd.node.vol /\ d.by = fd.by
    <3> HIDE DEF fd
    <3> QED
      BY <1>2 DEF Open, Nodes
  <2>2. fd_table' = [fd_table EXCEPT ![t][f] = d]
    BY <1>1, <1>6 DEF VfsInv, VfsTypeOK
  <2>3. OpenedUnder(d, t, i)
    BY <1>3, <2>1 DEF OpenedUnder
  <2> HIDE DEF d
  <2> QED
    BY <1>1, <1>6, <2>2, <2>3, OneDescriptorOK
<1>7. ASSUME NEW o \in Int, files' = files,
             fd_table' = [fd_table EXCEPT ![t][f].offset = o]
      PROVE  VfsInv'
  <2> DEFINE d == [fd EXCEPT !.offset = o]
  <2>1. d \in Open /\ d.node = fd.node /\ d.by = fd.by
    <3> HIDE DEF fd
    <3> QED
      BY <1>2 DEF Open, Nodes
  <2>2. fd_table' = [fd_table EXCEPT ![t][f] = d]
    BY <1>1, <1>7 DEF VfsInv, VfsTypeOK
  <2>3. OpenedUnder(d, t, i)
    BY <1>3, <2>1 DEF OpenedUnder
  <2> HIDE DEF d
  <2> QED
    BY <1>1, <1>4, <1>7, <2>2, <2>3, OneDescriptorOK
<1>8. fd.offset \in Int /\ fd.node.size \in Int /\ fd.node.vol \in Volumes
  BY <1>2 DEF Open, Nodes
<1>9. ASSUME NEW n \in 1 .. MaxSize, vfs_read(t, f, n) PROVE VfsInv'
  <2> DEFINE end == IF fd.offset + n < fd.node.size THEN fd.offset + n ELSE fd.node.size
  <2>1. fd_table' = [fd_table EXCEPT ![t][f].offset = end] /\ files' = files
    BY <1>9 DEF vfs_read
  <2>2. end \in Int
    BY <1>8, VfsConstants
  <2> HIDE DEF end
  <2> QED
    BY <1>7, <2>1, <2>2
<1>10. ASSUME NEW n \in 1 .. MaxSize, vfs_write(t, f, n) PROVE VfsInv'
  <2> DEFINE end == fd.offset + n
             new == IF end > fd.node.size THEN end ELSE fd.node.size
  <2>1. /\ fd_table' = [fd_table EXCEPT ![t][f] = [@ EXCEPT !.offset = end, !.node.size = new]]
        /\ files' = IF files[fd.node.vol][fd.node.rel] < 0 THEN files
                    ELSE [files EXCEPT ![fd.node.vol][fd.node.rel] = new]
    BY <1>10 DEF vfs_write
  <2>2. end \in Int /\ new \in Int
    BY <1>8, VfsConstants
  <2>3. files' \in [Volumes -> [Files -> Int]]
    <3> HIDE DEF new, fd
    <3> QED
      BY <1>4, <1>8, <2>1, <2>2
  <2> HIDE DEF end, new
  <2> QED
    BY <1>6, <2>1, <2>2, <2>3
<1>11. ASSUME NEW o \in 0 .. MaxSize, vfs_seek(t, f, o) PROVE VfsInv'
  <2>1. fd_table' = [fd_table EXCEPT ![t][f].offset = o] /\ files' = files
    BY <1>11 DEF vfs_seek
  <2>2. o \in Int
    BY VfsConstants
  <2> QED
    BY <1>7, <2>1, <2>2
<1> QED
  BY <1>5, <1>9, <1>10, <1>11

(* unlink and rename write no descriptor.                                  *)
LEMMA NameCallOK ==
  ASSUME VfsInv, NEW t \in Slots, NEW i \in MountSlots, NEW r \in Files,
         \/ vfs_unlink(t, i, r)
         \/ \E j \in MountSlots, s \in Files : vfs_rename(t, i, r, j, s)
  PROVE  VfsInv'
<1>1. files \in [Volumes -> [Files -> Int]]
  BY DEF VfsInv, VfsTypeOK
<1>2. \A j \in MountSlots, s \in Files : resolve_path(j, s) => mount_table[j].vol \in Volumes
  BY DEF resolve_path, first_mount, VfsInv, MountsBacked
<1>3. CASE vfs_unlink(t, i, r)
  <2>1. files' \in [Volumes -> [Files -> Int]]
    BY <1>1, <1>2, <1>3 DEF vfs_unlink
  <2> QED
    BY <1>3, <2>1, NoDescriptorOK DEF vfs_unlink, mountVars
<1>4. ASSUME NEW j \in MountSlots, NEW s \in Files, vfs_rename(t, i, r, j, s)
      PROVE  VfsInv'
  <2> DEFINE v == mount_table[i].vol
             w == mount_table[j].vol
  <2>1. PICK n \in {files[v][r], files[w][s]} \ {-1} :
          files' = [files EXCEPT ![v][r] = -1, ![w][s] = n]
    BY <1>4 DEF vfs_rename
  <2>2. v \in Volumes /\ w \in Volumes
    BY <1>2, <1>4 DEF vfs_rename
  <2>3. n \in Int
    BY <1>1, <2>2
  <2>4. [files EXCEPT ![v][r] = -1] \in [Volumes -> [Files -> Int]]
    BY <1>1, <2>2
  <2>5. files' \in [Volumes -> [Files -> Int]]
    BY <2>1, <2>3, <2>4
  <2> QED
    BY <1>4, <2>5, NoDescriptorOK DEF vfs_rename, mountVars
<1> QED
  BY <1>3, <1>4

(* A mount takes a slot that no descriptor is under, and a structure that  *)
(* no other mount has.  One that fails leaves its path in the slot.        *)
LEMMA MountOK ==
  ASSUME VfsInv, NEW v \in Volumes, NEW p \in MountPaths,
         vfs_mount(v, p) \/ MountFails(v, p)
  PROVE  VfsInv'
<1>0. Driver[v] \in Drivers /\ fs_pool_used[Driver[v]] \in Nat
  BY VfsConstants DEF Drivers, VfsInv, VfsTypeOK
<1>1. UNCHANGED <<fd_table, files, program, running, starts>>
  BY DEF vfs_mount, MountFails
<1>2. CASE vfs_mount(v, p)
  <2> DEFINE n == fs_pool_used[Driver[v]] + 1
             m == [active |-> TRUE, path |-> p, root |-> <<Driver[v], n>>, vol |-> v]
  <2>1. PICK i \in MountSlots :
          /\ ~mount_table[i].active
          /\ fs_pool_used' = [fs_pool_used EXCEPT ![Driver[v]] = n]
          /\ mount_table' = [mount_table EXCEPT ![i] = m]
    BY <1>2 DEF vfs_mount, FreeMounts
  <2>2. m \in Mounts
    BY <1>0 DEF Mounts, Roots
  <2>3. /\ mount_table'[i] = m
        /\ \A j \in MountSlots \ {i} : mount_table'[j] = mount_table[j]
    BY <2>1 DEF VfsInv, VfsTypeOK
  <2>4. \A d \in Drivers : fs_pool_used[d] \in Nat /\ fs_pool_used'[d] \in Nat
                           /\ fs_pool_used[d] <= fs_pool_used'[d]
    BY <1>0, <2>1 DEF VfsInv, VfsTypeOK
  <2>5. fs_pool_used'[Driver[v]] = n
    BY <1>0, <2>1 DEF VfsInv, VfsTypeOK
  <2>6. VfsTypeOK'
    <3>1. mount_table' \in [MountSlots -> Mounts]
      <4> HIDE DEF m
      <4> QED
        BY <2>1, <2>2 DEF VfsInv, VfsTypeOK
    <3>2. fs_pool_used' \in [Drivers -> Nat]
      BY <1>0, <2>1 DEF VfsInv, VfsTypeOK
    <3> QED
      BY <1>1, <3>1, <3>2 DEF VfsInv, VfsTypeOK
  <2>7. MountsBacked'
    <3> SUFFICES ASSUME NEW j \in MountSlots, mount_table'[j].active
                 PROVE  /\ mount_table'[j].path \in MountPaths
                        /\ mount_table'[j].vol \in Volumes
                        /\ mount_table'[j].root[1] = Driver[mount_table'[j].vol]
                        /\ mount_table'[j].root[2] \in 1 .. fs_pool_used'[mount_table'[j].root[1]]
      BY DEF MountsBacked
    <3>1. CASE j = i
      BY <1>0, <2>3, <2>5, <3>1
    <3>2. CASE j # i
      <4>1. mount_table'[j] = mount_table[j]
        BY <2>3, <3>2
      <4>2. /\ mount_table[j].path \in MountPaths
            /\ mount_table[j].vol \in Volumes
            /\ mount_table[j].root[1] = Driver[mount_table[j].vol]
            /\ mount_table[j].root[2] \in 1 .. fs_pool_used[mount_table[j].root[1]]
        BY <4>1 DEF VfsInv, MountsBacked
      <4>3. mount_table[j].root[1] \in Drivers
        BY <4>2, VfsConstants DEF Drivers
      <4> QED
        BY <2>4, <4>1, <4>2, <4>3
    <3> QED
      BY <3>1, <3>2
  <2>8. \A j \in MountSlots \ {i} : mount_table[j].active => mount_table[j].root # m.root
    <3> SUFFICES ASSUME NEW j \in MountSlots \ {i}, mount_table[j].active,
                        mount_table[j].root = <<Driver[v], n>>
                 PROVE  FALSE
      OBVIOUS
    <3>1. mount_table[j].root[1] = Driver[v] /\ mount_table[j].root[2] = n
      OBVIOUS
    <3>2. mount_table[j].root[2] \in 1 .. fs_pool_used[mount_table[j].root[1]]
      BY DEF VfsInv, MountsBacked
    <3> QED
      BY <1>0, <3>1, <3>2
  <2>9. RootsDistinct'
    <3> HIDE DEF m
    <3> QED
      BY <2>3, <2>8 DEF RootsDistinct, VfsInv
  <2>10. DescriptorsSound'
    <3>1. \A j \in MountSlots : mount_table[j].active => mount_table'[j] = mount_table[j]
      BY <2>1, <2>3
    <3> QED
      BY <1>1, <3>1 DEF VfsInv, DescriptorsSound
  <2> QED
    BY <2>6, <2>7, <2>9, <2>10 DEF VfsInv
<1>3. CASE MountFails(v, p)
  <2>1. PICK i \in MountSlots :
          /\ ~mount_table[i].active
          /\ mount_table' = [mount_table EXCEPT ![i].path = p]
    BY <1>3 DEF MountFails, FreeMounts, PathStored
  <2>2. /\ mount_table' \in [MountSlots -> Mounts]
        /\ ~mount_table'[i].active
        /\ \A j \in MountSlots \ {i} : mount_table'[j] = mount_table[j]
    BY <2>1 DEF VfsInv, VfsTypeOK, Mounts
  <2>3. /\ fs_pool_used' \in [Drivers -> Nat]
        /\ \A d \in Drivers : fs_pool_used[d] <= fs_pool_used'[d]
    BY <1>0, <1>3 DEF MountFails, VfsInv, VfsTypeOK
  <2>4. VfsTypeOK'
    BY <1>1, <2>2, <2>3 DEF VfsInv, VfsTypeOK
  <2>5. MountsBacked'
    <3> SUFFICES ASSUME NEW j \in MountSlots, mount_table'[j].active
                 PROVE  /\ mount_table'[j].path \in MountPaths
                        /\ mount_table'[j].vol \in Volumes
                        /\ mount_table'[j].root[1] = Driver[mount_table'[j].vol]
                        /\ mount_table'[j].root[2] \in 1 .. fs_pool_used'[mount_table'[j].root[1]]
      BY DEF MountsBacked
    <3>1. mount_table'[j] = mount_table[j]
      BY <2>2
    <3>2. /\ mount_table[j].path \in MountPaths
          /\ mount_table[j].vol \in Volumes
          /\ mount_table[j].root[1] = Driver[mount_table[j].vol]
          /\ mount_table[j].root[2] \in 1 .. fs_pool_used[mount_table[j].root[1]]
      BY <3>1 DEF VfsInv, MountsBacked
    <3>3. mount_table[j].root[1] \in Drivers
      BY <3>2, VfsConstants DEF Drivers
    <3>4. fs_pool_used[mount_table[j].root[1]] \in Nat /\ fs_pool_used'[mount_table[j].root[1]] \in Nat
      BY <2>3, <3>3 DEF VfsInv, VfsTypeOK
    <3> QED
      BY <2>3, <3>1, <3>2, <3>3, <3>4
  <2>6. RootsDistinct'
    BY <2>2 DEF RootsDistinct, VfsInv
  <2>7. DescriptorsSound'
    <3>1. \A j \in MountSlots : mount_table[j].active => mount_table'[j] = mount_table[j]
      BY <2>1, <2>2
    <3> QED
      BY <1>1, <3>1 DEF VfsInv, DescriptorsSound
  <2> QED
    BY <2>4, <2>5, <2>6, <2>7 DEF VfsInv
<1> QED
  BY <1>2, <1>3

(* vfs_umount closes what is open under the root it clears, in every       *)
(* table, so what stays open is under another mount.                       *)
LEMMA UmountOK ==
  ASSUME VfsInv, NEW p \in MountPaths, vfs_umount(p)
  PROVE  VfsInv'
<1> DEFINE m == [NoMount EXCEPT !.path = p]
<1>1. PICK i \in MountSlots :
        /\ mount_table[i].active
        /\ fd_table' = CloseEverywhere(mount_table[i].root)
        /\ mount_table' = [mount_table EXCEPT ![i] = m]
        /\ UNCHANGED <<fs_pool_used, files, program, running, starts>>
  BY DEF vfs_umount, UmountTarget
<1>2. m \in Mounts /\ m.active = FALSE
  BY DEF NoMount, NoRoot, Mounts, Roots
<1>3. /\ ~mount_table'[i].active
      /\ \A j \in MountSlots \ {i} : mount_table'[j] = mount_table[j]
  <2> HIDE DEF m
  <2> QED
    BY <1>1, <1>2 DEF VfsInv, VfsTypeOK
<1>4. \A t \in Tasks, f \in Fds :
        fd_table'[t][f] = IF fd_table[t][f].active /\ fd_table[t][f].node.root = mount_table[i].root
                          THEN Closed ELSE fd_table[t][f]
  BY <1>1 DEF CloseEverywhere, ClosedUnder
<1>5. VfsTypeOK'
  <2>1. mount_table' \in [MountSlots -> Mounts]
    <3> HIDE DEF m
    <3> QED
      BY <1>1, <1>2 DEF VfsInv, VfsTypeOK
  <2>2. fd_table' \in [Tasks -> [Fds -> Open \cup {Closed}]]
    BY <1>1 DEF CloseEverywhere, ClosedUnder, VfsInv, VfsTypeOK
  <2> QED
    BY <1>1, <2>1, <2>2 DEF VfsInv, VfsTypeOK
<1>6. MountsBacked' /\ RootsDistinct'
  BY <1>1, <1>3 DEF VfsInv, MountsBacked, RootsDistinct
<1>7. DescriptorsSound'
  <2> SUFFICES ASSUME NEW t \in Tasks, NEW f \in Fds, fd_table'[t][f].active
               PROVE  /\ \E j \in MountSlots :
                           /\ mount_table'[j].active
                           /\ mount_table'[j].root = fd_table'[t][f].node.root
                           /\ mount_table'[j].vol = fd_table'[t][f].node.vol
                      /\ t \in running => fd_table'[t][f].by = program[t]
    BY <1>1 DEF DescriptorsSound
  <2>1. /\ fd_table'[t][f] = fd_table[t][f]
        /\ fd_table[t][f].node.root # mount_table[i].root
    BY <1>4 DEF Closed
  <2>2. PICK j \in MountSlots : /\ mount_table[j].active
                                /\ mount_table[j].root = fd_table[t][f].node.root
                                /\ mount_table[j].vol = fd_table[t][f].node.vol
    BY <2>1 DEF VfsInv, DescriptorsSound
  <2>3. mount_table'[j] = mount_table[j]
    BY <1>3, <2>1, <2>2
  <2>4. t \in running => fd_table[t][f].by = program[t]
    BY <2>1 DEF VfsInv, DescriptorsSound
  <2> QED
    BY <2>1, <2>2, <2>3, <2>4
<1> QED
  BY <1>5, <1>6, <1>7 DEF VfsInv

(* A slot that is used again starts with an empty table.                   *)
LEMMA TaskOK ==
  ASSUME VfsInv, NEW t \in Slots, TaskStart(t) \/ TaskExit(t)
  PROVE  VfsInv'
<1>0. t \in Tasks /\ mount_table' = mount_table /\ fs_pool_used' = fs_pool_used
      /\ files' = files
  BY DEF Tasks, TaskStart, TaskExit
<1>1. MountsBacked' /\ RootsDistinct'
  BY <1>0 DEF VfsInv, MountsBacked, RootsDistinct
<1>2. CASE TaskStart(t)
  <2>1. /\ fd_table' = [fd_table EXCEPT ![t] = [f \in Fds |-> Closed]]
        /\ program' = [program EXCEPT ![t] = starts + 1]
        /\ running' = running \cup {t} /\ starts' = starts + 1
    BY <1>2 DEF TaskStart, ResetTable
  <2>2. VfsTypeOK'
    BY <1>0, <2>1 DEF VfsInv, VfsTypeOK
  <2>3. /\ \A f \in Fds : fd_table'[t][f] = Closed
        /\ \A u \in Tasks \ {t} : /\ fd_table'[u] = fd_table[u] /\ program'[u] = program[u]
                                  /\ u \in running' => u \in running
    BY <1>0, <2>1 DEF VfsInv, VfsTypeOK
  <2>4. ~Closed.active
    BY DEF Closed
  <2>5. DescriptorsSound'
    BY <1>0, <2>3, <2>4 DEF VfsInv, DescriptorsSound
  <2> QED
    BY <1>1, <2>2, <2>5 DEF VfsInv
<1>3. CASE TaskExit(t)
  <2>1. /\ running' = running \ {t}
        /\ fd_table' = fd_table /\ program' = program /\ starts' = starts
    BY <1>3 DEF TaskExit
  <2>2. VfsTypeOK'
    BY <1>0, <2>1 DEF VfsInv, VfsTypeOK
  <2>3. DescriptorsSound'
    BY <1>0, <2>1 DEF VfsInv, DescriptorsSound
  <2> QED
    BY <1>1, <2>2, <2>3 DEF VfsInv
<1> QED
  BY <1>2, <1>3

(* vfs_init leaves no mount and no descriptor.                             *)
LEMMA VfsInitOK == vfs_init => VfsInv
<1> SUFFICES ASSUME vfs_init PROVE VfsInv
  OBVIOUS
<1>1. NoMount \in Mounts /\ ~NoMount.active /\ ~Closed.active
  BY DEF NoMount, NoRoot, Mounts, Roots, Closed
<1>2. VfsTypeOK
  <2>1. mount_table \in [MountSlots -> Mounts]
    BY <1>1 DEF vfs_init
  <2> QED
    BY <2>1 DEF vfs_init, VfsTypeOK, Tasks
<1>3. /\ \A i \in MountSlots : ~mount_table[i].active
      /\ \A t \in Tasks, f \in Fds : ~fd_table[t][f].active
  BY <1>1 DEF vfs_init
<1> QED
  BY <1>2, <1>3 DEF VfsInv, MountsBacked, RootsDistinct, DescriptorsSound

(* Every call of fs/vfs.c, and every start and end of a task, preserves    *)
(* the invariant.                                                          *)
LEMMA VfsNextOK == VfsInv /\ [vfs_Next]_vfsVars => VfsInv'
<1> SUFFICES ASSUME VfsInv, [vfs_Next]_vfsVars PROVE VfsInv'
  OBVIOUS
<1>1. ASSUME NEW v \in Volumes, NEW p \in MountPaths, vfs_mount(v, p) \/ MountFails(v, p)
      PROVE  VfsInv'
  BY <1>1, MountOK
<1>2. ASSUME NEW p \in MountPaths, vfs_umount(p) PROVE VfsInv'
  BY <1>2, UmountOK
<1>3. ASSUME NEW t \in Slots, SystemCalls(t) PROVE VfsInv'
  <2>1. ASSUME NEW i \in MountSlots, NEW r \in Dirs \cup Files, NEW append \in BOOLEAN,
               vfs_open(t, i, r, append)
        PROVE  VfsInv'
    BY <2>1, OpenOK
  <2>2. ASSUME NEW i \in MountSlots, NEW r \in Files, OpenCreates(t, i, r)
        PROVE  VfsInv'
    BY <2>2, OpenOK
  <2>3. ASSUME NEW i \in MountSlots, NEW r \in Files,
               vfs_unlink(t, i, r) \/ \E j \in MountSlots, s \in Files : vfs_rename(t, i, r, j, s)
        PROVE  VfsInv'
    BY <2>3, NameCallOK
  <2>4. ASSUME NEW f \in Fds,
               \/ vfs_close(t, f)
               \/ \E n \in 1 .. MaxSize : vfs_read(t, f, n) \/ vfs_write(t, f, n)
               \/ \E o \in 0 .. MaxSize : vfs_seek(t, f, o)
        PROVE  VfsInv'
    BY <2>4, DescriptorCallOK
  <2> QED
    BY <1>3, <2>1, <2>2, <2>3, <2>4 DEF SystemCalls
<1>4. ASSUME NEW t \in Slots, TaskStart(t) \/ TaskExit(t) PROVE VfsInv'
  BY <1>4, TaskOK
<1>5. CASE UNCHANGED vfsVars
  BY <1>5 DEF vfsVars, VfsInv, VfsTypeOK, MountsBacked, RootsDistinct, DescriptorsSound
<1> QED
  BY <1>1, <1>2, <1>3, <1>4, <1>5 DEF vfs_Next

(***************************************************************************)
(* The theorems                                                            *)
(***************************************************************************)
(* The inductive invariant holds in every reachable state of fs/vfs.c.     *)
THEOREM VfsInvariance == vfs_Spec => []VfsInv
<1> QED
  BY VfsInitOK, VfsNextOK, PTL DEF vfs_Spec

(* No descriptor outlives its mount, and a program has only descriptors it *)
(* opened itself, however often mounts and task slots are used again.      *)
THEOREM DescriptorsStaySound == vfs_Spec => []DescriptorsSound
<1>1. VfsInv => DescriptorsSound
  BY DEF VfsInv
<1> QED
  BY <1>1, VfsInvariance, PTL

(* vfs_umount takes away the mount that find_mount leads to.               *)
THEOREM UmountIsOfVisible == vfs_Spec => []UmountTakesVisible
<1> QED
  BY TargetIsVisible, VfsInvariance, PTL

(* vfs_umount closes the descriptors under the mount it clears and no      *)
(* other: the first-fit table and the pools that nothing is given back to  *)
(* never lead two mounts to one root.                                      *)
THEOREM OneRootPerMount == vfs_Spec => []RootsDistinct
<1>1. VfsInv => RootsDistinct
  BY DEF VfsInv
<1> QED
  BY <1>1, VfsInvariance, PTL
=============================================================================
