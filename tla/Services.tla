------------------------------ MODULE Services -----------------------------
(***************************************************************************)
(* The parts of the kernel and of its programs that the rest calls, and    *)
(* that call nothing that is modelled with them: the kernel heap, malloc   *)
(* of a userland program, the text console, the VFS, the ext2 driver and   *)
(* the window manager.  They share no state, so a behaviour follows one of *)
(* them and the others stay as boot leaves them.                           *)
(***************************************************************************)
EXTENDS Heap, Umalloc, Console, VFS, Ext2, Desktop

VARIABLE part

Some(S) == CHOOSE x \in S : TRUE

Init ==
  /\ part \in {"heap", "umalloc", "console", "vfs", "ext2", "desktop"}
  /\ HeapInit
  /\ umalloc_Init
  /\ IF part = "console" THEN \E d \in screen_init : console_Boot(d)
     ELSE console_Boot(Some(screen_init))
  /\ vfs_init
  /\ ext2_Init /\ (part # "ext2" => write_supported)
  /\ desk_Init

libVars == <<heapVars, umVars, conVars>>
fsVars == <<vfsVars, ext2Vars>>

Next ==
  \/ /\ part = "heap" /\ HeapNext
     /\ UNCHANGED <<part, umVars, conVars, fsVars, deskVars>>
  \/ /\ part = "umalloc" /\ umalloc_Next
     /\ UNCHANGED <<part, heapVars, conVars, fsVars, deskVars>>
  \/ /\ part = "console" /\ console_Next
     /\ UNCHANGED <<part, heapVars, umVars, fsVars, deskVars>>
  \/ part = "vfs" /\ vfs_Next /\ UNCHANGED <<part, libVars, ext2Vars, deskVars>>
  \/ part = "ext2" /\ ext2_Next /\ UNCHANGED <<part, libVars, vfsVars, deskVars>>
  \/ part = "desktop" /\ desk_Next /\ UNCHANGED <<part, libVars, fsVars>>

Spec == Init /\ [][Next]_<<part, libVars, fsVars, deskVars>>

-----------------------------------------------------------------------------
(* The properties of Ext2, where the volume is the part that moves.        *)

(* No block has two owners, or is free in the bitmap while it has one,     *)
(* whatever write of an ext2 call a crash or an error cuts short.          *)
Ext2BlocksOwned == part = "ext2" => BlocksOwned

(* A file of the ext2 volume reads as what ext2_write was given for it.    *)
Ext2OwnContents == part = "ext2" => OwnContents

(* Without faults ext2's bitmaps and free counters are exact between two   *)
(* calls.                                                                  *)
Ext2AccountsExact == part = "ext2" => AccountsExact

(* The records of an ext2 directory block tile it, and a file with several *)
(* names has as many links.                                                *)
Ext2DirectoriesSound == part = "ext2" => DirectoriesSound
=============================================================================
