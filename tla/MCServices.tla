----------------------------- MODULE MCServices ----------------------------
(***************************************************************************)
(* The services on small instances, and the scan loop of k_heapBMAlloc     *)
(* written as the loop it is.                                              *)
(***************************************************************************)
EXTENDS Services

(* Framebuffers as wide as text mode and wider.                            *)
MCFb == {[cols |-> 3, rows |-> 2], [cols |-> 5, rows |-> 2]}

MCMessages == {<<97>>, <<240, 159>>}

(* A FAT32 and an NTFS volume, and a mount path below another.             *)
MCDriver == [v \in Volumes |-> IF v = "hda1" THEN "fat32" ELSE "ntfs"]
MCMaxFs == [d \in {"fat32", "ext2", "xfs", "ntfs"} |-> 1]
MCMountPaths == {<<"m">>, <<"m", "d">>}
MCDirs == {<<>>, <<"d">>}
MCFiles == {<<"f">>, <<"d", "f">>}

(* A short and a long name on the ext2 volume.                             *)
MCNameLen == [n \in {"a", "sub", ".", "..", "long5"} |->
                CASE n = "sub" -> 3 [] n = ".." -> 2 [] n = "long5" -> 5 [] OTHER -> 1]

(* A mouse with one button.                                                *)
MCButtons == <<"left">>

-----------------------------------------------------------------------------

(* The inner loop: how many slots from x on are free, at most bneed.       *)
RECURSIVE FreeFrom(_, _, _)
FreeFrom(x, y, bneed) == IF y < bneed /\ Map[x + y] = 0
                         THEN FreeFrom(x, y + 1, bneed)
                         ELSE y

SkipTooFar(x, y) == x + y + 2

SkipRun(x, y) == x + y + 1

(* The outer loop from slot x on; bcnt when it finds nothing.              *)
RECURSIVE ScanFrom(_, _)
ScanFrom(x, bneed) ==
  IF x + bneed > bcnt THEN bcnt
  ELSE IF Map[x] # 0 THEN ScanFrom(x + 1, bneed)
  ELSE LET y == FreeFrom(x, 0, bneed)
       IN IF y = bneed THEN x ELSE ScanFrom(SkipRun(x, y), bneed)

(* The scan of k_heapBMAlloc, which jumps over a free run that is too      *)
(* short, never jumps over a slot where the request would fit: it returns  *)
(* the first fit in every bitmap that allocation and freeing can produce,  *)
(* and gives up only when no run is long enough.  The byte test before it  *)
(* never turns away a request that a run could hold.                       *)
ScanIsFirstFit ==
  part = "heap" =>
    \A size \in Sizes, align \in BOOLEAN :
      LET n == CeilDiv(RawSize(size, align), KHEAP_BSIZE)
          r == ScanFrom(0, n)
      IN /\ \A x \in SlotSet : FirstFit(x, n) => r = x /\ EnoughBytes(RawSize(size, align))
         /\ r # bcnt => FirstFit(r, n)
=============================================================================
