------------------------------ MODULE MCFat32 -------------------------------
(* The FAT32 driver on a volume of a few clusters.                         *)
EXTENDS Fat32
=============================================================================
