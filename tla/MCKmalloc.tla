------------------------------- MODULE MCKmalloc -------------------------------
(* A heap of 128 bytes: room for up to five headers. The requests include 0,    *)
(* a size ALIGN8 rounds up, one that leaves the smallest block that is split    *)
(* off (72), the whole heap (104) and one that never fits (105).                *)
EXTENDS Kmalloc
MCRequests == {0, 5, 24, 72, 104, 105}
================================================================================
