--------------------------------- MODULE MCPmm ---------------------------------
(* Nine frames. The map has two usable entries that overlap, one that is not    *)
(* usable and one that runs past the last bit; 0, 4 and 5 stay unusable.         *)
EXTENDS Pmm
E2(u, b, n) == [usable |-> u, base |-> b, pages |-> n]
MCMemMap == << E2(TRUE, 1, 2), E2(FALSE, 3, 2), E2(TRUE, 2, 2), E2(TRUE, 6, 5) >>
================================================================================
