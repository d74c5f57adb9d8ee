--------------------------------- MODULE MCAta ---------------------------------
(* Sectors that differ in the first, the third and the fourth register; two       *)
(* words that differ, so that a word lost or moved twice shows.                   *)
EXTENDS Ata
MCBlank   == << 0, 0 >>
MCBuffers == { << 1, 2 >> }
================================================================================
