-------------------------------- MODULE MCExec ---------------------------------
(* Three levels of tables with four entries: 64 pages, the lower 32 a program's. *)
(* The images: one writable segment with a zeroed tail, as link.ld makes; a      *)
(* read-only one, an empty one and a writable one; two that share a page; a file *)
(* that is no executable.                                                        *)
EXTENDS Exec
Seg(vaddr, filesz, memsz, write) ==
  [vaddr |-> vaddr, filesz |-> filesz, memsz |-> memsz, write |-> write]
MCKernelMap ==
  << [pg |-> 32, frame |-> 1, flags |-> KERNEL_FLAGS],
     [pg |-> 33, frame |-> 2, flags |-> KERNEL_FLAGS],
     [pg |-> 63, frame |-> 9, flags |-> USER_FLAGS] >>
Linked   == [ok |-> TRUE,  segs |-> << Seg(28, 9, 12, TRUE) >>]
Separate == [ok |-> TRUE,  segs |-> << Seg(28, 6, 6, FALSE), Seg(36, 0, 0, TRUE), Seg(37, 2, 6, TRUE) >>]
Shared2  == [ok |-> TRUE,  segs |-> << Seg(28, 9, 9, TRUE), Seg(38, 2, 2, TRUE) >>]
NotElf   == [ok |-> FALSE, segs |-> <<>>]
MCImages      == {Linked, Separate, Shared2, NotElf}
MCImagesFlags == {Linked, Separate}
MCFrames      == 1 .. 27
MCArgvs       == { <<1>>, <<2, 1>> }
================================================================================
