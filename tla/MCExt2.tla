-------------------------------- MODULE MCExt2 ---------------------------------
(* Two inodes and two blocks beside the root's and two entries to a directory:   *)
(* a directory below the root, a file in it and a name twice; inodes, blocks and  *)
(* entries each run out. Two vnodes beside the root's hold one file open twice.   *)
(* One power failure and one lost write in a behaviour.                           *)
EXTENDS Ext2
================================================================================
