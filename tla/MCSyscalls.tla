------------------------------ MODULE MCSyscalls -------------------------------
(* With four vnodes a directory, a mounted root and a file of it fit beside the *)
(* root; with five (MCMounts.cfg) proc can be mounted twice. The one            *)
(* procfs file has the name programs use, so a mount can hide and be hidden. A  *)
(* buffer of three bytes never fits (MaxFile is 2): the heap's refusal.         *)
EXTENDS Syscalls
MCPaths     == { <<>>, <<"a">>, <<"a", "a">>, <<"a", "">> }
MCBuffers   == { <<1>>, <<1, 1, 1>> }
MCProcFiles == << "a" >>
================================================================================
