------------------------------ MODULE MCInitramfs ------------------------------
(* A directory that boot made and a name it did not, paths of one to three       *)
(* components, one of them in a directory whose path counts as too long, bytes    *)
(* that fit and bytes that do not.                                               *)
EXTENDS Initramfs
MCBootDirs == << "bin" >>
MCPaths == { <<"a">>, <<"bin">>, <<"bin", "a">>, <<"a", "a">>, <<"a", "bin", "a">>,
             <<"bin", "bin", "a">> }
MCLongDirs == { <<"bin", "bin">> }
MCMembers ==
  [dir : {TRUE}, path : MCPaths, data : {<<>>}]
    \cup [dir : {FALSE}, path : MCPaths, data : {<<1>>, <<1, 1>>}]
================================================================================
