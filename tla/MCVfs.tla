-------------------------------- MODULE MCVfs --------------------------------
EXTENDS Vfs, TLC

(* The tree of ramfs_init: the root 10 has the directory 11, which has the *)
(* file 0.                                                                 *)
MCChildren == 10 :> <<[name |-> "subdirtest", inode |-> 11]>> @@ 11 :> <<[name |-> "test", inode |-> 0]>>

(* Zero, and the largest count with links that are not NULL.               *)
MCMemory == {[ref |-> 0, links |-> TRUE], [ref |-> 7, links |-> FALSE]}

MCPaths == {<<>>, <<"subdirtest">>, <<"subdirtest", "test">>, <<"test">>, <<"subdirtest", "test", "test">>}
=============================================================================
