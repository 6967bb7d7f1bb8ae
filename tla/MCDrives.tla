------------------------------ MODULE MCDrives ------------------------------
(***************************************************************************)
(* Two drives, each empty or with a directory of one file on it.  Files    *)
(* and directories are named by relative names, which the current          *)
(* directory turns into paths, and by paths on the card; the root of the   *)
(* NAND can be named too.                                                  *)
(***************************************************************************)
EXTENDS Drives

CONSTANTS SD, CTRNAND, note, folder

MCTrees ==
    {{}, {[up |-> Root, name |-> folder, obj |-> 1, dir |-> TRUE],
          [up |-> 1, name |-> note, obj |-> 2, dir |-> FALSE]}}
MCPaths ==
    [drive : {NoDrive}, abs : {FALSE}, names : {<<>>, <<note>>, <<folder>>}]
    \union [drive : {SD}, abs : {TRUE}, names : {<<folder>>, <<folder, note>>}]
    \union [drive : {CTRNAND}, abs : {TRUE}, names : {<<>>}]
=============================================================================
