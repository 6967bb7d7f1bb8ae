------------------------------ MODULE MCFatFs ------------------------------
(***************************************************************************)
(* Three clusters of two bytes; a sector of the table holds the entries of *)
(* two.  A file of three bytes lies in the first and the last cluster, so  *)
(* its chain crosses the two sectors of the table.                         *)
(***************************************************************************)
EXTENDS FatFs, TLC

CONSTANTS a, b

MCDisk ==
    [x \in Sectors |->
        CASE x = Dir -> [n \in Names |->
                            IF n = a THEN [used |-> TRUE, first |-> 2, size |-> 3] ELSE NoEntry]
          [] x = FatOf(2) -> (2 :> 4 @@ 3 :> 0)
          [] x = FatOf(4) -> (4 :> EOC)
          [] x = 2 -> <<91, 92>>
          [] x = 4 -> <<93, 94>>
          [] OTHER -> <<0, 0>>]

MCOpenFlags ==
    {{"RDONLY", "APPEND"}, {"RDWR", "CREAT"}, {"WRONLY", "CREAT", "EXCL"}, {"WRONLY", "TRUNC"}}
MCLengths == {1, 3}
MCOffsets == {0, 5}
=============================================================================
