------------------------------ MODULE MCNvEnv ------------------------------
(* The variable that settime saves, another one that must survive it, and   *)
(* every pair of partitions that boot can find.                             *)
EXTENDS NvEnv, TLC
CONSTANTS rtclog, ethaddr, v1, v2
MCNames == {rtclog, ethaddr}
MCVals == {v1, v2}
MCVals1 == {v1}
=============================================================================
