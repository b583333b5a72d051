----------------------------- MODULE MCNvEnvBuf -----------------------------
(* A block that two or three strings fill, names of which one is the start  *)
(* of another, and values that are empty, longer, or contain a "=".         *)
EXTENDS NvEnvBuf
MCNames == {<<2>>, <<2, 3>>, <<3>>}
MCVals == {<<>>, <<2>>, <<EQ, 2>>, <<3, 3, 3>>}
=============================================================================
