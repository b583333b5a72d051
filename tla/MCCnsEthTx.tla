----------------------------- MODULE MCCnsEthTx -----------------------------
(* A ring small enough to wrap and to fill, with frames of one and of two   *)
(* descriptors, and two CPUs that can be completing at the same time. Two   *)
(* socket buffers that are sent again and again fill it.                    *)
EXTENDS CnsEthTx
CONSTANTS s1, s2
MCSkbs == {s1, s2}
=============================================================================
