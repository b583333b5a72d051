---------------------------- MODULE MCCnsEthPort ----------------------------
(* Each close of the last port after an open that failed half way can leave  *)
(* the receive interrupt disabled once more, without end. The model closes   *)
(* no port while it is disabled more than MaxDepth times.                    *)
EXTENDS CnsEthPort
CONSTANT MaxDepth
MCNext == NextButClose \/ \E p \in Ports : depth <= MaxDepth /\ Close(p)
MCSpec == Init /\ [][MCNext]_vars /\ Fairness
=============================================================================
