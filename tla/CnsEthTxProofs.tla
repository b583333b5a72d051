--------------------------- MODULE CnsEthTxProofs ---------------------------
(***************************************************************************)
(* Proofs about CnsEthTx for every ring size, reserve, number of fragments *)
(* and set of socket buffers.                                              *)
(***************************************************************************)
EXTENDS CnsEthTx, FiniteSetTheorems, SequenceTheorems, TLAPS

(* What holds while an eth_xmit is between its two critical sections: where *)
(* its descriptors lie, and that nobody else has touched the rest of them.  *)
XmitInv ==
  /\ xpc \in {"fill", "commit"} => Offset(index0) = num_used
  /\ xpc = "reserve" => owner[xskb] = "stack"
  /\ xpc = "fill" =>
       /\ Offset(index) \in num_used .. num_used + nr_desc
       /\ owner[xskb] = "driver"
       /\ cown[index0]
       /\ \A i \in Idx : /\ buff_tab[i] # xskb
                         /\ Offset(i) > Offset(index) => cown[i]
                         /\ Offset(i) >= num_used => buff_tab[i] = NULL

(* What holds while eth_complete_tx walks: its copies of the counters are   *)
(* still right, and what it has passed is empty.                            *)
WalkInv ==
  cpc = "walk" =>
    /\ due >= 1
    /\ cused = num_used /\ ci <= cused
    /\ Offset(cindex) = ci
    /\ \A i \in Idx : Offset(i) < ci => buff_tab[i] = NULL /\ cown[i]

(* The engine turns back to descriptor 0 exactly at the end of the ring *)
EorInv == \A i \in Idx : seg[i].eor = (i = TX_DESCS - 1)

IInv ==
  /\ TypeOK
  /\ EorInv
  /\ RingAccounting
  /\ NothingOutsideWindow
  /\ SkbHeldOnce
  /\ NoFreeUnderDma
  /\ StoppedMeansFull
  /\ XmitInv
  /\ WalkInv

-----------------------------------------------------------------------------
(* Going round the ring *)

LEMMA WrapSmall == \A k \in 0 .. TX_DESCS - 1 : Wrap(k) = k
BY TxAssumption, SMT DEF Wrap

LEMMA WrapLarge == \A k \in TX_DESCS .. 2 * TX_DESCS - 1 : Wrap(k) = k - TX_DESCS
BY TxAssumption, SMT DEF Wrap

LEMMA DistType ==
  \A a, i \in Idx : Dist(a, i) \in Idx
BY TxAssumption DEF Idx, Dist

(* Two slots at the same distance are the same slot *)
LEMMA DistInjective ==
  \A a, i, j \in Idx : Dist(a, i) = Dist(a, j) => i = j
BY TxAssumption DEF Idx, Dist

(* Stepping k slots on adds k to the distance, short of a whole turn *)
LEMMA DistWrap ==
  ASSUME NEW a \in Idx, NEW i \in Idx, NEW k \in 0 .. TX_DESCS - 1,
         Dist(a, i) + k < TX_DESCS
  PROVE  Wrap(i + k) \in Idx /\ Dist(a, Wrap(i + k)) = Dist(a, i) + k
<1>1. CASE i + k < TX_DESCS
  <2>1. Wrap(i + k) = i + k
    BY <1>1, WrapSmall, TxAssumption DEF Idx
  <2> QED BY <1>1, <2>1, TxAssumption DEF Idx, Dist
<1>2. CASE i + k >= TX_DESCS
  <2>1. Wrap(i + k) = i + k - TX_DESCS
    BY <1>2, WrapLarge, TxAssumption DEF Idx
  <2> QED BY <1>2, <2>1, TxAssumption DEF Idx, Dist
<1> QED BY <1>1, <1>2, TxAssumption DEF Idx

LEMMA DistNext ==
  ASSUME NEW a \in Idx, NEW i \in Idx, Dist(a, i) + 1 < TX_DESCS
  PROVE  NextIndex(i) \in Idx /\ Dist(a, NextIndex(i)) = Dist(a, i) + 1
BY TxAssumption DEF Idx, Dist, NextIndex

(* Moving the origin on to a slot c takes Dist(a, c) off every slot at or   *)
(* beyond c, and sends those before it to the far end                       *)
LEMMA DistShift ==
  ASSUME NEW a \in Idx, NEW c \in Idx, NEW i \in Idx
  PROVE  Dist(c, i) = IF Dist(a, i) >= Dist(a, c)
                      THEN Dist(a, i) - Dist(a, c)
                      ELSE Dist(a, i) - Dist(a, c) + TX_DESCS
BY TxAssumption DEF Idx, Dist

LEMMA InitIInv == Init => IInv
<1> SUFFICES ASSUME Init PROVE IInv
  OBVIOUS
<1>1. TypeOK
  <2>1. seg \in [Idx -> Seg]
    <3>1. ASSUME NEW i \in Idx
          PROVE  [skb |-> NULL, fsd |-> FALSE, lsd |-> FALSE,
                  eor |-> i = TX_DESCS - 1] \in Seg
      <4>1. (i = TX_DESCS - 1) \in BOOLEAN
        OBVIOUS
      <4> QED BY <4>1, Zenon DEF Seg
    <3> QED BY <3>1, Zenon DEF Init
  <2>2. 0 \in Idx /\ 0 \in 0 .. TX_DESCS - 1
    BY TxAssumption DEF Idx
  <2>3. cown \in [Idx -> BOOLEAN]
    BY Zenon DEF Init
  <2>4. buff_tab \in [Idx -> Skbs \cup {NULL}] /\ owner \in [Skbs -> {"stack", "driver"}]
    BY DEF Init
  <2>5. 0 \in 0 .. MaxFrags /\ 0 \in 0 .. NrCpus
    BY TxAssumption
  <2> QED BY <2>1, <2>2, <2>3, <2>4, <2>5, Zenon DEF Init, TypeOK
<1>2. EorInv
  BY DEF Init, EorInv, Idx
<1>3. RingAccounting
  BY TxAssumption DEF Init, RingAccounting, Reserved, Offset, Dist
<1>4. NothingOutsideWindow
  BY DEF Init, NothingOutsideWindow
<1>5. SkbHeldOnce
  BY DEF Init, SkbHeldOnce
<1>6. NoFreeUnderDma
  BY DEF Init, NoFreeUnderDma
<1>7. StoppedMeansFull
  BY DEF Init, StoppedMeansFull
<1>8. XmitInv /\ WalkInv
  BY DEF Init, XmitInv, WalkInv
<1> QED BY <1>1, <1>2, <1>3, <1>4, <1>5, <1>6, <1>7, <1>8 DEF IInv

-----------------------------------------------------------------------------
(* One lemma per action: it preserves the inductive invariant *)

LEMMA StepXmitStart ==
  ASSUME IInv, NEW s \in Skbs, NEW n \in 0 .. MaxFrags, XmitStart(s, n)
  PROVE  IInv'
<1> USE DEF ringVars, countVars, stopVars, dmaVars, walkVars
<1>1. TypeOK'
  BY TxAssumption DEF IInv, TypeOK, XmitStart
<1>2. EorInv' /\ NothingOutsideWindow' /\ NoFreeUnderDma' /\ StoppedMeansFull' /\ RingAccounting'
  BY DEF IInv, XmitStart, EorInv, NothingOutsideWindow, NoFreeUnderDma, StoppedMeansFull,
         RingAccounting, Reserved, Offset, Dist
<1>3. SkbHeldOnce'
  BY DEF IInv, XmitStart, SkbHeldOnce
<1>4. XmitInv' /\ WalkInv'
  BY DEF IInv, XmitStart, XmitInv, WalkInv, Offset, Dist
<1> QED BY <1>1, <1>2, <1>3, <1>4 DEF IInv

LEMMA StepXmitReturn ==
  ASSUME IInv, XmitBusy \/ XmitKick
  PROVE  IInv'
<1> USE DEF ringVars, countVars, stopVars, dmaVars, napiVars, walkVars, XmitBusy, XmitKick,
            XmitReturn
<1>1. TypeOK'
  <2>1. 0 \in Idx /\ 0 \in 0 .. MaxFrags
    BY TxAssumption DEF Idx
  <2> QED BY <2>1, TxAssumption DEF IInv, TypeOK
<1>2. EorInv' /\ NothingOutsideWindow' /\ NoFreeUnderDma' /\ StoppedMeansFull' /\ RingAccounting'
  BY DEF IInv, EorInv, NothingOutsideWindow, NoFreeUnderDma, StoppedMeansFull,
         RingAccounting, Reserved, Offset, Dist
<1>3. SkbHeldOnce'
  BY DEF IInv, SkbHeldOnce
<1>4. XmitInv' /\ WalkInv'
  BY DEF IInv, XmitInv, WalkInv, Offset, Dist
<1> QED BY <1>1, <1>2, <1>3, <1>4 DEF IInv

LEMMA StepXmitReserve ==
  ASSUME IInv, XmitReserve
  PROVE  IInv'
<1> USE DEF ringVars, stopVars, dmaVars, napiVars, walkVars
<1>1. /\ nr_desc \in 0 .. TX_DESCS - 1 /\ nr_desc' = nr_desc
      /\ num_used \in 0 .. TX_DESCS - 1 /\ num_used' = num_used
      /\ num_used + nr_desc + 1 < TX_DESCS
      /\ free_index \in Idx /\ free_index' = free_index
      /\ cur_index \in Idx /\ Offset(cur_index) = num_used
      /\ Reserved = 0 /\ Reserved' = nr_desc + 1
  BY TxAssumption DEF IInv, TypeOK, XmitReserve, Room, RingAccounting, Reserved
<1>2. DEFINE last == Wrap(cur_index + nr_desc)
<1>3. last \in Idx /\ Offset(last) = num_used + nr_desc
  BY <1>1, DistWrap, TxAssumption DEF Offset
<1>4. /\ cur_index' = Wrap(last + 1) /\ cur_index' \in Idx
      /\ Offset(cur_index') = num_used + nr_desc + 1
  <2>1. cur_index' = Wrap(last + 1)
    BY DEF XmitReserve
  <2>2. 1 \in 0 .. TX_DESCS - 1
    BY <1>1, TxAssumption
  <2> HIDE DEF last
  <2> QED BY <2>1, <2>2, <1>1, <1>3, DistWrap DEF Offset
<1>5. TypeOK'
  BY <1>4 DEF IInv, TypeOK, XmitReserve
<1>6. EorInv' /\ NoFreeUnderDma' /\ StoppedMeansFull'
  <2>1. EorInv' /\ StoppedMeansFull'
    BY DEF IInv, XmitReserve, EorInv, StoppedMeansFull
  <2>2. NoFreeUnderDma'
    BY DEF IInv, TypeOK, XmitReserve, NoFreeUnderDma
  <2> QED BY <2>1, <2>2
<1>7. RingAccounting'
  BY <1>1, <1>4 DEF RingAccounting, Offset
<1>8. NothingOutsideWindow'
  <2> SUFFICES ASSUME NEW i \in Idx, Offset(i)' >= num_used' + Reserved'
               PROVE  cown'[i] /\ buff_tab'[i] = NULL
    BY DEF NothingOutsideWindow
  <2>1. Offset(i)' = Offset(i) /\ Offset(i) \in Int
    BY <1>1, DistType DEF Offset, Idx
  <2>2. Offset(i) >= num_used + Reserved
    BY <2>1, <1>1
  <2> QED BY <2>2 DEF IInv, NothingOutsideWindow, XmitReserve
<1>9. owner[xskb] = "stack" /\ xskb \in Skbs
  BY DEF IInv, TypeOK, XmitInv, XmitReserve
<1>10. SkbHeldOnce'
  BY <1>9 DEF IInv, TypeOK, XmitReserve, SkbHeldOnce
<1>11. XmitInv'
  <2>1. Offset(index0)' = num_used' /\ Offset(index)' \in num_used' .. num_used' + nr_desc'
    BY <1>1 DEF XmitReserve, Offset
  <2>2. owner'[xskb'] = "driver" /\ \A i \in Idx : buff_tab'[i] # xskb'
    BY <1>9, TxAssumption DEF IInv, TypeOK, XmitReserve, SkbHeldOnce
  <2>3. cown'[index0'] /\ \A i \in Idx : Offset(i)' >= num_used' => cown'[i] /\ buff_tab'[i] = NULL
    BY <1>1 DEF IInv, XmitReserve, NothingOutsideWindow, Offset, TypeOK
  <2>4. \A i \in Idx : Offset(i)' \in Idx
    BY <1>1, DistType DEF Offset
  <2>5. Offset(index)' = num_used'
    BY <1>1 DEF XmitReserve, Offset
  <2>6. \A i \in Idx : Offset(i)' > Offset(index)' => cown'[i]
    BY <2>3, <2>4, <2>5, <1>1 DEF Idx
  <2>7. xpc' = "fill"
    BY DEF XmitReserve
  <2> QED BY <2>1, <2>2, <2>3, <2>6, <2>7 DEF XmitInv
<1>12. WalkInv'
  BY DEF IInv, XmitReserve, WalkInv, LockFree
<1> QED BY <1>5, <1>6, <1>7, <1>8, <1>10, <1>11, <1>12 DEF IInv

LEMMA StepXmitFrag ==
  ASSUME IInv, XmitFrag
  PROVE  IInv'
<1> USE DEF countVars, stopVars, dmaVars, napiVars, walkVars
<1> DEFINE d == Wrap(index + 1)
<1>1. /\ xpc = "fill" /\ xpc' = "fill" /\ xskb \in Skbs /\ xskb' = xskb
      /\ nr_desc \in 0 .. TX_DESCS - 1 /\ nr_desc' = nr_desc
      /\ num_used \in 0 .. TX_DESCS - 1 /\ num_used' = num_used
      /\ num_used + nr_desc + 1 < TX_DESCS
      /\ free_index \in Idx /\ free_index' = free_index
      /\ index0 \in Idx /\ index0' = index0 /\ Offset(index0) = num_used
      /\ index \in Idx /\ index' = d
      /\ Offset(index) \in num_used .. num_used + nr_desc
      /\ buff_tab' = buff_tab /\ owner' = owner
      /\ Reserved = nr_desc + 1 /\ Reserved' = nr_desc + 1
  BY TxAssumption DEF IInv, TypeOK, XmitFrag, XmitInv, RingAccounting, Reserved
<1>2. \A i \in Idx : Offset(i)' = Offset(i) /\ Offset(i) \in 0 .. TX_DESCS - 1
  BY <1>1, DistType DEF Offset, Idx
<1>3. Offset(index) < num_used + nr_desc
  <2>1. /\ Wrap(index0 + nr_desc) \in Idx
        /\ Offset(Wrap(index0 + nr_desc)) = num_used + nr_desc
    BY <1>1, DistWrap, TxAssumption DEF Offset
  <2>2. Offset(index) # num_used + nr_desc
    BY <1>1, <2>1, DistInjective DEF Offset, XmitFrag, AllFragsSet
  <2> QED BY <1>1, <2>2, TxAssumption
<1>4. d \in Idx /\ Offset(d) = Offset(index) + 1
  BY <1>1, <1>3, DistWrap, TxAssumption DEF Offset
<1>5. cown[d] /\ buff_tab[d] = NULL /\ d # index0
  BY <1>1, <1>2, <1>3, <1>4 DEF IInv, XmitInv
<1> DEFINE e == [skb |-> xskb, fsd |-> FALSE, lsd |-> d = Wrap(index0 + nr_desc),
                 eor |-> d = TX_DESCS - 1]
<1>6. seg' = [seg EXCEPT ![d] = e] /\ cown' = [cown EXCEPT ![d] = FALSE]
  BY DEF XmitFrag, SetDesc
<1>7. e \in Seg
  <2>1. (d = Wrap(index0 + nr_desc)) \in BOOLEAN /\ (d = TX_DESCS - 1) \in BOOLEAN
    OBVIOUS
  <2> QED BY <1>1, <2>1, Zenon DEF Seg
<1>8. e.skb = xskb /\ e.fsd = FALSE /\ e.eor = (d = TX_DESCS - 1)
  BY Zenon
<1> HIDE DEF d, e
<1>9. TypeOK'
  <2>1. seg' \in [Idx -> Seg] /\ cown' \in [Idx -> BOOLEAN]
    BY <1>4, <1>6, <1>7 DEF IInv, TypeOK
  <2> QED BY <2>1, <1>1, <1>4 DEF IInv, TypeOK, XmitFrag
<1>10. EorInv'
  BY <1>4, <1>6, <1>8 DEF IInv, TypeOK, EorInv
<1>11. RingAccounting' /\ StoppedMeansFull'
  BY <1>1 DEF IInv, TypeOK, RingAccounting, StoppedMeansFull, Offset, XmitFrag
<1>12. NothingOutsideWindow'
  BY <1>1, <1>2, <1>3, <1>4, <1>6, TxAssumption DEF IInv, TypeOK, NothingOutsideWindow
<1>13. SkbHeldOnce'
  BY <1>1 DEF IInv, SkbHeldOnce
<1>14. NoFreeUnderDma'
  BY <1>1, <1>4, <1>6, <1>8 DEF IInv, TypeOK, NoFreeUnderDma
<1>15. XmitInv'
  <2>1. Offset(index0)' = num_used' /\ Offset(index)' = Offset(index) + 1
    BY <1>1, <1>2, <1>4
  <2>2. Offset(index)' \in num_used' .. num_used' + nr_desc'
    BY <2>1, <1>1, <1>3
  <2>3. owner'[xskb'] = "driver" /\ cown'[index0']
    BY <1>1, <1>5, <1>6 DEF IInv, TypeOK, XmitInv
  <2>4. ASSUME NEW i \in Idx
        PROVE  /\ buff_tab'[i] # xskb'
               /\ Offset(i)' > Offset(index)' => cown'[i]
               /\ Offset(i)' >= num_used' => buff_tab'[i] = NULL
    <3>1. buff_tab'[i] # xskb' /\ (Offset(i)' >= num_used' => buff_tab'[i] = NULL)
      BY <1>1, <1>2 DEF IInv, XmitInv
    <3>2. ASSUME Offset(i)' > Offset(index)' PROVE cown'[i]
      <4>1. Offset(i) > Offset(index) + 1 /\ Offset(i) \in Int /\ Offset(index) \in Int
        BY <3>2, <2>1, <1>1, <1>2
      <4>2. i # d /\ cown[i]
        BY <4>1, <1>1, <1>4 DEF IInv, XmitInv
      <4> QED BY <4>2, <1>4, <1>6 DEF IInv, TypeOK
    <3> QED BY <3>1, <3>2
  <2> QED BY <1>1, <2>1, <2>2, <2>3, <2>4 DEF XmitInv
<1>16. WalkInv'
  <2> SUFFICES ASSUME cpc' = "walk" PROVE WalkInv'
    BY DEF WalkInv
  <2>1. /\ due' >= 1 /\ cused' = num_used' /\ ci' <= cused' /\ ci' = ci /\ cused = num_used
        /\ ci \in Int /\ ci <= num_used /\ Offset(cindex)' = ci'
    BY <1>1, <1>2 DEF IInv, TypeOK, WalkInv, XmitFrag
  <2>2. \A i \in Idx : Offset(i)' < ci' => buff_tab'[i] = NULL /\ cown'[i]
    BY <2>1, <1>1, <1>2, <1>4, <1>6 DEF IInv, TypeOK, WalkInv, XmitFrag
  <2> QED BY <2>1, <2>2 DEF WalkInv
<1> QED BY <1>9, <1>10, <1>11, <1>12, <1>13, <1>14, <1>15, <1>16 DEF IInv

LEMMA StepXmitHead ==
  ASSUME IInv, XmitHead
  PROVE  IInv'
<1> USE DEF countVars, stopVars, dmaVars, napiVars, walkVars
<1>1. /\ xpc = "fill" /\ xpc' = "commit" /\ xskb \in Skbs /\ xskb' = xskb
      /\ nr_desc \in 0 .. TX_DESCS - 1 /\ nr_desc' = nr_desc
      /\ num_used \in 0 .. TX_DESCS - 1 /\ num_used' = num_used
      /\ free_index \in Idx /\ free_index' = free_index
      /\ index0 \in Idx /\ index0' = index0 /\ Offset(index0) = num_used
      /\ buff_tab' = [buff_tab EXCEPT ![index0] = xskb] /\ owner' = owner
      /\ owner[xskb] = "driver"
      /\ \A i \in Idx : buff_tab[i] # xskb
      /\ Reserved = nr_desc + 1 /\ Reserved' = nr_desc + 1
  BY TxAssumption DEF IInv, TypeOK, XmitHead, XmitInv, Reserved
<1>2. \A i \in Idx : Offset(i)' = Offset(i) /\ Offset(i) \in 0 .. TX_DESCS - 1
  BY <1>1, DistType DEF Offset, Idx
<1> DEFINE e == [skb |-> xskb, fsd |-> TRUE, lsd |-> index0 = Wrap(index0 + nr_desc),
                 eor |-> index0 = TX_DESCS - 1]
<1>3. seg' = [seg EXCEPT ![index0] = e] /\ cown' = [cown EXCEPT ![index0] = FALSE]
  BY DEF XmitHead, SetDesc
<1>4. e \in Seg
  <2>1. (index0 = Wrap(index0 + nr_desc)) \in BOOLEAN /\ (index0 = TX_DESCS - 1) \in BOOLEAN
    OBVIOUS
  <2> QED BY <1>1, <2>1, Zenon DEF Seg
<1>5. e.skb = xskb /\ e.fsd = TRUE /\ e.eor = (index0 = TX_DESCS - 1)
  BY Zenon
<1> HIDE DEF e
<1>6. TypeOK'
  <2>1. seg' \in [Idx -> Seg] /\ cown' \in [Idx -> BOOLEAN]
        /\ buff_tab' \in [Idx -> Skbs \cup {NULL}]
    BY <1>1, <1>3, <1>4 DEF IInv, TypeOK
  <2> QED BY <2>1, <1>1 DEF IInv, TypeOK, XmitHead
<1>7. EorInv'
  BY <1>1, <1>3, <1>5 DEF IInv, TypeOK, EorInv
<1>8. RingAccounting' /\ StoppedMeansFull'
  BY <1>1 DEF IInv, TypeOK, RingAccounting, StoppedMeansFull, Offset, XmitHead
<1>9. NothingOutsideWindow'
  BY <1>1, <1>2, <1>3, TxAssumption DEF IInv, TypeOK, NothingOutsideWindow
<1>10. SkbHeldOnce'
  <2>1. \A i \in Idx : buff_tab'[i] = IF i = index0 THEN xskb ELSE buff_tab[i]
    BY <1>1 DEF IInv, TypeOK
  <2>2. \A i, j \in Idx : buff_tab'[i] # NULL /\ buff_tab'[i] = buff_tab'[j] => i = j
    BY <2>1, <1>1 DEF IInv, SkbHeldOnce
  <2>3. \A i \in Idx : buff_tab'[i] # NULL => owner'[buff_tab'[i]] = "driver"
    BY <2>1, <1>1 DEF IInv, SkbHeldOnce
  <2>4. buff_tab[index0] = NULL
    BY <1>1, <1>2 DEF IInv, XmitInv
  <2>5. \A s \in Skbs : owner'[s] = "driver" => \E i \in Idx : buff_tab'[i] = s
    BY <2>1, <2>4, <1>1, TxAssumption DEF IInv, SkbHeldOnce
  <2> QED BY <2>2, <2>3, <2>5 DEF SkbHeldOnce
<1>11. NoFreeUnderDma'
  BY <1>1, <1>3, <1>5 DEF IInv, TypeOK, NoFreeUnderDma
<1>12. XmitInv'
  BY <1>1, <1>2 DEF XmitInv
<1>13. WalkInv'
  <2> SUFFICES ASSUME cpc' = "walk" PROVE WalkInv'
    BY DEF WalkInv
  <2>1. /\ due' >= 1 /\ cused' = num_used' /\ ci' <= cused' /\ ci' = ci /\ cused = num_used
        /\ ci \in Int /\ ci <= num_used /\ Offset(cindex)' = ci'
    BY <1>1, <1>2 DEF IInv, TypeOK, WalkInv, XmitHead
  <2>2. \A i \in Idx : Offset(i)' < ci' => buff_tab'[i] = NULL /\ cown'[i]
    BY <2>1, <1>1, <1>2, <1>3 DEF IInv, TypeOK, WalkInv, XmitHead
  <2> QED BY <2>1, <2>2 DEF WalkInv
<1> QED BY <1>6, <1>7, <1>8, <1>9, <1>10, <1>11, <1>12, <1>13 DEF IInv

LEMMA StepXmitCommit ==
  ASSUME IInv, XmitCommit
  PROVE  IInv'
<1> USE DEF ringVars, stopVars, dmaVars, napiVars, walkVars
<1>1. /\ nr_desc \in 0 .. TX_DESCS - 1 /\ num_used \in 0 .. TX_DESCS - 1
      /\ num_used' = num_used + (nr_desc + 1)
      /\ num_used + (nr_desc + 1) < TX_DESCS
      /\ Offset(cur_index) = num_used + (nr_desc + 1)
      /\ free_index' = free_index /\ cur_index' = cur_index
      /\ Reserved = nr_desc + 1 /\ Reserved' = 0
      /\ cpc = "idle" /\ cpc' = "idle" /\ xpc = "commit" /\ xpc' = "kick"
  BY TxAssumption DEF IInv, TypeOK, XmitCommit, RingAccounting, Reserved, LockFree
<1>2. num_used' \in 0 .. TX_DESCS - 1
  BY <1>1, TxAssumption
<1>3. TypeOK'
  BY <1>2 DEF IInv, TypeOK, XmitCommit
<1>4. EorInv' /\ NoFreeUnderDma' /\ SkbHeldOnce' /\ XmitInv' /\ WalkInv'
  BY <1>1 DEF IInv, XmitCommit, EorInv, NoFreeUnderDma, SkbHeldOnce, XmitInv, WalkInv
<1>5. RingAccounting'
  BY <1>1 DEF RingAccounting, Offset
<1>6. NothingOutsideWindow'
  <2>1. num_used' + Reserved' = num_used + Reserved
    BY <1>1
  <2> QED BY <2>1, <1>1 DEF IInv, NothingOutsideWindow, Offset, XmitCommit
<1>7. StoppedMeansFull'
  BY <1>1, TxAssumption DEF IInv, TypeOK, StoppedMeansFull, XmitCommit
<1> QED BY <1>3, <1>4, <1>5, <1>6, <1>7 DEF IInv

LEMMA StepDma ==
  ASSUME IInv, DmaSend \/ DmaSleep
  PROVE  IInv'
<1> USE DEF countVars, stopVars, xmitVars, napiVars, walkVars
<1>1. /\ seg' = seg /\ buff_tab' = buff_tab /\ owner' = owner /\ free_index' = free_index
      /\ cur_index' = cur_index /\ num_used' = num_used /\ Reserved' = Reserved
      /\ \A i \in Idx : cown[i] => cown'[i]
      /\ \A i \in Idx : Offset(i)' = Offset(i)
  BY DEF IInv, TypeOK, DmaSend, DmaSleep, ringVars, Reserved, Offset
<1>2. TypeOK'
  <2>1. dma_ptr' \in Idx
    BY TxAssumption DEF IInv, TypeOK, EorInv, DmaSend, DmaSleep, Idx
  <2>2. cown' \in [Idx -> BOOLEAN]
    BY DEF IInv, TypeOK, DmaSend, DmaSleep, ringVars
  <2>3. dma_on' \in BOOLEAN
    BY DEF IInv, TypeOK, DmaSend, DmaSleep
  <2> QED BY <2>1, <2>2, <2>3 DEF IInv, TypeOK, DmaSend, DmaSleep, ringVars
<1>3. EorInv' /\ NothingOutsideWindow' /\ NoFreeUnderDma'
  BY <1>1 DEF IInv, EorInv, NothingOutsideWindow, NoFreeUnderDma
<1>4. RingAccounting' /\ StoppedMeansFull'
  BY <1>1 DEF IInv, RingAccounting, StoppedMeansFull, Offset, DmaSend, DmaSleep
<1>5. SkbHeldOnce'
  BY <1>1 DEF IInv, SkbHeldOnce, DmaSend, DmaSleep
<1>6. XmitInv'
  BY <1>1 DEF IInv, TypeOK, XmitInv, DmaSend, DmaSleep
<1>7. WalkInv'
  BY <1>1 DEF IInv, TypeOK, WalkInv, DmaSend, DmaSleep
<1> QED BY <1>2, <1>3, <1>4, <1>5, <1>6, <1>7 DEF IInv

LEMMA StepPoll ==
  ASSUME IInv, RxIrq \/ PollRx
  PROVE  IInv'
<1> USE DEF ringVars, countVars, stopVars, dmaVars, xmitVars, walkVars, RxIrq, PollRx
<1>1. TypeOK'
  <2>1. napi_sched' \in BOOLEAN
    BY Zenon
  <2>2. due' \in 0 .. NrCpus
    BY TxAssumption DEF IInv, TypeOK
  <2> QED BY <2>1, <2>2 DEF IInv, TypeOK
<1>2. EorInv' /\ NothingOutsideWindow' /\ NoFreeUnderDma' /\ StoppedMeansFull' /\ RingAccounting'
  BY DEF IInv, EorInv, NothingOutsideWindow, NoFreeUnderDma, StoppedMeansFull,
         RingAccounting, Reserved, Offset
<1>3. SkbHeldOnce' /\ XmitInv'
  BY DEF IInv, SkbHeldOnce, XmitInv, Offset
<1>4. WalkInv'
  BY DEF IInv, TypeOK, WalkInv, Offset
<1> QED BY <1>1, <1>2, <1>3, <1>4 DEF IInv

LEMMA StepCompleteStart ==
  ASSUME IInv, CompleteStart
  PROVE  IInv'
<1> USE DEF ringVars, countVars, stopVars, dmaVars, xmitVars, napiVars, CompleteStart
<1>1. TypeOK'
  BY TxAssumption DEF IInv, TypeOK
<1>2. EorInv' /\ NothingOutsideWindow' /\ NoFreeUnderDma' /\ StoppedMeansFull' /\ RingAccounting'
  BY DEF IInv, EorInv, NothingOutsideWindow, NoFreeUnderDma, StoppedMeansFull,
         RingAccounting, Reserved, Offset
<1>3. SkbHeldOnce' /\ XmitInv'
  BY DEF IInv, SkbHeldOnce, XmitInv, Offset
<1>4. WalkInv'
  <2>1. Offset(cindex)' = 0 /\ \A i \in Idx : Offset(i)' \in Nat
    BY DistType DEF IInv, TypeOK, Offset, Dist, Idx
  <2>2. due' >= 1 /\ cused' = num_used' /\ ci' = 0 /\ ci' <= cused'
    BY TxAssumption DEF IInv, TypeOK
  <2> QED BY <2>1, <2>2 DEF WalkInv, Idx
<1> QED BY <1>1, <1>2, <1>3, <1>4 DEF IInv

LEMMA StepCompleteStep ==
  ASSUME IInv, CompleteStep
  PROVE  IInv'
<1> USE DEF countVars, stopVars, dmaVars, xmitVars, napiVars
<1>1. /\ cpc = "walk" /\ cpc' = "walk" /\ cused' = cused /\ cused = num_used /\ num_used' = num_used
      /\ num_used \in 0 .. TX_DESCS - 1 /\ ci \in 0 .. TX_DESCS - 1 /\ ci < num_used /\ ci' = ci + 1
      /\ cindex \in Idx /\ Offset(cindex) = ci /\ cindex' = NextIndex(cindex) /\ cown[cindex]
      /\ free_index \in Idx /\ free_index' = free_index /\ Reserved' = Reserved
      /\ cown' = cown /\ seg' = seg /\ due' = due /\ due >= 1
      /\ \A i \in Idx : buff_tab'[i] = IF i = cindex THEN NULL ELSE buff_tab[i]
      /\ \A s \in Skbs : owner'[s] = IF s = buff_tab[cindex] THEN "stack" ELSE owner[s]
  BY DEF IInv, TypeOK, WalkInv, CompleteStep, WalkOn, Reserved
<1>2. \A i \in Idx : Offset(i)' = Offset(i) /\ Offset(i) \in 0 .. TX_DESCS - 1
  BY <1>1, DistType DEF Offset, Idx
<1>3. cindex' \in Idx /\ Offset(cindex)' = ci + 1
  <2>1. Dist(free_index, cindex) + 1 < TX_DESCS
    BY <1>1, TxAssumption DEF Offset
  <2> QED BY <2>1, <1>1, DistNext DEF Offset
<1>4. ci' \in 0 .. TX_DESCS - 1 /\ ci' <= cused'
  BY <1>1, TxAssumption
<1>5. TypeOK'
  <2>1. buff_tab' \in [Idx -> Skbs \cup {NULL}] /\ owner' \in [Skbs -> {"stack", "driver"}]
    BY DEF IInv, TypeOK, CompleteStep
  <2> QED BY <2>1, <1>1, <1>3, <1>4 DEF IInv, TypeOK, CompleteStep
<1>6. EorInv' /\ RingAccounting' /\ StoppedMeansFull'
  BY <1>1 DEF IInv, EorInv, RingAccounting, StoppedMeansFull, Offset, CompleteStep
<1>7. NothingOutsideWindow'
  BY <1>1, <1>2 DEF IInv, NothingOutsideWindow
<1>8. SkbHeldOnce'
  <2>1. \A i, j \in Idx : buff_tab'[i] # NULL /\ buff_tab'[i] = buff_tab'[j] => i = j
    BY <1>1 DEF IInv, SkbHeldOnce
  <2>2. ASSUME NEW i \in Idx, buff_tab'[i] # NULL PROVE owner'[buff_tab'[i]] = "driver"
    BY <2>2, <1>1 DEF IInv, TypeOK, SkbHeldOnce
  <2>3. \A s \in Skbs : owner'[s] = "driver" =>
          (\E i \in Idx : buff_tab'[i] = s) \/ (xpc' = "fill" /\ xskb' = s)
    BY <1>1, TxAssumption DEF IInv, TypeOK, SkbHeldOnce, CompleteStep
  <2> QED BY <2>1, <2>2, <2>3 DEF SkbHeldOnce
<1>9. NoFreeUnderDma'
  <2> SUFFICES ASSUME NEW i \in Idx, ~cown[i], seg[i].fsd
               PROVE  /\ buff_tab'[i] = seg[i].skb
                      /\ buff_tab'[i] \in Skbs /\ owner'[buff_tab'[i]] = "driver"
    BY <1>1 DEF NoFreeUnderDma
  <2>1. /\ i # cindex /\ buff_tab[i] = seg[i].skb
        /\ buff_tab[i] \in Skbs /\ owner[buff_tab[i]] = "driver"
    BY <1>1 DEF IInv, NoFreeUnderDma
  <2>2. buff_tab[i] # buff_tab[cindex]
    BY <2>1, <1>1, TxAssumption DEF IInv, SkbHeldOnce
  <2> QED BY <2>1, <2>2, <1>1
<1>10. XmitInv'
  <2>1. \A i \in Idx : buff_tab[i] = NULL => buff_tab'[i] = NULL
    BY <1>1
  <2>2. xpc = "reserve" => owner'[xskb] = "stack"
    BY <1>1 DEF IInv, TypeOK, XmitInv
  <2>3. xpc = "fill" => owner'[xskb] = "driver" /\ \A i \in Idx : buff_tab'[i] # xskb
    BY <1>1, TxAssumption DEF IInv, TypeOK, XmitInv
  <2>4. /\ xpc' = xpc /\ xskb' = xskb /\ nr_desc' = nr_desc /\ index0' = index0 /\ index' = index
        /\ index0 \in Idx /\ index \in Idx
    BY DEF IInv, TypeOK, CompleteStep
  <2> QED BY <2>1, <2>2, <2>3, <2>4, <1>1, <1>2 DEF IInv, XmitInv
<1>11. WalkInv'
  <2>1. ASSUME NEW i \in Idx, Offset(i)' < ci' PROVE buff_tab'[i] = NULL /\ cown'[i]
    <3>1. CASE i = cindex
      BY <3>1, <1>1
    <3>2. CASE i # cindex
      <4>1. Offset(i) # ci
        BY <3>2, <1>1, DistInjective DEF Offset
      <4>2. Offset(i) < ci
        BY <4>1, <2>1, <1>1, <1>2
      <4> QED BY <4>2, <3>2, <1>1 DEF IInv, WalkInv
    <3> QED BY <3>1, <3>2
  <2> QED BY <2>1, <1>1, <1>3, <1>4 DEF WalkInv
<1> QED BY <1>5, <1>6, <1>7, <1>8, <1>9, <1>10, <1>11 DEF IInv

LEMMA StepCompleteEnd ==
  ASSUME IInv, CompleteEnd
  PROVE  IInv'
<1> USE DEF ringVars, dmaVars, xmitVars
<1>1. /\ cpc = "walk" /\ cpc' = "idle" /\ due >= 1 /\ due \in 0 .. NrCpus /\ due' = due - 1
      /\ num_used \in 0 .. TX_DESCS - 1 /\ ci \in 0 .. TX_DESCS - 1 /\ ci <= num_used
      /\ num_used' = num_used - ci /\ free_index' = cindex /\ cindex \in Idx
      /\ free_index \in Idx /\ Dist(free_index, cindex) = ci /\ Reserved' = Reserved
      /\ cur_index \in Idx /\ cur_index' = cur_index
      /\ cown' = cown /\ buff_tab' = buff_tab
  BY DEF IInv, TypeOK, WalkInv, CompleteEnd, Reserved, Offset
<1>2. num_used' \in 0 .. TX_DESCS - 1 /\ due' \in 0 .. NrCpus /\ Reserved \in 0 .. TX_DESCS
  BY <1>1, TxAssumption DEF IInv, TypeOK, Reserved
<1>3. \A i \in Idx : /\ Offset(i) \in 0 .. TX_DESCS - 1
                     /\ Offset(i)' = IF Offset(i) >= ci THEN Offset(i) - ci
                                     ELSE Offset(i) - ci + TX_DESCS
  BY <1>1, DistType, DistShift DEF Offset, Idx
<1>4. stopped' \in BOOLEAN /\ queue_stopped' = stopped'
      /\ stopped' = (num_used' >= TX_DESCS - TX_DESC_RESERVE)
  <2>1. stopped' = (num_used - ci >= TX_DESCS - TX_DESC_RESERVE)
    BY DEF CompleteEnd, CheckNumUsed
  <2>2. (num_used - ci >= TX_DESCS - TX_DESC_RESERVE) \in BOOLEAN
    OBVIOUS
  <2>3. queue_stopped' = stopped'
    BY <2>1 DEF IInv, StoppedMeansFull, CompleteEnd, CheckNumUsed
  <2> QED BY <2>1, <2>2, <2>3, <1>1
<1>5. TypeOK'
  <2>1. 0 \in Idx /\ 0 \in 0 .. TX_DESCS - 1
    BY TxAssumption DEF Idx
  <2> QED BY <2>1, <1>1, <1>2, <1>4 DEF IInv, TypeOK, CompleteEnd
<1>6. EorInv' /\ NoFreeUnderDma' /\ SkbHeldOnce'
  BY DEF IInv, EorInv, NoFreeUnderDma, SkbHeldOnce, CompleteEnd
<1>7. RingAccounting'
  <2>1. num_used + Reserved < TX_DESCS /\ Offset(cur_index) = num_used + Reserved
    BY DEF IInv, RingAccounting
  <2>2. Offset(cur_index)' = num_used + Reserved - ci
    BY <2>1, <1>1, <1>2, <1>3
  <2> QED BY <2>1, <2>2, <1>1, <1>2, TxAssumption DEF RingAccounting
<1>8. NothingOutsideWindow'
  <2> SUFFICES ASSUME NEW i \in Idx, Offset(i)' >= num_used' + Reserved'
               PROVE  cown[i] /\ buff_tab[i] = NULL
    BY <1>1 DEF NothingOutsideWindow
  <2>1. CASE Offset(i) >= ci
    <3>1. Offset(i) >= num_used + Reserved
      BY <2>1, <1>1, <1>2, <1>3
    <3> QED BY <3>1 DEF IInv, NothingOutsideWindow
  <2>2. CASE Offset(i) < ci
    BY <2>2, <1>1 DEF IInv, WalkInv
  <2> QED BY <2>1, <2>2, <1>1, <1>3
<1>9. StoppedMeansFull'
  BY <1>4 DEF StoppedMeansFull
<1>10. XmitInv'
  <2>1. /\ xpc' = xpc /\ xskb' = xskb /\ nr_desc' = nr_desc /\ index0' = index0 /\ index' = index
        /\ index0 \in Idx /\ index \in Idx /\ owner' = owner /\ nr_desc \in Int
    BY DEF IInv, TypeOK, CompleteEnd
  <2>2. ASSUME xpc \in {"fill", "commit"} PROVE Offset(index0)' = num_used'
    BY <2>2, <2>1, <1>1, <1>3 DEF IInv, XmitInv
  <2>3. ASSUME xpc = "fill"
        PROVE  /\ Offset(index)' = Offset(index) - ci
               /\ Offset(index)' \in num_used' .. num_used' + nr_desc'
               /\ \A i \in Idx : /\ Offset(i)' > Offset(index)' => cown[i]
                                 /\ Offset(i)' >= num_used' => buff_tab[i] = NULL
    <3>1. Offset(index) \in num_used .. num_used + nr_desc
      BY <2>3 DEF IInv, XmitInv
    <3>2. Offset(index)' = Offset(index) - ci /\ Offset(index)' \in num_used' .. num_used' + nr_desc'
      BY <3>1, <2>1, <1>1, <1>3
    <3>3. ASSUME NEW i \in Idx
          PROVE  /\ Offset(i)' > Offset(index)' => cown[i]
                 /\ Offset(i)' >= num_used' => buff_tab[i] = NULL
      <4>1. CASE Offset(i) >= ci
        <5>1. Offset(i)' = Offset(i) - ci
          BY <4>1, <1>3
        <5>2. Offset(i)' > Offset(index)' => Offset(i) > Offset(index)
          BY <5>1, <3>2, <2>1, <1>1, <1>3
        <5>3. Offset(i)' >= num_used' => Offset(i) >= num_used
          BY <5>1, <1>1, <1>3
        <5> QED BY <5>2, <5>3, <2>3 DEF IInv, XmitInv
      <4>2. CASE Offset(i) < ci
        BY <4>2, <1>1 DEF IInv, WalkInv
      <4> QED BY <4>1, <4>2, <1>1, <1>3
    <3> QED BY <3>2, <3>3
  <2> QED BY <2>1, <2>2, <2>3, <1>1 DEF IInv, XmitInv
<1>11. WalkInv'
  BY <1>1 DEF WalkInv
<1> QED BY <1>5, <1>6, <1>7, <1>8, <1>9, <1>10, <1>11 DEF IInv

-----------------------------------------------------------------------------
(* Whole frames                                                              *)

(* The window up to which frames are whole: eth_xmit's frame is one as soon  *)
(* as its head is written.                                                   *)
Given == num_used + IF xpc = "commit" THEN nr_desc + 1 ELSE 0

(* The engine has sent all before dma_ptr, and owns all from there on.       *)
DmaInv ==
  /\ Offset(dma_ptr) <= Given
  /\ \A i \in Idx : ~cown[i] => Offset(i) >= Offset(dma_ptr)
  /\ \A i \in Idx : Offset(dma_ptr) <= Offset(i) /\ Offset(i) < Given => ~cown[i]

(* Descriptor d is the engine's, and is part k of 0 .. n of the frame of s.  *)
IsPart(d, s, k, n) ==
  ~cown[d] /\ seg[d].skb = s /\ (seg[d].fsd <=> k = 0) /\ (seg[d].lsd <=> k = n)

(* The fragments that eth_xmit has written so far.                           *)
FillInv ==
  xpc = "fill" =>
    \A k \in 1 .. Offset(index) - num_used : IsPart(Wrap(index0 + k), xskb, k, nr_desc)

FramesInv ==
  \A h \in Idx : ~cown[h] /\ seg[h].fsd =>
    \E n \in 0 .. MaxFrags :
      /\ Offset(h) + n < Given
      /\ \A k \in 0 .. n : IsPart(Wrap(h + k), seg[h].skb, k, n)

FrameInv == DmaInv /\ FillInv /\ FramesInv

LEMMA GivenType ==
  ASSUME IInv
  PROVE  /\ Given \in 0 .. TX_DESCS - 1 /\ Given <= num_used + Reserved
         /\ xpc # "fill" => Given = num_used + Reserved
         /\ num_used \in 0 .. TX_DESCS - 1 /\ nr_desc \in 0 .. TX_DESCS - 1
         /\ \A i \in Idx : Offset(i) \in 0 .. TX_DESCS - 1
<1>1. /\ num_used \in 0 .. TX_DESCS - 1 /\ nr_desc \in 0 .. TX_DESCS - 1 /\ free_index \in Idx
      /\ num_used + Reserved < TX_DESCS
  BY TxAssumption DEF IInv, TypeOK, RingAccounting
<1>2. Given <= num_used + Reserved /\ (xpc # "fill" => Given = num_used + Reserved) /\ Given >= 0
  BY <1>1 DEF Given, Reserved
<1>3. \A i \in Idx : Offset(i) \in 0 .. TX_DESCS - 1
  BY <1>1, DistType DEF Offset, Idx
<1>4. Given \in Int /\ Reserved \in Int
  BY <1>1 DEF Given, Reserved
<1> QED BY <1>1, <1>2, <1>3, <1>4, TxAssumption

(* Part k of a frame is k slots behind its head.                             *)
LEMMA PartAt ==
  ASSUME IInv, NEW h \in Idx, NEW n \in Nat, Offset(h) + n < TX_DESCS, NEW k \in 0 .. n
  PROVE  Wrap(h + k) \in Idx /\ Offset(Wrap(h + k)) = Offset(h) + k
<1>1. Offset(h) \in 0 .. TX_DESCS - 1 /\ free_index \in Idx
  BY GivenType DEF IInv, TypeOK
<1>2. k \in 0 .. TX_DESCS - 1 /\ Offset(h) + k < TX_DESCS
  BY <1>1, TxAssumption
<1> QED BY <1>1, <1>2, DistWrap DEF Offset

LEMMA FramesKept ==
  ASSUME FrameInv, UNCHANGED <<cown, seg, dma_ptr, free_index>>, Given' = Given, FillInv'
  PROVE  FrameInv'
<1>1. \A i \in Idx : Offset(i)' = Offset(i)
  BY DEF Offset
<1>2. Offset(dma_ptr)' = Offset(dma_ptr)
  BY DEF Offset
<1>3. DmaInv'
  BY <1>1, <1>2 DEF FrameInv, DmaInv
<1>4. FramesInv'
  BY <1>1 DEF FrameInv, FramesInv, IsPart
<1> QED BY <1>3, <1>4 DEF FrameInv

LEMMA FramesXmitFrag ==
  ASSUME IInv, FrameInv, XmitFrag
  PROVE  FrameInv'
<1> USE DEF countVars, stopVars, dmaVars, napiVars, walkVars
<1> DEFINE d == Wrap(index + 1)
<1>1. /\ xpc = "fill" /\ xpc' = "fill" /\ xskb' = xskb
      /\ nr_desc \in 0 .. TX_DESCS - 1 /\ nr_desc' = nr_desc
      /\ num_used \in 0 .. TX_DESCS - 1 /\ num_used' = num_used
      /\ num_used + nr_desc + 1 < TX_DESCS
      /\ free_index \in Idx /\ free_index' = free_index
      /\ index0 \in Idx /\ index0' = index0 /\ Offset(index0) = num_used
      /\ index \in Idx /\ index' = d /\ dma_ptr \in Idx /\ dma_ptr' = dma_ptr
      /\ Offset(index) \in num_used .. num_used + nr_desc
  BY TxAssumption DEF IInv, TypeOK, XmitFrag, XmitInv, RingAccounting, Reserved
<1>2. /\ \A i \in Idx : Offset(i)' = Offset(i) /\ Offset(i) \in 0 .. TX_DESCS - 1
      /\ Offset(dma_ptr)' = Offset(dma_ptr) /\ Given = num_used /\ Given' = Given
  BY <1>1, GivenType DEF Offset, Given
<1>3. /\ Wrap(index0 + nr_desc) \in Idx /\ Offset(Wrap(index0 + nr_desc)) = num_used + nr_desc
      /\ Offset(index) < num_used + nr_desc
  <2>1. /\ Wrap(index0 + nr_desc) \in Idx
        /\ Offset(Wrap(index0 + nr_desc)) = num_used + nr_desc
    BY <1>1, DistWrap, TxAssumption DEF Offset
  <2>2. Offset(index) # num_used + nr_desc
    BY <1>1, <2>1, DistInjective DEF Offset, XmitFrag, AllFragsSet
  <2> QED BY <1>1, <2>1, <2>2, TxAssumption
<1>4. d \in Idx /\ Offset(d) = Offset(index) + 1
  BY <1>1, <1>3, DistWrap, TxAssumption DEF Offset
<1>5. cown[d]
  BY <1>1, <1>2, <1>4 DEF IInv, XmitInv
<1> DEFINE e == [skb |-> xskb, fsd |-> FALSE, lsd |-> d = Wrap(index0 + nr_desc),
                 eor |-> d = TX_DESCS - 1]
<1>6. seg' = [seg EXCEPT ![d] = e] /\ cown' = [cown EXCEPT ![d] = FALSE]
  BY DEF XmitFrag, SetDesc
<1>7. e.skb = xskb /\ ~e.fsd /\ (e.lsd <=> d = Wrap(index0 + nr_desc))
  BY Zenon
<1> HIDE DEF d, e
<1>8. /\ ~cown'[d] /\ seg'[d] = e
      /\ \A i \in Idx : i # d => cown'[i] = cown[i] /\ seg'[i] = seg[i]
  BY <1>4, <1>6 DEF IInv, TypeOK
<1>9. DmaInv'
  BY <1>1, <1>2, <1>4, <1>8 DEF FrameInv, DmaInv
<1>10. FillInv'
  <2> SUFFICES ASSUME NEW k \in 1 .. Offset(index) + 1 - num_used
               PROVE  IsPart(Wrap(index0 + k), xskb, k, nr_desc)'
    BY <1>1, <1>2, <1>4 DEF FillInv
  <2>1. Wrap(index0 + k) \in Idx /\ Offset(Wrap(index0 + k)) = num_used + k /\ k # 0
    BY <1>1, <1>3, DistWrap, TxAssumption DEF Offset
  <2>2. CASE k <= Offset(index) - num_used
    <3>1. IsPart(Wrap(index0 + k), xskb, k, nr_desc)
      BY <2>2, <1>1 DEF FrameInv, FillInv
    <3>2. Wrap(index0 + k) # d
      BY <3>1, <1>5 DEF IsPart
    <3> QED BY <1>1, <1>8, <2>1, <3>1, <3>2 DEF IsPart
  <2>3. CASE k = Offset(index) + 1 - num_used
    <3>1. Offset(Wrap(index0 + k)) = Offset(d)
      BY <2>1, <2>3, <1>1, <1>4
    <3>2. Wrap(index0 + k) = d
      BY <3>1, <2>1, <1>1, <1>4, DistInjective DEF Offset
    <3>3. d = Wrap(index0 + nr_desc) <=> k = nr_desc
      <4>1. Offset(d) = num_used + k
        BY <2>1, <3>2
      <4>2. d = Wrap(index0 + nr_desc) => k = nr_desc
        BY <4>1, <1>1, <1>3
      <4> QED BY <3>2, <4>2
    <3> QED BY <1>1, <1>7, <1>8, <2>1, <3>2, <3>3 DEF IsPart
  <2> QED BY <2>2, <2>3, <1>1
<1>11. FramesInv'
  <2> SUFFICES ASSUME NEW h \in Idx, ~cown'[h], seg'[h].fsd
               PROVE  \E n \in 0 .. MaxFrags :
                        /\ Offset(h)' + n < Given'
                        /\ \A k \in 0 .. n : IsPart(Wrap(h + k), seg[h].skb, k, n)'
    BY DEF FramesInv
  <2>1. h # d /\ ~cown[h] /\ seg[h].fsd /\ seg'[h] = seg[h]
    BY <1>7, <1>8
  <2>2. PICK n \in 0 .. MaxFrags :
          Offset(h) + n < Given /\ \A k \in 0 .. n : IsPart(Wrap(h + k), seg[h].skb, k, n)
    BY <2>1 DEF FrameInv, FramesInv
  <2>3. ASSUME NEW k \in 0 .. n PROVE IsPart(Wrap(h + k), seg[h].skb, k, n)'
    <3>1. Wrap(h + k) \in Idx
      BY <2>2, PartAt, GivenType, TxAssumption
    <3>2. IsPart(Wrap(h + k), seg[h].skb, k, n) /\ Wrap(h + k) # d
      BY <2>2, <1>5 DEF IsPart
    <3> QED BY <1>8, <2>1, <3>1, <3>2 DEF IsPart
  <2> QED BY <1>2, <2>2, <2>3
<1> QED BY <1>9, <1>10, <1>11 DEF FrameInv

LEMMA FramesXmitHead ==
  ASSUME IInv, FrameInv, XmitHead
  PROVE  FrameInv'
<1> USE DEF countVars, stopVars, dmaVars, napiVars, walkVars
<1>1. /\ xpc = "fill" /\ xpc' = "commit" /\ xskb' = xskb
      /\ nr_desc \in 0 .. TX_DESCS - 1 /\ nr_desc \in 0 .. MaxFrags /\ nr_desc' = nr_desc
      /\ num_used \in 0 .. TX_DESCS - 1 /\ num_used' = num_used
      /\ num_used + nr_desc + 1 < TX_DESCS
      /\ free_index \in Idx /\ free_index' = free_index
      /\ index0 \in Idx /\ index0' = index0 /\ Offset(index0) = num_used /\ cown[index0]
      /\ dma_ptr \in Idx /\ dma_ptr' = dma_ptr /\ index = Wrap(index0 + nr_desc)
  BY TxAssumption DEF IInv, TypeOK, XmitHead, XmitInv, RingAccounting, Reserved, AllFragsSet
<1>2. /\ \A i \in Idx : Offset(i)' = Offset(i) /\ Offset(i) \in 0 .. TX_DESCS - 1
      /\ Offset(dma_ptr)' = Offset(dma_ptr)
      /\ Given = num_used /\ Given' = num_used + nr_desc + 1
  BY <1>1, GivenType DEF Offset, Given
<1>3. \A k \in 0 .. nr_desc : Wrap(index0 + k) \in Idx /\ Offset(Wrap(index0 + k)) = num_used + k
  BY <1>1, DistWrap, TxAssumption DEF Offset
<1>4. \A k \in 1 .. nr_desc : IsPart(Wrap(index0 + k), xskb, k, nr_desc)
  <2>1. Offset(index) - num_used = nr_desc
    BY <1>1, <1>3
  <2> QED BY <1>1, <2>1 DEF FrameInv, FillInv
<1>5. Wrap(index0 + 0) = index0
  BY <1>1, WrapSmall DEF Idx
<1> DEFINE e == [skb |-> xskb, fsd |-> TRUE, lsd |-> index0 = Wrap(index0 + nr_desc),
                 eor |-> index0 = TX_DESCS - 1]
<1>6. seg' = [seg EXCEPT ![index0] = e] /\ cown' = [cown EXCEPT ![index0] = FALSE]
  BY DEF XmitHead, SetDesc
<1>7. e.skb = xskb /\ e.fsd /\ (e.lsd <=> index0 = Wrap(index0 + nr_desc))
  BY Zenon
<1> HIDE DEF e
<1>8. /\ ~cown'[index0] /\ seg'[index0] = e
      /\ \A i \in Idx : i # index0 => cown'[i] = cown[i] /\ seg'[i] = seg[i]
  BY <1>1, <1>6 DEF IInv, TypeOK
<1>9. index0 = Wrap(index0 + nr_desc) <=> 0 = nr_desc
  BY <1>1, <1>3, <1>5
<1>10. DmaInv'
  <2>1. Offset(dma_ptr)' <= Given' /\ \A i \in Idx : ~cown'[i] => Offset(i)' >= Offset(dma_ptr)'
    BY <1>1, <1>2, <1>8 DEF FrameInv, DmaInv
  <2>2. ASSUME NEW i \in Idx, Offset(dma_ptr) <= Offset(i), Offset(i) < Given' PROVE ~cown'[i]
    <3>1. CASE Offset(i) < num_used
      BY <3>1, <2>2, <1>1, <1>2, <1>8 DEF FrameInv, DmaInv
    <3>2. CASE Offset(i) >= num_used
      <4>1. PICK k \in 0 .. nr_desc : Offset(i) = num_used + k
        <5>1. Offset(i) - num_used \in 0 .. nr_desc
          BY <3>2, <2>2, <1>1, <1>2
        <5> QED BY <5>1, <1>1, <1>2
      <4>2. i = Wrap(index0 + k)
        BY <4>1, <1>1, <1>3, DistInjective DEF Offset
      <4>3. CASE k = 0
        BY <4>2, <4>3, <1>5, <1>8
      <4>4. CASE k # 0
        <5>1. k \in 1 .. nr_desc
          BY <4>4
        <5> QED BY <5>1, <4>2, <1>4, <1>8 DEF IsPart
      <4> QED BY <4>3, <4>4
    <3> QED BY <3>1, <3>2, <1>1, <1>2
  <2> QED BY <2>1, <2>2, <1>2 DEF DmaInv
<1>11. FillInv'
  BY <1>1 DEF FillInv
<1>12. FramesInv'
  <2> SUFFICES ASSUME NEW h \in Idx, ~cown'[h], seg'[h].fsd
               PROVE  \E n \in 0 .. MaxFrags :
                        /\ Offset(h)' + n < Given'
                        /\ \A k \in 0 .. n : IsPart(Wrap(h + k), seg[h].skb, k, n)'
    BY DEF FramesInv
  <2>1. CASE h = index0
    <3>1. ASSUME NEW k \in 0 .. nr_desc PROVE IsPart(Wrap(h + k), seg[h].skb, k, nr_desc)'
      <4>1. CASE k = 0
        BY <4>1, <2>1, <1>1, <1>5, <1>7, <1>8, <1>9 DEF IsPart
      <4>2. CASE k # 0
        <5>1. k \in 1 .. nr_desc
          BY <4>2
        <5>2. IsPart(Wrap(h + k), xskb, k, nr_desc) /\ Wrap(h + k) \in Idx
          BY <5>1, <2>1, <1>3, <1>4
        <5>3. Wrap(h + k) # index0
          BY <5>1, <2>1, <1>1, <1>3
        <5> QED BY <5>2, <5>3, <2>1, <1>1, <1>7, <1>8 DEF IsPart
      <4> QED BY <4>1, <4>2
    <3> QED BY <3>1, <2>1, <1>1, <1>2
  <2>2. CASE h # index0
    <3>1. ~cown[h] /\ seg[h].fsd /\ seg'[h] = seg[h]
      BY <2>2, <1>8
    <3>2. PICK n \in 0 .. MaxFrags :
            Offset(h) + n < Given /\ \A k \in 0 .. n : IsPart(Wrap(h + k), seg[h].skb, k, n)
      BY <3>1 DEF FrameInv, FramesInv
    <3>3. ASSUME NEW k \in 0 .. n PROVE IsPart(Wrap(h + k), seg[h].skb, k, n)'
      <4>1. Wrap(h + k) \in Idx
        BY <3>2, PartAt, GivenType, TxAssumption
      <4>2. IsPart(Wrap(h + k), seg[h].skb, k, n) /\ Wrap(h + k) # index0
        BY <3>2, <1>1 DEF IsPart
      <4> QED BY <1>8, <3>1, <4>1, <4>2 DEF IsPart
    <3>4. Offset(h)' + n < Given'
      BY <3>2, <1>1, <1>2, TxAssumption
    <3> QED BY <3>3, <3>4
  <2> QED BY <2>1, <2>2
<1> QED BY <1>10, <1>11, <1>12 DEF FrameInv

(* The engine sends in order, so that what it gives back is the head of a    *)
(* frame or belongs to one whose head it gave back before.                   *)
LEMMA FramesDmaSend ==
  ASSUME IInv, FrameInv, DmaSend
  PROVE  FrameInv'
<1> USE DEF ringVars, countVars, stopVars, xmitVars, napiVars, walkVars
<1>1. /\ ~cown[dma_ptr] /\ dma_ptr \in Idx /\ cown' = [cown EXCEPT ![dma_ptr] = TRUE]
      /\ dma_ptr' = IF seg[dma_ptr].eor THEN 0 ELSE dma_ptr + 1
      /\ UNCHANGED <<seg, free_index, num_used, xpc, nr_desc, xskb, index0, index>>
      /\ free_index \in Idx /\ index0 \in Idx /\ index \in Idx
  BY DEF IInv, TypeOK, DmaSend
<1>2. /\ \A i \in Idx : Offset(i)' = Offset(i) /\ Offset(i) \in 0 .. TX_DESCS - 1
      /\ Given' = Given /\ Given \in 0 .. TX_DESCS - 1
  BY <1>1, GivenType DEF Offset, Given
<1>3. Offset(dma_ptr) < Given
  <2>1. CASE xpc = "fill"
    <3>1. Given = num_used /\ Offset(index0) = num_used /\ cown[index0]
      BY <2>1 DEF Given, IInv, XmitInv, TypeOK
    <3>2. Offset(dma_ptr) # num_used
      BY <3>1, <1>1, DistInjective DEF Offset
    <3> QED BY <3>1, <3>2, <1>1, <1>2 DEF FrameInv, DmaInv
  <2>2. CASE xpc # "fill"
    <3>1. Given = num_used + Reserved
      BY <2>2, GivenType
    <3>2. ~(Offset(dma_ptr) >= num_used + Reserved)
      BY <1>1 DEF IInv, NothingOutsideWindow
    <3> QED BY <3>1, <3>2, <1>1, <1>2
  <2> QED BY <2>1, <2>2
<1>4. dma_ptr' \in Idx /\ Offset(dma_ptr)' = Offset(dma_ptr) + 1
  <2>1. dma_ptr' = NextIndex(dma_ptr)
    BY <1>1 DEF IInv, EorInv, NextIndex
  <2>2. Dist(free_index, dma_ptr) + 1 < TX_DESCS
    BY <1>1, <1>2, <1>3, TxAssumption DEF Offset
  <2> QED BY <1>1, <2>1, <2>2, DistNext DEF Offset
<1>5. \A i \in Idx : cown'[i] = IF i = dma_ptr THEN TRUE ELSE cown[i]
  BY <1>1 DEF IInv, TypeOK
<1>6. \A i \in Idx : i # dma_ptr => Offset(i) # Offset(dma_ptr)
  BY <1>1, DistInjective DEF Offset
<1>7. DmaInv'
  <2>1. Offset(dma_ptr)' <= Given'
    BY <1>1, <1>2, <1>3, <1>4
  <2>2. ASSUME NEW i \in Idx, ~cown'[i] PROVE Offset(i)' >= Offset(dma_ptr)'
    <3>1. i # dma_ptr /\ ~cown[i]
      BY <2>2, <1>5
    <3>2. Offset(i) >= Offset(dma_ptr)
      BY <3>1 DEF FrameInv, DmaInv
    <3> QED BY <3>1, <3>2, <1>1, <1>2, <1>4, <1>6
  <2>3. ASSUME NEW i \in Idx, Offset(dma_ptr)' <= Offset(i)', Offset(i)' < Given' PROVE ~cown'[i]
    <3>1. i # dma_ptr /\ Offset(dma_ptr) <= Offset(i) /\ Offset(i) < Given
      BY <2>3, <1>1, <1>2, <1>4
    <3> QED BY <3>1, <1>5 DEF FrameInv, DmaInv
  <2> QED BY <2>1, <2>2, <2>3 DEF DmaInv
<1>8. FillInv'
  <2> SUFFICES ASSUME xpc = "fill", NEW k \in 1 .. Offset(index) - num_used
               PROVE  IsPart(Wrap(index0 + k), xskb, k, nr_desc)'
    BY <1>1, <1>2 DEF FillInv, Offset
  <2>1. /\ Offset(index0) = num_used /\ Offset(index) \in num_used .. num_used + nr_desc
        /\ num_used \in 0 .. TX_DESCS - 1 /\ nr_desc \in 0 .. TX_DESCS - 1
        /\ num_used + nr_desc + 1 < TX_DESCS /\ Given = num_used
    BY TxAssumption DEF IInv, TypeOK, XmitInv, RingAccounting, Reserved, Given
  <2>2. Wrap(index0 + k) \in Idx /\ Offset(Wrap(index0 + k)) = num_used + k
    BY <1>1, <2>1, DistWrap, TxAssumption DEF Offset
  <2>3. Wrap(index0 + k) # dma_ptr
    BY <1>1, <1>2, <1>3, <2>1, <2>2
  <2>4. IsPart(Wrap(index0 + k), xskb, k, nr_desc)
    BY DEF FrameInv, FillInv
  <2> QED BY <1>1, <1>5, <2>2, <2>3, <2>4 DEF IsPart
<1>9. FramesInv'
  <2> SUFFICES ASSUME NEW h \in Idx, ~cown'[h], seg[h].fsd
               PROVE  \E n \in 0 .. MaxFrags :
                        /\ Offset(h)' + n < Given'
                        /\ \A k \in 0 .. n : IsPart(Wrap(h + k), seg[h].skb, k, n)'
    BY <1>1 DEF FramesInv
  <2>1. h # dma_ptr /\ ~cown[h]
    BY <1>5
  <2>2. Offset(h) > Offset(dma_ptr)
    BY <2>1, <1>1, <1>2, <1>6 DEF FrameInv, DmaInv
  <2>3. PICK n \in 0 .. MaxFrags :
          Offset(h) + n < Given /\ \A k \in 0 .. n : IsPart(Wrap(h + k), seg[h].skb, k, n)
    BY <2>1 DEF FrameInv, FramesInv
  <2>4. ASSUME NEW k \in 0 .. n PROVE IsPart(Wrap(h + k), seg[h].skb, k, n)'
    <3>1. Wrap(h + k) \in Idx /\ Offset(Wrap(h + k)) = Offset(h) + k
      <4>1. n \in Nat /\ Offset(h) + n < TX_DESCS
        BY <2>3, <1>2, TxAssumption
      <4> QED BY <4>1, PartAt
    <3>2. Wrap(h + k) # dma_ptr
      BY <1>1, <1>2, <2>2, <3>1
    <3>3. IsPart(Wrap(h + k), seg[h].skb, k, n)
      BY <2>3
    <3> QED BY <1>1, <1>5, <3>1, <3>2, <3>3 DEF IsPart
  <2> QED BY <1>2, <2>3, <2>4
<1> QED BY <1>7, <1>8, <1>9 DEF FrameInv

LEMMA FramesCompleteEnd ==
  ASSUME IInv, FrameInv, CompleteEnd
  PROVE  FrameInv'
<1> USE DEF ringVars, dmaVars, xmitVars
<1>1. /\ cpc = "walk" /\ num_used \in 0 .. TX_DESCS - 1 /\ ci \in 0 .. TX_DESCS - 1
      /\ ci <= num_used /\ num_used' = num_used - ci /\ free_index' = cindex /\ cindex \in Idx
      /\ free_index \in Idx /\ Dist(free_index, cindex) = ci
      /\ UNCHANGED <<cown, seg, dma_ptr, xpc, xskb, nr_desc, index0, index>>
      /\ dma_ptr \in Idx /\ index0 \in Idx /\ index \in Idx
      /\ \A i \in Idx : Offset(i) < ci => cown[i]
  BY DEF IInv, TypeOK, WalkInv, CompleteEnd, Offset
<1>2. \A i \in Idx : /\ Offset(i) \in 0 .. TX_DESCS - 1
                     /\ Offset(i)' = IF Offset(i) >= ci THEN Offset(i) - ci
                                     ELSE Offset(i) - ci + TX_DESCS
  BY <1>1, DistType, DistShift DEF Offset, Idx
<1>3. Given' = Given - ci /\ Given \in 0 .. TX_DESCS - 1 /\ Given >= num_used
  BY <1>1, GivenType DEF Given
<1>4. Offset(dma_ptr) >= ci
  <2> SUFFICES ASSUME Offset(dma_ptr) < ci PROVE FALSE
    BY <1>1, <1>2
  <2>1. cown[dma_ptr] /\ Offset(dma_ptr) < Given
    BY <1>1, <1>2, <1>3
  <2> QED BY <2>1, <1>1, <1>2 DEF FrameInv, DmaInv
<1>5. Offset(dma_ptr)' = Offset(dma_ptr) - ci
  BY <1>1, <1>2, <1>4 DEF Offset
<1>6. \A i \in Idx : ~cown[i] => Offset(i) >= ci /\ Offset(i)' = Offset(i) - ci
  BY <1>1, <1>2
<1>7. DmaInv'
  <2>1. Offset(dma_ptr)' <= Given'
    BY <1>1, <1>2, <1>3, <1>5 DEF FrameInv, DmaInv
  <2>2. ASSUME NEW i \in Idx, ~cown[i] PROVE Offset(i)' >= Offset(dma_ptr)'
    BY <2>2, <1>1, <1>2, <1>5, <1>6 DEF FrameInv, DmaInv
  <2>3. ASSUME NEW i \in Idx, Offset(dma_ptr)' <= Offset(i)', Offset(i)' < Given' PROVE ~cown[i]
    <3>1. Offset(i) >= ci
      <4> SUFFICES ASSUME Offset(i) < ci PROVE FALSE
        BY <1>1, <1>2
      <4>1. Offset(i)' = Offset(i) - ci + TX_DESCS /\ Offset(i) \in Nat /\ ci \in Nat
        BY <1>1, <1>2, TxAssumption
      <4>2. Given' = Given - ci /\ Given \in Nat /\ Given < TX_DESCS /\ TX_DESCS \in Nat
        BY <1>3, TxAssumption
      <4> HIDE DEF Given
      <4>3. Offset(i)' < Given'
        BY <2>3
      <4> QED BY <4>1, <4>2, <4>3
    <3>2. Offset(dma_ptr) <= Offset(i) /\ Offset(i) < Given
      BY <3>1, <2>3, <1>1, <1>2, <1>3, <1>5
    <3> QED BY <3>2 DEF FrameInv, DmaInv
  <2> QED BY <2>1, <2>2, <2>3, <1>1 DEF DmaInv
<1>8. FillInv'
  <2> SUFFICES ASSUME xpc = "fill" PROVE FillInv'
    BY <1>1 DEF FillInv
  <2>1. Offset(index) >= num_used
    BY <1>1, <1>2 DEF IInv, XmitInv
  <2>2. Offset(index)' = Offset(index) - ci
    BY <2>1, <1>1, <1>2 DEF Offset
  <2>3. Offset(index)' - num_used' = Offset(index) - num_used
    BY <2>2, <1>1, <1>2
  <2> QED BY <2>3, <1>1 DEF FrameInv, FillInv, IsPart
<1>9. FramesInv'
  <2> SUFFICES ASSUME NEW h \in Idx, ~cown[h], seg[h].fsd
               PROVE  \E n \in 0 .. MaxFrags :
                        /\ Offset(h)' + n < Given'
                        /\ \A k \in 0 .. n : IsPart(Wrap(h + k), seg[h].skb, k, n)'
    BY <1>1 DEF FramesInv
  <2>1. PICK n \in 0 .. MaxFrags :
          Offset(h) + n < Given /\ \A k \in 0 .. n : IsPart(Wrap(h + k), seg[h].skb, k, n)
    BY DEF FrameInv, FramesInv
  <2>2. Offset(h)' + n < Given'
    BY <2>1, <1>1, <1>2, <1>3, <1>6, TxAssumption
  <2>3. \A k \in 0 .. n : IsPart(Wrap(h + k), seg[h].skb, k, n)'
    BY <2>1, <1>1 DEF IsPart
  <2> QED BY <2>2, <2>3
<1> QED BY <1>7, <1>8, <1>9 DEF FrameInv

LEMMA FramesStep ==
  ASSUME IInv, FrameInv, [Next]_vars
  PROVE  FrameInv'
<1> USE DEF ringVars, countVars, stopVars, dmaVars, xmitVars, napiVars, walkVars
<1>1. CASE XmitFrag
  BY <1>1, FramesXmitFrag
<1>2. CASE XmitHead
  BY <1>2, FramesXmitHead
<1>3. CASE DmaSend
  BY <1>3, FramesDmaSend
<1>4. CASE CompleteEnd
  BY <1>4, FramesCompleteEnd
<1>5. CASE XmitReserve
  <2>1. /\ xpc' = "fill" /\ UNCHANGED <<cown, seg, dma_ptr, free_index, num_used>>
        /\ xpc = "reserve" /\ index' = cur_index /\ num_used \in Nat
        /\ Offset(cur_index) = num_used
    BY <1>5 DEF XmitReserve, IInv, TypeOK, RingAccounting, Reserved
  <2>2. Given' = Given
    BY <2>1 DEF Given
  <2>3. Offset(index)' - num_used' = 0
    BY <2>1 DEF Offset
  <2>4. FillInv'
    BY <2>3 DEF FillInv
  <2> QED BY <2>1, <2>2, <2>4, FramesKept
<1>6. CASE XmitCommit
  <2>1. /\ xpc = "commit" /\ xpc' = "kick" /\ num_used' = num_used + (nr_desc + 1)
        /\ UNCHANGED <<cown, seg, dma_ptr, free_index>>
    BY <1>6 DEF XmitCommit
  <2>2. Given' = Given
    BY <2>1, GivenType DEF Given
  <2> QED BY <2>1, <2>2, FramesKept DEF FillInv
<1>7. CASE XmitBusy \/ XmitKick \/ \E s \in Skbs, n \in 0 .. MaxFrags : XmitStart(s, n)
  <2>1. /\ xpc \notin {"fill", "commit"} /\ xpc' \notin {"fill", "commit"}
        /\ UNCHANGED <<cown, seg, dma_ptr, free_index, num_used>>
    BY <1>7 DEF XmitBusy, XmitKick, XmitStart, XmitReturn
  <2>2. Given' = Given /\ FillInv'
    BY <2>1 DEF Given, FillInv
  <2> QED BY <2>1, <2>2, FramesKept
<1>8. CASE DmaSleep \/ RxIrq \/ PollRx \/ CompleteStart \/ CompleteStep \/ UNCHANGED vars
  <2>1. UNCHANGED <<cown, seg, dma_ptr, free_index, num_used, xmitVars>>
    BY <1>8 DEF DmaSleep, RxIrq, PollRx, CompleteStart, CompleteStep, vars
  <2>2. Given' = Given
    BY <2>1 DEF Given
  <2>3. FillInv'
    BY <2>1 DEF FrameInv, FillInv, IsPart, Offset
  <2> QED BY <2>1, <2>2, <2>3, FramesKept
<1> QED BY <1>1, <1>2, <1>3, <1>4, <1>5, <1>6, <1>7, <1>8 DEF Next

LEMMA FramesInitially == Init => FrameInv
<1> SUFFICES ASSUME Init PROVE FrameInv
  OBVIOUS
<1>1. /\ free_index = 0 /\ dma_ptr = 0 /\ num_used = 0 /\ xpc = "idle"
      /\ \A i \in Idx : cown[i]
  BY DEF Init
<1>2. Given = 0 /\ Offset(dma_ptr) = 0 /\ \A i \in Idx : Offset(i) >= 0
  BY <1>1, TxAssumption DEF Given, Offset, Dist, Idx
<1> QED BY <1>1, <1>2 DEF FrameInv, DmaInv, FillInv, FramesInv, Idx, Offset, Dist

-----------------------------------------------------------------------------
(* The theorems *)

(* Every reachable state of the transmit ring satisfies the invariant. *)
THEOREM Invariant == Spec => []IInv
<1>1. Init => IInv
  BY InitIInv
<1>2. IInv /\ [Next]_vars => IInv'
  <2> SUFFICES ASSUME IInv, [Next]_vars PROVE IInv'
    OBVIOUS
  <2>1. CASE \E s \in Skbs, n \in 0 .. MaxFrags : XmitStart(s, n)
    BY <2>1, StepXmitStart
  <2>2. CASE XmitBusy \/ XmitKick
    BY <2>2, StepXmitReturn
  <2>3. CASE XmitReserve
    BY <2>3, StepXmitReserve
  <2>4. CASE XmitFrag
    BY <2>4, StepXmitFrag
  <2>5. CASE XmitHead
    BY <2>5, StepXmitHead
  <2>6. CASE XmitCommit
    BY <2>6, StepXmitCommit
  <2>7. CASE DmaSend \/ DmaSleep
    BY <2>7, StepDma
  <2>8. CASE RxIrq \/ PollRx
    BY <2>8, StepPoll
  <2>9. CASE CompleteStart
    BY <2>9, StepCompleteStart
  <2>10. CASE CompleteStep
    BY <2>10, StepCompleteStep
  <2>11. CASE CompleteEnd
    BY <2>11, StepCompleteEnd
  <2>12. CASE UNCHANGED vars
    BY <2>12 DEF vars, ringVars, countVars, stopVars, dmaVars, xmitVars, napiVars, walkVars,
                 IInv, TypeOK, EorInv, RingAccounting, NothingOutsideWindow, SkbHeldOnce,
                 NoFreeUnderDma, StoppedMeansFull, XmitInv, WalkInv, Reserved, Offset
  <2> QED BY <2>1, <2>2, <2>3, <2>4, <2>5, <2>6, <2>7, <2>8, <2>9, <2>10, <2>11, <2>12 DEF Next
<1> QED BY <1>1, <1>2, PTL DEF Spec

(* eth_xmit, the DMA engine and eth_complete_tx keep every index inside the *)
(* ring and every counter inside its range.                                  *)
THEOREM TypeCorrect == Spec => []TypeOK
<1>1. IInv => TypeOK
  BY DEF IInv
<1> QED BY <1>1, Invariant, PTL

(* num_used, free_index and cur_index agree at every step of a concurrent    *)
(* eth_xmit and eth_complete_tx, and the ring is never filled to the brim.    *)
THEOREM RingAccountingHolds == Spec => []RingAccounting
<1>1. IInv => RingAccounting
  BY DEF IInv
<1> QED BY <1>1, Invariant, PTL

(* No descriptor outside the window in use is the engine's or keeps a buffer. *)
THEOREM NothingOutsideWindowHolds == Spec => []NothingOutsideWindow
<1>1. IInv => NothingOutsideWindow
  BY DEF IInv
<1> QED BY <1>1, Invariant, PTL

(* Every socket buffer eth_xmit accepted is in one place: none leaks, none is *)
(* freed twice by eth_complete_tx.                                            *)
THEOREM SkbHeldOnceHolds == Spec => []SkbHeldOnce
<1>1. IInv => SkbHeldOnce
  BY DEF IInv
<1> QED BY <1>1, Invariant, PTL

(* eth_complete_tx frees no buffer whose head descriptor the engine owns. *)
THEOREM NoFreeUnderDmaHolds == Spec => []NoFreeUnderDma
<1>1. IInv => NoFreeUnderDma
  BY DEF IInv
<1> QED BY <1>1, Invariant, PTL

(* eth_check_num_used never leaves a queue stopped that nothing would wake. *)
THEOREM StoppedMeansFullHolds == Spec => []StoppedMeansFull
<1>1. IInv => StoppedMeansFull
  BY DEF IInv
<1> QED BY <1>1, Invariant, PTL

(* eth_set_desc, called without tx_lock, only ever writes a descriptor that  *)
(* neither the engine nor a completion walk can be looking at.               *)
THEOREM NoOverwriteHolds == Spec => NoOverwrite
<1>1. ASSUME IInv, [Next]_vars, NEW i \in Idx, seg'[i] # seg[i]
      PROVE  cown[i] /\ buff_tab[i] = NULL /\ Offset(i) >= num_used
  <2>1. XmitFrag \/ XmitHead
    BY <1>1 DEF Next, vars, ringVars, XmitStart, XmitBusy, XmitReserve, XmitCommit, XmitKick,
                DmaSend, DmaSleep, RxIrq, PollRx, CompleteStart, CompleteStep, CompleteEnd
  <2>2. xpc = "fill"
    BY <2>1 DEF XmitFrag, XmitHead
  <2>3. /\ Offset(index0) = num_used /\ cown[index0]
        /\ Offset(index) \in num_used .. num_used + nr_desc
        /\ \A k \in Idx : /\ Offset(k) > Offset(index) => cown[k]
                          /\ Offset(k) >= num_used => buff_tab[k] = NULL
    BY <1>1, <2>2 DEF IInv, XmitInv
  <2>4. /\ free_index \in Idx /\ index \in Idx /\ index0 \in Idx
        /\ num_used \in 0 .. TX_DESCS - 1 /\ nr_desc \in 0 .. TX_DESCS - 1
        /\ num_used + nr_desc + 1 < TX_DESCS
        /\ seg \in [Idx -> Seg]
    BY <1>1, <2>2, TxAssumption DEF IInv, TypeOK, RingAccounting, Reserved
  <2>5. CASE XmitHead
    <3> DEFINE e == [skb |-> xskb, fsd |-> TRUE, lsd |-> index0 = Wrap(index0 + nr_desc),
                     eor |-> index0 = TX_DESCS - 1]
    <3>1. seg' = [seg EXCEPT ![index0] = e]
      BY <2>5 DEF XmitHead, SetDesc
    <3> HIDE DEF e
    <3>2. i = index0
      BY <3>1, <1>1, <2>4
    <3>3. Offset(i) >= num_used
      BY <3>2, <2>3, <2>4
    <3> QED BY <3>2, <3>3, <2>3, <2>4, Zenon
  <2>6. CASE XmitFrag
    <3> DEFINE d == Wrap(index + 1)
               e == [skb |-> xskb, fsd |-> FALSE, lsd |-> d = Wrap(index0 + nr_desc),
                     eor |-> d = TX_DESCS - 1]
    <3>1. seg' = [seg EXCEPT ![d] = e]
      BY <2>6 DEF XmitFrag, SetDesc
    <3> HIDE DEF e
    <3>2. i = d
      BY <3>1, <1>1, <2>4
    <3>3. /\ Wrap(index0 + nr_desc) \in Idx
          /\ Offset(Wrap(index0 + nr_desc)) = num_used + nr_desc
      BY <2>3, <2>4, DistWrap, TxAssumption DEF Offset
    <3>4. Offset(index) < num_used + nr_desc
      BY <2>3, <2>4, <2>6, <3>3, DistInjective DEF Offset, XmitFrag, AllFragsSet
    <3>5. Offset(d) = Offset(index) + 1
      BY <3>4, <2>3, <2>4, DistWrap, TxAssumption DEF Offset
    <3>6. Offset(i) > Offset(index) /\ Offset(i) >= num_used
      BY <3>2, <3>5, <2>3, <2>4
    <3>7. i \in Idx
      BY <1>1
    <3> QED BY <3>6, <3>7, <2>3, Zenon
  <2> QED BY <2>1, <2>5, <2>6
<1>2. IInv /\ [Next]_vars => [\A i \in Idx : seg'[i] # seg[i] =>
                                   cown[i] /\ buff_tab[i] = NULL /\ Offset(i) >= num_used]_vars
  BY <1>1
<1> QED BY <1>2, Invariant, PTL DEF Spec, NoOverwrite

(* The engine never meets the head of a frame that eth_xmit has not written   *)
(* to its end, whatever it sends and whatever is completed meanwhile.         *)
THEOREM WholeFramesHolds == Spec => []WholeFrames
<1>1. Init => FrameInv
  BY FramesInitially
<1>2. IInv /\ FrameInv /\ [Next]_vars => FrameInv'
  BY FramesStep
<1>3. IInv /\ FrameInv => WholeFrames
  <2> SUFFICES ASSUME IInv, FrameInv, NEW h \in Idx, ~cown[h], seg[h].fsd
               PROVE  \E n \in 0 .. MaxFrags : \A k \in 0 .. n :
                        /\ ~cown[Wrap(h + k)]
                        /\ seg[Wrap(h + k)].skb = seg[h].skb
                        /\ seg[Wrap(h + k)].fsd = (k = 0)
                        /\ seg[Wrap(h + k)].lsd = (k = n)
    BY DEF WholeFrames
  <2>1. PICK n \in 0 .. MaxFrags :
          Offset(h) + n < Given /\ \A k \in 0 .. n : IsPart(Wrap(h + k), seg[h].skb, k, n)
    BY DEF FrameInv, FramesInv
  <2>2. ASSUME NEW k \in 0 .. n
        PROVE  /\ ~cown[Wrap(h + k)]
               /\ seg[Wrap(h + k)].skb = seg[h].skb
               /\ seg[Wrap(h + k)].fsd = (k = 0)
               /\ seg[Wrap(h + k)].lsd = (k = n)
    <3> DEFINE d == Wrap(h + k)
    <3>1. d \in Idx
      BY <2>1, PartAt, GivenType, TxAssumption
    <3>2. seg[d] \in Seg
      BY <3>1 DEF IInv, TypeOK
    <3>3. seg[d].fsd \in BOOLEAN /\ seg[d].lsd \in BOOLEAN
      BY <3>2, Zenon DEF Seg
    <3>4. ~cown[d] /\ seg[d].skb = seg[h].skb /\ (seg[d].fsd <=> k = 0) /\ (seg[d].lsd <=> k = n)
      BY <2>1 DEF IsPart
    <3> HIDE DEF d
    <3>5. seg[d].fsd = (k = 0) /\ seg[d].lsd = (k = n)
      BY <3>3, <3>4
    <3> QED BY <3>4, <3>5 DEF d
  <2> QED BY <2>1, <2>2
<1> QED BY <1>1, <1>2, <1>3, Invariant, PTL DEF Spec

-----------------------------------------------------------------------------
(* The ring as a queue. The k-th buffer of the queue is the one that has     *)
(* k - 1 others between it and the walk; RankInv says that there is one for  *)
(* every k.                                                                  *)

Tabs == [Idx -> Skbs \cup {NULL}]

Rank(b, w, i) == Cardinality(Ahead(b, w, i))

Ranked(b, w) == \A k \in 1 .. Cardinality(Heads(b)) : \E i \in Heads(b) : Rank(b, w, i) = k - 1

RankInv == Ranked(buff_tab, WalkIndex)

LEMMA HeadsFinite ==
  ASSUME NEW b \in Tabs, NEW w \in Idx
  PROVE  /\ Heads(b) \subseteq Idx /\ IsFiniteSet(Heads(b)) /\ Cardinality(Heads(b)) \in Nat
         /\ \A i \in Idx : IsFiniteSet(Ahead(b, w, i)) /\ Rank(b, w, i) \in Nat
<1>1. Heads(b) \subseteq Idx
  BY DEF Heads
<1>2. IsFiniteSet(Idx)
  BY FS_Interval, TxAssumption DEF Idx
<1>3. IsFiniteSet(Heads(b))
  BY <1>1, <1>2, FS_Subset
<1>4. ASSUME NEW i \in Idx PROVE IsFiniteSet(Ahead(b, w, i))
  BY <1>3, FS_Subset DEF Ahead
<1> QED BY <1>1, <1>3, <1>4, FS_CardinalityType DEF Rank

(* Whoever is further on has more before it.                                 *)
LEMMA RankGrows ==
  ASSUME NEW b \in Tabs, NEW w \in Idx, NEW i \in Heads(b), NEW j \in Heads(b),
         Dist(w, i) < Dist(w, j)
  PROVE  Rank(b, w, i) < Rank(b, w, j)
<1>1. i \in Idx /\ j \in Idx /\ IsFiniteSet(Ahead(b, w, j))
  BY HeadsFinite
<1>2. \A k \in Heads(b) : Dist(w, k) \in Nat
  BY DistType, HeadsFinite DEF Idx
<1>3. Ahead(b, w, i) \in SUBSET Ahead(b, w, j)
  BY <1>2 DEF Ahead
<1>4. i \in Ahead(b, w, j) /\ i \notin Ahead(b, w, i)
  BY <1>2 DEF Ahead
<1>5. Rank(b, w, i) <= Rank(b, w, j) /\ Rank(b, w, i) # Rank(b, w, j)
  BY <1>1, <1>3, <1>4, FS_Subset DEF Rank
<1> QED BY <1>1, <1>5, HeadsFinite

LEMMA RankInjective ==
  ASSUME NEW b \in Tabs, NEW w \in Idx, NEW i \in Heads(b), NEW j \in Heads(b),
         Rank(b, w, i) = Rank(b, w, j)
  PROVE  i = j
<1>1. i \in Idx /\ j \in Idx /\ Rank(b, w, i) \in Nat
  BY HeadsFinite
<1>2. Dist(w, i) \in Nat /\ Dist(w, j) \in Nat
  BY <1>1, DistType DEF Idx
<1>3. ~(Dist(w, i) < Dist(w, j)) /\ ~(Dist(w, j) < Dist(w, i))
  BY <1>1, RankGrows
<1>4. Dist(w, i) = Dist(w, j)
  BY <1>2, <1>3
<1> QED BY <1>1, <1>4, DistInjective

LEMMA InOrderAt ==
  ASSUME NEW b \in Tabs, NEW w \in Idx, NEW i \in Heads(b),
         NEW k \in 1 .. Cardinality(Heads(b)), Rank(b, w, i) = k - 1
  PROVE  InOrder(b, w)[k] = b[i]
<1> DEFINE h == CHOOSE j \in Heads(b) : Rank(b, w, j) = k - 1
<1>1. h \in Heads(b) /\ Rank(b, w, h) = k - 1
  OBVIOUS
<1>2. h = i
  BY <1>1, RankInjective
<1>3. InOrder(b, w)[k] = b[h]
  BY DEF InOrder, Rank
<1> QED BY <1>2, <1>3

(* The queue, read off the ring, is a sequence of socket buffers             *)
LEMMA InOrderSeq ==
  ASSUME NEW b \in Tabs, NEW w \in Idx, Ranked(b, w)
  PROVE  InOrder(b, w) \in Seq(Skbs) /\ Len(InOrder(b, w)) = Cardinality(Heads(b))
<1>0. PICK n \in Nat : n = Cardinality(Heads(b))
  BY HeadsFinite
<1>1. InOrder(b, w) = [k \in 1 .. n |-> InOrder(b, w)[k]]
  BY <1>0 DEF InOrder
<1>2. ASSUME NEW k \in 1 .. n PROVE InOrder(b, w)[k] \in Skbs
  <2>1. PICK i \in Heads(b) : Rank(b, w, i) = k - 1
    BY <1>0 DEF Ranked
  <2>2. InOrder(b, w)[k] = b[i]
    BY <2>1, <1>0, InOrderAt
  <2> QED BY <2>2 DEF Heads, Tabs
<1>3. InOrder(b, w) \in Seq(Skbs) /\ Len(InOrder(b, w)) = n
  BY <1>1, <1>2
<1> QED BY <1>0, <1>3

(* A buffer that goes behind all others ...                                  *)
LEMMA InOrderAppend ==
  ASSUME NEW b \in Tabs, NEW w \in Idx, Ranked(b, w),
         NEW a \in Idx, NEW s \in Skbs, b[a] = NULL, s # NULL,
         \A i \in Heads(b) : Dist(w, i) < Dist(w, a),
         NEW c \in Tabs, c[a] = s, \A i \in Idx \ {a} : c[i] = b[i]
  PROVE  InOrder(c, w) = Append(InOrder(b, w), s) /\ Ranked(c, w)
<1>0. PICK n \in Nat : n = Cardinality(Heads(b))
  BY HeadsFinite
<1>1. Heads(c) = Heads(b) \cup {a} /\ a \notin Heads(b) /\ \A i \in Heads(b) : c[i] = b[i]
  BY DEF Heads
<1>2. Cardinality(Heads(c)) = n + 1
  BY <1>0, <1>1, HeadsFinite, FS_AddElement
<1>3. \A i \in Idx : Dist(w, i) \in Nat
  BY DistType DEF Idx
<1>4. ASSUME NEW i \in Heads(b) PROVE Rank(c, w, i) = Rank(b, w, i)
  <2>1. i \in Idx
    BY HeadsFinite
  <2>2. ~(Dist(w, a) < Dist(w, i))
    BY <1>3, <2>1
  <2>3. Ahead(c, w, i) = Ahead(b, w, i)
    BY <2>2, <1>1 DEF Ahead
  <2> QED BY <2>3 DEF Rank
<1>5. Rank(c, w, a) = n
  <2>1. ~(Dist(w, a) < Dist(w, a))
    BY <1>3
  <2>2. Ahead(c, w, a) = Heads(b)
    BY <2>1, <1>1 DEF Ahead
  <2> QED BY <2>2, <1>0 DEF Rank
<1>6. Ranked(c, w)
  <2> SUFFICES ASSUME NEW k \in 1 .. n + 1 PROVE \E i \in Heads(c) : Rank(c, w, i) = k - 1
    BY <1>2 DEF Ranked
  <2>1. CASE k = n + 1
    <3>1. k - 1 = n
      BY <2>1, <1>2
    <3> QED BY <3>1, <1>1, <1>5
  <2>2. CASE k \in 1 .. n
    <3>1. PICK i \in Heads(b) : Rank(b, w, i) = k - 1
      BY <2>2, <1>0 DEF Ranked
    <3> QED BY <3>1, <1>1, <1>4
  <2>3. k = n + 1 \/ k \in 1 .. n
    OBVIOUS
  <2> QED BY <2>1, <2>2, <2>3, Zenon
<1>7. ASSUME NEW k \in 1 .. n PROVE InOrder(c, w)[k] = InOrder(b, w)[k]
  <2>1. PICK i \in Heads(b) : Rank(b, w, i) = k - 1
    BY <1>0 DEF Ranked
  <2>2. InOrder(b, w)[k] = b[i]
    BY <2>1, <1>0, InOrderAt
  <2>3. i \in Heads(c) /\ Rank(c, w, i) = k - 1
    BY <2>1, <1>1, <1>4, Zenon
  <2>4. k \in 1 .. Cardinality(Heads(c))
    BY <1>2
  <2>5. InOrder(c, w)[k] = c[i]
    BY <2>3, <2>4, <1>1, InOrderAt
  <2> QED BY <2>2, <2>5, <1>1
<1>8. InOrder(c, w)[n + 1] = s
  <2>1. n + 1 \in 1 .. n + 1 /\ n = (n + 1) - 1
    OBVIOUS
  <2>2. Rank(c, w, a) = (n + 1) - 1
    BY <2>1, <1>5, Zenon
  <2>3. n + 1 \in 1 .. Cardinality(Heads(c)) /\ a \in Heads(c)
    BY <2>1, <1>1, <1>2, Zenon
  <2> QED BY <2>2, <2>3, <1>1, InOrderAt
<1>9. InOrder(c, w) = [k \in 1 .. n + 1 |-> IF k <= n THEN InOrder(b, w)[k] ELSE s]
  <2>1. InOrder(c, w) = [k \in 1 .. n + 1 |-> InOrder(c, w)[k]]
    BY <1>2 DEF InOrder
  <2>2. \A k \in 1 .. n + 1 : IF k <= n THEN k \in 1 .. n ELSE k = n + 1
    BY <1>2
  <2> QED BY <2>1, <2>2, <1>7, <1>8
<1>10. InOrder(b, w) \in Seq(Skbs) /\ Len(InOrder(b, w)) = n
  BY <1>0, InOrderSeq
<1>11. InOrder(c, w) = Append(InOrder(b, w), s)
  <2> DEFINE q == InOrder(b, w)
  <2>1. q \in Seq(Skbs) /\ Len(q) = n /\ InOrder(c, w) = [k \in 1 .. n + 1 |-> IF k <= n THEN q[k] ELSE s]
    BY <1>9, <1>10
  <2> HIDE DEF q
  <2>2. /\ Append(q, s) \in Seq(Skbs) /\ Len(Append(q, s)) = n + 1
        /\ \A k \in 1 .. n : Append(q, s)[k] = q[k]
        /\ Append(q, s)[n + 1] = s
    BY <2>1, AppendProperties
  <2>3. \A k \in 1 .. n + 1 : Append(q, s)[k] = IF k <= n THEN q[k] ELSE s
    BY <2>2
  <2>4. Append(q, s) = [k \in 1 .. n + 1 |-> Append(q, s)[k]]
    BY <2>2, LenProperties
  <2>5. Append(q, s) = [k \in 1 .. n + 1 |-> IF k <= n THEN q[k] ELSE s]
    BY <2>3, <2>4
  <2> QED BY <2>1, <2>5, Zenon DEF q
<1> QED BY <1>6, <1>11

(* One slot further round, every other slot is one nearer                    *)
LEMMA DistPast ==
  ASSUME NEW w \in Idx
  PROVE  /\ NextIndex(w) \in Idx /\ Dist(w, w) = 0
         /\ \A i \in Idx \ {w} : Dist(w, i) \in Nat \ {0} /\ Dist(NextIndex(w), i) = Dist(w, i) - 1
BY TxAssumption DEF Idx, Dist, NextIndex

(* A walk that passes a slot of no head changes nothing ...                  *)
LEMMA InOrderSkip ==
  ASSUME NEW b \in Tabs, NEW w \in Idx, Ranked(b, w), b[w] = NULL
  PROVE  InOrder(b, NextIndex(w)) = InOrder(b, w) /\ Ranked(b, NextIndex(w))
<1> DEFINE v == NextIndex(w)
<1>0. PICK n \in Nat : n = Cardinality(Heads(b))
  BY HeadsFinite
<1>1. v \in Idx /\ \A i \in Heads(b) : i \in Idx \ {w}
  BY HeadsFinite, DistPast DEF Heads
<1>2. ASSUME NEW i \in Heads(b) PROVE Rank(b, v, i) = Rank(b, w, i)
  <2>1. \A j \in Heads(b) : Dist(v, j) < Dist(v, i) <=> Dist(w, j) < Dist(w, i)
    BY <1>1, DistPast
  <2>2. Ahead(b, v, i) = Ahead(b, w, i)
    BY <2>1 DEF Ahead
  <2> QED BY <2>2 DEF Rank
<1> HIDE DEF v
<1>3. Ranked(b, v)
  BY <1>2 DEF Ranked
<1>4. ASSUME NEW k \in 1 .. n PROVE InOrder(b, v)[k] = InOrder(b, w)[k]
  <2>1. PICK i \in Heads(b) : Rank(b, w, i) = k - 1
    BY <1>0 DEF Ranked
  <2>2. InOrder(b, w)[k] = b[i]
    BY <2>1, <1>0, InOrderAt
  <2>3. InOrder(b, v)[k] = b[i]
    BY <2>1, <1>0, <1>1, <1>2, InOrderAt
  <2> QED BY <2>2, <2>3
<1>5. InOrder(b, v) = InOrder(b, w)
  BY <1>0, <1>1, <1>3, <1>4, InOrderSeq, SeqEqual
<1> QED BY <1>3, <1>5 DEF v

(* ... and one that passes a head takes the first buffer off                 *)
LEMMA InOrderTail ==
  ASSUME NEW b \in Tabs, NEW w \in Idx, Ranked(b, w), b[w] # NULL,
         NEW c \in Tabs, c[w] = NULL, \A i \in Idx \ {w} : c[i] = b[i]
  PROVE  /\ InOrder(b, w) # <<>>
         /\ InOrder(c, NextIndex(w)) = Tail(InOrder(b, w))
         /\ Ranked(c, NextIndex(w))
<1> DEFINE v == NextIndex(w)
<1>1. v \in Idx /\ Heads(c) = Heads(b) \ {w} /\ w \in Heads(b)
      /\ \A i \in Heads(c) : i \in Heads(b) /\ i \in Idx \ {w} /\ c[i] = b[i]
  BY DistPast DEF Heads
<1>2. PICK n \in Nat : n = Cardinality(Heads(c)) /\ n + 1 = Cardinality(Heads(b))
  <2>1. Cardinality(Heads(c)) = Cardinality(Heads(b)) - 1
    BY <1>1, HeadsFinite, FS_RemoveElement
  <2>2. Cardinality(Heads(b)) \in Nat /\ Cardinality(Heads(c)) \in Nat
    BY <1>1, HeadsFinite
  <2> QED BY <2>1, <2>2
<1>3. ASSUME NEW i \in Heads(c)
      PROVE  Rank(c, v, i) \in Nat /\ Rank(b, w, i) = Rank(c, v, i) + 1
  <2>1. \A j \in Heads(c) : Dist(v, j) < Dist(v, i) <=> Dist(w, j) < Dist(w, i)
    BY <1>1, DistPast
  <2>2. Dist(w, w) < Dist(w, i)
    BY <1>1, DistPast
  <2>3. Ahead(b, w, i) = Ahead(c, v, i) \cup {w} /\ w \notin Ahead(c, v, i)
    BY <1>1, <2>1, <2>2 DEF Ahead
  <2>4. IsFiniteSet(Ahead(c, v, i)) /\ Rank(c, v, i) \in Nat
    BY <1>1, HeadsFinite
  <2> QED BY <2>3, <2>4, FS_AddElement DEF Rank
<1> HIDE DEF v
<1>4. ASSUME NEW k \in 1 .. n, NEW i \in Heads(b), Rank(b, w, i) = k
      PROVE  i \in Heads(c) /\ Rank(c, v, i) = k - 1
  <2>1. Ahead(b, w, w) = {}
    BY <1>1, DistPast, HeadsFinite DEF Ahead
  <2>2. i # w
    BY <2>1, FS_EmptySet, <1>4 DEF Rank
  <2>3. i \in Heads(c)
    BY <2>2, <1>1
  <2> QED BY <2>3, <1>3, <1>4
<1>5. ASSUME NEW k \in 1 .. n
      PROVE  \E i \in Heads(c) : /\ Rank(b, w, i) = k
                                 /\ Rank(c, v, i) = k - 1
  <2>1. k + 1 \in 1 .. n + 1 /\ (k + 1) - 1 = k
    OBVIOUS
  <2>2. PICK i \in Heads(b) : Rank(b, w, i) = (k + 1) - 1
    BY <2>1, <1>2, Zenon DEF Ranked
  <2> QED BY <2>1, <2>2, <1>4
<1>6. Ranked(c, v)
  BY <1>2, <1>5 DEF Ranked
<1>7. /\ InOrder(b, w) \in Seq(Skbs) /\ Len(InOrder(b, w)) = n + 1
      /\ InOrder(c, v) \in Seq(Skbs) /\ Len(InOrder(c, v)) = n
  BY <1>1, <1>2, <1>6, InOrderSeq
<1>8. /\ InOrder(b, w) # <<>> /\ Tail(InOrder(b, w)) \in Seq(Skbs) /\ Len(Tail(InOrder(b, w))) = n
      /\ \A k \in 1 .. n : Tail(InOrder(b, w))[k] = InOrder(b, w)[k + 1]
  <2>1. InOrder(b, w) # <<>>
    BY <1>7, EmptySeq
  <2>2. Len(Tail(InOrder(b, w))) = n
    BY <2>1, <1>7, HeadTailProperties
  <2> QED BY <2>1, <2>2, <1>7, HeadTailProperties
<1>9. ASSUME NEW k \in 1 .. n PROVE InOrder(c, v)[k] = InOrder(b, w)[k + 1]
  <2>1. PICK i \in Heads(c) : Rank(b, w, i) = k /\ Rank(c, v, i) = k - 1
    BY <1>5
  <2>2. InOrder(c, v)[k] = c[i]
    <3>1. k \in 1 .. Cardinality(Heads(c)) /\ v \in Idx
      BY <1>1, <1>2
    <3> QED BY <3>1, <2>1, InOrderAt
  <2>3. k + 1 \in 1 .. Cardinality(Heads(b)) /\ Rank(b, w, i) = (k + 1) - 1
    BY <2>1, <1>2
  <2>4. InOrder(b, w)[k + 1] = b[i]
    BY <2>3, <1>1, InOrderAt
  <2> QED BY <2>2, <2>4, <1>1
<1>10. InOrder(c, v) = Tail(InOrder(b, w))
  BY <1>7, <1>8, <1>9, SeqEqual
<1> QED BY <1>6, <1>8, <1>10 DEF v

LEMMA WalkIndexType == IInv => WalkIndex \in Idx /\ buff_tab \in Tabs
BY DEF IInv, TypeOK, WalkIndex, Tabs

(* The buffers in the ring all lie between the walk and the slot eth_xmit    *)
(* fills next, and that slot and the one it will go on from are free.        *)
LEMMA HeadGoesLast ==
  ASSUME IInv, xpc = "fill"
  PROVE  /\ index0 \in Idx /\ xskb \in Skbs /\ buff_tab[index0] = NULL
         /\ \A i \in Heads(buff_tab) : /\ Dist(WalkIndex, i) < Dist(WalkIndex, index0)
                                       /\ buff_tab[i] # xskb
         /\ Cardinality(Heads(buff_tab)) < TX_DESCS - 1
<1> DEFINE w == WalkIndex
<1>1. /\ w \in Idx /\ index0 \in Idx /\ cur_index \in Idx /\ free_index \in Idx /\ xskb \in Skbs
      /\ num_used \in 0 .. TX_DESCS - 1 /\ nr_desc \in Nat
      /\ Offset(index0) = num_used /\ Offset(cur_index) = num_used + (nr_desc + 1)
      /\ \A i \in Idx : buff_tab[i] # xskb /\ (Offset(i) >= num_used => buff_tab[i] = NULL)
  BY WalkIndexType DEF IInv, TypeOK, XmitInv, RingAccounting, Reserved
<1>2. \A i \in Heads(buff_tab) : i \in Idx /\ Offset(i) \in Nat /\ Offset(i) < num_used
  <2>1. \A i \in Idx : Offset(i) \in Nat
    BY <1>1, DistType DEF Offset, Idx
  <2> QED BY <1>1, <2>1 DEF Heads
<1>3. Offset(w) \in Nat /\ Offset(w) <= num_used
      /\ \A i \in Heads(buff_tab) : Offset(i) >= Offset(w)
  <2>1. CASE cpc = "walk"
    <3>1. w = cindex /\ Offset(w) = ci /\ ci <= num_used /\ ci \in Nat
      BY <2>1 DEF IInv, TypeOK, WalkInv, WalkIndex
    <3>2. \A i \in Heads(buff_tab) : ~(Offset(i) < ci)
      BY <2>1, <1>2 DEF IInv, WalkInv, Heads
    <3> HIDE DEF w
    <3> QED BY <3>1, <3>2, <1>2
  <2>2. CASE cpc # "walk"
    <3>1. w = free_index
      BY <2>2 DEF WalkIndex
    <3>2. Offset(w) = 0
      BY <3>1, <1>1, DistPast DEF Offset
    <3> HIDE DEF w
    <3> QED BY <3>2, <1>1, <1>2
  <2> QED BY <2>1, <2>2
<1> HIDE DEF w
<1>4. ASSUME NEW i \in Heads(buff_tab) PROVE Dist(w, i) < Dist(w, index0)
  <2>1. Dist(w, i) = Offset(i) - Offset(w)
    BY <1>1, <1>2, <1>3, DistShift DEF Offset
  <2>2. Dist(w, index0) = num_used - Offset(w)
    BY <1>1, <1>3, DistShift DEF Offset
  <2> QED BY <2>1, <2>2, <1>1, <1>2, <1>3
<1>5. buff_tab[index0] = NULL /\ buff_tab[cur_index] = NULL /\ index0 # cur_index
  BY <1>1
<1>6. Cardinality(Heads(buff_tab)) <= TX_DESCS - 2
  <2>1. IsFiniteSet(Idx) /\ Cardinality(Idx) = TX_DESCS
    BY FS_Interval, TxAssumption DEF Idx
  <2>2. IsFiniteSet(Idx \ {index0}) /\ Cardinality(Idx \ {index0}) = TX_DESCS - 1
    BY <2>1, <1>1, FS_RemoveElement
  <2> DEFINE T == (Idx \ {index0}) \ {cur_index}
  <2>3. IsFiniteSet(T) /\ Cardinality(T) = (TX_DESCS - 1) - 1
    BY <2>2, <1>1, <1>5, FS_RemoveElement
  <2>4. Heads(buff_tab) \in SUBSET T
    BY <1>5 DEF Heads
  <2> HIDE DEF T
  <2>5. Cardinality(Heads(buff_tab)) <= Cardinality(T)
    BY <2>3, <2>4, FS_Subset
  <2> QED BY <2>3, <2>5, TxAssumption
<1>7. Cardinality(Heads(buff_tab)) \in Nat
  BY <1>1, WalkIndexType, HeadsFinite
<1>8. Cardinality(Heads(buff_tab)) < TX_DESCS - 1
  BY <1>6, <1>7, TxAssumption
<1> QED BY <1>1, <1>2, <1>4, <1>5, <1>8 DEF w

(* Storing the head's buffer is what the stack sees as Accept ...            *)
LEMMA XmitHeadAccepts ==
  ASSUME IInv, RankInv, XmitHead
  PROVE  RankInv' /\ Fifo!Accept(xskb)
<1> DEFINE b == buff_tab
           w == WalkIndex
           c == buff_tab'
<1>1. /\ xskb \in Skbs /\ index0 \in Idx /\ b[index0] = NULL /\ xskb # NULL
      /\ \A i \in Heads(b) : Dist(w, i) < Dist(w, index0) /\ b[i] # xskb
      /\ Cardinality(Heads(b)) < TX_DESCS - 1
  BY HeadGoesLast, TxAssumption DEF XmitHead
<1>2. w \in Idx /\ b \in Tabs /\ w' = w
  BY WalkIndexType DEF XmitHead, WalkIndex, walkVars, countVars
<1>3. c \in Tabs /\ c[index0] = xskb /\ \A i \in Idx \ {index0} : c[i] = b[i]
  BY <1>1, <1>2 DEF XmitHead, Tabs
<1>4. Ranked(b, w)
  BY DEF RankInv
<1> HIDE DEF b, w, c
<1>5. InOrder(c, w) = Append(InOrder(b, w), xskb) /\ Ranked(c, w)
  BY <1>1, <1>2, <1>3, <1>4, InOrderAppend
<1>6. Len(InOrder(b, w)) = Cardinality(Heads(b))
  BY <1>2, <1>4, InOrderSeq
<1>7. ASSUME NEW k \in 1 .. Cardinality(Heads(b)) PROVE InOrder(b, w)[k] # xskb
  <2>1. PICK i \in Heads(b) : Rank(b, w, i) = k - 1
    BY <1>4 DEF Ranked
  <2>2. InOrder(b, w)[k] = b[i]
    BY <2>1, <1>2, InOrderAt
  <2> QED BY <2>2, <1>1
<1>8. /\ Len(InOrder(b, w)) < TX_DESCS - 1
      /\ \A k \in 1 .. Len(InOrder(b, w)) : InOrder(b, w)[k] # xskb
      /\ InOrder(c, w') = Append(InOrder(b, w), xskb)
  BY <1>1, <1>2, <1>5, <1>6, <1>7
<1>9. Fifo!Accept(xskb)
  BY <1>8 DEF Fifo!Accept, b, w, c
<1>10. RankInv'
  BY <1>2, <1>5 DEF RankInv, b, w, c
<1> QED BY <1>9, <1>10

(* ... passing a head is FreeHead, passing anything else is not seen ...     *)
LEMMA CompleteFrees ==
  ASSUME IInv, RankInv, CompleteStep
  PROVE  RankInv' /\ (Fifo!FreeHead \/ UNCHANGED InOrder(buff_tab, WalkIndex))
<1> DEFINE b == buff_tab
           w == WalkIndex
           c == buff_tab'
<1>1. w = cindex /\ w' = NextIndex(w)
  BY DEF CompleteStep, WalkIndex
<1>2. w \in Idx /\ b \in Tabs /\ c = [b EXCEPT ![w] = NULL]
  BY <1>1, WalkIndexType DEF CompleteStep
<1>3. Ranked(b, w)
  BY DEF RankInv
<1> HIDE DEF b, w, c
<1>4. c \in Tabs /\ c[w] = NULL /\ \A i \in Idx \ {w} : c[i] = b[i]
  BY <1>2 DEF Tabs
<1>5. CASE b[w] # NULL
  <2>1. /\ InOrder(b, w) # <<>> /\ Ranked(c, NextIndex(w))
        /\ InOrder(c, NextIndex(w)) = Tail(InOrder(b, w))
    BY <1>2, <1>3, <1>4, <1>5, InOrderTail
  <2>2. Fifo!FreeHead
    BY <2>1, <1>1 DEF Fifo!FreeHead, b, w, c
  <2>3. RankInv'
    BY <2>1, <1>1 DEF RankInv, b, w, c
  <2> QED BY <2>2, <2>3
<1>6. CASE b[w] = NULL
  <2>1. c = b
    BY <1>2, <1>6 DEF Tabs
  <2>2. InOrder(b, NextIndex(w)) = InOrder(b, w) /\ Ranked(b, NextIndex(w))
    BY <1>2, <1>3, <1>6, InOrderSkip
  <2>3. InOrder(c, w') = InOrder(b, w) /\ Ranked(c, w')
    BY <2>1, <2>2, <1>1
  <2> QED BY <2>3 DEF RankInv, b, w, c
<1> QED BY <1>5, <1>6

(* ... and every other step leaves the queue as it is.                       *)
LEMMA OthersLeaveQueue ==
  ASSUME [Next]_vars, ~XmitHead, ~CompleteStep
  PROVE  buff_tab' = buff_tab /\ WalkIndex' = WalkIndex
BY DEF Next, vars, ringVars, countVars, walkVars, XmitStart, XmitBusy, XmitReserve, XmitFrag,
       XmitCommit, XmitKick, DmaSend, DmaSleep, RxIrq, PollRx, CompleteStart, CompleteEnd,
       WalkIndex, LockFree

(* The ring is a FIFO of socket buffers: buffers are freed in the order in   *)
(* which eth_xmit stored them, each once, and never more than fit in.        *)
THEOREM RingIsFifoHolds == Spec => RingIsFifo
<1>1. Init => RankInv /\ Fifo!Init
  <2> SUFFICES ASSUME Init PROVE RankInv /\ Fifo!Init
    OBVIOUS
  <2>1. Heads(buff_tab) = {}
    BY DEF Init, Heads
  <2>2. Cardinality(Heads(buff_tab)) = 0
    BY <2>1, FS_EmptySet
  <2>3. RankInv
    BY <2>2 DEF RankInv, Ranked
  <2>4. buff_tab \in Tabs /\ WalkIndex \in Idx
    BY InitIInv, WalkIndexType
  <2>5. InOrder(buff_tab, WalkIndex) = <<>>
    BY <2>2, <2>3, <2>4, InOrderSeq, EmptySeq DEF RankInv
  <2> QED BY <2>3, <2>5 DEF Fifo!Init
<1>2. IInv /\ RankInv /\ [Next]_vars
        => RankInv' /\ [Fifo!Next]_(InOrder(buff_tab, WalkIndex))
  <2> SUFFICES ASSUME IInv, RankInv, [Next]_vars
               PROVE  RankInv' /\ (Fifo!Next \/ UNCHANGED InOrder(buff_tab, WalkIndex))
    OBVIOUS
  <2>1. CASE XmitHead
    <3>1. xskb \in Skbs
      BY <2>1, HeadGoesLast DEF XmitHead
    <3> QED BY <2>1, <3>1, XmitHeadAccepts DEF Fifo!Next
  <2>2. CASE CompleteStep
    BY <2>2, CompleteFrees DEF Fifo!Next
  <2>3. CASE ~XmitHead /\ ~CompleteStep
    BY <2>3, OthersLeaveQueue DEF RankInv
  <2> QED BY <2>1, <2>2, <2>3
<1> QED BY <1>1, <1>2, Invariant, PTL DEF Spec, RingIsFifo, Fifo!Spec
=============================================================================
