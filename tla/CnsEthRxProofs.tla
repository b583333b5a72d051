---------------------------- MODULE CnsEthRxProofs ----------------------------
(***************************************************************************)
(* Why eth_poll takes every segment once, in order and out of a buffer of   *)
(* its own, for a ring of any size. The ring is seen from alloc_index on:   *)
(* first the slots that were taken and are empty, then the segments that    *)
(* wait, then the slots that are the switch's (RingInv). Frames are whole   *)
(* because a segment begins one exactly when the one before it ended one,   *)
(* wherever the two are: in the chain, in the ring, or still to be written  *)
(* (FrameInv).                                                              *)
(*                                                                          *)
(* Why there is one poll at a time, and the interrupt is disabled as often  *)
(* as polls have yet to enable it (NapiInv), on any number of CPUs.         *)
(***************************************************************************)
EXTENDS CnsEthRx, TLAPS

Wrap(x) == IF x < RX_DESCS THEN x ELSE x - RX_DESCS
PrevIndex(k) == IF k = 0 THEN RX_DESCS - 1 ELSE k - 1

(* How far slot k is from the next one to be refilled.                      *)
Off(k) == IF k >= alloc_index THEN k - alloc_index ELSE k - alloc_index + RX_DESCS

(* Segments that are written and not taken, and their numbers.              *)
Waiting ==
  IF hw_seq >= drv_seq THEN hw_seq - drv_seq ELSE hw_seq - drv_seq + RX_DESCS + 1
SeqAt(d) == IF drv_seq + d <= RX_DESCS THEN drv_seq + d ELSE drv_seq + d - RX_DESCS - 1

Waits(k) == Unfilled <= Off(k) /\ Off(k) < Unfilled + Waiting

Types ==
  /\ cown \in [Idx -> BOOLEAN] /\ fresh \in [Idx -> BOOLEAN] /\ seg \in [Idx -> Seg]
  /\ cur_index \in Idx /\ alloc_index \in Idx /\ hw_index \in Idx /\ i \in Idx
  /\ alloc_count \in 0 .. RX_DESCS - 1 /\ left \in 0 .. RX_DESCS - 1
  /\ received \in Nat /\ (ppc = "rx" => alloc_count + received <= RX_DESCS - 1)
  /\ (ppc = "give" => left > 0)
  /\ frag \in Seq(Seg) /\ hw_segs \in Nat /\ hw_seq \in Seqs /\ drv_seq \in Seqs
  /\ ppc \in {"idle", "rx", "alloc", "give", "dma", "complete"}

RingInv ==
  /\ Unfilled + Waiting <= RX_DESCS
  /\ ReadIndex = Wrap(alloc_index + Unfilled)
  /\ hw_index = Wrap(alloc_index + Unfilled + Waiting)
  /\ \A k \in Idx : cown[k] <=> Off(k) < Unfilled + Waiting
  /\ \A k \in Idx : Off(k) >= Unfilled => fresh[k]
  /\ ppc = "give" => fresh[alloc_index]
  /\ \A k \in Idx : Waits(k) => seg[k].seq = SeqAt(Off(k) - Unfilled)

FrameInv ==
  /\ \A k \in Idx : Waits(k) =>
       (seg[k].fsd <=> IF Off(k) = Unfilled THEN frag = <<>> ELSE seg[PrevIndex(k)].lsd)
  /\ hw_segs = 0 <=> IF Waiting = 0 THEN frag = <<>> ELSE seg[PrevIndex(hw_index)].lsd

RxInv == Types /\ RingInv /\ FrameInv /\ FragIsPrefix /\ DmaNotForgotten

USE RxAssumption DEF Idx, Seqs, NextIndex, NextSeq, PrevIndex, Wrap

-----------------------------------------------------------------------------
LEMMA OffOf ==
  ASSUME Types
  PROVE  /\ Unfilled \in 0 .. RX_DESCS - 1 /\ Waiting \in 0 .. RX_DESCS
         /\ \A k \in Idx : Off(k) \in 0 .. RX_DESCS - 1 /\ Wrap(alloc_index + Off(k)) = k
         /\ \A d \in 0 .. RX_DESCS - 1 :
              Wrap(alloc_index + d) \in Idx /\ Off(Wrap(alloc_index + d)) = d
         /\ \A j, k \in Idx : Off(j) = Off(k) => j = k
<1>1. Unfilled \in 0 .. RX_DESCS - 1
  <2>1. /\ alloc_count \in 0 .. RX_DESCS - 1 /\ left \in 0 .. RX_DESCS - 1 /\ received \in Nat
        /\ ppc = "rx" => alloc_count + received <= RX_DESCS - 1
    BY DEF Types
  <2>2. CASE ppc = "rx"
    <3>1. alloc_count + received \in 0 .. RX_DESCS - 1  BY <2>1, <2>2
    <3>2. Unfilled = alloc_count + received  BY <2>2 DEF Unfilled
    <3> QED  BY <3>1, <3>2
  <2>3. CASE ppc # "rx"
    <3>1. Unfilled \in {left, alloc_count}  BY <2>3 DEF Unfilled
    <3> QED  BY <2>1, <3>1
  <2> QED  BY <2>2, <2>3
<1>2. Waiting \in 0 .. RX_DESCS  BY DEF Types, Waiting
<1>0. alloc_index \in Idx  BY DEF Types
<1>3. ASSUME NEW k \in Idx
      PROVE  Off(k) \in 0 .. RX_DESCS - 1 /\ Wrap(alloc_index + Off(k)) = k
  <2>1. CASE alloc_index <= k  BY <1>0, <2>1 DEF Off
  <2>2. CASE alloc_index > k  BY <1>0, <2>2 DEF Off
  <2> QED  BY <1>0, <2>1, <2>2
<1>4. ASSUME NEW d \in 0 .. RX_DESCS - 1
      PROVE  Wrap(alloc_index + d) \in Idx /\ Off(Wrap(alloc_index + d)) = d
  BY <1>0 DEF Off
<1>5. ASSUME NEW j \in Idx, NEW k \in Idx, Off(j) = Off(k) PROVE j = k
  BY <1>3, <1>5
<1> QED  BY <1>1, <1>2, <1>3, <1>4, <1>5

(* Steps that touch neither the ring nor what counts its slots.             *)
LEMMA RingKept ==
  ASSUME RxInv, UNCHANGED <<ringVars, alloc_index, frag, hw_index, hw_segs, hw_seq, drv_seq>>,
         Types', Unfilled' = Unfilled, ReadIndex' = ReadIndex,
         ppc' = "give" => ppc = "give", DmaNotForgotten'
  PROVE  RxInv'
<1>1. /\ UNCHANGED <<cown, seg, fresh>> /\ Waiting' = Waiting
      /\ \A k \in Idx : Off(k)' = Off(k) /\ (Waits(k)' <=> Waits(k))
      /\ \A d \in Int : SeqAt(d)' = SeqAt(d)
  BY DEF ringVars, Waiting, Off, Waits, SeqAt
<1>2. RingInv'
  <2>1. \A k \in Idx : Waits(k) => Off(k) - Unfilled \in Int
    BY OffOf DEF RxInv
  <2> QED  BY <1>1, <2>1 DEF RxInv, RingInv
<1>3. FrameInv'  BY <1>1 DEF RxInv, FrameInv
<1>4. FragIsPrefix'  BY DEF RxInv, FragIsPrefix
<1> QED  BY <1>2, <1>3, <1>4 DEF RxInv

LEMMA RxHwWrite ==
  ASSUME RxInv, NEW last \in BOOLEAN, HwWrite(last)
  PROVE  RxInv'
<1> DEFINE s == [seq |-> hw_seq, fsd |-> hw_segs = 0, lsd |-> last]
           u == Unfilled
           w == Waiting
<1>1. /\ ~cown[hw_index]
      /\ seg' = [seg EXCEPT ![hw_index] = s] /\ cown' = [cown EXCEPT ![hw_index] = TRUE]
      /\ hw_index' = NextIndex(hw_index) /\ hw_seq' = NextSeq(hw_seq)
      /\ hw_segs' = IF last THEN 0 ELSE hw_segs + 1
      /\ UNCHANGED <<fresh, cur_index, alloc_index, alloc_count, frag, rx_dma, drv_seq,
                     ppc, i, received, left>>
  BY DEF HwWrite, allocVars, pollVars
<1>2. Types /\ RingInv /\ FrameInv /\ FragIsPrefix /\ DmaNotForgotten  BY DEF RxInv
<1>3. Types'
  <2>1. s \in Seg  BY <1>2 DEF Types, Seg
  <2>2. cown' \in [Idx -> BOOLEAN]  BY <1>1, <1>2 DEF Types
  <2> QED  BY <1>1, <1>2, <2>1, <2>2 DEF Types
<1>4. u \in 0 .. RX_DESCS - 1 /\ w \in 0 .. RX_DESCS  BY <1>2, OffOf
<1>5. Unfilled' = u /\ ReadIndex' = ReadIndex /\ \A k \in Idx : Off(k)' = Off(k)
  BY <1>1 DEF Unfilled, ReadIndex, Off
<1>6. u + w < RX_DESCS /\ Off(hw_index) = u + w
  <2>1. Off(hw_index) \in 0 .. RX_DESCS - 1 /\ ~(Off(hw_index) < u + w)
    BY <1>1, <1>2, OffOf DEF Types, RingInv
  <2>2. CASE u + w < RX_DESCS
    <3>1. Off(Wrap(alloc_index + (u + w))) = u + w
      BY <1>2, <1>4, <2>2, OffOf
    <3>2. alloc_index + (u + w) = alloc_index + u + w
      BY <1>2, <1>4 DEF Types
    <3> QED  BY <1>2, <2>2, <3>1, <3>2 DEF RingInv
  <2>3. CASE u + w = RX_DESCS
    BY <1>2, <1>4, <2>1, <2>3
  <2> QED  BY <1>2, <1>4, <2>2, <2>3 DEF RingInv
<1>7. Waiting' = w + 1
  BY <1>1, <1>2, <1>4, <1>6 DEF Waiting, Types
<1>14. hw_index \in Idx /\ \A k \in Idx : Off(k) = u + w => k = hw_index
  BY <1>2, <1>6, OffOf DEF Types
<1>15. \A k \in Idx : Off(k) \in 0 .. RX_DESCS - 1  BY <1>2, OffOf
<1>8. \A k \in Idx : Waits(k)' <=> Waits(k) \/ k = hw_index
  BY <1>4, <1>5, <1>6, <1>7, <1>14, <1>15 DEF Waits
<1>9. seg'[hw_index] = s /\ \A k \in Idx : k # hw_index => seg'[k] = seg[k]
  BY <1>1, <1>2 DEF Types
<1>10. RingInv'
  <2>1. hw_index' = Wrap(alloc_index' + Unfilled' + Waiting')
    BY <1>1, <1>2, <1>4, <1>5, <1>6, <1>7 DEF RingInv, Types
  <2>2. \A k \in Idx : cown'[k] <=> Off(k)' < Unfilled' + Waiting'
    <3> SUFFICES ASSUME NEW k \in Idx PROVE cown'[k] <=> Off(k) < u + w + 1
      BY <1>4, <1>5, <1>7
    <3>1. CASE k = hw_index
      <4>1. cown'[k]  BY <1>1, <1>2, <3>1 DEF Types
      <4> QED  BY <1>4, <1>6, <3>1, <4>1
    <3>2. CASE k # hw_index
      <4>1. cown'[k] = cown[k]  BY <1>1, <1>2, <3>2 DEF Types
      <4>2. Off(k) # u + w
        BY <1>14, <3>2
      <4>3. cown[k] <=> Off(k) < u + w  BY <1>2 DEF RingInv
      <4>4. Off(k) \in Int  BY <1>2, OffOf
      <4>5. Off(k) < u + w + 1 <=> Off(k) < u + w  BY <1>4, <4>2, <4>4
      <4> QED  BY <4>1, <4>3, <4>5
    <3> QED  BY <3>1, <3>2
  <2>3. \A k \in Idx : Waits(k)' => seg'[k].seq = SeqAt(Off(k) - u)'
    <3> SUFFICES ASSUME NEW k \in Idx, Waits(k)' PROVE seg'[k].seq = SeqAt(Off(k) - u)
      BY <1>1, <1>5 DEF SeqAt
    <3>1. CASE k = hw_index
      BY <1>2, <1>4, <1>6, <1>9, <3>1 DEF SeqAt, Waiting, Types
    <3>2. CASE k # hw_index
      BY <1>2, <1>8, <1>9, <3>2 DEF RingInv
    <3> QED  BY <3>1, <3>2
  <2> QED  BY <1>1, <1>2, <1>4, <1>5, <1>6, <1>7, <2>1, <2>2, <2>3 DEF RingInv
<1>11. FrameInv'
  <2>1. \A k \in Idx : Waits(k)' =>
          (seg'[k].fsd <=> IF Off(k) = u THEN frag = <<>> ELSE seg'[PrevIndex(k)].lsd)
    <3> SUFFICES ASSUME NEW k \in Idx, Waits(k)'
                 PROVE  seg'[k].fsd <=> IF Off(k) = u THEN frag = <<>> ELSE seg'[PrevIndex(k)].lsd
      OBVIOUS
    <3>1. Off(k) # u => PrevIndex(k) # hw_index /\ PrevIndex(k) \in Idx
      BY <1>2, <1>4, <1>5, <1>6, <1>7 DEF Waits, Off, Types
    <3>2. CASE k = hw_index
      <4>1. seg'[k].fsd <=> hw_segs = 0
        <5>1. PICK f \in BOOLEAN : f = (hw_segs = 0)
          OBVIOUS
        <5>2. s = [seq |-> hw_seq, fsd |-> f, lsd |-> last]
          BY <5>1, Zenon
        <5>3. s.fsd = f  BY <5>2
        <5>4. seg'[k].fsd = f  BY <1>9, <3>2, <5>3, Zenon
        <5> QED  BY <5>1, <5>4, Zenon
      <4>2. Off(k) = u <=> w = 0  BY <1>4, <1>6, <3>2
      <4> QED  BY <1>2, <1>9, <3>1, <3>2, <4>1, <4>2 DEF FrameInv
    <3>3. CASE k # hw_index
      <4>1. Waits(k)  BY <1>8, <3>3
      <4> QED  BY <1>2, <1>9, <3>1, <3>3, <4>1 DEF FrameInv
    <3> QED  BY <3>2, <3>3
  <2>2. PrevIndex(hw_index') = hw_index  BY <1>1, <1>2 DEF Types
  <2>3. hw_segs' = 0 <=> last  BY <1>1, <1>2 DEF Types
  <2>4. Waiting' # 0  BY <1>4, <1>7
  <2> QED  BY <1>1, <1>5, <1>9, <2>1, <2>2, <2>3, <2>4 DEF FrameInv
<1>12. FragIsPrefix'  BY <1>1, <1>2 DEF FragIsPrefix
<1>13. DmaNotForgotten'
  BY <1>1, <1>2, HwWrite(last) DEF DmaNotForgotten, HwWrite
<1> QED  BY <1>3, <1>10, <1>11, <1>12, <1>13 DEF RxInv

LEMMA RxPollTake ==
  ASSUME RxInv, PollTake
  PROVE  /\ RxInv'
         /\ fresh[i] /\ seg[i].seq = drv_seq /\ (seg[i].fsd <=> frag = <<>>)
<1> DEFINE u == Unfilled
           w == Waiting
<1>1. /\ ppc = "rx" /\ cown[i] /\ alloc_count + received < RX_DESCS - 1
      /\ fresh' = [fresh EXCEPT ![i] = FALSE] /\ frag' = Chain(seg[i])
      /\ drv_seq' = NextSeq(drv_seq) /\ received' = received + 1 /\ i' = NextIndex(i)
      /\ UNCHANGED <<cown, seg, cur_index, alloc_index, alloc_count, rx_dma, hw_index,
                     hw_segs, hw_seq, ppc, left>>
  BY DEF PollTake, MayTake, HasCredit, allocVars, hwVars
<1>2. Types /\ RingInv /\ FrameInv /\ FragIsPrefix /\ DmaNotForgotten  BY DEF RxInv
<1>3. u \in 0 .. RX_DESCS - 1 /\ w \in 0 .. RX_DESCS /\ u = alloc_count + received
  BY <1>1, <1>2, OffOf DEF Unfilled
<1>4. i = Wrap(alloc_index + u) /\ i \in Idx  BY <1>1, <1>2 DEF RingInv, ReadIndex, Types
<1>5. Off(i) = u  BY <1>2, <1>3, <1>4, OffOf
<1>6. w > 0
  <2>1. Off(i) < u + w  BY <1>1, <1>2, <1>4 DEF RingInv
  <2> QED  BY <1>3, <1>5, <2>1
<1>7. Waits(i)  BY <1>3, <1>5, <1>6 DEF Waits
<1>8. seg[i].seq = drv_seq
  BY <1>2, <1>3, <1>4, <1>5, <1>7 DEF RingInv, SeqAt, Types
<1>9. seg[i].fsd <=> frag = <<>>
  BY <1>2, <1>4, <1>5, <1>7 DEF FrameInv
<1>10. fresh[i]  BY <1>2, <1>3, <1>4, <1>5 DEF RingInv
<1>11. Unfilled' = u + 1 /\ u + 1 < RX_DESCS /\ ReadIndex' = NextIndex(i)
       /\ \A k \in Idx : Off(k)' = Off(k)
  <2>1. Unfilled' = alloc_count + (received + 1) /\ ReadIndex' = NextIndex(i)
    BY <1>1 DEF Unfilled, ReadIndex
  <2>2. \A k \in Idx : Off(k)' = Off(k)  BY <1>1 DEF Off
  <2> QED  BY <1>1, <1>2, <1>3, <2>1, <2>2 DEF Types
<1>12. Waiting' = w - 1
  BY <1>1, <1>2, <1>6 DEF Waiting, Types
<1>13. /\ \A k \in Idx : Off(k) \in 0 .. RX_DESCS - 1
       /\ \A k \in Idx : Off(k) = u => k = i
  BY <1>2, <1>4, <1>5, OffOf
<1>14. \A k \in Idx : Waits(k)' <=> Waits(k) /\ k # i
  BY <1>3, <1>5, <1>6, <1>11, <1>12, <1>13 DEF Waits
<1>15. seg[i] \in Seg /\ Len(frag) \in Nat  BY <1>2, <1>4 DEF Types
<1>16. frag' \in Seq(Seg) /\ (frag' = <<>> <=> seg[i].lsd)
  BY <1>1, <1>2, <1>15 DEF Chain, Types
<1>17. Types'
  <2>1. fresh' \in [Idx -> BOOLEAN]  BY <1>1, <1>2 DEF Types
  <2> QED  BY <1>1, <1>2, <1>3, <1>16, <2>1 DEF Types
<1>18. RingInv'
  <2>1. ReadIndex' = Wrap(alloc_index' + Unfilled')
    BY <1>1, <1>2, <1>3, <1>4, <1>11 DEF Types
  <2>2. hw_index' = Wrap(alloc_index' + Unfilled' + Waiting')
    BY <1>1, <1>2, <1>3, <1>11, <1>12 DEF RingInv, Types
  <2>3. \A k \in Idx : cown'[k] <=> Off(k)' < Unfilled' + Waiting'
    <3>1. (u + 1) + (w - 1) = u + w  BY <1>3
    <3> QED  BY <1>1, <1>2, <1>11, <1>12, <3>1 DEF RingInv
  <2>4. \A k \in Idx : Off(k)' >= Unfilled' => fresh'[k]
    <3> SUFFICES ASSUME NEW k \in Idx, Off(k) >= u + 1 PROVE fresh'[k]
      BY <1>11
    <3>1. k # i /\ Off(k) >= u  BY <1>3, <1>5, <1>13
    <3> QED  BY <1>1, <1>2, <3>1 DEF RingInv, Types
  <2>5. \A k \in Idx : Waits(k)' => seg'[k].seq = SeqAt(Off(k) - Unfilled)'
    <3> SUFFICES ASSUME NEW k \in Idx, Waits(k)' PROVE seg[k].seq = SeqAt(Off(k) - Unfilled)'
      BY <1>1
    <3>1. Waits(k) /\ seg[k].seq = SeqAt(Off(k) - u)  BY <1>2, <1>14 DEF RingInv
    <3>2. Off(k) \in u + 1 .. RX_DESCS - 1
      BY <1>3, <1>13, <1>14, <3>1 DEF Waits
    <3>3. (Off(k) - Unfilled)' = Off(k) - (u + 1)  BY <1>11
    <3>4. SeqAt(Off(k) - Unfilled)' =
            IF drv_seq' + (Off(k) - (u + 1)) <= RX_DESCS
            THEN drv_seq' + (Off(k) - (u + 1))
            ELSE drv_seq' + (Off(k) - (u + 1)) - RX_DESCS - 1
      BY <3>3 DEF SeqAt
    <3>5. PICK d \in 1 .. RX_DESCS - 1 : d = Off(k) - u /\ d - 1 = Off(k) - (u + 1)
      BY <1>3, <3>2
    <3>6. SeqAt(d) = IF drv_seq' + (d - 1) <= RX_DESCS
                     THEN drv_seq' + (d - 1) ELSE drv_seq' + (d - 1) - RX_DESCS - 1
      BY <1>1, <1>2 DEF SeqAt, Types
    <3> QED  BY <3>1, <3>4, <3>5, <3>6
  <2>6. (u + 1) + (w - 1) <= RX_DESCS  BY <1>2, <1>3 DEF RingInv
  <2> QED  BY <1>1, <1>11, <1>12, <2>1, <2>2, <2>3, <2>4, <2>5, <2>6 DEF RingInv
<1>19. FrameInv'
  <2>1. ASSUME NEW k \in Idx, Waits(k)'
        PROVE  seg[k].fsd <=> IF Off(k) = u + 1 THEN frag' = <<>> ELSE seg[PrevIndex(k)].lsd
    <3>1. Waits(k) /\ k # i /\ Off(k) # u  BY <1>13, <1>14, <2>1
    <3>2. seg[k].fsd <=> seg[PrevIndex(k)].lsd  BY <1>2, <3>1 DEF FrameInv
    <3>3. Off(k) = u + 1 => PrevIndex(k) = i
      <4>1. Off(k) = u + 1 => Off(PrevIndex(k)) = u /\ PrevIndex(k) \in Idx
        BY <1>2, <1>3 DEF Off, Types
      <4> QED  BY <1>13, <4>1
    <3> QED  BY <1>16, <3>2, <3>3
  <2>2. hw_segs' = 0 <=> IF w - 1 = 0 THEN frag' = <<>> ELSE seg[PrevIndex(hw_index)].lsd
    <3>1. hw_segs = 0 <=> seg[PrevIndex(hw_index)].lsd  BY <1>2, <1>3, <1>6 DEF FrameInv
    <3>2. w = 1 => PrevIndex(hw_index) = i
      BY <1>2, <1>3, <1>4 DEF RingInv, Types
    <3> QED  BY <1>1, <1>3, <1>16, <3>1, <3>2
  <2> QED  BY <1>1, <1>11, <1>12, <2>1, <2>2 DEF FrameInv
<1>20. FragIsPrefix'
  <2>1. CASE seg[i].lsd  BY <1>16, <2>1 DEF FragIsPrefix
  <2>2. CASE ~seg[i].lsd
    <3>1. frag' = Append(frag, seg[i])  BY <1>1, <2>2 DEF Chain
    <3>2. /\ Len(frag') = Len(frag) + 1 /\ frag'[Len(frag) + 1] = seg[i]
          /\ \A k \in 1 .. Len(frag) : frag'[k] = frag[k]
      BY <1>2, <1>15, <3>1 DEF Types
    <3>3. frag = <<>> <=> Len(frag) = 0  BY <1>2 DEF Types
    <3>4. \A k \in DOMAIN frag' : frag'[k].fsd = (k = 1) /\ ~frag'[k].lsd
      <4> SUFFICES ASSUME NEW k \in 1 .. Len(frag) + 1
                   PROVE  frag'[k].fsd = (k = 1) /\ ~frag'[k].lsd
        BY <1>16, <3>2
      <4>1. CASE k <= Len(frag)
        <5>1. k \in DOMAIN frag /\ frag # <<>>
          BY <1>2, <1>15, <3>3, <4>1 DEF Types
        <5>2. frag[k].fsd = (k = 1) /\ ~frag[k].lsd  BY <1>2, <5>1, Zenon DEF FragIsPrefix
        <5>3. frag'[k] = frag[k]  BY <1>15, <3>2, <4>1
        <5> QED  BY <5>2, <5>3, Zenon
      <4>2. CASE k = Len(frag) + 1
        <5>1. k = 1 <=> frag = <<>>  BY <1>15, <3>3, <4>2
        <5>2. frag'[k] = seg[i]  BY <3>2, <4>2
        <5>3. seg[i].fsd \in BOOLEAN  BY <1>15 DEF Seg
        <5>4. seg[i].fsd = (k = 1)  BY <1>9, <5>1, <5>3, Zenon
        <5> QED  BY <2>2, <5>2, <5>4, Zenon
      <4> QED  BY <1>15, <4>1, <4>2
    <3>5. \A k \in 1 .. Len(frag') - 1 : frag'[k + 1].seq = NextSeq(frag'[k].seq)
      <4> SUFFICES ASSUME NEW k \in 1 .. Len(frag)
                   PROVE  frag'[k + 1].seq = NextSeq(frag'[k].seq)
        BY <1>15, <3>2
      <4>1. frag # <<>>  BY <1>15, <3>3
      <4>2. frag'[k] = frag[k]  BY <3>2
      <4>3. CASE k = Len(frag)
        BY <1>2, <1>8, <3>2, <4>1, <4>2, <4>3 DEF FragIsPrefix
      <4>4. CASE k # Len(frag)
        <5>1. k \in 1 .. Len(frag) - 1 /\ k + 1 \in 1 .. Len(frag)  BY <1>15, <4>4
        <5> QED  BY <1>2, <3>2, <4>1, <4>2, <5>1 DEF FragIsPrefix
      <4> QED  BY <4>3, <4>4
    <3>6. NextSeq(frag'[Len(frag')].seq) = drv_seq'  BY <1>1, <1>8, <3>2
    <3> QED  BY <3>4, <3>5, <3>6 DEF FragIsPrefix
  <2> QED  BY <2>1, <2>2
<1>21. DmaNotForgotten'  BY <1>1, <1>2 DEF DmaNotForgotten
<1> QED  BY <1>8, <1>9, <1>10, <1>17, <1>18, <1>19, <1>20, <1>21 DEF RxInv

LEMMA RxAllocBuffer ==
  ASSUME RxInv, AllocBuffer
  PROVE  RxInv'
<1>1. /\ ppc = "alloc" /\ left > 0 /\ ppc' = "give"
      /\ fresh' = [fresh EXCEPT ![alloc_index] = TRUE]
      /\ UNCHANGED <<cown, seg, cur_index, alloc_index, alloc_count, frag, rx_dma, hw_index,
                     hw_segs, hw_seq, drv_seq, i, received, left>>
  BY DEF AllocBuffer, allocVars, hwVars
<1>2. Types /\ RingInv /\ FrameInv /\ FragIsPrefix /\ DmaNotForgotten  BY DEF RxInv
<1>3. Types'
  <2>1. fresh' \in [Idx -> BOOLEAN]  BY <1>1, <1>2 DEF Types
  <2> QED  BY <1>1, <1>2, <2>1 DEF Types
<1>4. /\ Unfilled' = Unfilled /\ ReadIndex' = ReadIndex /\ Waiting' = Waiting
      /\ \A k \in Idx : Off(k)' = Off(k)
      /\ \A d \in Int : SeqAt(d)' = SeqAt(d)
  BY <1>1 DEF Unfilled, ReadIndex, Waiting, Off, SeqAt
<1>5. \A k \in Idx : Waits(k)' <=> Waits(k)  BY <1>4 DEF Waits
<1>6. RingInv'
  <2>1. \A k \in Idx : Off(k)' >= Unfilled' => fresh'[k]
    BY <1>1, <1>2, <1>4 DEF RingInv, Types
  <2>2. fresh'[alloc_index]  BY <1>1, <1>2 DEF Types
  <2>3. \A k \in Idx : Off(k) - Unfilled \in Int  BY <1>2, OffOf
  <2> QED  BY <1>1, <1>2, <1>4, <1>5, <2>1, <2>2, <2>3 DEF RingInv
<1>7. FrameInv'  BY <1>1, <1>2, <1>4, <1>5 DEF FrameInv
<1> QED  BY <1>1, <1>2, <1>3, <1>6, <1>7 DEF RxInv, FragIsPrefix, DmaNotForgotten

LEMMA RxAllocGive ==
  ASSUME RxInv, AllocGive
  PROVE  RxInv'
<1> SUFFICES ASSUME NEW a, a = alloc_index PROVE RxInv'
  OBVIOUS
<1> DEFINE u == Unfilled
           w == Waiting
<1>1. /\ ppc = "give" /\ ppc' = "alloc" /\ alloc_index' = NextIndex(a) /\ left' = left - 1
      /\ cown' = [cown EXCEPT ![a] = FALSE] /\ seg' = [seg EXCEPT ![a] = NoSeg]
      /\ UNCHANGED <<fresh, cur_index, alloc_count, frag, rx_dma, hw_index,
                     hw_segs, hw_seq, drv_seq, i, received>>
  BY DEF AllocGive, hwVars
<1>2. Types /\ RingInv /\ FrameInv /\ FragIsPrefix /\ DmaNotForgotten  BY DEF RxInv
<1>3. /\ u \in 1 .. RX_DESCS - 1 /\ w \in 0 .. RX_DESCS /\ u = left
      /\ u + w <= RX_DESCS /\ a \in Idx /\ fresh[a]
  <2>1. u = left  BY <1>1 DEF Unfilled
  <2>2. left \in 1 .. RX_DESCS - 1 /\ a \in Idx  BY <1>1, <1>2 DEF Types
  <2>3. w \in 0 .. RX_DESCS  BY <1>2, OffOf
  <2>4. u + w <= RX_DESCS /\ fresh[a]  BY <1>1, <1>2 DEF RingInv
  <2> QED  BY <2>1, <2>2, <2>3, <2>4
<1>4. Types'
  <2>1. NoSeg \in Seg  BY DEF NoSeg, Seg
  <2>2. cown' \in [Idx -> BOOLEAN] /\ seg' \in [Idx -> Seg]
    BY <1>1, <1>2, <2>1 DEF Types
  <2> QED  BY <1>1, <1>2, <1>3, <2>2 DEF Types
<1>5. Unfilled' = u - 1 /\ ReadIndex' = ReadIndex /\ Waiting' = w
  <2>1. Unfilled' = left'  BY <1>1 DEF Unfilled
  <2> QED  BY <1>1, <1>3, <2>1 DEF ReadIndex, Waiting
<1>6. /\ Off(a) = 0 /\ Off(a)' = RX_DESCS - 1
      /\ \A k \in Idx : k # a => Off(k) \in 1 .. RX_DESCS - 1 /\ Off(k)' = Off(k) - 1
  BY <1>1, <1>3 DEF Off
<1>7. /\ ~cown'[a] /\ seg'[a] = NoSeg
      /\ \A k \in Idx : k # a => cown'[k] = cown[k] /\ seg'[k] = seg[k]
  BY <1>1, <1>2, <1>3 DEF Types
<1>8. \A k \in Idx : Waits(k)' <=> Waits(k) /\ k # a
  <2> SUFFICES ASSUME NEW k \in Idx PROVE Waits(k)' <=> Waits(k) /\ k # a
    OBVIOUS
  <2>0. Waits(k)' <=> u - 1 <= Off(k)' /\ Off(k)' < u - 1 + w  BY <1>5 DEF Waits
  <2>1. CASE k = a
    BY <1>3, <1>6, <2>0, <2>1
  <2>2. CASE k # a
    <3>1. Off(k) \in 1 .. RX_DESCS - 1 /\ Off(k)' = Off(k) - 1  BY <1>6, <2>2
    <3>2. u - 1 <= Off(k) - 1 /\ Off(k) - 1 < u - 1 + w <=> u <= Off(k) /\ Off(k) < u + w
      BY <1>3, <3>1
    <3> QED  BY <2>0, <2>2, <3>1, <3>2 DEF Waits
  <2> QED  BY <2>1, <2>2
<1>9. RingInv'
  <2>1. ReadIndex = Wrap(NextIndex(a) + (u - 1))
    BY <1>2, <1>3 DEF RingInv
  <2>2. hw_index = Wrap(NextIndex(a) + (u - 1) + w)
    BY <1>2, <1>3 DEF RingInv
  <2>3. ASSUME NEW k \in Idx PROVE cown'[k] <=> Off(k)' < u - 1 + w
    <3>1. CASE k = a  BY <1>3, <1>6, <1>7, <3>1
    <3>2. CASE k # a
      <4>1. cown'[k] <=> Off(k) < u + w  BY <1>2, <1>7, <3>2 DEF RingInv
      <4> QED  BY <1>3, <1>6, <3>2, <4>1
    <3> QED  BY <3>1, <3>2
  <2>4. ASSUME NEW k \in Idx, Off(k)' >= u - 1 PROVE fresh[k]
    <3>1. CASE k = a  BY <1>3, <3>1
    <3>2. CASE k # a
      <4>1. Off(k) >= u  BY <1>3, <1>6, <2>4, <3>2
      <4> QED  BY <1>2, <4>1 DEF RingInv
    <3> QED  BY <3>1, <3>2
  <2>5. ASSUME NEW k \in Idx, Waits(k)' PROVE seg'[k].seq = SeqAt(Off(k) - Unfilled)'
    <3>1. Waits(k) /\ k # a  BY <1>8, <2>5
    <3>2. seg'[k].seq = SeqAt(Off(k) - u)  BY <1>2, <1>7, <3>1 DEF RingInv
    <3>3. (Off(k) - Unfilled)' = Off(k) - u  BY <1>3, <1>5, <1>6, <3>1
    <3> QED  BY <1>1, <3>2, <3>3 DEF SeqAt
  <2>6. u - 1 + w <= RX_DESCS  BY <1>3
  <2> QED  BY <1>1, <1>5, <2>1, <2>2, <2>3, <2>4, <2>5, <2>6 DEF RingInv
<1>10. FrameInv'
  <2>1. ASSUME NEW k \in Idx, Waits(k)'
        PROVE  seg'[k].fsd <=> IF Off(k)' = u - 1 THEN frag = <<>> ELSE seg'[PrevIndex(k)].lsd
    <3>1. Waits(k) /\ k # a  BY <1>8, <2>1
    <3>2. Off(k) \in u .. RX_DESCS - 1 /\ Off(k)' = Off(k) - 1
      BY <1>3, <1>6, <3>1 DEF Waits
    <3>3. Off(k) # u => PrevIndex(k) \in Idx \ {a}
      BY <1>3, <3>2 DEF Off
    <3>4. Off(k)' = u - 1 <=> Off(k) = u  BY <1>3, <3>2
    <3> QED  BY <1>2, <1>7, <3>1, <3>3, <3>4 DEF FrameInv
  <2>2. w # 0 => PrevIndex(hw_index) \in Idx \ {a}
    BY <1>2, <1>3 DEF RingInv
  <2>3. hw_segs' = 0 <=> IF w = 0 THEN frag = <<>> ELSE seg'[PrevIndex(hw_index)].lsd
    BY <1>1, <1>2, <1>7, <2>2 DEF FrameInv
  <2> QED  BY <1>1, <1>5, <2>1, <2>3 DEF FrameInv
<1> QED  BY <1>1, <1>2, <1>4, <1>9, <1>10 DEF RxInv, FragIsPrefix, DmaNotForgotten

(* The rest leaves the ring and what is in it alone.                        *)
Quiet ==
  /\ UNCHANGED <<ringVars, cur_index, alloc_index, frag, hw_index, hw_segs, hw_seq, drv_seq,
                 ppc, i, received, left, alloc_count>>
  /\ rx_dma' = rx_dma \/ cown[hw_index]

LEMMA RxQuiet ==
  ASSUME RxInv, Quiet
  PROVE  RxInv'
<1>1. UNCHANGED <<ringVars, cur_index, alloc_index, frag, hw_index, hw_segs, hw_seq, drv_seq,
                  ppc, i, received, left, alloc_count>>
  BY DEF Quiet
<1>2. Types'  BY <1>1 DEF RxInv, Types, ringVars
<1>3. Unfilled' = Unfilled /\ ReadIndex' = ReadIndex  BY <1>1 DEF Unfilled, ReadIndex
<1>4. DmaNotForgotten'
  BY DEF Quiet, RxInv, DmaNotForgotten, ringVars
<1> QED  BY <1>1, <1>2, <1>3, <1>4, RingKept

LEMMA RxSchedule ==
  ASSUME \/ HwStop \/ RxIrq \/ XmitSchedules \/ PollEnableIrq \/ UNCHANGED vars
         \/ \E c \in Callers : ScheduleDisableIrq(c) \/ ScheduleReady(c)
  PROVE  Quiet
<1>1. CASE HwStop  BY <1>1 DEF HwStop, Quiet, allocVars, pollVars
<1>2. CASE RxIrq \/ XmitSchedules \/ PollEnableIrq
  BY <1>2 DEF RxIrq, XmitSchedules, PollEnableIrq, Quiet, allocVars, pollVars, hwVars
<1>3. CASE UNCHANGED vars
  BY <1>3 DEF vars, Quiet, allocVars, pollVars, hwVars
<1>4. CASE \E c \in Callers : ScheduleDisableIrq(c) \/ ScheduleReady(c)
  BY <1>4 DEF ScheduleDisableIrq, ScheduleReady, Quiet, allocVars, pollVars, hwVars
<1> QED  BY <1>1, <1>2, <1>3, <1>4

LEMMA RxPoll ==
  ASSUME RxInv,
         \/ PollStart \/ PollTakeFails \/ PollTaken \/ AllocEnd \/ EnableRxDma
         \/ PollAgain \/ PollMissed \/ PollComplete
  PROVE  RxInv' /\ received' \in {received, 0}
<1>1. Types /\ RingInv /\ DmaNotForgotten  BY DEF RxInv
<1>2. CASE PollStart
  <2>1. /\ ppc = "idle" /\ ppc' = "rx" /\ i' = cur_index /\ received' = 0
        /\ UNCHANGED <<ringVars, cur_index, allocVars, frag, hwVars, drv_seq, left>>
    BY <1>2 DEF PollStart
  <2>2. Types'  BY <1>1, <2>1 DEF Types, ringVars, allocVars, hwVars
  <2>3. Unfilled' = Unfilled /\ ReadIndex' = ReadIndex
    <3>1. Unfilled' = alloc_count + 0 /\ ReadIndex' = cur_index
      BY <2>1 DEF Unfilled, ReadIndex, allocVars
    <3>2. Unfilled = alloc_count /\ ReadIndex = cur_index
      BY <2>1 DEF Unfilled, ReadIndex
    <3> QED  BY <1>1, <3>1, <3>2 DEF Types
  <2>4. DmaNotForgotten'  BY <1>1, <2>1 DEF DmaNotForgotten, ringVars, hwVars
  <2> QED  BY <2>1, <2>2, <2>3, <2>4, RingKept DEF allocVars, hwVars
<1>3. CASE PollTakeFails \/ PollTaken
  <2>1. /\ ppc = "rx" /\ ppc' = "alloc" /\ cur_index' = i /\ left' = received + alloc_count
        /\ UNCHANGED <<ringVars, allocVars, frag, hwVars, drv_seq, i, received>>
    BY <1>3 DEF PollTakeFails, PollTaken, PollLoopEnd
  <2>2. Types'  BY <1>1, <2>1 DEF Types, ringVars, allocVars, hwVars
  <2>3. Unfilled' = Unfilled /\ ReadIndex' = ReadIndex
    <3>1. Unfilled' = received + alloc_count /\ ReadIndex' = i
      BY <2>1 DEF Unfilled, ReadIndex
    <3>2. Unfilled = alloc_count + received /\ ReadIndex = i
      BY <2>1 DEF Unfilled, ReadIndex
    <3> QED  BY <1>1, <3>1, <3>2 DEF Types
  <2>4. DmaNotForgotten'  BY <1>1, <2>1 DEF DmaNotForgotten, ringVars, hwVars
  <2> QED  BY <2>1, <2>2, <2>3, <2>4, RingKept DEF allocVars, hwVars
<1>4. CASE AllocEnd
  <2>1. /\ ppc = "alloc" /\ ppc' = "dma" /\ alloc_count' = left /\ left' = 0
        /\ UNCHANGED <<ringVars, cur_index, alloc_index, frag, hwVars, drv_seq, i, received>>
    BY <1>4 DEF AllocEnd
  <2>2. Types'  BY <1>1, <2>1 DEF Types, ringVars, hwVars
  <2>3. Unfilled' = Unfilled /\ ReadIndex' = ReadIndex  BY <2>1 DEF Unfilled, ReadIndex
  <2>4. DmaNotForgotten'  BY <1>1, <2>1 DEF DmaNotForgotten, ringVars, hwVars
  <2> QED  BY <2>1, <2>2, <2>3, <2>4, RingKept DEF hwVars
<1>5. CASE EnableRxDma
  <2>1. /\ ppc = "dma" /\ ppc' = "complete" /\ rx_dma' = TRUE
        /\ UNCHANGED <<ringVars, cur_index, allocVars, frag, hw_index, hw_segs, hw_seq, drv_seq,
                       i, received, left>>
    BY <1>5 DEF EnableRxDma
  <2>2. Types'  BY <1>1, <2>1 DEF Types, ringVars, allocVars
  <2>3. Unfilled' = Unfilled /\ ReadIndex' = ReadIndex
    BY <2>1 DEF Unfilled, ReadIndex, allocVars
  <2>4. DmaNotForgotten'  BY <2>1 DEF DmaNotForgotten
  <2> QED  BY <2>1, <2>2, <2>3, <2>4, RingKept DEF allocVars
<1>6. CASE PollAgain \/ PollMissed \/ PollComplete
  <2>1. /\ ppc = "complete" /\ ppc' = "idle" /\ i' = 0 /\ received' = 0
        /\ UNCHANGED <<ringVars, cur_index, allocVars, frag, hwVars, drv_seq, left>>
    BY <1>6 DEF PollAgain, PollMissed, PollComplete, PollReturn
  <2>2. Types'  BY <1>1, <2>1 DEF Types, ringVars, allocVars, hwVars
  <2>3. Unfilled' = Unfilled /\ ReadIndex' = ReadIndex
    BY <2>1 DEF Unfilled, ReadIndex, allocVars
  <2>4. DmaNotForgotten'  BY <1>1, <2>1 DEF DmaNotForgotten, ringVars, hwVars
  <2> QED  BY <2>1, <2>2, <2>3, <2>4, RingKept DEF allocVars, hwVars
<1> QED  BY <1>2, <1>3, <1>4, <1>5, <1>6

-----------------------------------------------------------------------------
LEMMA RxInitially == Init => RxInv
<1> SUFFICES ASSUME Init PROVE RxInv
  OBVIOUS
<1> USE DEF Init
<1>1. Types  BY DEF Types, NoSeg, Seg
<1>2. Unfilled = 0 /\ Waiting = 0 /\ ReadIndex = 0  BY DEF Unfilled, Waiting, ReadIndex
<1>3. \A k \in Idx : Off(k) \in 0 .. RX_DESCS - 1 /\ ~Waits(k)
  BY <1>1, <1>2, OffOf DEF Waits
<1>4. RingInv  BY <1>1, <1>2, <1>3 DEF RingInv
<1>5. FrameInv  BY <1>2, <1>3 DEF FrameInv
<1>6. FragIsPrefix /\ DmaNotForgotten  BY DEF FragIsPrefix, DmaNotForgotten
<1> QED  BY <1>1, <1>4, <1>5, <1>6 DEF RxInv

LEMMA RxStep ==
  RxInv /\ [Next]_vars =>
    /\ RxInv'
    /\ received' > received => fresh[i] /\ seg[i].seq = drv_seq /\ (seg[i].fsd <=> frag = <<>>)
<1> SUFFICES ASSUME RxInv, [Next]_vars
             PROVE  /\ RxInv'
                    /\ received' > received =>
                         fresh[i] /\ seg[i].seq = drv_seq /\ (seg[i].fsd <=> frag = <<>>)
  OBVIOUS
<1>0. received \in Nat  BY DEF RxInv, Types
<1>1. CASE PollTake  BY <1>1, RxPollTake
<1>2. ASSUME NEW last \in BOOLEAN, HwWrite(last) PROVE RxInv' /\ received' = received
  BY <1>2, RxHwWrite DEF HwWrite, pollVars
<1>3. CASE AllocBuffer \/ AllocGive
  <2>1. received' = received  BY <1>3 DEF AllocBuffer, AllocGive
  <2> QED  BY <1>0, <1>3, <2>1, RxAllocBuffer, RxAllocGive
<1>4. CASE \/ HwStop \/ RxIrq \/ XmitSchedules \/ PollEnableIrq \/ UNCHANGED vars
           \/ \E c \in Callers : ScheduleDisableIrq(c) \/ ScheduleReady(c)
  <2>1. Quiet  BY <1>4, RxSchedule
  <2>2. received' = received  BY <2>1 DEF Quiet
  <2> QED  BY <1>0, <2>1, <2>2, RxQuiet
<1>5. CASE \/ PollStart \/ PollTakeFails \/ PollTaken \/ AllocEnd \/ EnableRxDma
           \/ PollAgain \/ PollMissed \/ PollComplete
  <2>1. RxInv' /\ received' \in {received, 0}  BY <1>5, RxPoll
  <2> QED  BY <1>0, <2>1
<1> QED  BY <1>0, <1>1, <1>2, <1>3, <1>4, <1>5 DEF Next

LEMMA RxInvHolds == Spec => []RxInv
BY RxInitially, RxStep, PTL DEF Spec

(* alloc_index and alloc_count always say which slots are empty.            *)
THEOREM CreditExactHolds == Spec => []CreditExact
<1>1. RxInv => CreditExact
  <2> SUFFICES ASSUME RxInv PROVE (alloc_index + Unfilled) % RX_DESCS = ReadIndex
    BY DEF CreditExact
  <2>1. alloc_index + Unfilled \in 0 .. 2 * RX_DESCS - 1
    <3>1. Types  BY DEF RxInv
    <3>2. alloc_index \in Idx /\ Unfilled \in 0 .. RX_DESCS - 1  BY <3>1, OffOf DEF Types
    <3> QED  BY <3>2
  <2>2. (alloc_index + Unfilled) % RX_DESCS = Wrap(alloc_index + Unfilled)
    BY <2>1
  <2> QED  BY <2>2 DEF RxInv, RingInv
<1> QED  BY <1>1, RxInvHolds, PTL

(* The switch never owns a buffer that the stack may have.                  *)
THEOREM HwOwnsFreshHolds == Spec => []HwOwnsFresh
<1>1. RxInv => HwOwnsFresh
  BY OffOf DEF RxInv, RingInv, HwOwnsFresh
<1> QED  BY <1>1, RxInvHolds, PTL

(* The chain between two polls is the beginning of one frame.               *)
THEOREM FragIsPrefixHolds == Spec => []FragIsPrefix
<1>1. RxInv => FragIsPrefix  BY DEF RxInv
<1> QED  BY <1>1, RxInvHolds, PTL

(* The receive DMA is never left stopped with a descriptor to use.          *)
THEOREM DmaNotForgottenHolds == Spec => []DmaNotForgotten
<1>1. RxInv => DmaNotForgotten  BY DEF RxInv
<1> QED  BY <1>1, RxInvHolds, PTL

(* eth_poll takes each segment once, in the order in which they were        *)
(* written, and out of a buffer that is not already the stack's.            *)
THEOREM TakesInOrderHolds == Spec => TakesInOrder
<1>1. RxInv /\ [Next]_vars =>
        [received' > received =>
           fresh[i] /\ seg[i].seq = drv_seq /\ (seg[i].fsd <=> frag = <<>>)]_vars
  BY RxStep
<1> QED  BY <1>1, RxInvHolds, PTL DEF Spec, TakesInOrder

-----------------------------------------------------------------------------
(* Where the one permission to poll is: with a caller of napi_schedule_prep, *)
(* on a CPU's list, or in eth_poll.                                          *)
Tokens ==
  {c \in Callers : spc[c] # "idle"}
    \cup (IF ready THEN {"ready"} ELSE {}) \cup (IF ppc # "idle" THEN {"poll"} ELSE {})

(* Who has it has disabled the interrupt, but for a caller that has only just*)
(* won it, and so has each eth_poll that has let go of it already.           *)
Disabler == IF Tokens \ {c \in Callers : spc[c] = "won"} = {} THEN 0 ELSE 1

NapiInv ==
  /\ IF sched THEN \E t \in Tokens : Tokens = {t} ELSE Tokens = {}
  /\ irq_depth = enabling + Disabler
  /\ enabling \in 0 .. NrCpus /\ (ppc # "idle" => enabling < NrCpus)

NapiTypes == spc \in [Callers -> {"idle", "won", "disabled"}] /\ enabling \in 0 .. NrCpus

LEMMA TokensKept ==
  ASSUME NapiTypes, NapiInv, UNCHANGED <<spc, ready, sched, enabling, irq_depth>>,
         ppc # "idle" <=> ppc' # "idle"
  PROVE  NapiTypes' /\ NapiInv'
<1>1. Tokens' = Tokens
  BY Zenon DEF Tokens
<1>2. Disabler' = Disabler
  BY <1>1, Zenon DEF Disabler
<1> QED BY <1>1, <1>2, Zenon DEF NapiTypes, NapiInv

LEMMA NapiSchedule ==
  ASSUME NapiTypes, NapiInv, NEW c \in Callers,
         \/ SchedulePrep(c) /\ UNCHANGED ppc
         \/ ScheduleDisableIrq(c) \/ ScheduleReady(c)
  PROVE  NapiTypes' /\ NapiInv'
<1>1. CASE SchedulePrep(c) /\ UNCHANGED ppc /\ sched
  <2>1. UNCHANGED <<spc, ready, sched, enabling, irq_depth, ppc>>
    BY <1>1, Zenon DEF SchedulePrep
  <2> QED BY <2>1, TokensKept, Zenon
<1>2. CASE SchedulePrep(c) /\ UNCHANGED ppc /\ ~sched
  <2>1. /\ sched' /\ spc' = [spc EXCEPT ![c] = "won"]
        /\ UNCHANGED <<ready, enabling, irq_depth, ppc>>
    BY <1>2, Zenon DEF SchedulePrep
  <2>2. Tokens = {} /\ Disabler = 0
    BY <1>2, Zenon DEF NapiInv, Disabler
  <2>3. ~ready /\ ppc = "idle" /\ \A d \in Callers : spc[d] = "idle"
    BY <2>2, Zenon DEF Tokens
  <2>4. spc'[c] = "won" /\ \A d \in Callers \ {c} : spc'[d] = "idle"
    BY <2>1, <2>3 DEF NapiTypes
  <2>5. Tokens' = {c}
    BY <2>1, <2>3, <2>4 DEF Tokens
  <2>6. Disabler' = 0
    BY <2>4, <2>5 DEF Disabler
  <2>7. NapiTypes'
    BY <2>1 DEF NapiTypes
  <2> QED BY <2>1, <2>2, <2>3, <2>5, <2>6, <2>7 DEF NapiInv
<1>3. CASE ScheduleDisableIrq(c)
  <2>1. /\ spc[c] = "won" /\ spc' = [spc EXCEPT ![c] = "disabled"]
        /\ irq_depth' = irq_depth + 1 /\ UNCHANGED <<ready, sched, enabling, ppc>>
    BY <1>3 DEF ScheduleDisableIrq, pollVars
  <2>2. c \in Tokens
    BY <2>1 DEF Tokens
  <2>3. sched /\ Tokens = {c}
    BY <2>2 DEF NapiInv
  <2>4. Tokens' = Tokens
    <3>1. \A d \in Callers : spc'[d] # "idle" <=> spc[d] # "idle"
      BY <2>1 DEF NapiTypes
    <3> QED BY <2>1, <3>1, Zenon DEF Tokens
  <2>5. Disabler = 0 /\ Disabler' = 1
    BY <2>1, <2>3, <2>4 DEF Disabler, NapiTypes
  <2>6. NapiTypes'
    BY <2>1 DEF NapiTypes
  <2> QED BY <2>1, <2>3, <2>4, <2>5, <2>6 DEF NapiInv
<1>4. CASE ScheduleReady(c)
  <2>1. /\ spc[c] = "disabled" /\ spc' = [spc EXCEPT ![c] = "idle"]
        /\ ready' /\ UNCHANGED <<irq_depth, sched, enabling, ppc>>
    BY <1>4, Zenon DEF ScheduleReady, pollVars
  <2>2. c \in Tokens
    BY <2>1 DEF Tokens
  <2>3. sched /\ Tokens = {c}
    BY <2>2 DEF NapiInv
  <2>4. c # "poll" /\ c # "ready"
    BY DEF Callers
  <2>5. ppc = "idle" /\ \A d \in Callers \ {c} : spc[d] = "idle"
    BY <2>3, <2>4 DEF Tokens
  <2>6. \A d \in Callers : spc'[d] = "idle"
    BY <2>1, <2>5 DEF NapiTypes
  <2>7. Tokens' = {"ready"}
    BY <2>1, <2>5, <2>6 DEF Tokens
  <2>8. Disabler = 1 /\ Disabler' = 1
    BY <2>1, <2>3, <2>6, <2>7 DEF Disabler
  <2>9. NapiTypes'
    BY <2>1 DEF NapiTypes
  <2> QED BY <2>1, <2>3, <2>5, <2>7, <2>8, <2>9 DEF NapiInv
<1> QED BY <1>1, <1>2, <1>3, <1>4

LEMMA NapiPoll ==
  ASSUME NapiTypes, NapiInv,
         PollStart \/ PollAgain \/ PollMissed \/ PollComplete \/ PollEnableIrq
  PROVE  NapiTypes' /\ NapiInv'
<1>0. "poll" \notin Callers /\ "ready" \notin Callers
  BY DEF Callers
<1>1. CASE PollStart
  <2>1. /\ ready /\ ~ready' /\ ppc' = "rx" /\ enabling < NrCpus
        /\ UNCHANGED <<irq_depth, sched, spc, enabling>>
    BY <1>1, Zenon DEF PollStart
  <2>2. "ready" \in Tokens
    BY <2>1 DEF Tokens
  <2>3. sched /\ Tokens = {"ready"}
    BY <2>2 DEF NapiInv
  <2>4. \A d \in Callers : spc[d] = "idle"
    BY <1>0, <2>3 DEF Tokens
  <2>5. Tokens' = {"poll"}
    BY <2>1, <2>4 DEF Tokens
  <2>6. Disabler = 1 /\ Disabler' = 1
    BY <1>0, <2>1, <2>3, <2>5 DEF Disabler
  <2> QED BY <2>1, <2>3, <2>5, <2>6 DEF NapiInv, NapiTypes
<1>2. CASE PollAgain \/ PollMissed
  <2>1. /\ ready' /\ ppc # "idle" /\ ppc' = "idle"
        /\ UNCHANGED <<irq_depth, sched, spc, enabling>>
    BY <1>2, Zenon DEF PollAgain, PollMissed, PollReturn
  <2>2. "poll" \in Tokens
    BY <2>1 DEF Tokens
  <2>3. sched /\ Tokens = {"poll"}
    BY <2>2 DEF NapiInv
  <2>4. \A d \in Callers : spc[d] = "idle"
    BY <1>0, <2>3 DEF Tokens
  <2>5. Tokens' = {"ready"}
    BY <2>1, <2>4 DEF Tokens
  <2>6. Disabler = 1 /\ Disabler' = 1
    BY <1>0, <2>1, <2>3, <2>5 DEF Disabler
  <2> QED BY <2>1, <2>3, <2>5, <2>6 DEF NapiInv, NapiTypes
<1>3. CASE PollComplete
  <2>1. /\ ~sched' /\ ppc # "idle" /\ ppc' = "idle" /\ enabling' = enabling + 1
        /\ UNCHANGED <<irq_depth, ready, spc>>
    BY <1>3, Zenon DEF PollComplete, PollReturn
  <2>2. "poll" \in Tokens
    BY <2>1 DEF Tokens
  <2>3. sched /\ Tokens = {"poll"}
    BY <2>2 DEF NapiInv
  <2>4. ~ready /\ \A d \in Callers : spc[d] = "idle"
    BY <1>0, <2>3 DEF Tokens
  <2>5. Tokens' = {}
    BY <2>1, <2>4 DEF Tokens
  <2>6. Disabler = 1 /\ Disabler' = 0
    BY <1>0, <2>3, <2>5 DEF Disabler
  <2>7. NapiTypes'
    BY <2>1 DEF NapiInv, NapiTypes
  <2> QED BY <2>1, <2>5, <2>6, <2>7 DEF NapiInv, NapiTypes
<1>4. CASE PollEnableIrq
  <2>1. /\ enabling > 0 /\ enabling' = enabling - 1 /\ irq_depth' = irq_depth - 1
        /\ UNCHANGED <<sched, ready, spc, ppc>>
    BY <1>4 DEF PollEnableIrq, pollVars
  <2>2. Tokens' = Tokens
    BY <2>1, Zenon DEF Tokens
  <2>3. Disabler' = Disabler /\ Disabler \in {0, 1}
    BY <2>1, <2>2, Zenon DEF Disabler
  <2>4. NapiTypes'
    BY <2>1 DEF NapiTypes
  <2>5. IF sched' THEN \E t \in Tokens' : Tokens' = {t} ELSE Tokens' = {}
    BY <2>1, <2>2, Zenon DEF NapiInv
  <2>6. enabling' < NrCpus /\ irq_depth' = enabling' + Disabler'
    BY <2>1, <2>3 DEF NapiInv, NapiTypes
  <2> QED BY <2>4, <2>5, <2>6 DEF NapiInv, NapiTypes
<1> QED BY <1>1, <1>2, <1>3, <1>4

LEMMA NapiStep == NapiTypes /\ NapiInv /\ [Next]_vars => NapiTypes' /\ NapiInv'
<1> SUFFICES ASSUME NapiTypes, NapiInv, [Next]_vars PROVE NapiTypes' /\ NapiInv'
  OBVIOUS
<1>1. CASE \/ \E last \in BOOLEAN : HwWrite(last)
           \/ HwStop \/ UNCHANGED vars
           \/ PollTake \/ PollTakeFails \/ PollTaken
           \/ AllocBuffer \/ AllocGive \/ AllocEnd \/ EnableRxDma
  <2>1. UNCHANGED napiVars /\ (ppc # "idle" <=> ppc' # "idle")
    <3>1. CASE (\E last \in BOOLEAN : HwWrite(last)) \/ HwStop \/ UNCHANGED vars
      BY <3>1, Zenon DEF HwWrite, HwStop, vars, pollVars
    <3>2. CASE PollTake \/ PollTakeFails \/ PollTaken
      BY <3>2 DEF PollTake, PollTakeFails, PollTaken, PollLoopEnd
    <3>3. CASE AllocBuffer \/ AllocGive \/ AllocEnd \/ EnableRxDma
      BY <3>3 DEF AllocBuffer, AllocGive, AllocEnd, EnableRxDma
    <3> QED BY <1>1, <3>1, <3>2, <3>3
  <2> QED BY <2>1, TokensKept, Zenon DEF napiVars
<1>2. CASE RxIrq \/ XmitSchedules
  <2>1. PICK c \in Callers : SchedulePrep(c) /\ UNCHANGED ppc
    BY <1>2, Zenon DEF RxIrq, XmitSchedules, pollVars, Callers
  <2> QED BY <2>1, NapiSchedule
<1>3. CASE \E c \in Callers : ScheduleDisableIrq(c) \/ ScheduleReady(c)
  BY <1>3, NapiSchedule
<1>4. CASE PollStart \/ PollAgain \/ PollMissed \/ PollComplete \/ PollEnableIrq
  BY <1>4, NapiPoll
<1> QED BY <1>1, <1>2, <1>3, <1>4 DEF Next

LEMMA NapiInitially == Init => NapiTypes /\ NapiInv
<1> SUFFICES ASSUME Init PROVE NapiTypes /\ NapiInv
  OBVIOUS
<1>1. /\ spc = [c \in Callers |-> "idle"] /\ enabling = 0 /\ irq_depth = 0
      /\ ppc = "idle" /\ ~ready /\ ~sched
  BY DEF Init
<1>2. Tokens = {}
  BY <1>1 DEF Tokens
<1>3. Disabler = 0
  BY <1>2 DEF Disabler
<1> QED BY <1>1, <1>2, <1>3 DEF NapiTypes, NapiInv

(* At most one eth_poll runs or is on its way, and the interrupt is disabled *)
(* as often as polls have yet to enable it: it is never enabled more often,  *)
(* and never left disabled with nobody to enable it, however eth_rx_irq,     *)
(* eth_xmit and napi_complete_done interleave on any number of CPUs.         *)
THEOREM NapiInvHolds == Spec => []NapiInv
BY NapiInitially, NapiStep, PTL DEF Spec

-----------------------------------------------------------------------------
(* How long a frame is. The waiting segments are counted from the next one to*)
(* be taken; Unfinished has those that are not the last of their frame.      *)
Ahead(d) == Wrap(ReadIndex + d)
Unfinished == {d \in 0 .. Waiting - 1 : ~seg[Ahead(d)].lsd}

(* In w waiting segments with the unfinished ones u, behind n chained ones   *)
(* and before the l that the switch has written of its frame, no frame is    *)
(* longer than MaxSegs.                                                      *)
Run(u, d, e) == \A x \in d .. e - 1 : x \in u

Lengths(u, w, n, l) ==
  /\ l < MaxSegs
  /\ \A d, e \in 0 .. w : d <= e /\ Run(u, d, e) => e - d < MaxSegs
  /\ \A e \in 0 .. w : Run(u, 0, e) => n + e < MaxSegs
  /\ \A d \in 0 .. w : Run(u, d, w) => w - d <= l
  /\ Run(u, 0, w) => n + w <= l

LengthInv == Lengths(Unfinished, Waiting, Len(frag), hw_segs)

(* The switch writes one more segment.                                       *)
LEMMA LengthsGrow ==
  ASSUME NEW w \in Nat, NEW u \in SUBSET (0 .. w - 1), NEW n \in Nat, NEW l \in Nat,
         Lengths(u, w, n, l)
  PROVE  /\ Lengths(u, w + 1, n, 0)
         /\ l + 1 < MaxSegs => Lengths(u \cup {w}, w + 1, n, l + 1)
<1>0. /\ l < MaxSegs
      /\ \A d, e \in 0 .. w : d <= e /\ Run(u, d, e) => e - d < MaxSegs
      /\ \A e \in 0 .. w : Run(u, 0, e) => n + e < MaxSegs
      /\ \A d \in 0 .. w : Run(u, d, w) => w - d <= l
      /\ Run(u, 0, w) => n + w <= l
  BY DEF Lengths
<1>1. ASSUME NEW d \in 0 .. w + 1, NEW e \in 0 .. w + 1, d <= e, Run(u, d, e)
      PROVE  e = w + 1 => d = w + 1
  <2> SUFFICES ASSUME e = w + 1, d <= w PROVE FALSE
    OBVIOUS
  <2> QED BY <1>1 DEF Run
<1>2. ASSUME NEW d \in 0 .. w + 1, NEW e \in 0 .. w + 1, d <= e, Run(u \cup {w}, d, e)
      PROVE  IF e <= w THEN Run(u, d, e) ELSE d <= w => Run(u, d, w)
  BY <1>2 DEF Run
<1>3. Lengths(u, w + 1, n, 0)
  <2>1. \A d, e \in 0 .. w + 1 : d <= e /\ Run(u, d, e) => e - d < MaxSegs
    BY <1>0, <1>1
  <2>2. \A e \in 0 .. w + 1 : Run(u, 0, e) => n + e < MaxSegs
    BY <1>0, <1>1
  <2>3. \A d \in 0 .. w + 1 : Run(u, d, w + 1) => w + 1 - d <= 0
    BY <1>1
  <2>4. ~Run(u, 0, w + 1)
    BY <1>1
  <2> QED BY <1>0, <2>1, <2>2, <2>3, <2>4 DEF Lengths
<1>4. ASSUME l + 1 < MaxSegs PROVE Lengths(u \cup {w}, w + 1, n, l + 1)
  <2> DEFINE v == u \cup {w}
  <2> HIDE DEF v
  <2>0. \A d, e \in 0 .. w + 1 : d <= e /\ Run(v, d, e) =>
          IF e <= w THEN Run(u, d, e) ELSE d <= w => Run(u, d, w)
    BY <1>2 DEF v
  <2>1. \A d, e \in 0 .. w + 1 : d <= e /\ Run(v, d, e) => e - d < MaxSegs
    <3> SUFFICES ASSUME NEW d \in 0 .. w + 1, NEW e \in 0 .. w + 1, d <= e, Run(v, d, e)
                 PROVE  e - d < MaxSegs
      OBVIOUS
    <3>1. CASE e <= w
      BY <1>0, <2>0, <3>1
    <3>2. CASE e = w + 1 /\ d <= w
      BY <1>0, <1>4, <2>0, <3>2
    <3> QED BY <3>1, <3>2
  <2>2. \A e \in 0 .. w + 1 : Run(v, 0, e) => n + e < MaxSegs
    <3> SUFFICES ASSUME NEW e \in 0 .. w + 1, Run(v, 0, e) PROVE n + e < MaxSegs
      OBVIOUS
    <3>1. CASE e <= w
      BY <1>0, <2>0, <3>1
    <3>2. CASE e = w + 1
      BY <1>0, <1>4, <2>0, <3>2
    <3> QED BY <3>1, <3>2
  <2>3. \A d \in 0 .. w + 1 : Run(v, d, w + 1) => w + 1 - d <= l + 1
    <3> SUFFICES ASSUME NEW d \in 0 .. w + 1, Run(v, d, w + 1) PROVE w + 1 - d <= l + 1
      OBVIOUS
    <3>1. CASE d <= w
      BY <1>0, <2>0, <3>1
    <3> QED BY <3>1
  <2>4. Run(v, 0, w + 1) => n + (w + 1) <= l + 1
    BY <1>0, <2>0
  <2> QED BY <1>4, <2>1, <2>2, <2>3, <2>4 DEF Lengths, v
<1> QED BY <1>3, <1>4

(* eth_poll takes the first of the waiting segments.                         *)
LEMMA LengthsTake ==
  ASSUME NEW w \in Nat, NEW u \in SUBSET (0 .. w), NEW n \in Nat, NEW l \in Nat,
         Lengths(u, w + 1, n, l), NEW v \in SUBSET (0 .. w - 1),
         \A x \in 0 .. w - 1 : x \in v <=> x + 1 \in u
  PROVE  Lengths(v, w, IF 0 \in u THEN n + 1 ELSE 0, l)
<1>0. /\ l < MaxSegs
      /\ \A d, e \in 0 .. w + 1 : d <= e /\ Run(u, d, e) => e - d < MaxSegs
      /\ \A e \in 0 .. w + 1 : Run(u, 0, e) => n + e < MaxSegs
      /\ \A d \in 0 .. w + 1 : Run(u, d, w + 1) => w + 1 - d <= l
      /\ Run(u, 0, w + 1) => n + (w + 1) <= l
  BY DEF Lengths
<1>1. ASSUME NEW d \in 0 .. w, NEW e \in 0 .. w, d <= e, Run(v, d, e)
      PROVE  Run(u, d + 1, e + 1)
  <2> SUFFICES ASSUME NEW x \in d + 1 .. e PROVE x \in u
    BY DEF Run
  <2>1. x - 1 \in d .. e - 1 /\ x - 1 \in 0 .. w - 1
    OBVIOUS
  <2>2. x - 1 \in v
    BY <1>1, <2>1 DEF Run
  <2>3. x - 1 + 1 \in u
    BY <2>1, <2>2
  <2> QED BY <2>3
<1>2. ASSUME NEW e \in 0 .. w, Run(v, 0, e), 0 \in u
      PROVE  Run(u, 0, e + 1)
  <2>1. Run(u, 0 + 1, e + 1)
    BY <1>1, <1>2
  <2> QED BY <1>2, <2>1 DEF Run
<1>3. \A d, e \in 0 .. w : d <= e /\ Run(v, d, e) => e - d < MaxSegs
  <2> SUFFICES ASSUME NEW d \in 0 .. w, NEW e \in 0 .. w, d <= e, Run(v, d, e)
               PROVE  e - d < MaxSegs
    OBVIOUS
  <2>1. Run(u, d + 1, e + 1) /\ d + 1 \in 0 .. w + 1 /\ e + 1 \in 0 .. w + 1
    BY <1>1
  <2>2. (e + 1) - (d + 1) < MaxSegs
    BY <1>0, <2>1
  <2> QED BY <2>2
<1>4. \A d \in 0 .. w : Run(v, d, w) => w - d <= l
  <2> SUFFICES ASSUME NEW d \in 0 .. w, Run(v, d, w) PROVE w - d <= l
    OBVIOUS
  <2>1. Run(u, d + 1, w + 1)
    BY <1>1
  <2>2. (w + 1) - (d + 1) <= l
    BY <1>0, <2>1
  <2> QED BY <2>2
<1>5. CASE 0 \in u
  <2>1. \A e \in 0 .. w : Run(v, 0, e) => n + 1 + e < MaxSegs
    <3> SUFFICES ASSUME NEW e \in 0 .. w, Run(v, 0, e) PROVE n + 1 + e < MaxSegs
      OBVIOUS
    <3>1. n + (e + 1) < MaxSegs
      BY <1>0, <1>2, <1>5
    <3> QED BY <3>1
  <2>2. Run(v, 0, w) => n + 1 + w <= l
    BY <1>0, <1>2, <1>5
  <2> QED BY <1>0, <1>3, <1>4, <1>5, <2>1, <2>2 DEF Lengths
<1>6. CASE 0 \notin u
  <2>1. \A e \in 0 .. w : Run(v, 0, e) => 0 + e < MaxSegs
    BY <1>3
  <2>2. Run(v, 0, w) => 0 + w <= l
    BY <1>4
  <2> QED BY <1>0, <1>3, <1>4, <1>6, <2>1, <2>2 DEF Lengths
<1> QED BY <1>5, <1>6

LEMMA AheadOf ==
  ASSUME RxInv
  PROVE  /\ ReadIndex \in Idx /\ Waiting \in 0 .. RX_DESCS
         /\ Len(frag) \in Nat /\ hw_segs \in Nat /\ Unfinished \in SUBSET (0 .. Waiting - 1)
         /\ \A d \in 0 .. Waiting - 1 : Ahead(d) \in Idx
<1>1. Types
  BY DEF RxInv
<1>2. ReadIndex \in Idx
  BY <1>1 DEF ReadIndex, Types
<1>3. Waiting \in 0 .. RX_DESCS
  BY <1>1, OffOf
<1>4. Len(frag) \in Nat /\ hw_segs \in Nat
  BY <1>1 DEF Types
<1>5. \A d \in 0 .. Waiting - 1 : Ahead(d) \in Idx
  BY <1>2, <1>3 DEF Ahead
<1> QED BY <1>2, <1>3, <1>4, <1>5 DEF Unfinished

LEMMA LengthWrite ==
  ASSUME RxInv, LengthInv, NEW last \in BOOLEAN, HwWrite(last)
  PROVE  LengthInv'
<1> DEFINE w == Waiting
           s == [seq |-> hw_seq, fsd |-> hw_segs = 0, lsd |-> last]
<1>1. /\ ~cown[hw_index] /\ (hw_segs + 1 >= MaxSegs => last)
      /\ seg' = [seg EXCEPT ![hw_index] = s]
      /\ hw_seq' = NextSeq(hw_seq) /\ hw_segs' = IF last THEN 0 ELSE hw_segs + 1
      /\ UNCHANGED <<cur_index, frag, drv_seq, ppc, i>>
  BY DEF HwWrite, pollVars
<1>2. Types /\ RingInv
  BY DEF RxInv
<1>3. ReadIndex \in Idx /\ w \in 0 .. RX_DESCS
  BY AheadOf
<1>4. Unfilled \in 0 .. RX_DESCS - 1 /\ alloc_index \in Idx /\ hw_index \in Idx
  BY <1>2, OffOf DEF Types
<1>5. Unfilled + w < RX_DESCS
  <2>1. Off(hw_index) \in 0 .. RX_DESCS - 1 /\ ~(Off(hw_index) < Unfilled + w)
    BY <1>1, <1>2, <1>4, OffOf DEF RingInv
  <2> QED BY <1>3, <1>4, <2>1
<1>6. hw_index = Ahead(w) /\ \A d \in 0 .. w - 1 : Ahead(d) # hw_index
  <2>1. ReadIndex = Wrap(alloc_index + Unfilled) /\ hw_index = Wrap(alloc_index + Unfilled + w)
    BY <1>2 DEF RingInv
  <2> QED BY <1>3, <1>4, <1>5, <2>1 DEF Ahead
<1>7. Waiting' = w + 1
  <2>1. w < RX_DESCS
    BY <1>3, <1>4, <1>5
  <2> QED BY <1>1, <1>2, <2>1 DEF Waiting, Types
<1>8. \A d \in Int : Ahead(d)' = Ahead(d)
  BY <1>1 DEF Ahead, ReadIndex
<1>9. /\ seg'[hw_index].lsd = last
      /\ \A d \in 0 .. w - 1 : seg'[Ahead(d)] = seg[Ahead(d)]
  BY <1>1, <1>2, <1>4, <1>6, AheadOf DEF Types
<1>10. Unfinished' = IF last THEN Unfinished ELSE Unfinished \cup {w}
  <2>1. Unfinished' = {d \in 0 .. w : ~seg'[Ahead(d)].lsd}
    BY <1>3, <1>7, <1>8 DEF Unfinished
  <2>2. 0 .. w = (0 .. w - 1) \cup {w}
    BY <1>3
  <2> QED BY <1>6, <1>9, <2>1, <2>2 DEF Unfinished
<1>11. /\ Lengths(Unfinished, w + 1, Len(frag), 0)
       /\ hw_segs + 1 < MaxSegs =>
            Lengths(Unfinished \cup {w}, w + 1, Len(frag), hw_segs + 1)
  <2>1. /\ Waiting \in Nat /\ Unfinished \in SUBSET (0 .. Waiting - 1)
        /\ Len(frag) \in Nat /\ hw_segs \in Nat
    BY <1>3, AheadOf
  <2>2. Lengths(Unfinished, Waiting, Len(frag), hw_segs)
    BY DEF LengthInv
  <2> HIDE DEF w
  <2>3. /\ Lengths(Unfinished, Waiting + 1, Len(frag), 0)
        /\ hw_segs + 1 < MaxSegs =>
             Lengths(Unfinished \cup {Waiting}, Waiting + 1, Len(frag), hw_segs + 1)
    BY <2>1, <2>2, LengthsGrow
  <2> QED BY <2>3 DEF w
<1> QED BY <1>1, <1>7, <1>10, <1>11, AheadOf DEF LengthInv

LEMMA LengthTake ==
  ASSUME RxInv, LengthInv, PollTake
  PROVE  LengthInv'
<1> DEFINE w == Waiting
<1>1. /\ ppc = "rx" /\ cown[i] /\ frag' = Chain(seg[i])
      /\ drv_seq' = NextSeq(drv_seq) /\ i' = NextIndex(i)
      /\ UNCHANGED <<seg, hw_segs, hw_seq, ppc>>
  BY DEF PollTake, MayTake, hwVars
<1>2. Types /\ RingInv
  BY DEF RxInv
<1>3. ReadIndex = i /\ ReadIndex' = NextIndex(i) /\ i \in Idx /\ w \in 0 .. RX_DESCS
  BY <1>1, AheadOf DEF ReadIndex
<1>4. w > 0
  <2>1. Unfilled \in 0 .. RX_DESCS - 1 /\ i = Wrap(alloc_index + Unfilled)
    BY <1>2, <1>3, OffOf DEF RingInv
  <2>2. Off(i) = Unfilled /\ Off(i) < Unfilled + w
    BY <1>1, <1>2, <1>3, <2>1, OffOf DEF RingInv
  <2> QED BY <1>3, <2>1, <2>2
<1>5. Waiting' = w - 1
  BY <1>1, <1>2, <1>4 DEF Waiting, Types
<1>6. \A d \in 0 .. w - 2 : Ahead(d)' = Ahead(d + 1)
  BY <1>3 DEF Ahead
<1>7. Ahead(0) = i
  BY <1>3 DEF Ahead
<1>8. \A d \in 0 .. w - 2 : d \in Unfinished' <=> d + 1 \in Unfinished
  BY <1>1, <1>3, <1>4, <1>5, <1>6 DEF Unfinished
<1>9. 0 \in Unfinished <=> ~seg[i].lsd
  BY <1>3, <1>4, <1>7 DEF Unfinished
<1>10. Len(frag') = IF 0 \in Unfinished THEN Len(frag) + 1 ELSE 0
  BY <1>1, <1>2, <1>3, <1>9 DEF Chain, Types
<1>11. PICK v \in Nat : w = v + 1 /\ v = w - 1
  BY <1>3, <1>4
<1>12. Unfinished' \in SUBSET (0 .. v - 1) /\ Waiting' = v
  BY <1>5, <1>11 DEF Unfinished
<1>13. Lengths(Unfinished, v + 1, Len(frag), hw_segs) /\ Unfinished \in SUBSET (0 .. v)
  BY <1>11, AheadOf DEF LengthInv
<1>14. \A d \in 0 .. v - 1 : d \in Unfinished' <=> d + 1 \in Unfinished
  BY <1>8, <1>11
<1>15. Len(frag) \in Nat /\ hw_segs \in Nat
  BY AheadOf
<1>16. Lengths(Unfinished', v, IF 0 \in Unfinished THEN Len(frag) + 1 ELSE 0, hw_segs)
  BY <1>12, <1>13, <1>14, <1>15, LengthsTake
<1> QED BY <1>1, <1>10, <1>12, <1>16 DEF LengthInv

LEMMA LengthGive ==
  ASSUME RxInv, LengthInv, AllocGive
  PROVE  LengthInv'
<1>1. /\ ppc = "give" /\ ppc' = "alloc" /\ seg' = [seg EXCEPT ![alloc_index] = NoSeg]
      /\ UNCHANGED <<cur_index, frag, hw_segs, hw_seq, drv_seq>>
  BY DEF AllocGive, hwVars
<1>2. Types /\ RingInv
  BY DEF RxInv
<1>3. ReadIndex' = ReadIndex /\ Waiting' = Waiting
  BY <1>1 DEF ReadIndex, Waiting
<1>4. \A d \in 0 .. Waiting - 1 : Ahead(d) # alloc_index
  <2>1. Unfilled \in 1 .. RX_DESCS - 1
    BY <1>1, <1>2 DEF Unfilled, Types
  <2>2. /\ ReadIndex = Wrap(alloc_index + Unfilled) /\ Unfilled + Waiting <= RX_DESCS
        /\ alloc_index \in Idx /\ Waiting \in 0 .. RX_DESCS
    BY <1>2, AheadOf DEF RingInv, Types
  <2> QED BY <2>1, <2>2 DEF Ahead
<1>5. \A d \in 0 .. Waiting - 1 : seg'[Ahead(d)] = seg[Ahead(d)]
  BY <1>1, <1>2, <1>4, AheadOf DEF Types
<1>6. Unfinished' = Unfinished
  <2>1. Unfinished' = {d \in 0 .. Waiting - 1 : ~seg'[Ahead(d)].lsd}
    BY <1>3 DEF Unfinished, Ahead
  <2> QED BY <1>5, <2>1 DEF Unfinished
<1> QED BY <1>1, <1>3, <1>6 DEF LengthInv

LEMMA LengthStep == RxInv /\ LengthInv /\ [Next]_vars => LengthInv'
<1> SUFFICES ASSUME RxInv, LengthInv, [Next]_vars PROVE LengthInv'
  OBVIOUS
<1>1. ASSUME UNCHANGED <<seg, frag, hw_segs, hw_seq, drv_seq>>, ReadIndex' = ReadIndex
      PROVE  LengthInv'
  <2>1. Waiting' = Waiting
    BY <1>1 DEF Waiting
  <2>2. Unfinished' = Unfinished
    BY <1>1, <2>1 DEF Unfinished, Ahead
  <2> QED BY <1>1, <2>1, <2>2 DEF LengthInv
<1>2. CASE \/ HwStop \/ RxIrq \/ XmitSchedules \/ PollEnableIrq \/ UNCHANGED vars
           \/ \E c \in Callers : ScheduleDisableIrq(c) \/ ScheduleReady(c)
  <2>1. Quiet
    BY <1>2, RxSchedule
  <2> QED BY <1>1, <2>1 DEF Quiet, ringVars, ReadIndex
<1>3. CASE PollStart
  <2>1. /\ ppc = "idle" /\ ppc' = "rx" /\ i' = cur_index
        /\ UNCHANGED <<ringVars, cur_index, frag, hwVars, drv_seq>>
    BY <1>3 DEF PollStart
  <2> QED BY <1>1, <2>1 DEF ringVars, hwVars, ReadIndex
<1>4. CASE PollTakeFails \/ PollTaken
  <2>1. /\ ppc = "rx" /\ ppc' = "alloc" /\ cur_index' = i
        /\ UNCHANGED <<ringVars, frag, hwVars, drv_seq>>
    BY <1>4 DEF PollTakeFails, PollTaken, PollLoopEnd
  <2> QED BY <1>1, <2>1 DEF ringVars, hwVars, ReadIndex
<1>5. CASE \/ AllocBuffer \/ AllocEnd \/ EnableRxDma
           \/ PollAgain \/ PollMissed \/ PollComplete
  <2>1. /\ ppc # "rx" /\ ppc' # "rx"
        /\ UNCHANGED <<seg, cur_index, frag, hw_segs, hw_seq, drv_seq>>
    BY <1>5 DEF AllocBuffer, AllocEnd, EnableRxDma, PollAgain, PollMissed, PollComplete,
                PollReturn, ringVars, hwVars
  <2> QED BY <1>1, <2>1 DEF ReadIndex
<1> QED BY <1>2, <1>3, <1>4, <1>5, LengthWrite, LengthTake, LengthGive DEF Next

LEMMA LengthInitially == Init => LengthInv
<1> SUFFICES ASSUME Init PROVE LengthInv
  OBVIOUS
<1>1. Waiting = 0 /\ Len(frag) = 0 /\ hw_segs = 0
  BY DEF Init, Waiting
<1>2. Unfinished = {}
  BY <1>1 DEF Unfinished
<1>3. Lengths({}, 0, 0, 0)
  BY DEF Lengths
<1> QED BY <1>1, <1>2, <1>3 DEF LengthInv

-----------------------------------------------------------------------------
(* The flags, and how much one eth_poll takes.                               *)
Flags ==
  /\ rx_dma \in BOOLEAN /\ irq_pending \in BOOLEAN /\ gave_up \in BOOLEAN
  /\ sched \in BOOLEAN /\ missed \in BOOLEAN /\ ready \in BOOLEAN

LEMMA FlagsStep == Flags /\ [Next]_vars => Flags'
<1> SUFFICES ASSUME Flags, [Next]_vars PROVE Flags'
  OBVIOUS
<1> USE DEF Flags, hwVars, napiVars, pollVars, vars
<1>1. CASE (\E last \in BOOLEAN : HwWrite(last)) \/ HwStop \/ UNCHANGED vars
  BY <1>1, Zenon DEF HwWrite, HwStop
<1>2. CASE RxIrq \/ XmitSchedules
  BY <1>2, Zenon DEF RxIrq, XmitSchedules, SchedulePrep
<1>3. CASE \E c \in Callers : ScheduleDisableIrq(c) \/ ScheduleReady(c)
  BY <1>3, Zenon DEF ScheduleDisableIrq, ScheduleReady
<1>4. CASE PollStart \/ PollTake \/ PollTakeFails
  BY <1>4, Zenon DEF PollStart, PollTake, PollTakeFails
<1>5. CASE PollTaken
  <2>1. gave_up' \in BOOLEAN /\ UNCHANGED <<hwVars, irq_pending, napiVars>>
    BY <1>5, Zenon DEF PollTaken
  <2> QED BY <2>1, Zenon
<1>6. CASE AllocBuffer \/ AllocGive \/ AllocEnd \/ EnableRxDma
  BY <1>6, Zenon DEF AllocBuffer, AllocGive, AllocEnd, EnableRxDma
<1>7. CASE PollAgain \/ PollMissed \/ PollComplete \/ PollEnableIrq
  BY <1>7, Zenon DEF PollAgain, PollMissed, PollComplete, PollEnableIrq, PollReturn
<1> QED BY <1>1, <1>2, <1>3, <1>4, <1>5, <1>6, <1>7 DEF Next

LEMMA BudgetStep == received \in 0 .. Budget /\ [Next]_vars => received' \in 0 .. Budget
<1> SUFFICES ASSUME received \in 0 .. Budget, [Next]_vars PROVE received' \in 0 .. Budget
  OBVIOUS
<1>1. CASE PollTake
  BY <1>1 DEF PollTake, MayTake
<1>2. CASE ~PollTake
  <2>1. received' \in {received, 0}
    <3>1. CASE \/ \E last \in BOOLEAN : HwWrite(last)
               \/ HwStop \/ RxIrq \/ XmitSchedules \/ UNCHANGED vars
               \/ \E c \in Callers : ScheduleDisableIrq(c) \/ ScheduleReady(c)
      BY <3>1, Zenon DEF HwWrite, HwStop, RxIrq, XmitSchedules, ScheduleDisableIrq,
                         ScheduleReady, pollVars, vars
    <3>2. CASE \/ PollStart \/ PollTakeFails \/ PollTaken \/ AllocBuffer \/ AllocGive
               \/ AllocEnd \/ EnableRxDma
      BY <3>2, Zenon DEF PollStart, PollTakeFails, PollTaken, AllocBuffer, AllocGive,
                         AllocEnd, EnableRxDma
    <3>3. CASE PollAgain \/ PollMissed \/ PollComplete \/ PollEnableIrq
      BY <3>3, Zenon DEF PollAgain, PollMissed, PollComplete, PollEnableIrq, PollReturn,
                         pollVars
    <3> QED BY <1>2, <3>1, <3>2, <3>3, Zenon DEF Next
  <2> QED BY <2>1
<1> QED BY <1>1, <1>2

(* Every variable keeps its type for a ring, a budget and frames of any size *)
(* and any number of CPUs: the chain and the frame that the switch is in stay*)
(* shorter than the longest frame, and the count of disable_irq stays between*)
(* 0 and one more than the CPUs.                                             *)
THEOREM RxTypeCorrect == Spec => []TypeOK
<1>1. Init => Flags /\ received \in 0 .. Budget
  <2>1. Init => Flags
    BY Zenon DEF Init, Flags
  <2> QED BY <2>1 DEF Init
<1>2. RxInv /\ NapiTypes /\ NapiInv /\ LengthInv /\ Flags /\ received \in 0 .. Budget => TypeOK
  <2> SUFFICES ASSUME RxInv, NapiTypes, NapiInv, LengthInv, Flags, received \in 0 .. Budget
               PROVE  TypeOK
    OBVIOUS
  <2>1. irq_depth \in 0 .. NrCpus + 1
    <3>1. Disabler \in {0, 1}
      BY DEF Disabler
    <3> QED BY <3>1 DEF NapiInv
  <2>2. Len(frag) < MaxSegs /\ hw_segs \in 0 .. MaxSegs - 1
    <3>1. Types /\ Waiting \in 0 .. RX_DESCS /\ Len(frag) \in Nat
      BY AheadOf DEF RxInv
    <3>2. Run(Unfinished, 0, 0)
      BY DEF Run
    <3>3. Len(frag) + 0 < MaxSegs /\ hw_segs < MaxSegs
      BY <3>1, <3>2 DEF LengthInv, Lengths
    <3> QED BY <3>1, <3>3 DEF Types
  <2>3. Types
    BY DEF RxInv
  <2> QED BY <2>1, <2>2, <2>3, Zenon DEF Types, NapiTypes, Flags, TypeOK
<1>3. Spec => [](NapiTypes /\ NapiInv)
  BY NapiInitially, NapiStep, PTL DEF Spec
<1>4. Spec => []LengthInv
  BY RxInvHolds, LengthInitially, LengthStep, PTL DEF Spec
<1>5. Spec => [](Flags /\ received \in 0 .. Budget)
  <2>1. Flags /\ received \in 0 .. Budget /\ [Next]_vars =>
          (Flags /\ received \in 0 .. Budget)'
    BY FlagsStep, BudgetStep
  <2> QED BY <1>1, <2>1, PTL DEF Spec
<1> QED BY <1>2, <1>3, <1>4, <1>5, RxInvHolds, PTL

=============================================================================
