------------------------------ MODULE CnsEthRx ------------------------------
(***************************************************************************)
(* The receive ring of the CNS3xxx ethernet driver and the poll that       *)
(* serves it (drivers/net/ethernet/cavium/cns3xxx_eth.c): eth_rx_irq and   *)
(* eth_xmit schedule eth_poll, which takes the segments that the switch    *)
(* wrote, chains them into frames, puts new buffers in their place and     *)
(* turns the interrupt back on. The switch writes all the while.           *)
(*                                                                         *)
(* What eth_poll does to the transmit ring before it returns is CnsEthTx.  *)
(***************************************************************************)
EXTENDS Integers, Sequences, FiniteSets

CONSTANTS
  RX_DESCS,  \* descriptors in the ring (1024 in the driver)
  Budget,    \* segments that one eth_poll may take (NAPI_WEIGHT, 64)
  MaxSegs,   \* most segments the switch cuts a frame into
  NrCpus     \* CPUs that can be inside eth_poll at once

ASSUME RxAssumption ==
  /\ RX_DESCS \in Nat /\ RX_DESCS >= 2
  /\ Budget \in Nat /\ Budget >= 1
  /\ MaxSegs \in Nat /\ MaxSegs >= 1
  /\ NrCpus \in Nat /\ NrCpus >= 1

VARIABLES
  (* struct _rx_ring and its descriptors *)
  cown,         \* cown[i]: the CPU, not the switch, owns descriptor i
  seg,          \* seg[i]: the segment that descriptor i describes
  fresh,        \* fresh[i]: the buffer of slot i is not (also) the stack's
  cur_index, alloc_index, alloc_count,
  frag,         \* the segments chained from frag_first to frag_last
  (* the switch *)
  rx_dma, hw_index,
  hw_segs,      \* segments of the frame in progress that are written
  hw_seq,       \* number of the next segment to be written ...
  drv_seq,      \* ... and of the next one to be taken (history)
  irq_pending,
  (* the rx interrupt and NAPI *)
  irq_depth,    \* how often the interrupt is disabled
  sched, missed,\* NAPI_STATE_SCHED, NAPI_STATE_MISSED
  ready,        \* the poll is on a CPU's list
  spc,          \* eth_schedule_poll, in the interrupt and in eth_xmit
  enabling,     \* eth_poll calls about to call enable_irq
  (* the one eth_poll that NAPI lets run, and its locals *)
  ppc, i, received, left,
  gave_up       \* it left a segment behind that it could not take (history)

ringVars == <<cown, seg, fresh>>
allocVars == <<alloc_index, alloc_count>>
hwVars == <<rx_dma, hw_index, hw_segs, hw_seq>>
napiVars == <<irq_depth, sched, missed, ready, spc, enabling>>
pollVars == <<ppc, i, received, left, gave_up>>
vars == <<ringVars, cur_index, allocVars, frag, hwVars, drv_seq, irq_pending,
          napiVars, pollVars>>

-----------------------------------------------------------------------------
(* Definitions whose name ends in _<Something> are mutants: the definition   *)
(* after them with one mistake, for testing the properties.                  *)

Idx == 0 .. RX_DESCS - 1

NextIndex(k) == IF k = RX_DESCS - 1 THEN 0 ELSE k + 1

(* Segments are numbered so that no two in the ring have one number *)
Seqs == 0 .. RX_DESCS
NextSeq(q) == IF q = RX_DESCS THEN 0 ELSE q + 1

Seg == [seq : Seqs \cup {-1}, fsd : BOOLEAN, lsd : BOOLEAN]
NoSeg == [seq |-> -1, fsd |-> TRUE, lsd |-> TRUE]

Callers == {"irq", "xmit"}

(* init_rings, and an eth_open *)
Init ==
  /\ cown = [k \in Idx |-> FALSE]
  /\ seg = [k \in Idx |-> NoSeg]
  /\ fresh = [k \in Idx |-> TRUE]
  /\ cur_index = 0 /\ alloc_index = 0 /\ alloc_count = 0
  /\ frag = <<>>
  /\ rx_dma = TRUE /\ hw_index = 0 /\ hw_segs = 0 /\ hw_seq = 0 /\ drv_seq = 0
  /\ irq_pending = FALSE
  /\ irq_depth = 0 /\ sched = FALSE /\ missed = FALSE /\ ready = FALSE
  /\ spc = [c \in Callers |-> "idle"] /\ enabling = 0
  /\ ppc = "idle" /\ i = 0 /\ received = 0 /\ left = 0 /\ gave_up = FALSE

-----------------------------------------------------------------------------
(* The switch: it fills the ring in order, one or more descriptors a frame, *)
(* and stops at one it does not own until enable_rx_dma.                    *)

HwWrite(last) ==
  /\ rx_dma /\ ~cown[hw_index]
  /\ hw_segs + 1 >= MaxSegs => last
  /\ seg' = [seg EXCEPT ![hw_index] = [seq |-> hw_seq, fsd |-> hw_segs = 0, lsd |-> last]]
  /\ cown' = [cown EXCEPT ![hw_index] = TRUE]
  /\ hw_index' = NextIndex(hw_index) /\ hw_seq' = NextSeq(hw_seq)
  /\ hw_segs' = IF last THEN 0 ELSE hw_segs + 1
  /\ irq_pending' = TRUE
  /\ UNCHANGED <<fresh, cur_index, allocVars, frag, rx_dma, drv_seq, napiVars, pollVars>>

HwStop ==
  /\ rx_dma /\ cown[hw_index]
  /\ rx_dma' = FALSE
  /\ UNCHANGED <<ringVars, cur_index, allocVars, frag, hw_index, hw_segs, hw_seq, drv_seq,
                 irq_pending, napiVars, pollVars>>

-----------------------------------------------------------------------------
(* eth_schedule_poll. disable_irq_nosync counts; an interrupt that comes    *)
(* while the count is not 0 stays pending.                                  *)

(* napi_schedule_prep: the caller that finds the poll not scheduled goes on, *)
(* any other leaves a note that it was there                                 *)
SchedulePrep(c) ==
  /\ spc[c] = "idle"
  /\ IF sched
     THEN missed' = TRUE /\ UNCHANGED <<sched, spc>>
     ELSE sched' = TRUE /\ spc' = [spc EXCEPT ![c] = "won"] /\ UNCHANGED missed
  /\ UNCHANGED <<irq_depth, ready, enabling>>

(* eth_rx_irq *)
RxIrq ==
  /\ irq_pending /\ irq_depth = 0
  /\ irq_pending' = FALSE
  /\ SchedulePrep("irq")
  /\ UNCHANGED <<ringVars, cur_index, allocVars, frag, hwVars, drv_seq, pollVars>>

(* the start of eth_xmit *)
XmitSchedules ==
  /\ SchedulePrep("xmit")
  /\ UNCHANGED <<ringVars, cur_index, allocVars, frag, hwVars, drv_seq, irq_pending, pollVars>>

ScheduleDisableIrq(c) ==
  /\ spc[c] = "won"
  /\ irq_depth' = irq_depth + 1
  /\ spc' = [spc EXCEPT ![c] = "disabled"]
  /\ UNCHANGED <<ringVars, cur_index, allocVars, frag, hwVars, drv_seq, irq_pending,
                 sched, missed, ready, enabling, pollVars>>

(* __napi_schedule *)
ScheduleReady(c) ==
  /\ spc[c] = "disabled"
  /\ ready' = TRUE
  /\ spc' = [spc EXCEPT ![c] = "idle"]
  /\ UNCHANGED <<ringVars, cur_index, allocVars, frag, hwVars, drv_seq, irq_pending,
                 irq_depth, sched, missed, enabling, pollVars>>

-----------------------------------------------------------------------------
(* eth_poll *)

PollStart ==
  /\ ready /\ ppc = "idle" /\ enabling < NrCpus
  /\ ready' = FALSE
  /\ ppc' = "rx" /\ i' = cur_index /\ received' = 0 /\ gave_up' = FALSE
  /\ UNCHANGED <<ringVars, cur_index, allocVars, frag, hwVars, drv_seq, irq_pending,
                 irq_depth, sched, missed, spc, enabling, left>>

HasCredit_Unlimited == TRUE

(* Slots that were taken and not refilled still say cown: the loop must not *)
(* come round to them                                                       *)
HasCredit == alloc_count + received < RX_DESCS - 1

MayTake == cown[i] /\ HasCredit /\ received < Budget

Chain_Endless(s) == Append(frag, s)

(* The segment joins the chain; the last one sends the frame up and leaves   *)
(* no chain                                                                  *)
Chain(s) == IF s.lsd THEN <<>> ELSE Append(frag, s)

(* One turn of the loop: build_skb makes the buffer the stack's *)
PollTake ==
  /\ ppc = "rx" /\ MayTake
  /\ fresh' = [fresh EXCEPT ![i] = FALSE]
  /\ frag' = Chain(seg[i])
  /\ drv_seq' = NextSeq(drv_seq)
  /\ received' = received + 1 /\ i' = NextIndex(i)
  /\ UNCHANGED <<cown, seg, cur_index, allocVars, hwVars, irq_pending, napiVars,
                 ppc, left, gave_up>>

PollLoopEnd_OwnOnly ==
  /\ cur_index' = i
  /\ left' = received
  /\ ppc' = "alloc"

(* The loop is over; cns3xxx_alloc_rx_buf(sw, received) begins *)
PollLoopEnd ==
  /\ cur_index' = i
  /\ left' = received + alloc_count
  /\ ppc' = "alloc"

PollTakeFails ==   \* build_skb returned NULL
  /\ ppc = "rx" /\ MayTake
  /\ PollLoopEnd
  /\ gave_up' = TRUE
  /\ UNCHANGED <<ringVars, allocVars, frag, hwVars, drv_seq, irq_pending, napiVars, i, received>>

PollTaken ==
  /\ ppc = "rx" /\ ~MayTake
  /\ PollLoopEnd
  /\ gave_up' = (cown[i] /\ ~HasCredit /\ received < Budget)
  /\ UNCHANGED <<ringVars, allocVars, frag, hwVars, drv_seq, irq_pending, napiVars, i, received>>

-----------------------------------------------------------------------------
(* cns3xxx_alloc_rx_buf, one descriptor at a time: first its buffer ... *)

AllocBuffer_OwnFirst ==
  /\ ppc = "alloc" /\ left > 0
  /\ cown' = [cown EXCEPT ![alloc_index] = FALSE]
  /\ ppc' = "give"
  /\ UNCHANGED <<seg, fresh, cur_index, allocVars, frag, hwVars, drv_seq, irq_pending,
                 napiVars, i, received, left, gave_up>>

AllocBuffer ==
  /\ ppc = "alloc" /\ left > 0
  /\ fresh' = [fresh EXCEPT ![alloc_index] = TRUE]
  /\ ppc' = "give"
  /\ UNCHANGED <<cown, seg, cur_index, allocVars, frag, hwVars, drv_seq, irq_pending,
                 napiVars, i, received, left, gave_up>>

(* ... then, with config0, its owner. (The driver keeps the index in a local *)
(* and writes it back at the end; nobody else looks at it.)                  *)
AllocGive ==
  /\ ppc = "give"
  /\ cown' = [cown EXCEPT ![alloc_index] = FALSE]
  /\ seg' = [seg EXCEPT ![alloc_index] = NoSeg]
  /\ alloc_index' = NextIndex(alloc_index)
  /\ left' = left - 1
  /\ ppc' = "alloc"
  /\ UNCHANGED <<fresh, cur_index, alloc_count, frag, hwVars, drv_seq, irq_pending,
                 napiVars, i, received, gave_up>>

(* All done, or no memory, or no mapping: what is left is for the next poll *)
AllocEnd ==
  /\ ppc = "alloc"
  /\ alloc_count' = left
  /\ left' = 0
  /\ ppc' = "dma"
  /\ UNCHANGED <<ringVars, cur_index, alloc_index, frag, hwVars, drv_seq, irq_pending,
                 napiVars, i, received, gave_up>>

EnableRxDma_IfTaken ==
  /\ ppc = "dma"
  /\ rx_dma' = (rx_dma \/ received > 0)
  /\ ppc' = "complete"
  /\ UNCHANGED <<ringVars, cur_index, allocVars, frag, hw_index, hw_segs, hw_seq, drv_seq,
                 irq_pending, napiVars, i, received, left, gave_up>>

(* enable_rx_dma, in every poll *)
EnableRxDma ==
  /\ ppc = "dma"
  /\ rx_dma' = TRUE
  /\ ppc' = "complete"
  /\ UNCHANGED <<ringVars, cur_index, allocVars, frag, hw_index, hw_segs, hw_seq, drv_seq,
                 irq_pending, napiVars, i, received, left, gave_up>>

-----------------------------------------------------------------------------
PollReturn ==
  /\ ppc' = "idle" /\ i' = 0 /\ received' = 0
  /\ UNCHANGED <<ringVars, cur_index, allocVars, frag, hwVars, drv_seq, irq_pending,
                 irq_depth, spc, left, gave_up>>

(* The budget is used up: NAPI polls again *)
PollAgain ==
  /\ ppc = "complete" /\ received >= Budget
  /\ ready' = TRUE
  /\ PollReturn
  /\ UNCHANGED <<sched, missed, enabling>>

(* napi_complete_done finds that somebody wanted the poll meanwhile *)
PollMissed ==
  /\ ppc = "complete" /\ received < Budget /\ missed
  /\ missed' = FALSE /\ ready' = TRUE
  /\ PollReturn
  /\ UNCHANGED <<sched, enabling>>

PollComplete_AnyReceived ==
  /\ ppc = "complete" /\ ~missed
  /\ sched' = FALSE
  /\ enabling' = enabling + 1
  /\ PollReturn
  /\ UNCHANGED <<missed, ready>>

(* napi_complete_done lets go of the poll; the interrupt is still disabled *)
PollComplete ==
  /\ ppc = "complete" /\ received < Budget /\ ~missed
  /\ sched' = FALSE
  /\ enabling' = enabling + 1
  /\ PollReturn
  /\ UNCHANGED <<missed, ready>>

PollEnableIrq ==
  /\ enabling > 0
  /\ enabling' = enabling - 1
  /\ irq_depth' = irq_depth - 1
  /\ UNCHANGED <<ringVars, cur_index, allocVars, frag, hwVars, drv_seq, irq_pending,
                 sched, missed, ready, spc, pollVars>>

-----------------------------------------------------------------------------
PollStep ==
  \/ PollStart \/ PollTake \/ PollTaken
  \/ AllocGive \/ EnableRxDma \/ PollAgain \/ PollMissed \/ PollComplete

Next ==
  \/ \E last \in BOOLEAN : HwWrite(last)
  \/ HwStop
  \/ RxIrq \/ XmitSchedules
  \/ \E c \in Callers : ScheduleDisableIrq(c) \/ ScheduleReady(c)
  \/ PollStart \/ PollTake \/ PollTakeFails \/ PollTaken
  \/ AllocBuffer \/ AllocGive \/ AllocEnd \/ EnableRxDma
  \/ PollAgain \/ PollMissed \/ PollComplete \/ PollEnableIrq

Spec == Init /\ [][Next]_vars

(* The driver's own steps are taken: the handler runs when the interrupt is  *)
(* pending and enabled, a scheduled poll is run by the softirq, and neither  *)
(* stops half way. Whether memory is to be had is up to the system (fairness *)
(* is only for allocation ending, one way or the other), and nothing is      *)
(* assumed of the switch or of eth_xmit.                                     *)
Fairness ==
  /\ WF_vars(RxIrq)
  /\ \A c \in Callers : WF_vars(ScheduleDisableIrq(c)) /\ WF_vars(ScheduleReady(c))
  /\ WF_vars(PollStep)
  /\ WF_vars(AllocBuffer \/ AllocEnd)
  /\ WF_vars(PollEnableIrq)

FairSpec == Spec /\ Fairness
-----------------------------------------------------------------------------
(* Properties *)

(* Every variable holds what its C type, the ring's size and the budget      *)
(* allow: the indices wrap at the end of the ring, the counts stay in it.    *)
TypeOK ==
  /\ cown \in [Idx -> BOOLEAN] /\ fresh \in [Idx -> BOOLEAN] /\ seg \in [Idx -> Seg]
  /\ cur_index \in Idx /\ alloc_index \in Idx /\ hw_index \in Idx /\ i \in Idx
  /\ alloc_count \in 0 .. RX_DESCS - 1 /\ left \in 0 .. RX_DESCS - 1
  /\ received \in 0 .. Budget
  /\ frag \in Seq(Seg) /\ Len(frag) < MaxSegs
  /\ rx_dma \in BOOLEAN /\ irq_pending \in BOOLEAN
  /\ hw_segs \in 0 .. MaxSegs - 1 /\ hw_seq \in Seqs /\ drv_seq \in Seqs
  /\ irq_depth \in 0 .. NrCpus + 1 /\ enabling \in 0 .. NrCpus
  /\ sched \in BOOLEAN /\ missed \in BOOLEAN /\ ready \in BOOLEAN
  /\ spc \in [Callers -> {"idle", "won", "disabled"}]
  /\ ppc \in {"idle", "rx", "alloc", "give", "dma", "complete"}
  /\ gave_up \in BOOLEAN

(* Slots behind the one that eth_poll reads next, up to and without the one  *)
(* that it refills next                                                      *)
Unfilled ==
  CASE ppc = "rx" -> alloc_count + received
    [] ppc \in {"alloc", "give"} -> left
    [] OTHER -> alloc_count

ReadIndex == IF ppc = "rx" THEN i ELSE cur_index

(* alloc_index and alloc_count, which cns3xxx_alloc_rx_buf keeps from call   *)
(* to call when memory is short, always say which slots were taken and are   *)
(* empty: the ones before cur_index.                                         *)
CreditExact == (alloc_index + Unfilled) % RX_DESCS = ReadIndex

(* The switch is never given a descriptor whose buffer the stack may have:   *)
(* not while cns3xxx_alloc_rx_buf is between the buffer and config0, and not *)
(* when it gave up for want of memory.                                       *)
HwOwnsFresh == \A k \in Idx : ~cown[k] => fresh[k]

(* What frag_first and frag_last hold between two polls is the beginning of  *)
(* one frame, in order, and ends just before the segment to be read next,    *)
(* however the budget cut the frame.                                         *)
FragIsPrefix ==
  frag # <<>> =>
    /\ \A k \in DOMAIN frag : frag[k].fsd = (k = 1) /\ ~frag[k].lsd
    /\ \A k \in 1 .. Len(frag) - 1 : frag[k + 1].seq = NextSeq(frag[k].seq)
    /\ NextSeq(frag[Len(frag)].seq) = drv_seq

(* The receive DMA is never left stopped at a descriptor that the switch may *)
(* use: a poll that gave it back has enable_rx_dma still to do.              *)
DmaNotForgotten ==
  ~rx_dma /\ ~cown[hw_index] => ppc \in {"alloc", "give", "dma"}

(* eth_poll takes each segment once and in the order they were written, out  *)
(* of a buffer that is not already the stack's: although the slots it took   *)
(* and could not refill still say cown, it never reads one of them again.    *)
TakesInOrder ==
  [][received' > received =>
       fresh[i] /\ seg[i].seq = drv_seq /\ (seg[i].fsd <=> frag = <<>>)]_vars

(* What is supposed of memory: a build_skb, or a buffer for a slot, that is   *)
(* asked for again and again is got some time.                               *)
MemoryIsFound == SF_vars(PollTake) /\ SF_vars(AllocBuffer)

(* A poll could not take a segment, for want of an sk_buff or of buffers, and *)
(* is over: the interrupt is on again, and nobody has a reason to poll.      *)
LeftLying == gave_up /\ ~sched /\ ~irq_pending

(* Every segment that the switch writes is taken, with nothing more arriving *)
(* and nothing being sent to help it. There is one way for it to stay: the   *)
(* poll that saw it failed to get memory and completed, after which nothing  *)
(* tries again until a segment arrives or a packet is sent.                  *)
SegmentsTaken ==
  MemoryIsFound =>
    \A q \in Seqs : (drv_seq = q /\ hw_seq # q) ~> (drv_seq # q \/ LeftLying)
=============================================================================
