------------------------------ MODULE CnsEthTx ------------------------------
(***************************************************************************)
(* The transmit ring of the CNS3xxx ethernet driver                        *)
(* (drivers/net/ethernet/cavium/cns3xxx_eth.c): eth_xmit on one CPU, the   *)
(* tail of eth_poll (eth_complete_tx, eth_check_num_used) on any CPU, and  *)
(* the DMA engine, all working on one ring of TX_DESCS descriptors.        *)
(*                                                                         *)
(* The Seagate Central declares one switch port, so one transmit queue     *)
(* lock serialises eth_xmit: a single set of xmit locals is enough.        *)
(* eth_xmit fills its descriptors OUTSIDE tx_lock, and the DMA engine and  *)
(* eth_complete_tx run while it does: every descriptor write is a step.    *)
(***************************************************************************)
EXTENDS Integers, FiniteSets

CONSTANTS
  TX_DESCS,         \* descriptors in the ring (1024 in the driver)
  TX_DESC_RESERVE,  \* the queue is stopped this far from full (20)
  MaxFrags,         \* most fragments a socket buffer has: bounds nr_desc
  NrCpus,           \* CPUs that can be inside eth_poll at once
  Skbs,             \* socket buffers, recycled by the stack once freed
  NULL

ASSUME TxAssumption ==
  /\ TX_DESCS \in Nat /\ TX_DESC_RESERVE \in Nat /\ MaxFrags \in Nat /\ NrCpus \in Nat
  /\ 1 <= TX_DESC_RESERVE /\ TX_DESC_RESERVE < TX_DESCS
  /\ MaxFrags < TX_DESCS
  /\ NrCpus >= 1
  /\ NULL \notin Skbs

VARIABLES
  (* struct _tx_ring and the descriptors it points to *)
  cown,          \* cown[i]: the CPU, not the DMA engine, owns descriptor i
  seg,           \* seg[i]: the rest of descriptor i
  buff_tab,      \* the socket buffer whose head descriptor is i, or NULL
  free_index, cur_index, num_used, stopped,
  queue_stopped, \* the net device's queue is stopped (netif_stop_queue)
  (* the DMA engine *)
  dma_on, dma_ptr,
  (* locals of the one eth_xmit in progress *)
  xpc, xskb, nr_desc, index0, index,
  (* NAPI and the eth_complete_tx that holds tx_lock *)
  napi_sched,    \* the poll is scheduled (NAPI_STATE_SCHED)
  due,           \* eth_poll calls that still have to call eth_complete_tx
  cpc, ci, cindex, cused,
  (* who may free a socket buffer: the stack, or the driver that accepted it *)
  owner

ringVars == <<cown, seg, buff_tab>>
countVars == <<free_index, cur_index, num_used>>
stopVars == <<stopped, queue_stopped>>
dmaVars == <<dma_on, dma_ptr>>
xmitVars == <<xpc, xskb, nr_desc, index0, index>>
napiVars == <<napi_sched, due>>
walkVars == <<cpc, ci, cindex, cused>>
vars == <<ringVars, countVars, stopVars, dmaVars, xmitVars, napiVars, walkVars, owner>>

-----------------------------------------------------------------------------
Idx == 0 .. TX_DESCS - 1

Wrap(k) == k % TX_DESCS

(* `if (index == TX_DESCS - 1) index = 0; else index++` *)
NextIndex(i) == IF i = TX_DESCS - 1 THEN 0 ELSE i + 1

(* What a descriptor says besides who owns it: whose bytes it maps, whether *)
(* it is the first or the last of its frame, and whether the ring ends here *)
Seg == [skb : Skbs \cup {NULL}, fsd : BOOLEAN, lsd : BOOLEAN, eor : BOOLEAN]

(* tx_lock is held across steps only by eth_complete_tx's walk: eth_xmit's  *)
(* two critical sections are one step each                                  *)
LockFree == cpc = "idle"

(* Descriptors eth_xmit has reserved and not yet added to num_used *)
Reserved == IF xpc \in {"fill", "commit"} THEN nr_desc + 1 ELSE 0

-----------------------------------------------------------------------------
(* init_rings: every descriptor belongs to the CPU and maps nothing *)
Init ==
  /\ cown = [i \in Idx |-> TRUE]
  /\ seg = [i \in Idx |-> [skb |-> NULL, fsd |-> FALSE, lsd |-> FALSE,
                           eor |-> i = TX_DESCS - 1]]
  /\ buff_tab = [i \in Idx |-> NULL]
  /\ free_index = 0 /\ cur_index = 0 /\ num_used = 0
  /\ stopped = FALSE /\ queue_stopped = FALSE
  /\ dma_on = FALSE /\ dma_ptr = 0
  /\ xpc = "idle" /\ xskb = NULL /\ nr_desc = 0 /\ index0 = 0 /\ index = 0
  /\ napi_sched = FALSE /\ due = 0
  /\ cpc = "idle" /\ ci = 0 /\ cindex = 0 /\ cused = 0
  /\ owner = [s \in Skbs |-> "stack"]

-----------------------------------------------------------------------------
(* eth_xmit. Definitions whose name ends in _<Something> are mutants: the    *)
(* definition after them with one mistake, for testing the properties.       *)

(* The stack calls ndo_start_xmit only while the queue is not stopped; the  *)
(* first thing eth_xmit does, before it takes tx_lock, is schedule a poll.  *)
XmitStart(s, n) ==
  /\ xpc = "idle" /\ ~queue_stopped
  /\ owner[s] = "stack"
  /\ xpc' = "reserve" /\ xskb' = s /\ nr_desc' = n
  /\ napi_sched' = TRUE
  /\ UNCHANGED <<ringVars, countVars, stopVars, dmaVars, index0, index, due,
                 walkVars, owner>>

Room_OffByOne(n) == num_used + n < TX_DESCS
Room(n) == num_used + n + 1 < TX_DESCS

(* Either return of eth_xmit: its locals are gone *)
XmitReturn ==
  /\ xpc' = "idle"
  /\ xskb' = NULL /\ nr_desc' = 0 /\ index0' = 0 /\ index' = 0

(* NETDEV_TX_BUSY: the stack keeps the buffer and will offer it again *)
XmitBusy ==
  /\ xpc = "reserve" /\ LockFree
  /\ ~Room(nr_desc)
  /\ XmitReturn
  /\ UNCHANGED <<ringVars, countVars, stopVars, dmaVars, napiVars, walkVars, owner>>

(* The first critical section: take nr_desc + 1 indices, but not num_used *)
XmitReserve ==
  /\ xpc = "reserve" /\ LockFree
  /\ Room(nr_desc)
  /\ index0' = cur_index
  /\ index' = cur_index
  /\ cur_index' = Wrap(Wrap(cur_index + nr_desc) + 1)
  /\ xpc' = "fill"
  /\ owner' = [owner EXCEPT ![xskb] = "driver"]
  /\ UNCHANGED <<ringVars, free_index, num_used, stopVars, dmaVars, xskb, nr_desc,
                 napiVars, walkVars>>

(* eth_set_desc: the write of config0 comes last and hands i to the engine *)
SetDesc(i, fsd) ==
  /\ seg' = [seg EXCEPT ![i] = [skb |-> xskb, fsd |-> fsd,
                                lsd |-> i = Wrap(index0 + nr_desc),
                                eor |-> i = TX_DESCS - 1]]
  /\ cown' = [cown EXCEPT ![i] = FALSE]

AllFragsSet == index = Wrap(index0 + nr_desc)

(* One turn of either fragment loop *)
XmitFrag ==
  /\ xpc = "fill" /\ ~AllFragsSet
  /\ index' = Wrap(index + 1)
  /\ SetDesc(Wrap(index + 1), FALSE)
  /\ UNCHANGED <<buff_tab, countVars, stopVars, dmaVars, xpc, xskb, nr_desc, index0,
                 napiVars, walkVars, owner>>

XmitHead_BeforeFrags ==
  /\ xpc = "fill"
  /\ buff_tab' = [buff_tab EXCEPT ![index0] = xskb]
  /\ SetDesc(index0, TRUE)
  /\ xpc' = "commit"
  /\ UNCHANGED <<countVars, stopVars, dmaVars, xskb, nr_desc, index0, index,
                 napiVars, walkVars, owner>>

(* The head comes after its fragments: until then the engine waits on it *)
XmitHead ==
  /\ xpc = "fill" /\ AllFragsSet
  /\ buff_tab' = [buff_tab EXCEPT ![index0] = xskb]
  /\ SetDesc(index0, TRUE)
  /\ xpc' = "commit"
  /\ UNCHANGED <<countVars, stopVars, dmaVars, xskb, nr_desc, index0, index,
                 napiVars, walkVars, owner>>

XmitCommit_HeadOnly ==
  /\ xpc = "commit" /\ LockFree
  /\ num_used' = num_used + 1
  /\ xpc' = "kick"
  /\ UNCHANGED <<ringVars, free_index, cur_index, stopVars, dmaVars, xskb, nr_desc,
                 index0, index, napiVars, walkVars, owner>>

(* The second critical section: only now may eth_complete_tx see the frame *)
XmitCommit ==
  /\ xpc = "commit" /\ LockFree
  /\ num_used' = num_used + (nr_desc + 1)
  /\ xpc' = "kick"
  /\ UNCHANGED <<ringVars, free_index, cur_index, stopVars, dmaVars, xskb, nr_desc,
                 index0, index, napiVars, walkVars, owner>>

XmitKick_Omitted ==
  /\ xpc = "kick"
  /\ XmitReturn
  /\ UNCHANGED <<ringVars, countVars, stopVars, dmaVars, napiVars, walkVars, owner>>

(* enable_tx_dma *)
XmitKick ==
  /\ xpc = "kick"
  /\ dma_on' = TRUE
  /\ XmitReturn
  /\ UNCHANGED <<ringVars, countVars, stopVars, dma_ptr, napiVars, walkVars, owner>>

-----------------------------------------------------------------------------
(* The DMA engine. It works through the ring in order, gives each           *)
(* descriptor back with cown = 1 and goes to sleep on one it does not own.  *)

DmaSend ==
  /\ dma_on /\ ~cown[dma_ptr]
  /\ cown' = [cown EXCEPT ![dma_ptr] = TRUE]
  /\ dma_ptr' = IF seg[dma_ptr].eor THEN 0 ELSE dma_ptr + 1
  /\ UNCHANGED <<seg, buff_tab, countVars, stopVars, dma_on, xmitVars, napiVars,
                 walkVars, owner>>

DmaSleep ==
  /\ dma_on /\ cown[dma_ptr]
  /\ dma_on' = FALSE
  /\ UNCHANGED <<ringVars, countVars, stopVars, dma_ptr, xmitVars, napiVars,
                 walkVars, owner>>

-----------------------------------------------------------------------------
(* eth_poll, as the transmit ring sees it *)

(* eth_rx_irq: a received frame schedules the poll as well *)
RxIrq ==
  /\ ~napi_sched
  /\ napi_sched' = TRUE
  /\ UNCHANGED <<ringVars, countVars, stopVars, dmaVars, xmitVars, due, walkVars, owner>>

(* The receive half is over. Either napi_complete_done let go of the poll, so *)
(* that another CPU may start one while this one waits for tx_lock, or the    *)
(* budget was used up and the poll stays scheduled.                           *)
PollRx ==
  /\ napi_sched /\ due < NrCpus
  /\ due' = due + 1
  /\ napi_sched' \in BOOLEAN
  /\ UNCHANGED <<ringVars, countVars, stopVars, dmaVars, xmitVars, walkVars, owner>>

(* spin_lock_bh(&tx_lock); eth_complete_tx reads num_used and free_index *)
CompleteStart ==
  /\ due > 0 /\ LockFree
  /\ cpc' = "walk" /\ ci' = 0 /\ cindex' = free_index /\ cused' = num_used
  /\ UNCHANGED <<ringVars, countVars, stopVars, dmaVars, xmitVars, napiVars, owner>>

WalkOn_OneTooMany == ci <= cused /\ cown[cindex]
WalkOn_NotSent == ci < cused
WalkOn == ci < cused /\ cown[cindex]

CompleteStep_KeepEntry ==
  /\ cpc = "walk" /\ WalkOn
  /\ owner' = [s \in Skbs |-> IF s = buff_tab[cindex] THEN "stack" ELSE owner[s]]
  /\ cindex' = NextIndex(cindex)
  /\ ci' = ci + 1
  /\ UNCHANGED <<cown, seg, buff_tab, countVars, stopVars, dmaVars, xmitVars, napiVars, cpc, cused>>

(* One finished descriptor: free the buffer if this is its head. (The other  *)
(* descriptors of the frame may still be the engine's.)                      *)
CompleteStep ==
  /\ cpc = "walk" /\ WalkOn
  /\ buff_tab' = [buff_tab EXCEPT ![cindex] = NULL]
  /\ owner' = [s \in Skbs |-> IF s = buff_tab[cindex] THEN "stack" ELSE owner[s]]
  /\ cindex' = NextIndex(cindex)
  /\ ci' = ci + 1
  /\ UNCHANGED <<cown, seg, countVars, stopVars, dmaVars, xmitVars, napiVars, cpc, cused>>

CheckNumUsed_NeverWake(used) ==
  LET stop == used >= TX_DESCS - TX_DESC_RESERVE
  IN /\ stopped' = (stopped \/ stop)
     /\ queue_stopped' = (queue_stopped \/ stop)

CheckNumUsed_FlagLost(used) ==
  LET stop == used >= TX_DESCS - TX_DESC_RESERVE
  IN /\ stopped' = stopped
     /\ queue_stopped' = IF stopped = stop THEN queue_stopped ELSE stop

(* eth_check_num_used: the queue changes only when the flag does *)
CheckNumUsed(used) ==
  LET stop == used >= TX_DESCS - TX_DESC_RESERVE
  IN /\ stopped' = stop
     /\ queue_stopped' = IF stopped = stop THEN queue_stopped ELSE stop

(* The end of the walk, still under tx_lock: write back, stop or wake *)
CompleteEnd ==
  /\ cpc = "walk" /\ ~WalkOn
  /\ free_index' = cindex
  /\ num_used' = num_used - ci
  /\ CheckNumUsed(num_used - ci)
  /\ cpc' = "idle" /\ ci' = 0 /\ cindex' = 0 /\ cused' = 0
  /\ due' = due - 1
  /\ UNCHANGED <<ringVars, cur_index, dmaVars, xmitVars, napi_sched, owner>>

-----------------------------------------------------------------------------
XmitStep == XmitBusy \/ XmitReserve \/ XmitFrag \/ XmitHead \/ XmitCommit \/ XmitKick

Next ==
  \/ \E s \in Skbs, n \in 0 .. MaxFrags : XmitStart(s, n)
  \/ XmitBusy \/ XmitReserve \/ XmitFrag \/ XmitHead \/ XmitCommit \/ XmitKick
  \/ DmaSend \/ DmaSleep
  \/ RxIrq \/ PollRx
  \/ CompleteStart \/ CompleteStep \/ CompleteEnd

Spec == Init /\ [][Next]_vars

(* The code's own steps do not stop half way: eth_xmit and eth_complete_tx   *)
(* run with bottom halves off, a scheduled NAPI poll is run by the softirq,  *)
(* a kicked engine drains what it owns. tx_lock is a ticket lock, so an     *)
(* eth_xmit that waits for it gets it: strong fairness for its steps.        *)
(* Nothing is assumed of the stack (XmitStart) nor of the wire (RxIrq).      *)
Fairness ==
  /\ SF_vars(XmitStep) /\ WF_vars(CompleteStart)
  /\ WF_vars(CompleteStep) /\ WF_vars(CompleteEnd)
  /\ WF_vars(PollRx)
  /\ WF_vars(DmaSend)

FairSpec == Spec /\ Fairness

-----------------------------------------------------------------------------
(* Properties *)

(* The variables have their types; indices stay in the ring, the counters in *)
(* its size, and tx_lock is held by one walk at most.                        *)
TypeOK ==
  /\ cown \in [Idx -> BOOLEAN]
  /\ seg \in [Idx -> Seg]
  /\ buff_tab \in [Idx -> Skbs \cup {NULL}]
  /\ free_index \in Idx /\ cur_index \in Idx /\ num_used \in 0 .. TX_DESCS - 1
  /\ stopped \in BOOLEAN /\ queue_stopped \in BOOLEAN
  /\ dma_on \in BOOLEAN /\ dma_ptr \in Idx
  /\ xpc \in {"idle", "reserve", "fill", "commit", "kick"}
  /\ xskb \in Skbs \cup {NULL}
  /\ xpc # "idle" => xskb \in Skbs
  /\ nr_desc \in 0 .. MaxFrags /\ index0 \in Idx /\ index \in Idx
  /\ napi_sched \in BOOLEAN /\ due \in 0 .. NrCpus
  /\ cpc \in {"idle", "walk"}
  /\ ci \in 0 .. TX_DESCS - 1 /\ cindex \in Idx /\ cused \in 0 .. TX_DESCS - 1
  /\ owner \in [Skbs -> {"stack", "driver"}]

(* A buffer is not freed while the engine owns the descriptor of its head.  *)
(* (The driver looks no further: a fragment's descriptor may still be the    *)
(* engine's, if the engine gives descriptors back one by one as it does here.) *)
NoFreeUnderDma ==
  \A i \in Idx : ~cown[i] /\ seg[i].fsd =>
    /\ buff_tab[i] = seg[i].skb
    /\ buff_tab[i] \in Skbs /\ owner[buff_tab[i]] = "driver"

(* How far slot i lies beyond slot a, going round the ring *)
Dist(a, i) == IF i >= a THEN i - a ELSE i + TX_DESCS - a

Offset(i) == Dist(free_index, i)

(* The three counters of struct _tx_ring, kept by two functions under two    *)
(* lock sections, always agree: the descriptors between free_index and       *)
(* cur_index are those in num_used plus those a caller has reserved, and     *)
(* one slot is always left over, so that a full ring is not taken for an     *)
(* empty one.                                                                *)
RingAccounting ==
  /\ num_used + Reserved < TX_DESCS
  /\ Offset(cur_index) = num_used + Reserved

(* Outside that window nothing is left behind: no descriptor the engine      *)
(* still owns and no buffer that would never be freed or be overwritten.     *)
NothingOutsideWindow ==
  \A i \in Idx : Offset(i) >= num_used + Reserved =>
                   cown[i] /\ buff_tab[i] = NULL

(* eth_set_desc, run without tx_lock, never writes a descriptor that the     *)
(* engine owns, that a walk can still visit, or whose buffer is not freed.   *)
NoOverwrite ==
  [][\A i \in Idx : seg'[i] # seg[i] =>
        cown[i] /\ buff_tab[i] = NULL /\ Offset(i) >= num_used]_vars

(* A buffer the driver accepted is in exactly one place, the head slot of    *)
(* its frame or the locals of the eth_xmit about to store it there, and a    *)
(* buffer in the ring is the driver's: nothing leaks, nothing is freed twice.*)
SkbHeldOnce ==
  /\ \A i, j \in Idx : buff_tab[i] # NULL /\ buff_tab[i] = buff_tab[j] => i = j
  /\ \A i \in Idx : buff_tab[i] # NULL => owner[buff_tab[i]] = "driver"
  /\ \A s \in Skbs : owner[s] = "driver" =>
        (\E i \in Idx : buff_tab[i] = s) \/ (xpc = "fill" /\ xskb = s)

(* When the head of a frame belongs to the engine, so does the rest of it:   *)
(* the fragment descriptors that follow are set, of the same buffer, and     *)
(* only the last of them ends the frame. The engine never runs into a        *)
(* half-written frame although no lock is held while one is written.         *)
WholeFrames ==
  \A h \in Idx : ~cown[h] /\ seg[h].fsd =>
    \E n \in 0 .. MaxFrags : \A k \in 0 .. n :
      LET d == Wrap(h + k)
      IN /\ ~cown[d]
         /\ seg[d].skb = seg[h].skb
         /\ seg[d].fsd = (k = 0)
         /\ seg[d].lsd = (k = n)

(* A stopped queue is one eth_complete_tx will wake: the flag and the queue  *)
(* agree, and while they say stopped there are descriptors to complete.      *)
StoppedMeansFull ==
  /\ queue_stopped = stopped
  /\ stopped => num_used >= TX_DESCS - TX_DESC_RESERVE

(* There is no transmit-done interrupt: completions are found by a poll that *)
(* something else schedules. Provided polls keep being scheduled, every      *)
(* accepted buffer is given back...                                          *)
SkbsComeBack ==
  []<>napi_sched => \A s \in Skbs : owner[s] = "driver" ~> owner[s] = "stack"

(* ...and a stopped queue does not stay stopped.                             *)
QueueWakes == []<>napi_sched => (queue_stopped ~> ~queue_stopped)

-----------------------------------------------------------------------------
(* What the ring promises to the stack: a FIFO of socket buffers. Its head   *)
(* is where the completion walk stands, and the buffers follow in the order  *)
(* of the ring: before the k-th there are k - 1.                             *)
WalkIndex == IF cpc = "walk" THEN cindex ELSE free_index

Heads(b) == {i \in Idx : b[i] # NULL}
Ahead(b, w, i) == {j \in Heads(b) : Dist(w, j) < Dist(w, i)}

InOrder(b, w) ==
  [k \in 1 .. Cardinality(Heads(b)) |->
     b[CHOOSE i \in Heads(b) : Cardinality(Ahead(b, w, i)) = k - 1]]

Fifo == INSTANCE TxFifo WITH
  Capacity <- TX_DESCS - 1,
  queue <- InOrder(buff_tab, WalkIndex)

RingIsFifo == Fifo!Spec
=============================================================================
