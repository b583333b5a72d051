----------------------------- MODULE CnsEthPort -----------------------------
(***************************************************************************)
(* The life of the Ethernet device                                          *)
(* (drivers/net/ethernet/cavium/cns3xxx_eth.c): probing the switch, opening *)
(* and closing its ports, and removing it. The ports share one receive      *)
(* interrupt, one NAPI context and one pair of DMA engines. The first port  *)
(* to open sets the shared parts up and the last to close tears them down,  *)
(* while polls are under way on both CPUs. The kernel's counting of         *)
(* interrupts and its NAPI states are modelled from how the driver uses     *)
(* them.                                                                    *)
(*                                                                          *)
(* Frames and rings are in CnsEthRx and CnsEthTx. Here a poll only matters  *)
(* for when it runs and when it turns the interrupt on. The ports' links are *)
(* in CnsEthLink.                                                           *)
(***************************************************************************)
EXTENDS CnsEthLink

CONSTANTS
  Ports,     \* plat->ports
  NrCpus,    \* CPUs that can be in eth_poll
  MaxFails   \* steps of probe and open that fail, at most

ASSUME PortAssumption == MaxFails \in Nat /\ NrCpus \in Nat \ {0} /\ Ports # {}
                         /\ LinkPorts \subseteq Ports

VARIABLES
  stage,       \* how far eth_init_one is
  mdio, rings, registered,      \* what it has acquired
  fails,
  (* what rtnl_lock serialises: one open or close at a time *)
  rt, rt_port, \* the step it is at, and for which port
  open,        \* ports whose cns3xxx_eth_open returned 0 (IFF_UP)
  ports_open,
  passing,     \* ports without PORT_DISABLE in mac_cfg
  cpu_passing, \* the CPU's port, mac_cfg[2]
  dma,         \* the engines are not suspended
  frame,       \* a received frame asks for an interrupt
  (* interrupts *)
  rx_actions, stat_actions,  \* handlers that are installed
  left_over,   \* of the first, those that a failed open left (history)
  late_on,     \* a poll enabled it when it had no handler any more (history)
  depth,       \* how often rx_irq is disabled
  (* NAPI *)
  napi,        \* "off": napi_disable has returned; "idle"; "sched"
  missed, disabling,   \* NAPI_STATE_MISSED, NAPI_STATE_DISABLE
  queued,      \* a poll is on a CPU's list, or in eth_poll and not done
  enabling     \* polls that are done and about to call enable_irq

probeVars == <<stage, mdio, rings, registered>>
rtVars == <<rt, rt_port>>
devVars == <<open, ports_open, passing>>
hwVars == <<cpu_passing, dma>>
irqVars == <<rx_actions, stat_actions, left_over, late_on, depth>>
napiVars == <<napi, missed, disabling, queued, enabling>>
coreVars == <<probeVars, fails, rtVars, devVars, hwVars, frame, irqVars, napiVars>>
vars == <<coreVars, linkVars>>

Fails == fails < MaxFails /\ fails' = fails + 1

-----------------------------------------------------------------------------
Init ==
  /\ stage = "start" /\ mdio = FALSE /\ rings = FALSE /\ registered = {}
  /\ fails = 0
  /\ rt = "idle" /\ rt_port \in Ports
  /\ open = {} /\ ports_open = 0
  /\ passing = {} /\ cpu_passing = FALSE /\ dma = FALSE /\ frame = FALSE
  /\ rx_actions = 0 /\ stat_actions = 0 /\ left_over = 0
  /\ late_on = FALSE /\ depth = 1
  /\ napi = "off" /\ missed = FALSE /\ disabling = FALSE
  /\ queued = FALSE /\ enabling = 0
  /\ LinkInit

(* eth_init_one: cns3xxx_mdio_register; init_rings, netif_napi_add; each      *)
(* port. Any of them may fail; what came before it is then undone, except     *)
(* for the rings. The driver is built in, so that nobody opens a port before  *)
(* the probe is done, which would have the port disabled again by the last    *)
(* writes to mac_cfg.                                                         *)
ProbeMdio ==
  /\ stage = "start"
  /\ \/ stage' = "mdio" /\ mdio' = TRUE /\ UNCHANGED fails
     \/ stage' = "failed" /\ UNCHANGED mdio /\ Fails
  /\ UNCHANGED <<rings, registered, rtVars, devVars, hwVars, frame, irqVars, napiVars, linkVars>>

ProbeRings ==
  /\ stage = "mdio"
  /\ \/ stage' = "rings" /\ rings' = TRUE /\ UNCHANGED <<fails, mdio>>
     \/ stage' = "failed" /\ mdio' = FALSE /\ Fails /\ rings' \in BOOLEAN
  /\ UNCHANGED <<registered, rtVars, devVars, hwVars, frame, irqVars, napiVars, linkVars>>

(* free_ports: the ports before this one, err_free, err_remove_mdio *)
FreePorts == stage' = "failed" /\ registered' = {} /\ mdio' = FALSE

ProbePort(p) ==
  /\ stage = "rings" /\ p \in Ports \ registered
  /\ \/ /\ registered' = registered \cup {p}
        /\ UNCHANGED <<stage, mdio, fails>>
     \/ FreePorts /\ Fails
  /\ UNCHANGED <<rings, rtVars, devVars, hwVars, frame, irqVars, napiVars, linkVars>>

ProbeDone ==
  /\ stage = "rings" /\ registered = Ports
  /\ stage' = "done"
  /\ UNCHANGED <<mdio, rings, registered, fails, rtVars, devVars, hwVars, frame,
                 irqVars, napiVars, linkVars>>

-----------------------------------------------------------------------------
(* eth_remove_one, without a lock: the rings go first, then the ports, each  *)
(* closed by unregister_netdev if it is open, then the rest. The model lets  *)
(* this happen when the links are settled, no port be opened and no link     *)
(* change meanwhile, and does not probe again.                               *)
DestroyRings == rings' = FALSE

RemoveRings ==
  /\ stage = "done" /\ \A p \in LinkPorts : LinkSettled(p)
  /\ stage' = "removing"
  /\ DestroyRings
  /\ UNCHANGED <<mdio, registered, fails, rtVars, devVars, hwVars, frame,
                 irqVars, napiVars, linkVars>>

RemovePort(p) ==
  /\ stage = "removing" /\ rt = "idle" /\ p \in registered \ open
  /\ registered' = registered \ {p}
  /\ UNCHANGED <<stage, mdio, rings, fails, rtVars, devVars, hwVars, frame,
                 irqVars, napiVars, linkVars>>

RemoveDone ==
  /\ stage = "removing" /\ rt = "idle" /\ registered = {}
  /\ stage' = "removed" /\ mdio' = FALSE
  /\ UNCHANGED <<rings, registered, fails, rtVars, devVars, hwVars, frame,
                 irqVars, napiVars, linkVars>>

-----------------------------------------------------------------------------
(* cns3xxx_eth_open *)
Open(p) ==
  /\ stage = "done" /\ rt = "idle" /\ p \in registered \ open
  /\ rt_port' = p
  /\ rt' = IF ports_open = 0 THEN "request_rx" ELSE "port"
  /\ LinkOpens(p)
  /\ UNCHANGED <<probeVars, fails, devVars, hwVars, frame, irqVars, napiVars>>

(* request_irq with IRQF_SHARED: only the first handler starts the interrupt *)
(* up and zeroes its depth.                                                  *)
OpenRxIrq ==
  /\ rt = "request_rx"
  /\ \/ /\ rt' = "request_stat"
        /\ rx_actions' = rx_actions + 1
        /\ depth' = IF rx_actions = 0 THEN 0 ELSE depth
        /\ late_on' = (late_on /\ rx_actions # 0)
        /\ UNCHANGED fails
     \/ rt' = "idle" /\ Fails /\ UNCHANGED <<rx_actions, late_on, depth>>
  /\ UNCHANGED <<probeVars, rt_port, devVars, hwVars, frame, stat_actions,
                 left_over, napiVars, linkVars>>

(* When the second one fails the first stays.                                *)
OpenStatIrq ==
  /\ rt = "request_stat"
  /\ \/ /\ rt' = "napi"
        /\ stat_actions' = stat_actions + 1
        /\ UNCHANGED <<fails, left_over>>
     \/ /\ rt' = "idle" /\ Fails
        /\ left_over' = left_over + 1
        /\ UNCHANGED stat_actions
  /\ UNCHANGED <<probeVars, rt_port, devVars, hwVars, frame, rx_actions, late_on,
                 depth, napiVars, linkVars>>

OpenNapi_Omitted ==
  /\ rt = "napi"
  /\ rt' = "port"
  /\ cpu_passing' = TRUE /\ dma' = TRUE
  /\ UNCHANGED <<napi, probeVars, fails, rt_port, devVars, frame, irqVars, missed,
                 disabling, queued, enabling, linkVars>>

OpenNapi ==
  /\ rt = "napi"
  /\ rt' = "port"
  /\ napi' = "idle"
  /\ cpu_passing' = TRUE /\ dma' = TRUE
  /\ UNCHANGED <<probeVars, fails, rt_port, devVars, frame, irqVars, missed,
                 disabling, queued, enabling, linkVars>>

OpenPort ==
  /\ rt = "port"
  /\ rt' = "idle"
  /\ passing' = passing \cup {rt_port}
  /\ open' = open \cup {rt_port}
  /\ ports_open' = ports_open + 1
  /\ UNCHANGED <<probeVars, fails, rt_port, hwVars, frame, irqVars, napiVars, linkVars>>

-----------------------------------------------------------------------------
(* cns3xxx_eth_close *)
Close(p) ==
  /\ rt = "idle" /\ p \in open
  /\ rt_port' = p
  /\ open' = open \ {p}
  /\ ports_open' = ports_open - 1
  /\ passing' = passing \ {p}
  /\ rt' = IF ports_open = 1 THEN "free_rx" ELSE "idle"
  /\ LinkCloses(p)
  /\ UNCHANGED <<probeVars, fails, hwVars, frame, irqVars, napiVars>>

(* disable_irq and free_irq: without a handler the interrupt is shut down,   *)
(* and its depth is 1. With one left over it stays disabled.                 *)
CloseRxIrq ==
  /\ rt = "free_rx"
  /\ rt' = "free_stat"
  /\ rx_actions' = rx_actions - 1
  /\ depth' = IF rx_actions = 1 THEN 1 ELSE depth + 1
  /\ UNCHANGED <<probeVars, fails, rt_port, devVars, hwVars, frame, stat_actions,
                 left_over, late_on, napiVars, linkVars>>

CloseStatIrq ==
  /\ rt = "free_stat" /\ stat_irq = "idle"
  /\ rt' = "disable_napi"
  /\ stat_actions' = stat_actions - 1
  /\ UNCHANGED <<probeVars, fails, rt_port, devVars, hwVars, frame, rx_actions,
                 left_over, late_on, depth, napiVars, linkVars>>

(* napi_disable lets no new poll be scheduled and waits for the one that is. *)
CloseNapi ==
  /\ rt = "disable_napi" /\ ~disabling
  /\ disabling' = TRUE
  /\ UNCHANGED <<probeVars, fails, rtVars, devVars, hwVars, frame, irqVars, napi,
                 missed, queued, enabling, linkVars>>

CloseDone_NoWait ==
  /\ rt = "disable_napi" /\ disabling
  /\ rt' = "idle"
  /\ napi' = "off" /\ disabling' = FALSE
  /\ cpu_passing' = FALSE /\ dma' = FALSE
  /\ UNCHANGED <<probeVars, fails, rt_port, devVars, frame, irqVars, missed,
                 queued, enabling, linkVars>>

CloseDone ==
  /\ rt = "disable_napi" /\ disabling
  /\ napi = "idle"
  /\ rt' = "idle"
  /\ napi' = "off" /\ disabling' = FALSE
  /\ cpu_passing' = FALSE /\ dma' = FALSE
  /\ UNCHANGED <<probeVars, fails, rt_port, devVars, frame, irqVars, missed,
                 queued, enabling, linkVars>>

-----------------------------------------------------------------------------
(* A frame for a port that is open, or from before it was closed.            *)
FrameArrives ==
  /\ ~frame /\ dma /\ cpu_passing /\ passing # {}
  /\ frame' = TRUE
  /\ UNCHANGED <<probeVars, fails, rtVars, devVars, hwVars, irqVars, napiVars, linkVars>>

(* eth_schedule_poll: napi_schedule_prep fails when NAPI is off or being     *)
(* disabled; when a poll is scheduled already it notes that one was missed.  *)
SchedulePoll ==
  IF disabling \/ napi = "off" THEN UNCHANGED <<napi, missed, queued, depth>>
  ELSE IF napi = "sched" THEN missed' = TRUE /\ UNCHANGED <<napi, queued, depth>>
  ELSE /\ napi' = "sched" /\ queued' = TRUE
       /\ depth' = depth + 1
       /\ UNCHANGED missed

RxIrq ==
  /\ frame /\ rx_actions > 0 /\ depth = 0
  /\ SchedulePoll
  /\ UNCHANGED <<probeVars, fails, rtVars, devVars, hwVars, frame, rx_actions,
                 stat_actions, left_over, late_on, disabling, enabling, linkVars>>

(* eth_xmit schedules a poll, too; the queue of a closed port is quiet.      *)
Xmit ==
  /\ open # {}
  /\ SchedulePoll
  /\ UNCHANGED <<probeVars, fails, rtVars, devVars, hwVars, frame, rx_actions,
                 stat_actions, left_over, late_on, disabling, enabling, linkVars>>

(* eth_poll with its budget used up: it comes back. But when NAPI is being   *)
(* disabled the kernel completes it, and nothing enables the interrupt.      *)
PollBudget ==
  /\ queued /\ frame
  /\ \/ ~disabling /\ UNCHANGED <<napi, missed, queued>>
     \/ disabling /\ missed /\ missed' = FALSE /\ UNCHANGED <<napi, queued>>
     \/ disabling /\ ~missed /\ napi' = "idle" /\ queued' = FALSE /\ UNCHANGED missed
  /\ UNCHANGED <<probeVars, fails, rtVars, devVars, hwVars, frame, irqVars, disabling,
                 enabling, linkVars>>

(* eth_poll up to napi_complete_done, which fails if a poll was missed.      *)
PollCompletes ==
  /\ queued /\ enabling < NrCpus
  /\ frame' = FALSE
  /\ missed' = FALSE
  /\ IF missed THEN UNCHANGED <<napi, queued, enabling>>
     ELSE napi' = "idle" /\ queued' = FALSE /\ enabling' = enabling + 1
  /\ UNCHANGED <<probeVars, fails, rtVars, devVars, hwVars, irqVars, disabling, linkVars>>

(* enable_irq. The kernel warns about one too many and ignores it; it does   *)
(* enable an interrupt that has been freed.                                  *)
PollEnablesIrq_Not ==
  /\ enabling > 0
  /\ enabling' = enabling - 1
  /\ UNCHANGED <<probeVars, fails, rtVars, devVars, hwVars, frame, irqVars, napi,
                 missed, disabling, queued, linkVars>>

PollEnablesIrq ==
  /\ enabling > 0
  /\ enabling' = enabling - 1
  /\ depth' = IF depth = 0 THEN 0 ELSE depth - 1
  /\ late_on' = (late_on \/ rx_actions = 0)
  /\ UNCHANGED <<probeVars, fails, rtVars, devVars, hwVars, frame, rx_actions,
                 stat_actions, left_over, napi, missed, disabling, queued, linkVars>>

-----------------------------------------------------------------------------
(* The link of a port that has been probed changes at any time before the    *)
(* remove; eth_stat_irq runs while it is installed.                          *)
Link ==
  /\ \/ \E p \in LinkPorts, l \in {0} \cup Speeds : stage = "done" /\ LinkChanges(p, l)
     \/ stat_actions > 0 /\ StatReads
     \/ StatAdjusts
     \/ \E p \in LinkPorts :
          MdioCommand(p) \/ MdioAnswers(p) \/ PhyReads(p) \/ PhyReadFails(p) \/ PhyAdjusts(p)
     \/ \E v \in {0} \cup Speeds : MdioAnswersLate(v)
  /\ UNCHANGED coreVars

Probe == ProbeMdio \/ ProbeRings \/ (\E p \in Ports : ProbePort(p)) \/ ProbeDone
Rtnl ==
  \/ OpenRxIrq \/ OpenStatIrq \/ OpenNapi \/ OpenPort
  \/ CloseRxIrq \/ CloseStatIrq \/ CloseNapi \/ CloseDone

NextButClose ==
  \/ Probe \/ Rtnl
  \/ RemoveRings \/ (\E p \in Ports : RemovePort(p)) \/ RemoveDone
  \/ \E p \in Ports : Open(p)
  \/ Link
  \/ FrameArrives \/ RxIrq \/ Xmit
  \/ PollBudget \/ PollCompletes \/ PollEnablesIrq

Next == NextButClose \/ \E p \in Ports : Close(p)

Spec == Init /\ [][Next]_vars

(* An open or close goes on to its end, an interrupt that is enabled comes,  *)
(* and a poll that is scheduled runs and at some time has caught up.         *)
Fairness ==
  WF_vars(Rtnl) /\ WF_vars(RxIrq) /\ WF_vars(PollCompletes) /\ WF_vars(PollEnablesIrq)

-----------------------------------------------------------------------------
TypeOK ==
  /\ stage \in {"start", "mdio", "rings", "done", "removing", "removed", "failed"}
  /\ {mdio, rings, cpu_passing, dma, frame, late_on, missed, disabling, queued} \subseteq BOOLEAN
  /\ registered \subseteq Ports /\ open \subseteq registered /\ passing = open
  /\ fails \in 0 .. MaxFails
  /\ rt \in {"idle", "request_rx", "request_stat", "napi", "port",
             "free_rx", "free_stat", "disable_napi"}
  /\ rt_port \in Ports
  /\ ports_open = Cardinality(open)
  /\ stat_actions \in 0 .. 1 /\ left_over \in 0 .. MaxFails
  /\ rx_actions \in 0 .. MaxFails + 1 /\ depth \in Nat
  /\ latched \cup stat \cup phy_on \cup misled \subseteq LinkPorts
  /\ stat_irq \in {"idle", "read"}
  /\ check \in [LinkPorts -> {"none", "due", "sent", "read"}]
  /\ {hw_link, found, speed} \subseteq [LinkPorts -> {0} \cup Speeds]
  /\ napi \in {"off", "idle", "sched"} /\ enabling \in 0 .. NrCpus

(* While a port is open everything that the ports share is there, whichever  *)
(* of them opened first and whatever was closed meanwhile, and the receive   *)
(* interrupt is only disabled while a poll is on its way that enables it.    *)
(* (A poll of an earlier life of the device may come late and enable it too  *)
(* early, never the other way round.) Once an open has failed between its    *)
(* two requests and left a handler behind, the interrupt may stay disabled   *)
(* when the device is closed and opened again; and a remove takes the rings  *)
(* from ports that are open.                                                 *)
OpenIsServed ==
  open # {} /\ rt \notin {"free_rx", "free_stat", "disable_napi"} =>
    /\ stat_actions = 1 /\ rx_actions = 1 + left_over
    /\ napi # "off" /\ dma /\ cpu_passing /\ mdio
    /\ rings \/ stage = "removing"
    /\ depth > 0 /\ left_over = 0 => queued \/ enabling > 0

(* When all ports are closed there is no handler of a successful open, no    *)
(* poll that still looks at the rings, and no DMA, also if polls used up     *)
(* their budget or were scheduled again while the last was being closed.     *)
(* What nothing waits for is a poll past napi_complete_done: it may still    *)
(* enable the interrupt that has been freed. If none did, the interrupt of a *)
(* closed device is disabled.                                                *)
ClosedIsQuiet ==
  open = {} /\ rt = "idle" =>
    /\ stat_actions = 0 /\ rx_actions = left_over
    /\ left_over = 0 => depth = IF late_on THEN 0 ELSE 1
    /\ napi = "off" /\ ~queued /\ ~dma /\ ~cpu_passing
    /\ stage = "removed" => registered = {} /\ ~mdio /\ ~rings

(* A frame that arrives is taken while a port stays open, through any number *)
(* of other opens and closes before it.                                      *)
FramesAreTaken ==
  frame /\ open # {} ~> ~frame \/ open = {} \/ left_over > 0

(* An open port knows its link once the interrupts and phylib's look at it   *)
(* are done with, except after a change in one of the windows that           *)
(* LinkChanges names, a command to the PHY that timed out or got the answer  *)
(* of one that did, or an open that failed: there is no other way to be      *)
(* wrong about it. An answer that comes late, between two commands, never    *)
(* is taken for that of the second.                                          *)
LinkIsKnown ==
  \A p \in LinkPorts \cap open :
    LinkSettled(p) /\ p \notin misled => speed[p] = hw_link[p]

=============================================================================
