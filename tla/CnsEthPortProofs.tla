--------------------------- MODULE CnsEthPortProofs ---------------------------
(***************************************************************************)
(* Why what the ports share is there exactly while a port is open, and why  *)
(* an open port knows its link. UpInv says for each step of an open or a    *)
(* close which of the shared parts are up. LinkInv says for each port how   *)
(* a change of its link that the driver has not seen yet will reach it.     *)
(***************************************************************************)
EXTENDS CnsEthPort, FiniteSetTheorems, TLAPS

Opening == {"request_rx", "request_stat", "napi", "port"}
Closing == {"free_rx", "free_stat", "disable_napi"}

PortTypes ==
  /\ rt \in {"idle"} \cup Opening \cup Closing
  /\ IsFiniteSet(open) /\ ports_open = Cardinality(open)
  /\ left_over \in Nat /\ depth \in Nat /\ enabling \in Nat
  /\ napi \in {"off", "idle", "sched"}

StageInv ==
  /\ rt # "idle" \/ open # {} => stage \in {"done", "removing"}
  /\ stage \in {"done", "removing"} => mdio
  /\ stage \in {"mdio", "rings"} => mdio
  /\ stage \in {"rings", "done"} => rings
  /\ stage = "removing" => ~rings
  /\ stage = "removed" => registered = {} /\ ~mdio /\ ~rings
  /\ open \subseteq registered
  /\ rt = "port" => rt_port \in registered \ open
  /\ rt \in {"request_rx", "request_stat", "napi"} => rt_port \in registered

Up == rt = "port" \/ rt = "free_rx" \/ (rt = "idle" /\ open # {})
HasRx == Up \/ rt \in {"request_stat", "napi"}
HasStat == Up \/ rt \in {"napi", "free_stat"}
HasNapi == Up \/ rt \in {"free_stat", "disable_napi"}

UpInv ==
  /\ rt \notin {"idle", "port"} => open = {}
  /\ rx_actions = left_over + IF HasRx THEN 1 ELSE 0
  /\ stat_actions = IF HasStat THEN 1 ELSE 0
  /\ napi # "off" <=> HasNapi
  /\ dma <=> HasNapi
  /\ cpu_passing <=> HasNapi
  /\ disabling => rt = "disable_napi"
  /\ queued <=> napi = "sched"

(* Each poll that is under way enables the interrupt once. An interrupt      *)
(* without a handler is disabled once, until such a poll comes late.         *)
DepthInv ==
  /\ left_over = 0 /\ rx_actions = 1 =>
       depth <= (enabling + IF queued THEN 1 ELSE 0) /\ ~late_on
  /\ left_over = 0 /\ rx_actions = 0 => depth = IF late_on THEN 0 ELSE 1

Knows(p) ==
  /\ check[p] = "none" =>
       \/ speed[p] = hw_link[p]
       \/ p \in latched /\ (stat_irq = "read" => p \in stat)
  /\ check[p] = "sent" /\ mdio_done => mdio_value = hw_link[p]
  /\ check[p] = "read" => found[p] = hw_link[p]

LinkInv ==
  /\ check \in [LinkPorts -> {"none", "due", "sent", "read"}]
  /\ {hw_link, found, speed} \subseteq [LinkPorts -> {0} \cup Speeds]
  /\ mdio_value \in {0} \cup Speeds
  /\ stat_irq \in {"idle", "read"}
  /\ \A p, q \in LinkPorts : check[p] = "sent" /\ check[q] = "sent" => p = q
  /\ \A p \in LinkPorts \cap phy_on : p \notin misled => Knows(p)

PhyInv ==
  /\ rt \in {"idle"} \cup Opening \cup Closing
  /\ LinkPorts \cap open \subseteq phy_on
  /\ rt \in Opening /\ rt_port \in LinkPorts => rt_port \in phy_on

PortInv == PortTypes /\ StageInv /\ UpInv /\ DepthInv

-----------------------------------------------------------------------------
(* The steps of the probe and the remove.                                   *)

LEMMA PortProbe ==
  ASSUME PortInv,
         \/ Probe \/ RemoveRings \/ RemoveDone \/ \E p \in Ports : RemovePort(p)
  PROVE  PortInv'
<1>1. UNCHANGED <<rtVars, devVars, hwVars, irqVars, napiVars>>
  BY DEF Probe, ProbeMdio, ProbeRings, ProbePort, ProbeDone, RemoveRings, RemoveDone, RemovePort
<1>2. PortTypes' /\ UpInv' /\ DepthInv'
  BY <1>1 DEF rtVars, devVars, hwVars, irqVars, napiVars, PortInv, PortTypes, UpInv, DepthInv,
     Up, HasRx, HasStat, HasNapi
<1>3. StageInv'
  <2>0. StageInv /\ rt' = rt /\ rt_port' = rt_port /\ open' = open
    BY <1>1 DEF PortInv, rtVars, devVars
  <2>1. CASE ProbeMdio
    <3>1. stage = "start" /\ registered' = registered /\ rings' = rings  BY <2>1 DEF ProbeMdio
    <3>2. \/ stage' = "mdio" /\ mdio' = TRUE
          \/ stage' = "failed"
      BY <2>1 DEF ProbeMdio
    <3> QED  BY <2>0, <3>1, <3>2 DEF StageInv
  <2>2. CASE ProbeRings
    <3>1. stage = "mdio" /\ registered' = registered  BY <2>2 DEF ProbeRings
    <3>2. \/ stage' = "rings" /\ rings' = TRUE /\ mdio' = mdio
          \/ stage' = "failed"
      BY <2>2 DEF ProbeRings
    <3> QED  BY <2>0, <3>1, <3>2 DEF StageInv
  <2>3. ASSUME NEW p \in Ports, ProbePort(p) PROVE StageInv'
    <3>1. stage = "rings" /\ rings' = rings  BY <2>3 DEF ProbePort
    <3>2. \/ stage' = stage /\ mdio' = mdio
          \/ stage' = "failed"
      BY <2>3 DEF ProbePort, FreePorts
    <3> QED  BY <2>0, <3>1, <3>2 DEF StageInv
  <2>4. CASE ProbeDone
    <3>1. stage = "rings" /\ stage' = "done" /\ UNCHANGED <<mdio, rings, registered>>
      BY <2>4 DEF ProbeDone
    <3> QED  BY <2>0, <3>1 DEF StageInv
  <2>5. CASE RemoveRings
    <3>1. stage = "done" /\ stage' = "removing" /\ ~rings' /\ UNCHANGED <<mdio, registered>>
      BY <2>5, Zenon DEF RemoveRings, DestroyRings
    <3> QED  BY <2>0, <3>1 DEF StageInv
  <2>6. ASSUME NEW p \in Ports, RemovePort(p) PROVE StageInv'
    <3>1. /\ rt = "idle" /\ p \notin open /\ registered' = registered \ {p}
          /\ stage = "removing" /\ UNCHANGED <<stage, mdio, rings>>
      BY <2>6 DEF RemovePort
    <3> QED  BY <2>0, <3>1 DEF StageInv
  <2>7. CASE RemoveDone
    <3>1. /\ stage = "removing" /\ rt = "idle" /\ registered = {} /\ stage' = "removed"
          /\ ~mdio' /\ UNCHANGED <<rings, registered>>
      BY <2>7, Zenon DEF RemoveDone
    <3> QED  BY <2>0, <3>1 DEF StageInv
  <2> QED  BY <2>1, <2>2, <2>3, <2>4, <2>5, <2>6, <2>7 DEF Probe
<1> QED  BY <1>2, <1>3 DEF PortInv

-----------------------------------------------------------------------------
(* Opens and closes.                                                        *)

LEMMA OpenCount ==
  ASSUME PortTypes
  PROVE  /\ ports_open = 0 <=> open = {}
         /\ \A p \in open : ports_open - 1 = Cardinality(open \ {p}) /\ IsFiniteSet(open \ {p})
         /\ \A p : p \notin open => /\ ports_open + 1 = Cardinality(open \cup {p})
                                    /\ IsFiniteSet(open \cup {p})
         /\ \A p \in open : ports_open = 1 <=> open \ {p} = {}
<1>1. IsFiniteSet(open) /\ ports_open = Cardinality(open) /\ ports_open \in Nat
  BY FS_CardinalityType DEF PortTypes
<1>2. ports_open = 0 <=> open = {}  BY <1>1, FS_EmptySet
<1>3. ASSUME NEW p \in open
      PROVE  ports_open - 1 = Cardinality(open \ {p}) /\ IsFiniteSet(open \ {p})
  BY <1>1, FS_RemoveElement
<1>4. ASSUME NEW p, p \notin open
      PROVE  ports_open + 1 = Cardinality(open \cup {p}) /\ IsFiniteSet(open \cup {p})
  BY <1>1, <1>4, FS_AddElement
<1>5. ASSUME NEW p \in open PROVE ports_open = 1 <=> open \ {p} = {}
  <2>1. Cardinality(open \ {p}) = 0 <=> open \ {p} = {}  BY <1>3, FS_EmptySet
  <2> QED  BY <1>1, <1>3, <2>1
<1> QED  BY <1>2, <1>3, <1>4, <1>5

LEMMA PortOpens ==
  ASSUME PortInv, NEW p \in Ports, Open(p)
  PROVE  PortInv'
<1>1. /\ stage = "done" /\ rt = "idle" /\ p \in registered \ open /\ rt_port' = p
      /\ rt' = IF ports_open = 0 THEN "request_rx" ELSE "port"
      /\ UNCHANGED <<probeVars, devVars, hwVars, irqVars, napiVars>>
  BY DEF Open
<1> USE DEF probeVars, devVars, hwVars, irqVars, napiVars
<1>2. PortTypes /\ StageInv /\ UpInv /\ DepthInv  BY DEF PortInv
<1>3. rt' = IF open = {} THEN "request_rx" ELSE "port"  BY <1>1, <1>2, OpenCount
<1>4. PortTypes'  BY <1>1, <1>2, <1>3 DEF PortTypes, Opening
<1>5. StageInv'  BY <1>1, <1>2, <1>3 DEF StageInv
<1>6. UpInv'
  BY <1>1, <1>2, <1>3 DEF UpInv, Up, HasRx, HasStat, HasNapi
<1>7. DepthInv'  BY <1>1, <1>2 DEF DepthInv
<1> QED  BY <1>4, <1>5, <1>6, <1>7 DEF PortInv

LEMMA PortCloses ==
  ASSUME PortInv, NEW p \in Ports, Close(p)
  PROVE  PortInv'
<1>1. /\ rt = "idle" /\ p \in open /\ open' = open \ {p} /\ ports_open' = ports_open - 1
      /\ rt' = IF ports_open = 1 THEN "free_rx" ELSE "idle"
      /\ UNCHANGED <<probeVars, hwVars, irqVars, napiVars>>
  BY DEF Close
<1> USE DEF probeVars, hwVars, irqVars, napiVars
<1>2. PortTypes /\ StageInv /\ UpInv /\ DepthInv  BY DEF PortInv
<1>3. rt' = IF open' = {} THEN "free_rx" ELSE "idle"  BY <1>1, <1>2, OpenCount
<1>4. PortTypes'  BY <1>1, <1>2, <1>3, OpenCount DEF PortTypes, Closing
<1>5. StageInv'  BY <1>1, <1>2, <1>3 DEF StageInv
<1>6. UpInv'
  BY <1>1, <1>2, <1>3 DEF UpInv, Up, HasRx, HasStat, HasNapi
<1>7. DepthInv'  BY <1>1, <1>2 DEF DepthInv
<1> QED  BY <1>4, <1>5, <1>6, <1>7 DEF PortInv

LEMMA PortRtnl ==
  ASSUME PortInv, Rtnl
  PROVE  PortInv'
<1>2. PortTypes /\ StageInv /\ UpInv /\ DepthInv  BY DEF PortInv
<1> USE DEF probeVars, devVars, hwVars, irqVars, napiVars, Opening, Closing
<1>3. CASE OpenRxIrq
  <2>1. /\ rt = "request_rx" /\ rt_port' = rt_port
        /\ UNCHANGED <<probeVars, devVars, hwVars, stat_actions, left_over, napiVars>>
    BY <1>3 DEF OpenRxIrq
  <2>2. \/ /\ rt' = "request_stat" /\ rx_actions' = rx_actions + 1
           /\ depth' = IF rx_actions = 0 THEN 0 ELSE depth
        \/ rt' = "idle" /\ UNCHANGED <<rx_actions, late_on, depth>>
    BY <1>3 DEF OpenRxIrq
  <2>0. rt' = "request_stat" /\ rx_actions = 0 => ~late_on'
    BY <1>3, <2>1, Zenon DEF OpenRxIrq
  <2>3. PortTypes'  BY <1>2, <2>1, <2>2 DEF PortTypes
  <2>4. StageInv'  BY <1>2, <2>1, <2>2 DEF StageInv
  <2>5. UpInv'  BY <1>2, <2>1, <2>2 DEF PortTypes, UpInv, Up, HasRx, HasStat, HasNapi
  <2>6. DepthInv'
    BY <1>2, <2>0, <2>1, <2>2 DEF PortTypes, UpInv, DepthInv, Up, HasRx, HasStat, HasNapi
  <2> QED  BY <2>3, <2>4, <2>5, <2>6 DEF PortInv
<1>4. CASE OpenStatIrq
  <2>1. /\ rt = "request_stat" /\ rt_port' = rt_port
        /\ UNCHANGED <<probeVars, devVars, hwVars, rx_actions, late_on, depth, napiVars>>
    BY <1>4 DEF OpenStatIrq
  <2>2. \/ rt' = "napi" /\ stat_actions' = stat_actions + 1 /\ left_over' = left_over
        \/ rt' = "idle" /\ left_over' = left_over + 1 /\ stat_actions' = stat_actions
    BY <1>4 DEF OpenStatIrq
  <2>3. PortTypes'  BY <1>2, <2>1, <2>2 DEF PortTypes
  <2>4. StageInv'  BY <1>2, <2>1, <2>2 DEF StageInv
  <2>5. UpInv'  BY <1>2, <2>1, <2>2 DEF PortTypes, UpInv, Up, HasRx, HasStat, HasNapi
  <2>6. DepthInv'  BY <1>2, <2>1, <2>2 DEF PortTypes, DepthInv
  <2> QED  BY <2>3, <2>4, <2>5, <2>6 DEF PortInv
<1>5. CASE OpenNapi
  <2>1. /\ rt = "napi" /\ rt' = "port" /\ rt_port' = rt_port /\ napi' = "idle"
        /\ UNCHANGED <<probeVars, devVars, irqVars, missed, disabling, queued, enabling>>
    BY <1>5 DEF OpenNapi
  <2>2. cpu_passing' /\ dma'  BY <1>5, Zenon DEF OpenNapi
  <2>3. PortTypes'  BY <1>2, <2>1 DEF PortTypes
  <2>4. StageInv'  BY <1>2, <2>1 DEF StageInv, UpInv
  <2>5. UpInv'  BY <1>2, <2>1, <2>2 DEF UpInv, Up, HasRx, HasStat, HasNapi
  <2>6. DepthInv'  BY <1>2, <2>1 DEF DepthInv
  <2> QED  BY <2>3, <2>4, <2>5, <2>6 DEF PortInv
<1>6. CASE OpenPort
  <2>1. /\ rt = "port" /\ rt' = "idle" /\ rt_port' = rt_port
        /\ open' = open \cup {rt_port} /\ ports_open' = ports_open + 1
        /\ UNCHANGED <<probeVars, hwVars, irqVars, napiVars>>
    BY <1>6 DEF OpenPort
  <2>2. rt_port \notin open  BY <1>2, <2>1 DEF StageInv
  <2>3. PortTypes'  BY <1>2, <2>1, <2>2, OpenCount DEF PortTypes
  <2>4. StageInv'  BY <1>2, <2>1 DEF StageInv
  <2>5. UpInv'  BY <1>2, <2>1 DEF UpInv, Up, HasRx, HasStat, HasNapi
  <2>6. DepthInv'  BY <1>2, <2>1 DEF DepthInv
  <2> QED  BY <2>3, <2>4, <2>5, <2>6 DEF PortInv
<1>7. CASE CloseRxIrq
  <2>1. /\ rt = "free_rx" /\ rt' = "free_stat" /\ rt_port' = rt_port
        /\ rx_actions' = rx_actions - 1
        /\ depth' = IF rx_actions = 1 THEN 1 ELSE depth + 1
        /\ UNCHANGED <<probeVars, devVars, hwVars, stat_actions, left_over, late_on, napiVars>>
    BY <1>7 DEF CloseRxIrq
  <2>3. PortTypes'  BY <1>2, <2>1 DEF PortTypes
  <2>4. StageInv'  BY <1>2, <2>1 DEF StageInv
  <2>5. UpInv'  BY <1>2, <2>1 DEF PortTypes, UpInv, Up, HasRx, HasStat, HasNapi
  <2>6. DepthInv'  BY <1>2, <2>1 DEF PortTypes, UpInv, DepthInv, Up, HasRx
  <2> QED  BY <2>3, <2>4, <2>5, <2>6 DEF PortInv
<1>8. CASE CloseStatIrq
  <2>1. /\ rt = "free_stat" /\ rt' = "disable_napi" /\ rt_port' = rt_port
        /\ stat_actions' = stat_actions - 1
        /\ UNCHANGED <<probeVars, devVars, hwVars, rx_actions, left_over, late_on, depth, napiVars>>
    BY <1>8 DEF CloseStatIrq
  <2>3. PortTypes'  BY <1>2, <2>1 DEF PortTypes
  <2>4. StageInv'  BY <1>2, <2>1 DEF StageInv
  <2>5. UpInv'  BY <1>2, <2>1 DEF PortTypes, UpInv, Up, HasRx, HasStat, HasNapi
  <2>6. DepthInv'  BY <1>2, <2>1 DEF DepthInv
  <2> QED  BY <2>3, <2>4, <2>5, <2>6 DEF PortInv
<1>9. CASE CloseNapi
  <2>1. /\ rt = "disable_napi"
        /\ UNCHANGED <<probeVars, rtVars, devVars, hwVars, irqVars, napi, queued, enabling>>
    BY <1>9 DEF CloseNapi
  <2> USE DEF rtVars
  <2>3. PortTypes'  BY <1>2, <2>1 DEF PortTypes
  <2>4. StageInv'  BY <1>2, <2>1 DEF StageInv
  <2>5. UpInv'  BY <1>2, <2>1 DEF UpInv, Up, HasRx, HasStat, HasNapi
  <2>6. DepthInv'  BY <1>2, <2>1 DEF DepthInv
  <2> QED  BY <2>3, <2>4, <2>5, <2>6 DEF PortInv
<1>10. CASE CloseDone
  <2>1. /\ rt = "disable_napi" /\ napi = "idle" /\ rt' = "idle" /\ rt_port' = rt_port
        /\ napi' = "off"
        /\ UNCHANGED <<probeVars, devVars, irqVars, queued, enabling>>
    BY <1>10 DEF CloseDone
  <2>2. ~disabling' /\ ~cpu_passing' /\ ~dma'  BY <1>10, Zenon DEF CloseDone
  <2>3. PortTypes'  BY <1>2, <2>1 DEF PortTypes
  <2>4. StageInv'  BY <1>2, <2>1 DEF StageInv
  <2>5. UpInv'  BY <1>2, <2>1, <2>2 DEF UpInv, Up, HasRx, HasStat, HasNapi
  <2>6. DepthInv'  BY <1>2, <2>1 DEF DepthInv
  <2> QED  BY <2>3, <2>4, <2>5, <2>6 DEF PortInv
<1> QED  BY <1>3, <1>4, <1>5, <1>6, <1>7, <1>8, <1>9, <1>10 DEF Rtnl

-----------------------------------------------------------------------------
(* Frames, interrupts and polls.                                            *)

LEMMA PortSchedules ==
  ASSUME PortInv, SchedulePoll, rx_actions > 0,
         UNCHANGED <<probeVars, rtVars, devVars, hwVars, rx_actions, stat_actions, left_over,
                     late_on, disabling, enabling>>
  PROVE  PortInv'
<1>1. PortTypes /\ StageInv /\ UpInv /\ DepthInv  BY DEF PortInv
<1> USE DEF probeVars, rtVars, devVars, hwVars, irqVars, napiVars
<1>2. \/ UNCHANGED <<napi, queued, depth>>
      \/ /\ napi = "idle" /\ napi' = "sched" /\ depth' = depth + 1
         /\ queued' = TRUE
  BY <1>1 DEF SchedulePoll, PortTypes
<1>3. CASE UNCHANGED <<napi, queued, depth>>
  BY <1>1, <1>3 DEF PortInv, PortTypes, StageInv, UpInv, DepthInv, Up, HasRx, HasStat, HasNapi
<1>4. ASSUME napi = "idle", napi' = "sched", depth' = depth + 1, queued' = TRUE
      PROVE  PortInv'
  <2>1. queued' /\ ~queued  BY <1>1, <1>4 DEF UpInv
  <2>2. PortTypes'  BY <1>1, <1>4 DEF PortTypes
  <2>3. StageInv'  BY <1>1 DEF StageInv
  <2>4. UpInv'  BY <1>1, <1>4, <2>1 DEF UpInv, Up, HasRx, HasStat, HasNapi
  <2>5. DepthInv'  BY <1>1, <1>4, <2>1 DEF DepthInv, PortTypes
  <2> QED  BY <2>2, <2>3, <2>4, <2>5 DEF PortInv
<1> QED  BY <1>2, <1>3, <1>4

LEMMA PortPolls ==
  ASSUME PortInv, PollBudget \/ PollCompletes \/ PollEnablesIrq
  PROVE  PortInv'
<1>1. PortTypes /\ StageInv /\ UpInv /\ DepthInv  BY DEF PortInv
<1> USE DEF probeVars, rtVars, devVars, hwVars, irqVars, napiVars
<1>2. /\ UNCHANGED <<probeVars, rtVars, devVars, hwVars, rx_actions, stat_actions,
                     left_over, disabling>>
      /\ (PollBudget \/ PollCompletes => late_on' = late_on)
  BY DEF PollBudget, PollCompletes, PollEnablesIrq
<1>3. StageInv'  BY <1>1, <1>2 DEF StageInv
<1>4. CASE PollBudget
  <2>1. \/ UNCHANGED <<napi, queued, enabling, depth>>
        \/ /\ queued /\ disabling /\ napi' = "idle" /\ UNCHANGED <<enabling, depth>>
           /\ queued' = FALSE
    BY <1>4 DEF PollBudget
  <2>2. CASE UNCHANGED <<napi, queued, enabling, depth>>
    BY <1>1, <1>2, <1>4, <2>2 DEF PortInv, PortTypes, StageInv, UpInv, DepthInv, Up, HasRx, HasStat,
       HasNapi
  <2>3. ASSUME queued, disabling, napi' = "idle", UNCHANGED <<enabling, depth>>, queued' = FALSE
        PROVE  PortInv'
    <3>1. rt = "disable_napi" /\ ~queued' /\ napi = "sched"  BY <1>1, <2>3 DEF UpInv
    <3>2. rx_actions = left_over  BY <1>1, <3>1 DEF UpInv, HasRx, Up, PortTypes
    <3>3. PortTypes'  BY <1>1, <1>2, <2>3 DEF PortTypes
    <3>4. UpInv'  BY <1>1, <1>2, <2>3, <3>1 DEF UpInv, Up, HasRx, HasStat, HasNapi
    <3>5. DepthInv'  BY <1>1, <1>2, <1>4, <2>3, <3>2 DEF DepthInv
    <3> QED  BY <1>3, <3>3, <3>4, <3>5 DEF PortInv
  <2> QED  BY <2>1, <2>2, <2>3
<1>5. CASE PollCompletes
  <2>1. \/ UNCHANGED <<napi, queued, enabling, depth>>
        \/ /\ queued /\ napi' = "idle" /\ enabling' = enabling + 1 /\ depth' = depth
           /\ queued' = FALSE
    BY <1>5 DEF PollCompletes
  <2>2. CASE UNCHANGED <<napi, queued, enabling, depth>>
    BY <1>1, <1>2, <1>5, <2>2 DEF PortInv, PortTypes, StageInv, UpInv, DepthInv, Up, HasRx, HasStat,
       HasNapi
  <2>3. ASSUME queued, napi' = "idle", enabling' = enabling + 1, depth' = depth,
               queued' = FALSE
        PROVE  PortInv'
    <3>1. ~queued' /\ napi = "sched"  BY <1>1, <2>3 DEF UpInv
    <3>3. PortTypes'  BY <1>1, <1>2, <2>3 DEF PortTypes
    <3>4. UpInv'  BY <1>1, <1>2, <2>3, <3>1 DEF UpInv, Up, HasRx, HasStat, HasNapi
    <3>5. DepthInv'  BY <1>1, <1>2, <1>5, <2>3, <3>1 DEF DepthInv, PortTypes
    <3> QED  BY <1>3, <3>3, <3>4, <3>5 DEF PortInv
  <2> QED  BY <2>1, <2>2, <2>3
<1>6. CASE PollEnablesIrq
  <2>1. /\ enabling > 0 /\ enabling' = enabling - 1 /\ UNCHANGED <<napi, queued>>
        /\ depth' = IF depth = 0 THEN 0 ELSE depth - 1
    BY <1>6 DEF PollEnablesIrq
  <2>5. (rx_actions = 0 => late_on') /\ (rx_actions # 0 /\ ~late_on => ~late_on')
    BY <1>6, Zenon DEF PollEnablesIrq
  <2>2. PortTypes'  BY <1>1, <1>2, <2>1 DEF PortTypes
  <2>3. UpInv'  BY <1>1, <1>2, <2>1 DEF UpInv, Up, HasRx, HasStat, HasNapi
  <2>4. DepthInv'  BY <1>1, <1>2, <2>1, <2>5 DEF DepthInv, PortTypes
  <2> QED  BY <1>3, <2>2, <2>3, <2>4 DEF PortInv
<1> QED  BY <1>4, <1>5, <1>6

-----------------------------------------------------------------------------
LEMMA PortInitially ==
  ASSUME Init PROVE PortInv
<1>1. /\ stage = "start" /\ registered = {} /\ rt = "idle" /\ open = {} /\ ports_open = 0
      /\ rx_actions = 0 /\ stat_actions = 0 /\ left_over = 0 /\ depth = 1
      /\ napi = "off" /\ enabling = 0
  BY DEF Init
<1>2. ~mdio /\ ~rings /\ ~cpu_passing /\ ~dma /\ ~disabling /\ ~queued /\ ~late_on
  BY Zenon DEF Init
<1>3. IsFiniteSet(open) /\ Cardinality(open) = 0  BY <1>1, FS_EmptySet
<1>4. PortTypes  BY <1>1, <1>3 DEF PortTypes
<1>5. StageInv  BY <1>1, <1>2 DEF StageInv
<1>6. UpInv  BY <1>1, <1>2 DEF UpInv, Up, HasRx, HasStat, HasNapi
<1>7. DepthInv  BY <1>1, <1>2 DEF DepthInv
<1> QED  BY <1>4, <1>5, <1>6, <1>7 DEF PortInv

LEMMA PortStep ==
  ASSUME PortInv, [Next]_vars PROVE PortInv'
<1>1. CASE Probe \/ RemoveRings \/ RemoveDone \/ \E p \in Ports : RemovePort(p)
  BY <1>1, PortProbe
<1>2. CASE Rtnl  BY <1>2, PortRtnl
<1>3. ASSUME NEW p \in Ports, Open(p) \/ Close(p) PROVE PortInv'
  BY <1>3, PortOpens, PortCloses
<1>4. CASE UNCHANGED coreVars \/ FrameArrives
  <2>1. UNCHANGED <<probeVars, rtVars, devVars, irqVars, hwVars, napiVars>>
    BY <1>4 DEF coreVars, FrameArrives
  <2> QED
    BY <2>1 DEF probeVars, rtVars, devVars, irqVars, hwVars, napiVars, PortInv, PortTypes,
       StageInv, UpInv, DepthInv, Up, HasRx, HasStat, HasNapi
<1>5. CASE RxIrq \/ Xmit
  <2>1. /\ SchedulePoll
        /\ UNCHANGED <<probeVars, rtVars, devVars, hwVars, rx_actions, stat_actions, left_over,
                       late_on, disabling, enabling>>
        /\ rx_actions > 0 \/ open # {}
    BY <1>5 DEF RxIrq, Xmit
  <2>2. open # {} => rx_actions > 0
    BY DEF PortInv, PortTypes, UpInv, HasRx, Up
  <2> QED  BY <2>1, <2>2, PortSchedules
<1>6. CASE PollBudget \/ PollCompletes \/ PollEnablesIrq  BY <1>6, PortPolls
<1>7. Link => UNCHANGED coreVars  BY DEF Link
<1> QED  BY <1>1, <1>2, <1>3, <1>4, <1>5, <1>6, <1>7 DEF Next, NextButClose, vars

THEOREM PortInvHolds == Spec => []PortInv
<1>1. Init => PortInv  BY PortInitially
<1>2. PortInv /\ [Next]_vars => PortInv'  BY PortStep
<1> QED  BY <1>1, <1>2, PTL DEF Spec

(* For any number of ports, failures, CPUs and re-openings: while a port is  *)
(* open what the ports share is there, and the receive interrupt is only     *)
(* disabled while a poll is on its way.                                      *)
THEOREM OpenIsServedHolds == Spec => []OpenIsServed
<1>1. ASSUME PortInv PROVE OpenIsServed
  <2> SUFFICES ASSUME open # {}, rt \notin {"free_rx", "free_stat", "disable_napi"}
               PROVE  /\ stat_actions = 1 /\ rx_actions = 1 + left_over
                      /\ napi # "off" /\ dma /\ cpu_passing /\ mdio
                      /\ rings \/ stage = "removing"
                      /\ (depth > 0 /\ left_over = 0 => queued \/ enabling > 0)
    BY DEF OpenIsServed
  <2>1. PortTypes /\ StageInv /\ UpInv /\ DepthInv  BY <1>1 DEF PortInv
  <2>2. Up  BY <2>1 DEF UpInv, Up, PortTypes, Opening, Closing
  <2>3. stat_actions = 1 /\ rx_actions = 1 + left_over /\ napi # "off" /\ dma /\ cpu_passing
    BY <2>1, <2>2 DEF UpInv, HasRx, HasStat, HasNapi, PortTypes
  <2>4. mdio /\ (rings \/ stage = "removing")  BY <2>1 DEF StageInv
  <2>5. depth > 0 /\ left_over = 0 => queued \/ enabling > 0
    BY <2>1, <2>3 DEF DepthInv, PortTypes
  <2> QED  BY <2>3, <2>4, <2>5
<1> QED  BY <1>1, PortInvHolds, PTL

(* And when all of them are closed the handlers, the poll and the DMA of the *)
(* open are gone, and the freed interrupt is on exactly if a poll that was   *)
(* past napi_complete_done enabled it after free_irq.                        *)
THEOREM ClosedIsQuietHolds == Spec => []ClosedIsQuiet
<1>1. ASSUME PortInv PROVE ClosedIsQuiet
  <2> SUFFICES ASSUME open = {}, rt = "idle"
               PROVE  /\ stat_actions = 0 /\ rx_actions = left_over
                      /\ (left_over = 0 => depth = IF late_on THEN 0 ELSE 1)
                      /\ napi = "off" /\ ~queued /\ ~dma /\ ~cpu_passing
                      /\ (stage = "removed" => registered = {} /\ ~mdio /\ ~rings)
    BY DEF ClosedIsQuiet
  <2>1. PortTypes /\ StageInv /\ UpInv /\ DepthInv  BY <1>1 DEF PortInv
  <2>2. ~Up  BY DEF Up
  <2>3. stat_actions = 0 /\ rx_actions = left_over /\ napi = "off" /\ ~queued
    BY <2>1, <2>2 DEF UpInv, HasRx, HasStat, HasNapi, PortTypes
  <2>4. ~dma /\ ~cpu_passing
    BY <2>1, <2>2 DEF UpInv, HasNapi
  <2>5. left_over = 0 => depth = IF late_on THEN 0 ELSE 1
    BY <2>1, <2>3 DEF DepthInv
  <2> QED  BY <2>1, <2>3, <2>4, <2>5 DEF StageInv
<1> QED  BY <1>1, PortInvHolds, PTL

-----------------------------------------------------------------------------
(* What an open port knows of its link.                                     *)

LEMMA Adjusted == \A had, link : AdjustLink(had, link) = link
  BY DEF AdjustLink

LEMMA LinkByIrq ==
  ASSUME LinkInv, UNCHANGED phy_on,
         \/ \E p \in LinkPorts, l \in {0} \cup Speeds : LinkChanges(p, l)
         \/ StatReads \/ StatAdjusts
  PROVE  LinkInv'
<1> USE DEF mdioVars
<1>1. ASSUME NEW p \in LinkPorts, NEW l \in {0} \cup Speeds, LinkChanges(p, l)
      PROVE  LinkInv'
  <2>1. /\ hw_link' = [hw_link EXCEPT ![p] = l] /\ latched' = latched \cup {p}
        /\ UNCHANGED <<stat_irq, stat, phy_on, check, found, speed, mdio_done, mdio_value>>
        /\ misled' = IF stat_irq = "read" \/ check[p] = "read"
                        \/ (check[p] = "sent" /\ mdio_done)
                     THEN misled \cup {p} ELSE misled \ {p}
    BY <1>1 DEF LinkChanges
  <2>2. hw_link' \in [LinkPorts -> {0} \cup Speeds]  BY <2>1 DEF LinkInv
  <2>3. ASSUME NEW q \in LinkPorts \cap phy_on, q \notin misled' PROVE Knows(q)'
    <3>1. CASE q = p
      <4>1. stat_irq # "read" /\ check[p] # "read" /\ ~(check[p] = "sent" /\ mdio_done)
        BY <2>1, <2>3, <3>1
      <4> QED  BY <2>1, <3>1, <4>1 DEF Knows
    <3>2. CASE q # p
      <4>1. Knows(q) /\ hw_link'[q] = hw_link[q]  BY <2>1, <2>3, <3>2 DEF LinkInv
      <4> QED  BY <2>1, <4>1 DEF Knows
    <3> QED  BY <3>1, <3>2
  <2> QED  BY <2>1, <2>2, <2>3 DEF LinkInv
<1>2. CASE StatReads
  <2>1. /\ stat_irq = "idle" /\ stat_irq' = "read" /\ stat' = latched
        /\ UNCHANGED <<hw_link, latched, phy_on, check, found, speed, misled, mdio_done,
                       mdio_value>>
    BY <1>2 DEF StatReads
  <2>2. ASSUME NEW q \in LinkPorts \cap phy_on, q \notin misled PROVE Knows(q)'
    <3>1. Knows(q)  BY <2>2 DEF LinkInv
    <3> QED  BY <2>1, <3>1 DEF Knows
  <2> QED  BY <2>1, <2>2 DEF LinkInv
<1>3. CASE StatAdjusts
  <2>1. /\ stat_irq = "read" /\ stat_irq' = "idle"
        /\ speed' = [p \in LinkPorts |->
                       IF p \in stat THEN AdjustLink(speed[p], hw_link[p]) ELSE speed[p]]
        /\ UNCHANGED <<hw_link, phy_on, check, found, misled, mdio_done, mdio_value>>
    BY <1>3 DEF StatAdjusts
  <2>2. \A p \in LinkPorts : speed'[p] = IF p \in stat THEN hw_link[p] ELSE speed[p]
    BY <2>1, Adjusted
  <2>3. speed' \in [LinkPorts -> {0} \cup Speeds]  BY <2>1, Adjusted DEF LinkInv
  <2>4. ASSUME NEW q \in LinkPorts \cap phy_on, q \notin misled PROVE Knows(q)'
    <3>1. Knows(q)  BY <2>4 DEF LinkInv
    <3>2. check[q] = "none" => speed'[q] = hw_link[q]  BY <2>1, <2>2, <3>1 DEF Knows
    <3> QED  BY <2>1, <3>1, <3>2 DEF Knows
  <2> QED  BY <2>1, <2>3, <2>4 DEF LinkInv
<1> QED  BY <1>1, <1>2, <1>3

LEMMA LinkByPhy ==
  ASSUME LinkInv, NEW p \in LinkPorts,
         \/ MdioCommand(p) \/ MdioAnswers(p) \/ PhyReads(p) \/ PhyReadFails(p) \/ PhyAdjusts(p)
  PROVE  LinkInv'
<1> USE DEF mdioVars
<1>0. UNCHANGED <<hw_link, latched, stat_irq, stat, phy_on>>
  BY DEF MdioCommand, MdioAnswers, PhyReads, PhyReadFails, PhyAdjusts
<1>1. ASSUME NEW q \in LinkPorts \cap phy_on, q \notin misled PROVE Knows(q)
  BY <1>1 DEF LinkInv
<1>7. /\ check \in [LinkPorts -> {"none", "due", "sent", "read"}]
      /\ found \in [LinkPorts -> {0} \cup Speeds] /\ speed \in [LinkPorts -> {0} \cup Speeds]
  BY DEF LinkInv
<1>2. CASE MdioCommand(p)
  <2>1. /\ \A q \in LinkPorts : check[q] # "sent"
        /\ check' = [check EXCEPT ![p] = "sent"] /\ mdio_value' = 0
        /\ UNCHANGED <<found, speed, misled>>
    BY <1>2 DEF MdioCommand
  <2>2. ~mdio_done'  BY <1>2, Zenon DEF MdioCommand
  <2>3. \A q \in LinkPorts : check'[q] = IF q = p THEN "sent" ELSE check[q]
    BY <2>1 DEF LinkInv
  <2>4. ASSUME NEW q \in LinkPorts \cap phy_on, q \notin misled PROVE Knows(q)'
    BY <1>0, <1>1, <2>1, <2>2, <2>3, <2>4 DEF Knows
  <2> QED  BY <1>0, <2>1, <2>3, <2>4 DEF LinkInv
<1>3. CASE MdioAnswers(p)
  <2>1. /\ check[p] = "sent" /\ mdio_value' = hw_link[p]
        /\ UNCHANGED <<check, found, speed, misled>>
    BY <1>3 DEF MdioAnswers
  <2>2. \A q \in LinkPorts : check[q] = "sent" => q = p  BY <2>1 DEF LinkInv
  <2>3. ASSUME NEW q \in LinkPorts \cap phy_on, q \notin misled PROVE Knows(q)'
    BY <1>0, <1>1, <2>1, <2>2, <2>3 DEF Knows
  <2> QED  BY <1>0, <2>1, <2>3 DEF LinkInv
<1>4. CASE PhyReads(p)
  <2>1. /\ check[p] = "sent" /\ mdio_done /\ check' = [check EXCEPT ![p] = "read"]
        /\ found' = [found EXCEPT ![p] = mdio_value] /\ mdio_value' = 0
        /\ UNCHANGED <<speed, misled>>
    BY <1>4 DEF PhyReads
  <2>2. ~mdio_done'  BY <1>4, Zenon DEF PhyReads
  <2>3. \A q \in LinkPorts : /\ check'[q] = IF q = p THEN "read" ELSE check[q]
                             /\ found'[q] = IF q = p THEN mdio_value ELSE found[q]
    BY <1>7, <2>1
  <2>4. ASSUME NEW q \in LinkPorts \cap phy_on, q \notin misled PROVE Knows(q)'
    <3>1. CASE q = p
      <4>1. mdio_value = hw_link[p]  BY <1>1, <2>1, <2>4, <3>1 DEF Knows
      <4> QED  BY <1>0, <2>1, <2>3, <3>1, <4>1 DEF Knows
    <3>2. CASE q # p
      <4>1. Knows(q)  BY <1>1, <2>4
      <4> QED  BY <1>0, <2>1, <2>2, <2>3, <3>2, <4>1 DEF Knows
    <3> QED  BY <3>1, <3>2
  <2> QED  BY <1>0, <2>1, <2>3, <2>4 DEF LinkInv
<1>5. CASE PhyReadFails(p)
  <2>1. /\ check' = [check EXCEPT ![p] = "none"] /\ speed' = [speed EXCEPT ![p] = 0]
        /\ misled' = misled \cup {p}
        /\ UNCHANGED <<found, mdio_done, mdio_value>>
    BY <1>5 DEF PhyReadFails
  <2>2. \A q \in LinkPorts : q # p => check'[q] = check[q] /\ speed'[q] = speed[q]
    BY <2>1 DEF LinkInv
  <2>3. \A q \in LinkPorts : check'[q] = "sent" => check[q] = "sent"
    BY <2>1 DEF LinkInv
  <2>4. ASSUME NEW q \in LinkPorts \cap phy_on, q \notin misled' PROVE Knows(q)'
    BY <1>0, <1>1, <2>1, <2>2, <2>4 DEF Knows
  <2> QED  BY <1>0, <2>1, <2>3, <2>4 DEF LinkInv
<1>6. CASE PhyAdjusts(p)
  <2>1. /\ check[p] = "read" /\ check' = [check EXCEPT ![p] = "none"]
        /\ speed' = [speed EXCEPT ![p] = AdjustLink(@, found[p])]
        /\ found' = [found EXCEPT ![p] = 0]
        /\ UNCHANGED <<misled, mdio_done, mdio_value>>
    BY <1>6 DEF PhyAdjusts
  <2>2. speed' = [speed EXCEPT ![p] = found[p]]  BY <2>1, Adjusted
  <2>3. \A q \in LinkPorts : /\ check'[q] = IF q = p THEN "none" ELSE check[q]
                             /\ speed'[q] = IF q = p THEN found[p] ELSE speed[q]
                             /\ found'[q] = IF q = p THEN 0 ELSE found[q]
    BY <1>7, <2>1, <2>2
  <2>4. ASSUME NEW q \in LinkPorts \cap phy_on, q \notin misled PROVE Knows(q)'
    <3>1. Knows(q)  BY <1>1, <2>4
    <3>2. CASE q = p
      <4>1. check'[q] = "none" /\ speed'[q] = hw_link'[q]
        BY <1>0, <2>1, <2>3, <3>1, <3>2 DEF Knows
      <4> QED  BY <4>1 DEF Knows
    <3>3. CASE q # p
      BY <1>0, <2>1, <2>3, <3>1, <3>3 DEF Knows
    <3> QED  BY <3>2, <3>3
  <2>5. {found', speed'} \subseteq [LinkPorts -> {0} \cup Speeds]
    BY <2>1, <2>2 DEF LinkInv
  <2> QED  BY <1>0, <2>1, <2>3, <2>4, <2>5 DEF LinkInv
<1> QED  BY <1>2, <1>3, <1>4, <1>5, <1>6

LEMMA LinkByLateAnswer ==
  ASSUME LinkInv, NEW v \in {0} \cup Speeds, MdioAnswersLate(v)
  PROVE  LinkInv'
<1>1. /\ mdio_value' = v /\ misled' = misled \cup { p \in LinkPorts : check[p] = "sent" }
      /\ UNCHANGED <<hw_link, latched, stat_irq, stat, phy_on, check, found, speed>>
  BY DEF MdioAnswersLate
<1>2. ASSUME NEW q \in LinkPorts \cap phy_on, q \notin misled' PROVE Knows(q)'
  <2>1. Knows(q) /\ check[q] # "sent"  BY <1>1, <1>2 DEF LinkInv
  <2> QED  BY <1>1, <2>1 DEF Knows
<1> QED  BY <1>1, <1>2 DEF LinkInv

LEMMA LinkByOpen ==
  ASSUME LinkInv, NEW p \in LinkPorts, LinkOpens(p) \/ LinkCloses(p)
  PROVE  LinkInv'
<1> USE DEF mdioVars
<1>0. UNCHANGED <<hw_link, latched, stat_irq, stat, mdio_done, mdio_value>>
  BY DEF LinkOpens, LinkCloses
<1>1. /\ speed' = [speed EXCEPT ![p] = 0]
      /\ \A q \in LinkPorts : q # p => /\ check'[q] = check[q] /\ speed'[q] = speed[q]
                                       /\ found'[q] = found[q]
                                       /\ q \in phy_on' <=> q \in phy_on
                                       /\ q \in misled' <=> q \in misled
  BY DEF LinkOpens, LinkCloses, LinkInv
<1>2. \/ p \in misled' /\ check' = check
      \/ check' = [check EXCEPT ![p] = "due"]
      \/ p \notin phy_on' /\ check' = [check EXCEPT ![p] = "none"]
  BY DEF LinkOpens, LinkCloses
<1>3. found' = found \/ found' = [found EXCEPT ![p] = 0]
  BY DEF LinkOpens, LinkCloses
<1>4. /\ check' \in [LinkPorts -> {"none", "due", "sent", "read"}]
      /\ \A q \in LinkPorts : check'[q] = "sent" => check[q] = "sent"
  BY <1>2 DEF LinkInv
<1>5. ASSUME NEW q \in LinkPorts \cap phy_on', q \notin misled' PROVE Knows(q)'
  <2>1. CASE q = p
    <3>1. check'[p] = "due"  BY <1>2, <1>5, <2>1 DEF LinkInv
    <3> QED  BY <2>1, <3>1 DEF Knows
  <2>2. CASE q # p
    <3>1. Knows(q)  BY <1>1, <1>5, <2>2 DEF LinkInv
    <3> QED  BY <1>0, <1>1, <2>2, <3>1 DEF Knows
  <2> QED  BY <2>1, <2>2
<1>6. {speed', found'} \subseteq [LinkPorts -> {0} \cup Speeds]
  BY <1>1, <1>3 DEF LinkInv
<1> QED  BY <1>0, <1>4, <1>5, <1>6 DEF LinkInv

LEMMA LinkStays ==
  ASSUME LinkInv, UNCHANGED linkVars PROVE LinkInv'
  BY DEF LinkInv, linkVars, mdioVars, Knows

LEMMA LinkInitially ==
  ASSUME Init PROVE LinkInv /\ PhyInv
<1>1. /\ hw_link \in [LinkPorts -> {0} \cup Speeds] /\ stat_irq = "idle" /\ phy_on = {}
      /\ check = [p \in LinkPorts |-> "none"] /\ mdio_value = 0
      /\ found = [p \in LinkPorts |-> 0] /\ speed = [p \in LinkPorts |-> 0]
  BY DEF Init, LinkInit
<1>2. rt = "idle" /\ open = {}  BY DEF Init
<1> QED  BY <1>1, <1>2 DEF LinkInv, PhyInv, Opening

LEMMA LinkStep ==
  ASSUME LinkInv, PhyInv, [Next]_vars PROVE LinkInv' /\ PhyInv'
<1>1. CASE Link
  <2>1. UNCHANGED <<rt, rt_port, open>>  BY <1>1 DEF Link, coreVars, rtVars, devVars
  <2>2. UNCHANGED phy_on
    BY <1>1 DEF Link, LinkChanges, StatReads, StatAdjusts, MdioCommand, MdioAnswers, PhyReads,
       PhyReadFails, PhyAdjusts, MdioAnswersLate
  <2>3. LinkInv'  BY <1>1, <2>2, LinkByIrq, LinkByPhy, LinkByLateAnswer DEF Link
  <2> QED  BY <2>1, <2>2, <2>3 DEF PhyInv
<1>2. ASSUME NEW p \in Ports, Open(p) PROVE LinkInv' /\ PhyInv'
  <2>1. rt' \in Opening /\ rt_port' = p /\ open' = open /\ LinkOpens(p)
    BY <1>2 DEF Open, devVars, Opening
  <2>2. CASE p \in LinkPorts
    <3>1. phy_on' = phy_on \cup {p}  BY <2>1, <2>2 DEF LinkOpens
    <3> QED  BY <2>1, <2>2, <3>1, LinkByOpen DEF PhyInv
  <2>3. CASE p \notin LinkPorts
    <3>1. UNCHANGED linkVars  BY <2>1, <2>3 DEF LinkOpens
    <3>2. UNCHANGED phy_on  BY <3>1 DEF linkVars
    <3> QED  BY <2>1, <2>3, <3>1, <3>2, LinkStays DEF PhyInv
  <2> QED  BY <2>2, <2>3
<1>3. ASSUME NEW p \in Ports, Close(p) PROVE LinkInv' /\ PhyInv'
  <2>1. rt' \in {"free_rx", "idle"} /\ open' = open \ {p} /\ LinkCloses(p)
    BY <1>3 DEF Close
  <2>2. CASE p \in LinkPorts
    <3>1. phy_on' = phy_on \ {p}  BY <2>1, <2>2 DEF LinkCloses
    <3> QED  BY <2>1, <2>2, <3>1, LinkByOpen DEF PhyInv, Opening, Closing
  <2>3. CASE p \notin LinkPorts
    <3>1. UNCHANGED linkVars  BY <2>1, <2>3 DEF LinkCloses
    <3>2. UNCHANGED phy_on  BY <3>1 DEF linkVars
    <3> QED  BY <2>1, <2>3, <3>1, <3>2, LinkStays DEF PhyInv, Opening, Closing
  <2> QED  BY <2>2, <2>3
<1>4. CASE Rtnl
  <2>1. UNCHANGED linkVars /\ UNCHANGED rt_port
    BY <1>4 DEF Rtnl, OpenRxIrq, OpenStatIrq, OpenNapi, OpenPort, CloseRxIrq, CloseStatIrq,
       CloseNapi, CloseDone, rtVars
  <2>2. /\ rt' \in {"idle"} \cup Opening \cup Closing
        /\ rt' \in Opening => rt \in Opening
        /\ open' = open \/ (rt = "port" /\ open' = open \cup {rt_port})
    BY <1>4 DEF Rtnl, OpenRxIrq, OpenStatIrq, OpenNapi, OpenPort, CloseRxIrq, CloseStatIrq,
       CloseNapi, CloseDone, rtVars, devVars, Opening, Closing
  <2>3. UNCHANGED phy_on  BY <2>1 DEF linkVars
  <2>4. PhyInv'  BY <2>1, <2>2, <2>3 DEF PhyInv, Opening
  <2> QED  BY <2>1, <2>4, LinkStays
<1>5. CASE \/ Probe \/ RemoveRings \/ RemoveDone \/ \E p \in Ports : RemovePort(p)
           \/ FrameArrives \/ RxIrq \/ Xmit \/ PollBudget \/ PollCompletes \/ PollEnablesIrq
           \/ UNCHANGED vars
  <2>1. UNCHANGED linkVars /\ UNCHANGED <<rt, rt_port, open>>
    BY <1>5 DEF Probe, ProbeMdio, ProbeRings, ProbePort, ProbeDone, RemoveRings, RemoveDone,
       RemovePort, FrameArrives, RxIrq, Xmit, PollBudget, PollCompletes, PollEnablesIrq, vars,
       coreVars, rtVars, devVars
  <2>2. UNCHANGED phy_on  BY <2>1 DEF linkVars
  <2> QED  BY <2>1, <2>2, LinkStays DEF PhyInv
<1> QED  BY <1>1, <1>2, <1>3, <1>4, <1>5 DEF Next, NextButClose

(* For any number of ports and any speeds: once nothing is on its way an     *)
(* open port is right about its link, but for the windows that the model     *)
(* names.                                                                    *)
THEOREM LinkIsKnownHolds == Spec => []LinkIsKnown
<1>1. Init => LinkInv /\ PhyInv  BY LinkInitially
<1>2. LinkInv /\ PhyInv /\ [Next]_vars => (LinkInv /\ PhyInv)'  BY LinkStep
<1>3. LinkInv /\ PhyInv => LinkIsKnown
  <2> SUFFICES ASSUME LinkInv, PhyInv, NEW p \in LinkPorts \cap open, LinkSettled(p),
                      p \notin misled
               PROVE  speed[p] = hw_link[p]
    BY DEF LinkIsKnown
  <2>1. Knows(p)  BY DEF LinkInv, PhyInv
  <2> QED  BY <2>1 DEF Knows, LinkSettled
<1> QED  BY <1>1, <1>2, <1>3, PTL DEF Spec

-----------------------------------------------------------------------------
(* The types of the rest.                                                   *)

Flags ==
  /\ mdio \in BOOLEAN /\ rings \in BOOLEAN /\ cpu_passing \in BOOLEAN /\ dma \in BOOLEAN
  /\ frame \in BOOLEAN /\ missed \in BOOLEAN /\ disabling \in BOOLEAN /\ queued \in BOOLEAN
  /\ late_on \in BOOLEAN

Scalars ==
  /\ stage \in {"start", "mdio", "rings", "done", "removing", "removed", "failed"}
  /\ registered \subseteq Ports /\ rt_port \in Ports /\ passing = open
  /\ fails \in 0 .. MaxFails /\ left_over <= fails
  /\ enabling <= NrCpus

LinkSets == latched \cup stat \cup phy_on \cup misled \subseteq LinkPorts

LEMMA FlagsStep == Flags /\ [Next]_vars => Flags'
<1> SUFFICES ASSUME Flags, [Next]_vars PROVE Flags'
  OBVIOUS
<1> USE DEF Flags, probeVars, hwVars, irqVars, napiVars
<1>1. CASE Probe
  <2>1. CASE ProbeMdio  BY <2>1, Zenon DEF ProbeMdio
  <2>2. CASE ProbeRings  BY <2>2, Zenon DEF ProbeRings
  <2>3. CASE \E p \in Ports : ProbePort(p)  BY <2>3, Zenon DEF ProbePort, FreePorts
  <2>4. CASE ProbeDone  BY <2>4, Zenon DEF ProbeDone
  <2> QED  BY <1>1, <2>1, <2>2, <2>3, <2>4, Zenon DEF Probe
<1>2. CASE Rtnl
  <2>1. CASE OpenRxIrq
    <3>1. UNCHANGED <<mdio, rings, cpu_passing, dma, frame, missed, disabling, queued>>
      BY <2>1, Zenon DEF OpenRxIrq
    <3>2. late_on' = (late_on /\ rx_actions # 0) \/ late_on' = late_on
      BY <2>1, Zenon DEF OpenRxIrq
    <3>3. late_on' \in BOOLEAN
      BY <3>2, Zenon
    <3> QED  BY <3>1, <3>3, Zenon
  <2>2. CASE OpenStatIrq  BY <2>2, Zenon DEF OpenStatIrq
  <2>3. CASE OpenNapi  BY <2>3, Zenon DEF OpenNapi
  <2>4. CASE OpenPort  BY <2>4, Zenon DEF OpenPort
  <2>5. CASE CloseRxIrq  BY <2>5, Zenon DEF CloseRxIrq
  <2>6. CASE CloseStatIrq  BY <2>6, Zenon DEF CloseStatIrq
  <2>7. CASE CloseNapi  BY <2>7, Zenon DEF CloseNapi
  <2>8. CASE CloseDone  BY <2>8, Zenon DEF CloseDone
  <2> HIDE DEF Flags, probeVars, hwVars, irqVars, napiVars
  <2> QED  BY <1>2, <2>1, <2>2, <2>3, <2>4, <2>5, <2>6, <2>7, <2>8, Zenon DEF Rtnl
<1>3. CASE RemoveRings \/ (\E p \in Ports : RemovePort(p)) \/ RemoveDone
  <2>1. CASE RemoveRings  BY <2>1, Zenon DEF RemoveRings, DestroyRings
  <2>2. CASE \E p \in Ports : RemovePort(p)  BY <2>2, Zenon DEF RemovePort
  <2>3. CASE RemoveDone  BY <2>3, Zenon DEF RemoveDone
  <2> HIDE DEF Flags, probeVars, hwVars, irqVars, napiVars
  <2> QED  BY <1>3, <2>1, <2>2, <2>3, Zenon
<1>4. CASE \E p \in Ports : Open(p) \/ Close(p)
  <2>1. ASSUME NEW p \in Ports, Open(p) PROVE Flags'  BY <2>1, Zenon DEF Open
  <2>2. ASSUME NEW p \in Ports, Close(p) PROVE Flags'  BY <2>2, Zenon DEF Close
  <2> HIDE DEF Flags, probeVars, hwVars, irqVars, napiVars
  <2> QED  BY <1>4, <2>1, <2>2, Zenon
<1>5. CASE Link
  BY <1>5, Zenon DEF Link, coreVars
<1>6. CASE FrameArrives
  BY <1>6, Zenon DEF FrameArrives
<1>7. CASE RxIrq \/ Xmit
  BY <1>7, Zenon DEF RxIrq, Xmit, SchedulePoll
<1>8. CASE PollBudget \/ PollEnablesIrq
  BY <1>8, Zenon DEF PollBudget, PollEnablesIrq
<1>9. CASE PollCompletes
  BY <1>9, Zenon DEF PollCompletes
<1>10. CASE UNCHANGED vars
  BY <1>10, Zenon DEF vars, coreVars
<1>11. Next \/ UNCHANGED vars
  OBVIOUS
<1> HIDE DEF Flags, probeVars, hwVars, irqVars, napiVars
<1> QED  BY <1>1, <1>2, <1>3, <1>4, <1>5, <1>6, <1>7, <1>8, <1>9, <1>10, <1>11, Zenon DEF Next, NextButClose

LEMMA ScalarsStep == PortInv /\ Scalars /\ [Next]_vars => Scalars'
<1> SUFFICES ASSUME PortInv, Scalars, [Next]_vars PROVE Scalars'
  OBVIOUS
<1>0. PortTypes /\ MaxFails \in Nat /\ NrCpus \in Nat /\ (rt = "port" => rt_port \notin open)
  BY PortAssumption DEF PortInv, StageInv
<1> USE DEF Scalars, PortTypes, Fails, vars, coreVars, probeVars, rtVars, devVars, irqVars,
    napiVars
<1>1. CASE ProbeMdio  BY <1>0, <1>1 DEF ProbeMdio
<1>2. CASE ProbeRings  BY <1>0, <1>2 DEF ProbeRings
<1>3. ASSUME NEW p \in Ports, ProbePort(p) PROVE Scalars'
  BY <1>0, <1>3 DEF ProbePort, FreePorts
<1>4. CASE ProbeDone  BY <1>0, <1>4 DEF ProbeDone
<1>5. CASE RemoveRings \/ RemoveDone  BY <1>0, <1>5 DEF RemoveRings, RemoveDone
<1>6. ASSUME NEW p \in Ports, RemovePort(p) PROVE Scalars'  BY <1>0, <1>6 DEF RemovePort
<1>7. ASSUME NEW p \in Ports, Open(p) PROVE Scalars'  BY <1>0, <1>7 DEF Open
<1>8. ASSUME NEW p \in Ports, Close(p) PROVE Scalars'  BY <1>0, <1>8 DEF Close
<1>9. CASE OpenRxIrq  BY <1>0, <1>9 DEF OpenRxIrq
<1>10. CASE OpenStatIrq  BY <1>0, <1>10 DEF OpenStatIrq
<1>11. CASE OpenNapi  BY <1>0, <1>11 DEF OpenNapi
<1>12. CASE OpenPort  BY <1>0, <1>12 DEF OpenPort
<1>13. CASE CloseRxIrq  BY <1>0, <1>13 DEF CloseRxIrq
<1>14. CASE CloseStatIrq  BY <1>0, <1>14 DEF CloseStatIrq
<1>15. CASE CloseNapi  BY <1>0, <1>15 DEF CloseNapi
<1>16. CASE CloseDone  BY <1>0, <1>16 DEF CloseDone
<1>17. CASE Link \/ UNCHANGED vars  BY <1>0, <1>17 DEF Link
<1>18. CASE FrameArrives  BY <1>0, <1>18 DEF FrameArrives
<1>19. CASE RxIrq  BY <1>0, <1>19 DEF RxIrq
<1>20. CASE Xmit  BY <1>0, <1>20 DEF Xmit
<1>21. CASE PollBudget  BY <1>0, <1>21 DEF PollBudget
<1>22. CASE PollCompletes
  <2>1. /\ enabling < NrCpus
        /\ enabling' = enabling \/ enabling' = enabling + 1
        /\ UNCHANGED <<probeVars, fails, rtVars, devVars, irqVars>>
    BY <1>22 DEF PollCompletes
  <2> QED  BY <1>0, <2>1
<1>23. CASE PollEnablesIrq  BY <1>0, <1>23 DEF PollEnablesIrq
<1> QED  BY <1>1, <1>2, <1>3, <1>4, <1>5, <1>6, <1>7, <1>8, <1>9, <1>10, <1>11, <1>12, <1>13,
            <1>14, <1>15, <1>16, <1>17, <1>18, <1>19, <1>20, <1>21, <1>22, <1>23
         DEF Next, NextButClose, Probe, Rtnl

LEMMA LinkSetsStep == LinkSets /\ [Next]_vars => LinkSets'
<1> SUFFICES ASSUME LinkSets, [Next]_vars PROVE LinkSets'
  OBVIOUS
<1> USE DEF LinkSets, linkVars, mdioVars
<1>1. CASE Link
  <2>1. ASSUME NEW p \in LinkPorts, NEW l \in {0} \cup Speeds, LinkChanges(p, l)
        PROVE  LinkSets'
    BY <2>1 DEF LinkChanges
  <2>2. CASE StatReads \/ StatAdjusts
    BY <2>2 DEF StatReads, StatAdjusts
  <2>3. ASSUME NEW p \in LinkPorts,
               MdioCommand(p) \/ MdioAnswers(p) \/ PhyReads(p) \/ PhyReadFails(p) \/ PhyAdjusts(p)
        PROVE  LinkSets'
    BY <2>3 DEF MdioCommand, MdioAnswers, PhyReads, PhyReadFails, PhyAdjusts
  <2>4. ASSUME NEW v \in {0} \cup Speeds, MdioAnswersLate(v) PROVE LinkSets'
    BY <2>4 DEF MdioAnswersLate
  <2> QED  BY <1>1, <2>1, <2>2, <2>3, <2>4 DEF Link
<1>2. ASSUME NEW p \in Ports, Open(p) \/ Close(p) PROVE LinkSets'
  <2>1. LinkOpens(p) \/ LinkCloses(p)  BY <1>2 DEF Open, Close
  <2> QED  BY <2>1 DEF LinkOpens, LinkCloses
<1>3. CASE Probe \/ RemoveRings \/ RemoveDone \/ \E p \in Ports : RemovePort(p)
  BY <1>3 DEF Probe, ProbeMdio, ProbeRings, ProbePort, ProbeDone, RemoveRings, RemoveDone,
     RemovePort
<1>4. CASE Rtnl
  BY <1>4 DEF Rtnl, OpenRxIrq, OpenStatIrq, OpenNapi, OpenPort, CloseRxIrq, CloseStatIrq,
     CloseNapi, CloseDone
<1>5. CASE \/ FrameArrives \/ RxIrq \/ Xmit \/ PollBudget \/ PollCompletes \/ PollEnablesIrq
           \/ UNCHANGED vars
  BY <1>5 DEF FrameArrives, RxIrq, Xmit, PollBudget, PollCompletes, PollEnablesIrq, vars
<1> QED  BY <1>1, <1>2, <1>3, <1>4, <1>5 DEF Next, NextButClose

(* The variables of a device keep their types for any number of ports, CPUs, *)
(* failures and re-openings: ports_open is the number of open ports, those   *)
(* are the ones that pass frames, there is never more than one handler of    *)
(* the status interrupt and never more than one of the receive interrupt     *)
(* beside those that failed opens left, and its depth is a natural number.   *)
THEOREM PortTypeCorrect == Spec => []TypeOK
<1>1. Init => Flags
  BY Zenon DEF Init, Flags
<1>2. Init => Scalars /\ LinkSets
  BY PortAssumption DEF Init, LinkInit, Scalars, LinkSets
<1>3. PortInv /\ LinkInv /\ Flags /\ Scalars /\ LinkSets => TypeOK
  <2> SUFFICES ASSUME PortInv, LinkInv, Flags, Scalars, LinkSets PROVE TypeOK
    OBVIOUS
  <2>0. PortTypes /\ StageInv /\ UpInv  BY DEF PortInv
  <2>1. {mdio, rings, cpu_passing, dma, frame, late_on, missed, disabling, queued} \subseteq BOOLEAN
    BY Zenon DEF Flags
  <2>2. left_over \in 0 .. MaxFails
    BY <2>0, PortAssumption DEF Scalars, PortTypes
  <2>3. stat_actions \in 0 .. 1 /\ rx_actions \in 0 .. MaxFails + 1
    BY <2>0, <2>2, PortAssumption DEF UpInv
  <2>4. enabling \in 0 .. NrCpus /\ depth \in Nat
    BY <2>0, PortAssumption DEF Scalars, PortTypes
  <2>5. /\ rt \in {"idle", "request_rx", "request_stat", "napi", "port",
                   "free_rx", "free_stat", "disable_napi"}
        /\ napi \in {"off", "idle", "sched"} /\ ports_open = Cardinality(open)
    BY <2>0 DEF PortTypes, Opening, Closing
  <2>6. open \subseteq registered  BY <2>0 DEF StageInv
  <2> QED  BY <2>1, <2>2, <2>3, <2>4, <2>5, <2>6, Zenon DEF Scalars, LinkSets, LinkInv, TypeOK
<1>4. Init => LinkInv /\ PhyInv  BY LinkInitially
<1>5. LinkInv /\ PhyInv /\ [Next]_vars => (LinkInv /\ PhyInv)'  BY LinkStep
<1> QED  BY <1>1, <1>2, <1>3, <1>4, <1>5, PortInvHolds, FlagsStep, ScalarsStep, LinkSetsStep,
            PTL DEF Spec

=============================================================================
