----------------------------- MODULE CnsEthLink -----------------------------
(***************************************************************************)
(* What the driver knows of the links                                       *)
(* (drivers/net/ethernet/cavium/cns3xxx_eth.c). The switch latches a change *)
(* of a port's link in intr_stat; eth_stat_irq reads the port's state and   *)
(* calls cns3xxx_adjust_link. So does phylib when a port is opened, reading *)
(* the PHY, under a lock that eth_stat_irq does not take. The module has    *)
(* this state and its changes; CnsEthPort has the opens and closes that     *)
(* they belong to.                                                          *)
(***************************************************************************)
EXTENDS Integers, FiniteSets

CONSTANTS
  LinkPorts,   \* ports whose link is followed
  Speeds       \* of a link that is up; 0 is one that is down

VARIABLES
  hw_link,     \* each port's link
  latched,     \* MAC<port>_STATUS_CHANGE in intr_stat
  stat_irq,    \* eth_stat_irq: "idle", or "read" between its two accesses
  stat,        \* what it read
  phy_on,      \* ports whose phylib state machine is started
  check,       \* its look at the PHY: "none", "due", "sent" the command, or
               \* "read" the answer
  found,       \* ... which was this
  speed,       \* port->speed
  misled,      \* ports that may be wrong about their link (history)
  mdio_done,   \* MDIO_CMD_COMPLETE in phy_control
  mdio_value,  \* the answer next to it
  late         \* a command that timed out is still on its way

mdioVars == <<mdio_done, mdio_value, late>>
linkVars == <<hw_link, latched, stat_irq, stat, phy_on, check, found, speed,
              misled, mdioVars>>

LinkInit ==
  /\ hw_link \in [LinkPorts -> {0} \cup Speeds]
  /\ latched = {} /\ stat_irq = "idle" /\ stat = {}
  /\ phy_on = {}
  /\ check = [p \in LinkPorts |-> "none"]
  /\ found = [p \in LinkPorts |-> 0] /\ speed = [p \in LinkPorts |-> 0]
  /\ misled = {}
  /\ mdio_done = FALSE /\ mdio_value = 0 /\ late = FALSE

(* cns3xxx_adjust_link, from the speed the port had to the one of its link   *)
AdjustLink(had, link) == IF link = 0 THEN 0 ELSE IF had = link THEN had ELSE link

(* A change that falls between eth_stat_irq's reading of intr_stat and its   *)
(* clearing of all of it is cleared unseen, and one that falls between        *)
(* phylib's reading of the PHY and its call of adjust_link may be undone.     *)
LinkChanges(p, l) ==
  /\ l # hw_link[p]
  /\ hw_link' = [hw_link EXCEPT ![p] = l]
  /\ latched' = latched \cup {p}
  /\ misled' = IF stat_irq = "read" \/ check[p] = "read" \/ (check[p] = "sent" /\ mdio_done)
               THEN misled \cup {p} ELSE misled \ {p}
  /\ UNCHANGED <<stat_irq, stat, phy_on, check, found, speed, mdioVars>>

StatReads ==
  /\ stat_irq = "idle" /\ latched # {}
  /\ stat_irq' = "read" /\ stat' = latched
  /\ UNCHANGED <<hw_link, latched, phy_on, check, found, speed, misled, mdioVars>>

StatAdjusts ==
  /\ stat_irq = "read"
  /\ stat_irq' = "idle" /\ stat' = {}
  /\ latched' = {}
  /\ speed' = [p \in LinkPorts |->
       IF p \in stat THEN AdjustLink(speed[p], hw_link[p]) ELSE speed[p]]
  /\ UNCHANGED <<hw_link, phy_on, check, found, misled, mdioVars>>

(* cns3xxx_mdio_cmd, one at a time under mdio_lock: the bit of an earlier    *)
(* command is cleared and the new one written ...                            *)
MdioCommand_NotCleared(p) ==
  /\ check[p] = "due" /\ \A q \in LinkPorts : check[q] # "sent"
  /\ check' = [check EXCEPT ![p] = "sent"]
  /\ UNCHANGED <<hw_link, latched, stat_irq, stat, phy_on, found, speed, misled, mdioVars>>

MdioCommand(p) ==
  /\ check[p] = "due" /\ \A q \in LinkPorts : check[q] # "sent"
  /\ check' = [check EXCEPT ![p] = "sent"]
  /\ mdio_done' = FALSE /\ mdio_value' = 0
  /\ UNCHANGED <<hw_link, latched, stat_irq, stat, phy_on, found, speed, misled, late>>

(* ... the PHY answers, perhaps one that the driver does not wait for any    *)
(* more, with whatever that one had asked for ...                            *)
MdioAnswers(p) ==
  /\ check[p] = "sent" /\ ~mdio_done
  /\ mdio_done' = TRUE /\ mdio_value' = hw_link[p]
  /\ UNCHANGED <<hw_link, latched, stat_irq, stat, phy_on, check, found, speed, misled, late>>

MdioAnswersLate(v) ==
  LET waiting == { p \in LinkPorts : check[p] = "sent" } IN
  /\ late /\ ~mdio_done
  /\ mdio_done' = TRUE /\ mdio_value' = v
  /\ late' = (waiting # {})
  /\ misled' = misled \cup waiting
  /\ UNCHANGED <<hw_link, latched, stat_irq, stat, phy_on, check, found, speed>>

(* ... and the driver sees it, and clears the bit, or gives up after 5000    *)
(* looks; phylib then halts and takes the link down.                         *)
PhyReads(p) ==
  /\ check[p] = "sent" /\ mdio_done
  /\ check' = [check EXCEPT ![p] = "read"]
  /\ found' = [found EXCEPT ![p] = mdio_value]
  /\ mdio_done' = FALSE /\ mdio_value' = 0
  /\ UNCHANGED <<hw_link, latched, stat_irq, stat, phy_on, speed, misled, late>>

PhyReadFails(p) ==
  /\ check[p] = "sent" /\ ~mdio_done
  /\ check' = [check EXCEPT ![p] = "none"]
  /\ speed' = [speed EXCEPT ![p] = 0]
  /\ misled' = misled \cup {p}
  /\ late' = TRUE
  /\ UNCHANGED <<hw_link, latched, stat_irq, stat, phy_on, found, mdio_done, mdio_value>>

PhyAdjusts(p) ==
  /\ check[p] = "read"
  /\ check' = [check EXCEPT ![p] = "none"]
  /\ speed' = [speed EXCEPT ![p] = AdjustLink(@, found[p])]
  /\ found' = [found EXCEPT ![p] = 0]
  /\ UNCHANGED <<hw_link, latched, stat_irq, stat, phy_on, misled, mdioVars>>

(* eth_open: speed = 0 and phy_start, which does nothing if an open that      *)
(* failed has started the PHY before: then the link is not read again.        *)
LinkOpens(p) ==
  IF p \notin LinkPorts THEN UNCHANGED linkVars
  ELSE /\ speed' = [speed EXCEPT ![p] = 0]
       /\ phy_on' = phy_on \cup {p}
       /\ IF p \in phy_on
          THEN misled' = misled \cup {p} /\ UNCHANGED check
          ELSE check' = [check EXCEPT ![p] = "due"] /\ misled' = misled \ {p}
       /\ UNCHANGED <<hw_link, latched, stat_irq, stat, found, mdioVars>>

(* eth_close: phy_stop takes the link down and lets no check go on; it waits *)
(* for a command.                                                            *)
LinkCloses(p) ==
  IF p \notin LinkPorts THEN UNCHANGED linkVars
  ELSE /\ check[p] # "sent"
       /\ speed' = [speed EXCEPT ![p] = 0]
       /\ phy_on' = phy_on \ {p}
       /\ check' = [check EXCEPT ![p] = "none"]
       /\ found' = [found EXCEPT ![p] = 0]
       /\ UNCHANGED <<hw_link, latched, stat_irq, stat, misled, mdioVars>>

(* Nothing is on its way that would change what the port believes.           *)
LinkSettled(p) ==
  p \notin latched /\ stat_irq = "idle" /\ check[p] = "none"

=============================================================================
