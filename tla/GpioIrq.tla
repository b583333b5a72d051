------------------------------ MODULE GpioIrq -------------------------------
(***************************************************************************)
(* The interrupts of the GPIO pins (drivers/gpio/gpio-cns3xxx.c). All pins  *)
(* of a port share one interrupt. Its handler reads the raw status, which   *)
(* the enable register does not mask, and passes every pin it finds to the  *)
(* kernel's edge handler, also pins that are disabled. The module has the   *)
(* pins' state and its changes; a driver's module says what its handler     *)
(* does.                                                                    *)
(***************************************************************************)
EXTENDS Integers, FiniteSets

CONSTANT Pins

VARIABLES
  raw,       \* GPIO_INTERRUPT_RAW_STATUS: pins with a latched edge
  depth,     \* how often each pin's interrupt is disabled
  pended,    \* pins whose edge came while they were disabled (IRQS_PENDING)
  resends,   \* pins whose pended edge the kernel's tasklet will hand over
  scan       \* pins the handler read and has not passed on yet

irqVars == <<raw, depth, pended, resends, scan>>

(* cns3xxx_gpio_init writes 0xffff to GPIO_INTERRUPT_CLEAR, which clears the *)
(* lower sixteen pins; of the others some may have an edge from before.      *)
IrqInit(low) ==
  /\ raw \in SUBSET (Pins \ low)
  /\ depth = [p \in Pins |-> 0]
  /\ pended = {} /\ resends = {} /\ scan = {}

Enabled(p) == depth[p] = 0

(* An edge that has not reached the driver of its pin yet.                   *)
Latched(p) == p \in raw \cup pended \cup resends

(* The pin latches an edge, whether it is enabled or not.                    *)
LatchEdge(p) ==
  /\ raw' = raw \cup {p}
  /\ UNCHANGED <<depth, pended, resends, scan>>

(* cns3xxx_gpio_irq_handler is entered when an enabled pin has an edge, and   *)
(* reads all that have one.                                                   *)
ChainedEnter ==
  /\ scan = {} /\ \E p \in raw : Enabled(p)
  /\ scan' = raw
  /\ UNCHANGED <<raw, depth, pended, resends>>

(* handle_edge_irq for a disabled pin: acknowledged and remembered.          *)
HandleDisabled(p) ==
  /\ p \in scan /\ ~Enabled(p)
  /\ scan' = scan \ {p}
  /\ raw' = raw \ {p}
  /\ pended' = pended \cup {p}
  /\ UNCHANGED <<depth, resends>>

(* For an enabled one: acknowledged, then the driver's handler runs, which    *)
(* leaves the interrupt disabled (off) or not. The edge comes from the        *)
(* handler's scan or from the tasklet.                                        *)
Delivered(p, off) ==
  /\ Enabled(p)
  /\ raw' = raw \ {p}
  /\ depth' = [depth EXCEPT ![p] = IF off THEN @ + 1 ELSE @]
  /\ \/ p \in scan /\ scan' = scan \ {p} /\ UNCHANGED resends
     \/ p \in resends /\ resends' = resends \ {p} /\ UNCHANGED scan
  /\ UNCHANGED pended

(* The tasklet finds the pin disabled again.                                 *)
ResendDisabled(p) ==
  /\ p \in resends /\ ~Enabled(p)
  /\ resends' = resends \ {p}
  /\ raw' = raw \ {p}
  /\ pended' = pended \cup {p}
  /\ UNCHANGED <<depth, scan>>

(* enable_irq sets the pin's bit in GPIO_INTERRUPT_ENABLE and has a pended    *)
(* edge handed over. What is still latched in the block interrupts at once.   *)
EnableIrq(p) ==
  /\ depth' = [depth EXCEPT ![p] = @ - 1]
  /\ IF depth[p] = 1 /\ p \in pended
     THEN pended' = pended \ {p} /\ resends' = resends \cup {p}
     ELSE UNCHANGED <<pended, resends>>
  /\ UNCHANGED <<raw, scan>>

=============================================================================
