------------------------------- MODULE Button -------------------------------
(***************************************************************************)
(* The factory-default button of the Seagate Central                       *)
(* (arch/arm/mach-cns3xxx/seagate_button.c). A press interrupts; from then *)
(* on the interrupt is off and a timer and a work item poll the pin, until *)
(* it is found released and the interrupt is turned on again. A press held *)
(* for hold_timer_count polls is an event, which a process that waits in   *)
(* BIOC_GET_EVENT takes. The pin shares its interrupt with the other pins  *)
(* of its port (GpioIrq).                                                  *)
(***************************************************************************)
EXTENDS GpioIrq

CONSTANTS
  FACTORY_DEFAULT,  \* the button's pin, GPIOB(2); the other pins are
                    \* those of drivers that never disable theirs
  HOLD,     \* control.hold_timer_count (10 polls, one a second)
  Readers   \* processes that call the ioctl

ASSUME ButtonAssumption == HOLD \in Nat /\ HOLD >= 1 /\ FACTORY_DEFAULT \in Pins

VARIABLES
  pressed,       \* the pin
  timer,         \* bdata->timer is pending
  work,          \* where bdata->work is
  status,        \* its local
  timer_count, processed,
  button_event,  \* not 0
  rpc,           \* the ioctl of each reader
  highs,         \* polls in a row that found the pin high, up to HOLD (history)
  reports        \* events since a poll found it low, up to 2 (history)

pollVars == <<timer, work, status, timer_count, processed>>
histVars == <<highs, reports>>
vars == <<pressed, irqVars, pollVars, button_event, rpc, histVars>>

LowOf(a, b) == IF a < b THEN a ELSE b

-----------------------------------------------------------------------------
(* button_gpio_init *)
Init ==
  /\ pressed \in BOOLEAN
  /\ IrqInit({FACTORY_DEFAULT})
  /\ timer = FALSE
  /\ work = "idle" /\ status = FALSE
  /\ timer_count = 0 /\ processed = FALSE
  /\ button_event = FALSE
  /\ rpc = [r \in Readers |-> "user"]
  /\ highs = 0 /\ reports = 0

(* A rising edge is latched, also while the interrupt is disabled. *)
Press ==
  /\ ~pressed
  /\ pressed' = TRUE
  /\ LatchEdge(FACTORY_DEFAULT)
  /\ UNCHANGED <<pollVars, button_event, rpc, histVars>>

Release ==
  /\ pressed
  /\ pressed' = FALSE
  /\ UNCHANGED <<irqVars, pollVars, button_event, rpc, histVars>>

OtherEdge(p) ==
  /\ p \in Pins \ ({FACTORY_DEFAULT} \cup raw)
  /\ LatchEdge(p)
  /\ UNCHANGED <<pressed, pollVars, button_event, rpc, histVars>>

(* The port's handler, up to the drivers' handlers.                          *)
PortIrq ==
  /\ \/ ChainedEnter
     \/ \E p \in Pins : HandleDisabled(p) \/ ResendDisabled(p)
     \/ \E p \in Pins \ {FACTORY_DEFAULT} : Delivered(p, FALSE)
  /\ UNCHANGED <<pressed, pollVars, button_event, rpc, histVars>>

(* button_gpio_intr_handler: mod_timer returns 0 if the timer was not        *)
(* pending, and only then is the interrupt disabled.                         *)
Intr ==
  /\ Delivered(FACTORY_DEFAULT, ~timer)
  /\ timer' = TRUE
  /\ UNCHANGED <<pressed, work, status, timer_count, processed, button_event,
                 rpc, histVars>>

(* button_timer: schedule_work. The work is idle whenever the timer is       *)
(* pending (OneEventPerHold).                                                *)
TimerFires ==
  /\ timer
  /\ work = "idle"
  /\ timer' = FALSE
  /\ work' = "queued"
  /\ UNCHANGED <<pressed, irqVars, status, timer_count, processed,
                 button_event, rpc, histVars>>

-----------------------------------------------------------------------------
(* gpio_button_work_func: the pin is read once, at the beginning; it may     *)
(* change before the work is done. The count is kept up to HOLD.             *)
WorkSample ==
  /\ work = "queued"
  /\ work' = "sampled"
  /\ status' = pressed
  /\ timer_count' = IF pressed THEN LowOf(HOLD, timer_count + 1) ELSE timer_count
  /\ highs' = IF pressed THEN LowOf(HOLD, highs + 1) ELSE 0
  /\ reports' = IF pressed THEN reports ELSE 0
  /\ UNCHANGED <<pressed, irqVars, timer, processed, button_event, rpc>>

(* report_gpio_button_event, under b_mutex *)
Reports == ~processed /\ timer_count >= HOLD
ReportsShort == ~processed /\ timer_count \in 1 .. HOLD - 1 /\ ~status

WorkReport_Forgets ==
  /\ work = "sampled"
  /\ work' = "reported"
  /\ button_event' = (button_event \/ Reports)
  /\ reports' = IF Reports THEN LowOf(2, reports + 1) ELSE reports
  /\ UNCHANGED <<processed, pressed, irqVars, timer, status, timer_count,
                 rpc, highs>>

WorkReport ==
  /\ work = "sampled"
  /\ work' = "reported"
  /\ processed' = (processed \/ Reports \/ ReportsShort)
  /\ button_event' = (button_event \/ Reports)
  /\ reports' = IF Reports THEN LowOf(2, reports + 1) ELSE reports
  /\ UNCHANGED <<pressed, irqVars, timer, status, timer_count, rpc, highs>>

(* Poll on, or forget the press and turn the interrupt on again. *)
WorkEnd_ProcessedStays ==
  /\ work = "reported"
  /\ work' = "idle"
  /\ IF status
     THEN /\ timer' = TRUE
          /\ UNCHANGED <<irqVars, timer_count, processed>>
     ELSE /\ timer_count' = 0
          /\ EnableIrq(FACTORY_DEFAULT)
          /\ UNCHANGED <<timer, processed>>
  /\ UNCHANGED <<pressed, status, button_event, rpc, histVars>>

WorkEnd ==
  /\ work = "reported"
  /\ work' = "idle"
  /\ IF status
     THEN /\ timer' = TRUE
          /\ UNCHANGED <<irqVars, timer_count, processed>>
     ELSE /\ timer_count' = 0 /\ processed' = FALSE
          /\ EnableIrq(FACTORY_DEFAULT)
          /\ UNCHANGED timer
  /\ UNCHANGED <<pressed, status, button_event, rpc, histVars>>

-----------------------------------------------------------------------------
(* button_ioctl, BIOC_GET_EVENT. A signal ends the wait as well, and what    *)
(* wait_event_interruptible returns is not looked at.                        *)
Wait(r) ==
  /\ rpc[r] = "user"
  /\ rpc' = [rpc EXCEPT ![r] = "waiting"]
  /\ UNCHANGED <<pressed, irqVars, pollVars, button_event, histVars>>

Wake(r) ==
  /\ rpc[r] = "waiting"
  /\ button_event
  /\ rpc' = [rpc EXCEPT ![r] = "woken"]
  /\ UNCHANGED <<pressed, irqVars, pollVars, button_event, histVars>>

Signal(r) ==
  /\ rpc[r] = "waiting"
  /\ rpc' = [rpc EXCEPT ![r] = "woken"]
  /\ UNCHANGED <<pressed, irqVars, pollVars, button_event, histVars>>

(* Under b_mutex: the event is copied and cleared, if it is still there. *)
Take_NotCleared(r) ==
  /\ rpc[r] = "woken"
  /\ rpc' = [rpc EXCEPT ![r] = "user"]
  /\ UNCHANGED <<button_event, pressed, irqVars, pollVars, histVars>>

Take(r) ==
  /\ rpc[r] = "woken"
  /\ rpc' = [rpc EXCEPT ![r] = "user"]
  /\ button_event' = FALSE
  /\ UNCHANGED <<pressed, irqVars, pollVars, histVars>>

Poll == PortIrq \/ Intr \/ TimerFires \/ WorkSample \/ WorkReport \/ WorkEnd
Reader(r) == Wake(r) \/ Take(r)

Next ==
  \/ Press \/ Release \/ Poll
  \/ \E p \in Pins : OtherEdge(p)
  \/ \E r \in Readers : Wait(r) \/ Signal(r) \/ Reader(r)

Spec == Init /\ [][Next]_vars

(* Interrupts, timers and works are served, and a woken process runs. Nobody *)
(* has to press or release the button, call the ioctl or send a signal.      *)
FairSpec ==
  /\ Spec
  /\ WF_vars(PortIrq) /\ WF_vars(Intr)
  /\ WF_vars(TimerFires) /\ WF_vars(WorkSample \/ WorkReport \/ WorkEnd)
  /\ \A r \in Readers : WF_vars(Reader(r))

-----------------------------------------------------------------------------
(* The variables have their types; the interrupt is never disabled twice.   *)
TypeOK ==
  /\ {pressed, timer, status, processed, button_event} \subseteq BOOLEAN
  /\ depth \in [Pins -> 0 .. 1]
  /\ \A s \in {raw, pended, resends, scan} : s \subseteq Pins
  /\ work \in {"idle", "queued", "sampled", "reported"}
  /\ timer_count \in 0 .. HOLD
  /\ rpc \in [Readers -> {"user", "waiting", "woken"}]
  /\ highs \in 0 .. HOLD /\ reports \in 0 .. 2

(* One event for one press: an event is reported when HOLD polls in a row    *)
(* found the button pressed, and not again before a poll finds it released;  *)
(* and no two polls run into each other.                                     *)
OneEventPerHold ==
  /\ timer => work = "idle"
  /\ reports <= 1
  /\ reports = 1 => highs = HOLD
  /\ highs = HOLD /\ work # "sampled" => reports = 1

(* A button that is pressed and held becomes an event, also when it is       *)
(* pressed just before the poll of the press before turns the interrupt on.  *)
(* (One that was already pressed at boot has no edge and is not seen.) Nor   *)
(* is its edge lost when another pin's interrupt finds it while the button's *)
(* own is disabled.                                                          *)
HoldIsReported ==
  pressed /\ Latched(FACTORY_DEFAULT) ~> ~pressed \/ reports = 1

(* An event that a process waits for is taken, whichever of the waiting      *)
(* processes comes first and whatever signals they get.                      *)
EventIsTaken ==
  button_event /\ (\E r \in Readers : rpc[r] = "waiting") ~> ~button_event

=============================================================================
