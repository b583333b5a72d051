----------------------------- MODULE PanelProofs -----------------------------
(***************************************************************************)
(* Proofs about what the user of the box sees and touches: the LEDs, for    *)
(* every set of CPUs and of numbers written, and the button, for every      *)
(* length of a hold, every set of pins on its port and any number of        *)
(* readers.                                                                 *)
(***************************************************************************)
EXTENDS Leds, Button, TLAPS

(***************************************************************************)
(* The LEDs and their timer follow the state. LedsInv drops the condition   *)
(* that nobody holds the lock (each holder changes the state and what must  *)
(* follow it in one step) and adds that a process past the conversion has   *)
(* the number of a state and that only it and the callback have the lock    *)
(* they have.                                                               *)
(***************************************************************************)

ShowState ==
  /\ green <=> (state \in GreenOn \/ (state \in GreenBlinks /\ blink_flag))
  /\ yellow <=> \/ state \in YellowOn
                \/ (state \in YellowBlinks /\ blink_flag)
                \/ (state \in Alternate /\ ~blink_flag)

TimerFollows ==
  /\ state \in Blinking => leds_timer = Period(state) \/ (leds_timer = 0 /\ cb # NULL)
  /\ state \notin Blinking => leds_timer = 0

(* TypeOK without the Boolean variables, which are a matter for Zenon.     *)
LedsTypeInv ==
  /\ state \in 0 .. LS_NO - 1
  /\ leds_timer \in 0 .. 2
  /\ lock \in Cpus \cup {NULL, TIMER}
  /\ cb \in Cpus \cup {NULL}
  /\ pc \in [Cpus -> {"user", "copied", "setting", "locked", "leaving"}]
  /\ asked \in [Cpus -> 0 .. LS_NO]
  /\ finds \in [Cpus -> SUBSET Inputs]

Flags ==
  /\ blink_flag \in BOOLEAN /\ green \in BOOLEAN /\ yellow \in BOOLEAN
  /\ panicked \in BOOLEAN

LockInv ==
  /\ lock = TIMER => cb # NULL
  /\ \A c \in Cpus : pc[c] \in {"setting", "locked"} => asked[c] < LS_NO

LedsInv == LedsTypeInv /\ Flags /\ LockInv /\ (~panicked => ShowState /\ TimerFollows)

USE LedsAssumption DEF LS_NO, LS_BLINKING_GREEN

LEMMA LedsInitially == LedsInit => LedsInv
<1> SUFFICES ASSUME LedsInit PROVE LedsInv
  OBVIOUS
<1> USE DEF LedsInit
<1>1. LedsTypeInv  BY DEF LedsTypeInv, Period
<1>2. LockInv  BY DEF LockInv
<1>0. Flags  BY Zenon DEF Flags
<1>3. ShowState  BY DEF ShowState, GreenOn, GreenBlinks, YellowOn, YellowBlinks, Alternate
<1>4. TimerFollows  BY DEF TimerFollows, Blinking, Period
<1> QED  BY <1>0, <1>1, <1>2, <1>3, <1>4 DEF LedsInv

(* Steps that leave the LEDs and the timer alone.                          *)
LEMMA Quiet ==
  ASSUME LedsInv, UNCHANGED <<ledVars, cb>>, LedsTypeInv', LockInv', panicked' = panicked
  PROVE  LedsInv'
BY DEF LedsInv, ledVars, Flags, ShowState, TimerFollows

LEMMA MixturesAreNumbers ==
  ASSUME NEW S, S \subseteq Inputs
  PROVE  S \subseteq Nat /\ Mixtures(S) \subseteq Nat
<1> DEFINE firsts == {IF n < 10 THEN n ELSE 1 : n \in S}
           seconds == {n - 10 : n \in S \cap (10 .. LS_NO)}
<1>1. S \subseteq Nat /\ firsts \subseteq Nat /\ seconds \subseteq Nat
  OBVIOUS
<1>2. \A a \in firsts, b \in seconds : 10 * a + b \in Nat
  <2> HIDE DEF firsts, seconds
  <2> QED  BY <1>1
<1>3. {10 * a + b : a \in firsts \ {0}, b \in seconds} \subseteq Nat
  <2> HIDE DEF firsts, seconds
  <2> QED  BY <1>2
<1> QED  BY <1>1, <1>3 DEF Mixtures

LEMMA StepWrite ==
  ASSUME LedsInv, NEW c \in Cpus,
         (\E n \in Inputs : WriteCopies(c, n)) \/ WriteConverts(c)
  PROVE  LedsInv'
<1>1. CASE \E n \in Inputs : WriteCopies(c, n)
  <2> PICK n \in Inputs : WriteCopies(c, n)  BY <1>1
  <2> USE DEF WriteCopies, ledVars, LedsInv
  <2>1. finds' \in [Cpus -> SUBSET Inputs]
    <3> DEFINE others == {d \in Cpus \ {c} : pc[d] = "copied"}
    <3>1. \A d \in Cpus : finds[d] \subseteq Inputs  BY DEF LedsTypeInv
    <3>2. {n} \cup UNION {finds[e] : e \in others} \subseteq Inputs  BY <3>1
    <3> QED  BY <3>1, <3>2
  <2>2. LedsTypeInv'  BY <2>1 DEF LedsTypeInv
  <2>3. LockInv'  BY DEF LockInv, LedsTypeInv
  <2> QED  BY <2>2, <2>3, Quiet
<1>2. CASE WriteConverts(c)
  <2> USE <1>2 DEF LedsInv
  <2>1. PICK n \in IF finds[c] = {asked[c]} THEN finds[c] ELSE Mixtures(finds[c]) :
          IF n < LS_NO
          THEN /\ pc' = [pc EXCEPT ![c] = "setting"]
               /\ asked' = [asked EXCEPT ![c] = n]
          ELSE /\ pc' = [pc EXCEPT ![c] = "user"]
               /\ asked' = [asked EXCEPT ![c] = 0]
    BY DEF WriteConverts
  <2>2. n \in Nat
    <3>1. finds[c] \subseteq Inputs  BY DEF LedsTypeInv
    <3> QED  BY <2>1, <3>1, MixturesAreNumbers
  <2>3. UNCHANGED <<ledVars, lock, cb, panicked>> /\ finds' = [finds EXCEPT ![c] = {}]
    BY DEF WriteConverts
  <2> USE DEF ledVars
  <2>4. LedsTypeInv'  BY <2>1, <2>2, <2>3 DEF LedsTypeInv
  <2>5. LockInv'  BY <2>1, <2>2, <2>3 DEF LockInv, LedsTypeInv
  <2> QED  BY <2>3, <2>4, <2>5, Quiet
<1> QED  BY <1>1, <1>2

LEMMA StepLock ==
  ASSUME LedsInv, NEW c \in Cpus, ManagerLocks(c) \/ ReadLocks(c) \/ Unlocks(c)
  PROVE  LedsInv'
<1> USE DEF ManagerLocks, ReadLocks, Unlocks, ledVars, LedsInv
<1>1. LedsTypeInv'  BY DEF LedsTypeInv
<1>2. LockInv'  BY DEF LockInv, LedsTypeInv
<1> QED  BY <1>1, <1>2, Quiet

LEMMA StepSets ==
  ASSUME LedsInv, NEW c \in Cpus, ManagerSets(c)
  PROVE  LedsInv'
<1> USE DEF ManagerSets, LedsInv
<1>1. asked[c] \in 0 .. LS_NO - 1  BY DEF LedsTypeInv, LockInv
<1>2. LedsTypeInv'  BY <1>1 DEF LedsTypeInv, Period
<1>3. LockInv'  BY DEF LockInv, LedsTypeInv
<1>4. /\ blink_flag' <=> blink_flag \/ asked[c] \in Blinking
      /\ green' <=> asked[c] \in GreenOn \cup GreenBlinks
      /\ yellow' <=> asked[c] \in YellowOn \cup YellowBlinks
  BY Zenon DEF ManagerSets
<1>6. Flags'
  <2>1. blink_flag' \in BOOLEAN /\ green' \in BOOLEAN /\ yellow' \in BOOLEAN
    BY SMT DEF ManagerSets
  <2>2. panicked' = panicked  OBVIOUS
  <2>3. panicked \in BOOLEAN  BY DEF Flags
  <2> QED  BY <2>1, <2>2, <2>3, Zenon DEF Flags
<1>7. ShowState'
  BY <1>4, <1>1 DEF ShowState, Blinking, GreenOn, GreenBlinks, YellowOn, YellowBlinks, Alternate
<1>5. TimerFollows'  BY <1>1 DEF TimerFollows, Blinking, Period
<1> QED  BY <1>2, <1>3, <1>6, <1>7, <1>5

LEMMA StepFires ==
  ASSUME LedsInv, NEW c \in Cpus, LedsTimerExpires(c)
  PROVE  LedsInv'
<1> USE DEF LedsTimerExpires, procVars, LedsInv
<1>0. Flags'  BY DEF Flags
<1>1. LedsTypeInv'  BY DEF LedsTypeInv
<1>2. LockInv'  BY DEF LockInv
<1>3. ShowState'
  BY DEF ShowState, GreenOn, GreenBlinks, YellowOn, YellowBlinks, Alternate
<1>4. TimerFollows'  BY DEF TimerFollows
<1> QED  BY <1>0, <1>1, <1>2, <1>3, <1>4

LEMMA StepCallback ==
  ASSUME LedsInv, CallbackLocks \/ CallbackRuns
  PROVE  LedsInv'
<1>1. CASE CallbackLocks
  <2> USE <1>1 DEF CallbackLocks, ledVars, procVars, LedsInv
  <2>1. LedsTypeInv'  BY DEF LedsTypeInv
  <2>2. LockInv'  BY DEF LockInv
  <2> QED  BY <2>1, <2>2, Quiet
<1>2. CASE CallbackRuns
  <2> USE <1>2 DEF CallbackRuns, procVars, LedsInv
  <2>1. LedsTypeInv'
    BY DEF LedsTypeInv, Period, Blinking, Alternate, YellowBlinks, GreenBlinks
  <2>2. LockInv'  BY DEF LockInv
  <2>0. Flags'
    <3>1. blink_flag' \in BOOLEAN /\ green' \in BOOLEAN /\ yellow' \in BOOLEAN
      BY <1>2, Zenon DEF CallbackRuns, Flags
    <3>2. panicked' = panicked  OBVIOUS
    <3> QED  BY <3>1, <3>2, Zenon DEF Flags, LedsInv
  <2>3. ShowState' /\ ~panicked
    <3>1. CASE state \in Blinking
      <4>1. /\ blink_flag' <=> ~blink_flag
            /\ state \in GreenBlinks => (green' <=> ~blink_flag)
            /\ state \notin GreenBlinks => green' = green
        BY <3>1, <1>2, Zenon DEF CallbackRuns
      <4>2. CASE state \in YellowBlinks
        <5>0. state \notin Alternate  BY <4>2 DEF YellowBlinks, Alternate
        <5>1. yellow' <=> ~blink_flag  BY <3>1, <4>2, <5>0, <1>2, Zenon DEF CallbackRuns
        <5> QED  BY <5>1, <4>1, <4>2, <3>1 DEF ShowState, Blinking, GreenOn, GreenBlinks,
                   YellowOn, YellowBlinks, Alternate
      <4>3. CASE state \notin YellowBlinks /\ state \in Alternate
        <5>1. yellow' = blink_flag  BY <3>1, <4>3
        <5> QED  BY <5>1, <4>1, <4>3, <3>1 DEF ShowState, Blinking, GreenOn, GreenBlinks,
                   YellowOn, YellowBlinks, Alternate
      <4>4. CASE state \notin YellowBlinks /\ state \notin Alternate
        <5>1. yellow' = yellow  BY <3>1, <4>4
        <5> QED  BY <5>1, <4>1, <4>4, <3>1 DEF ShowState, Blinking, GreenOn, GreenBlinks,
                   YellowOn, YellowBlinks, Alternate
      <4> QED  BY <4>2, <4>3, <4>4
    <3>2. CASE state \notin Blinking
      BY <3>2 DEF ShowState
    <3> QED  BY <3>1, <3>2
  <2>4. TimerFollows'  BY DEF TimerFollows, Period, Blinking
  <2> QED  BY <2>0, <2>1, <2>2, <2>3, <2>4
<1> QED  BY <1>1, <1>2

LEMMA StepPanic ==
  ASSUME LedsInv, Panic \/ \E on \in BOOLEAN : PanicBlink(on)
  PROVE  LedsInv'
<1>1. Flags'
  <2>1. CASE Panic
    <3>1. panicked' \in BOOLEAN  BY <2>1, Zenon DEF Panic
    <3>2. UNCHANGED <<blink_flag, green, yellow>>  BY <2>1 DEF Panic, ledVars
    <3> QED  BY <3>1, <3>2, Zenon DEF Flags, LedsInv
  <2>2. CASE \E on \in BOOLEAN : PanicBlink(on)
    <3>1. green' \in BOOLEAN /\ yellow' \in BOOLEAN  BY <2>2, Zenon DEF PanicBlink
    <3>2. UNCHANGED <<blink_flag, panicked>>  BY <2>2 DEF PanicBlink
    <3> QED  BY <3>1, <3>2, Zenon DEF Flags, LedsInv
  <2> QED  BY <2>1, <2>2
<1>2. LedsTypeInv' /\ LockInv' /\ panicked'
  BY DEF Panic, PanicBlink, ledVars, procVars, LedsInv, LedsTypeInv, LockInv
<1> QED  BY <1>1, <1>2 DEF LedsInv

LEMMA LedsStutter == ASSUME LedsInv, UNCHANGED ledsAllVars PROVE LedsInv'
BY Quiet DEF ledsAllVars, ledVars, procVars, LedsInv, LedsTypeInv, LockInv

LEMMA LedsInvariant == LedsSpec => []LedsInv
<1>1. LedsInv /\ [LedsNext]_ledsAllVars => LedsInv'
  BY StepWrite, StepLock, StepSets, StepFires, StepCallback, StepPanic, LedsStutter
     DEF LedsNext, Process
<1> QED  BY <1>1, LedsInitially, PTL DEF LedsSpec

(* The LEDs show the state, in the phase of the flag, whichever callbacks   *)
(* and writers are under way (leds_state_manager, timer callback).          *)
THEOREM LedsShowStateHolds == LedsSpec => []LedsShowState
<1>1. LedsInv => LedsShowState
  BY Zenon DEF LedsInv, Flags, ShowState, LedsShowState, Settled
<1> QED  BY <1>1, LedsInvariant, PTL

(* A blinking state has one timer at its own speed, or the callback that    *)
(* starts it again; a steady one has none (leds_state_manager,              *)
(* cns3xx_leds_timer_callback).                                             *)
THEOREM TimerFollowsStateHolds == LedsSpec => []TimerFollowsState
<1>1. LedsInv => TimerFollowsState
  BY DEF LedsInv, TimerFollows, TimerFollowsState, Settled
<1> QED  BY <1>1, LedsInvariant, PTL

(* The LEDs' variables keep their types, whatever the bytes of overlapping  *)
(* writes amount to: only the number of a state becomes the state.          *)
THEOREM LedsTypeCorrect == LedsSpec => []LedsTypeOK
<1>1. LedsInv => LedsTypeOK
  <2>1. Flags => {blink_flag, green, yellow, panicked} \subseteq BOOLEAN
    BY Zenon DEF Flags
  <2> QED  BY <2>1 DEF LedsInv, LedsTypeInv, LedsTypeOK
<1> QED  BY <1>1, LedsInvariant, PTL

-----------------------------------------------------------------------------
(***************************************************************************)
(* One event for one press. The invariant follows a press through its      *)
(* polls: the interrupt is disabled exactly while the timer or the work    *)
(* item is under way (ArmedInv), which lets no two polls run at once, and  *)
(* between two polls timer_count is the number of polls that found the     *)
(* button pressed (PollInv).                                               *)
(***************************************************************************)

ButtonTypeInv ==
  /\ depth \in [Pins -> Nat]
  /\ work \in {"idle", "queued", "sampled", "reported"}
  /\ timer_count \in 0 .. HOLD
  /\ highs \in 0 .. HOLD /\ reports \in 0 .. 1

ArmedInv ==
  /\ timer => work = "idle"
  /\ depth[FACTORY_DEFAULT] = IF timer \/ work # "idle" THEN 1 ELSE 0

(* What a press has come to, as long as the last poll found it pressed.      *)
InStep ==
  /\ highs = timer_count
  /\ processed <=> timer_count = HOLD
  /\ reports = IF timer_count = HOLD THEN 1 ELSE 0

PollInv ==
  /\ work = "idle" /\ ~timer => timer_count = 0
  /\ work \in {"idle", "queued"} => InStep
  /\ work = "sampled" /\ status =>
       /\ highs = timer_count
       /\ processed => timer_count = HOLD
       /\ reports = IF processed THEN 1 ELSE 0
  /\ work = "sampled" /\ ~status =>
       highs = 0 /\ reports = 0 /\ (timer_count = HOLD => processed)
  /\ work = "reported" => IF status THEN InStep ELSE highs = 0 /\ reports = 0

ButtonInv == ButtonTypeInv /\ ArmedInv /\ PollInv

USE ButtonAssumption

LEMMA ButtonInitially == Init => ButtonInv
BY DEF Init, IrqInit, ButtonInv, ButtonTypeInv, ArmedInv, PollInv, InStep

(* What the polls do not change.                                             *)
pollState == <<timer, work, status, timer_count, processed, highs, reports>>

LEMMA StepElsewhere ==
  ASSUME ButtonInv, UNCHANGED pollState, UNCHANGED depth
  PROVE  ButtonInv'
BY DEF ButtonInv, ButtonTypeInv, ArmedInv, PollInv, InStep, pollState

(* The interrupts of the port leave every pin as enabled as it was, up to    *)
(* the driver's own handler.                                                 *)
LEMMA StepPort ==
  ASSUME ButtonInv, PortIrq
  PROVE  ButtonInv'
<1>1. UNCHANGED pollState
  BY DEF PortIrq, pollVars, histVars, pollState
<1>2. UNCHANGED depth
  BY DEF PortIrq, ChainedEnter, HandleDisabled, ResendDisabled, Delivered, ButtonInv, ButtonTypeInv
<1> QED  BY <1>1, <1>2, StepElsewhere

LEMMA StepIntr ==
  ASSUME ButtonInv, Intr
  PROVE  ButtonInv'
<1>1. ~timer /\ work = "idle"
  BY DEF Intr, Delivered, Enabled, ButtonInv, ArmedInv
<1>2. timer'  BY Zenon DEF Intr
<1>3. /\ UNCHANGED <<work, status, timer_count, processed, highs, reports>>
      /\ depth' = [depth EXCEPT ![FACTORY_DEFAULT] = @ + 1]
  BY <1>1 DEF Intr, Delivered, histVars
<1>4. ButtonTypeInv'  BY <1>3 DEF ButtonInv, ButtonTypeInv
<1>5. ArmedInv'  BY <1>1, <1>2, <1>3 DEF ButtonInv, ButtonTypeInv, ArmedInv
<1>6. PollInv'  BY <1>1, <1>2, <1>3 DEF ButtonInv, PollInv, InStep
<1> QED  BY <1>4, <1>5, <1>6 DEF ButtonInv

LEMMA StepTimer ==
  ASSUME ButtonInv, TimerFires
  PROVE  ButtonInv'
<1>1. timer /\ ~timer'  BY Zenon DEF TimerFires
<1>2. /\ work = "idle" /\ work' = "queued"
      /\ UNCHANGED <<depth, status, timer_count, processed, highs, reports>>
  BY DEF TimerFires, irqVars, histVars
<1>3. ButtonTypeInv'  BY <1>2 DEF ButtonInv, ButtonTypeInv
<1>4. ArmedInv'  BY <1>1, <1>2 DEF ButtonInv, ArmedInv
<1>5. PollInv'  BY <1>1, <1>2 DEF ButtonInv, PollInv, InStep
<1> QED  BY <1>3, <1>4, <1>5 DEF ButtonInv

LEMMA StepSample ==
  ASSUME ButtonInv, WorkSample
  PROVE  ButtonInv'
<1> USE DEF WorkSample, irqVars
<1>1. ButtonTypeInv'  BY DEF ButtonInv, ButtonTypeInv, LowOf
<1>2. ArmedInv'  BY DEF ButtonInv, ArmedInv
<1>3. PollInv'  BY DEF ButtonInv, ButtonTypeInv, PollInv, InStep, LowOf
<1> QED  BY <1>1, <1>2, <1>3 DEF ButtonInv

LEMMA StepReport ==
  ASSUME ButtonInv, WorkReport
  PROVE  ButtonInv'
<1> USE DEF WorkReport, irqVars, Reports, ReportsShort
<1>1. ButtonTypeInv'  BY DEF ButtonInv, ButtonTypeInv, PollInv, InStep, LowOf
<1>2. ArmedInv'  BY DEF ButtonInv, ArmedInv
<1>3. processed' <=> processed \/ Reports \/ ReportsShort
  BY Zenon DEF WorkReport
<1>4. PollInv'
  <2>1. CASE status
    BY <2>1, <1>3 DEF ButtonInv, ButtonTypeInv, PollInv, InStep, LowOf
  <2>2. CASE ~status
    BY <2>2, <1>3 DEF ButtonInv, ButtonTypeInv, PollInv, InStep, LowOf
  <2> QED  BY <2>1, <2>2
<1> QED  BY <1>1, <1>2, <1>4 DEF ButtonInv

LEMMA StepEnd ==
  ASSUME ButtonInv, WorkEnd
  PROVE  ButtonInv'
<1> USE DEF WorkEnd, irqVars, histVars, EnableIrq
<1>1. ButtonTypeInv'  BY DEF ButtonInv, ButtonTypeInv, ArmedInv
<1>2. ArmedInv'  BY DEF ButtonInv, ButtonTypeInv, ArmedInv
<1>3. PollInv'  BY DEF ButtonInv, ButtonTypeInv, ArmedInv, PollInv, InStep
<1> QED  BY <1>1, <1>2, <1>3 DEF ButtonInv

LEMMA ButtonStep == ButtonInv /\ [Next]_vars => ButtonInv'
<1> SUFFICES ASSUME ButtonInv, [Next]_vars PROVE ButtonInv'
  OBVIOUS
<1>1. CASE Press \/ Release \/ \E p \in Pins : OtherEdge(p)
  BY <1>1, StepElsewhere
     DEF Press, Release, OtherEdge, LatchEdge, irqVars, pollVars, histVars, pollState
<1>2. CASE Poll
  BY <1>2, StepPort, StepIntr, StepTimer, StepSample, StepReport, StepEnd DEF Poll
<1>3. CASE \E r \in Readers : Wait(r) \/ Signal(r) \/ Reader(r)
  BY <1>3, StepElsewhere
     DEF Wait, Signal, Reader, Wake, Take, irqVars, pollVars, histVars, pollState
<1>4. CASE UNCHANGED vars
  BY <1>4, StepElsewhere DEF vars, irqVars, pollVars, histVars, pollState
<1> QED  BY <1>1, <1>2, <1>3, <1>4 DEF Next

LEMMA ButtonInvariant == Spec => []ButtonInv
BY ButtonInitially, ButtonStep, PTL DEF Spec

(* A hold of HOLD polls is one event, reported when the count gets there and *)
(* not again before a poll finds the button released; polls do not overlap   *)
(* (gpio_button_work_func, report_gpio_button_event).                        *)
THEOREM OneEventPerHoldHolds == Spec => []OneEventPerHold
<1>1. ButtonInv => OneEventPerHold
  BY DEF ButtonInv, ButtonTypeInv, ArmedInv, PollInv, InStep, OneEventPerHold
<1> QED  BY <1>1, ButtonInvariant, PTL

(* The types. Of the depth of a pin, TypeOK says that its interrupt is never *)
(* disabled twice; ArmedInv says it of the button's pin, and no other pin is *)
(* disabled at all.                                                          *)
ButtonFlags ==
  /\ pressed \in BOOLEAN /\ timer \in BOOLEAN /\ status \in BOOLEAN
  /\ processed \in BOOLEAN /\ button_event \in BOOLEAN

ButtonSets ==
  /\ depth \in [Pins -> 0 .. 1]
  /\ raw \subseteq Pins /\ pended \subseteq Pins /\ resends \subseteq Pins /\ scan \subseteq Pins
  /\ rpc \in [Readers -> {"user", "waiting", "woken"}]

LEMMA FlagsStep == ButtonFlags /\ [Next]_vars => ButtonFlags'
<1> SUFFICES ASSUME ButtonFlags, [Next]_vars PROVE ButtonFlags'
  OBVIOUS
<1> USE DEF ButtonFlags, vars, irqVars, pollVars, histVars
<1>1. CASE Press \/ Release \/ \E p \in Pins : OtherEdge(p)
  BY <1>1, Zenon DEF Press, Release, OtherEdge
<1>2. CASE PortIrq \/ Intr \/ TimerFires
  BY <1>2, Zenon DEF PortIrq, Intr, TimerFires
<1>3. CASE WorkSample
  BY <1>3, Zenon DEF WorkSample
<1>4. CASE WorkReport
  BY <1>4, Zenon DEF WorkReport
<1>5. CASE WorkEnd
  BY <1>5, Zenon DEF WorkEnd
<1>6. CASE \E r \in Readers : Wait(r) \/ Signal(r) \/ Reader(r)
  BY <1>6, Zenon DEF Wait, Signal, Reader, Wake, Take
<1>7. CASE UNCHANGED vars
  BY <1>7, Zenon
<1> QED  BY <1>1, <1>2, <1>3, <1>4, <1>5, <1>6, <1>7 DEF Next, Poll

LEMMA SetsStep == ButtonInv /\ ButtonInv' /\ ButtonSets /\ [Next]_vars => ButtonSets'
<1> SUFFICES ASSUME ButtonInv, ButtonInv', ButtonSets, [Next]_vars PROVE ButtonSets'
  OBVIOUS
<1> USE DEF ButtonSets, vars, irqVars, pollVars, histVars
<1>0. depth'[FACTORY_DEFAULT] \in 0 .. 1
  BY DEF ButtonInv, ArmedInv
<1>1. CASE Press \/ Release \/ \E p \in Pins : OtherEdge(p)
  BY <1>1 DEF Press, Release, OtherEdge, LatchEdge
<1>2. CASE PortIrq
  BY <1>2 DEF PortIrq, ChainedEnter, HandleDisabled, ResendDisabled, Delivered
<1>3. CASE Intr
  BY <1>0, <1>3 DEF Intr, Delivered
<1>4. CASE TimerFires \/ WorkSample \/ WorkReport
  BY <1>4 DEF TimerFires, WorkSample, WorkReport
<1>5. CASE WorkEnd
  BY <1>0, <1>5 DEF WorkEnd, EnableIrq
<1>6. CASE \E r \in Readers : Wait(r) \/ Signal(r) \/ Reader(r)
  BY <1>6 DEF Wait, Signal, Reader, Wake, Take
<1>7. CASE UNCHANGED vars
  BY <1>7
<1> QED  BY <1>1, <1>2, <1>3, <1>4, <1>5, <1>6, <1>7 DEF Next, Poll

(* The button's variables keep their types, and no interrupt is disabled    *)
(* twice (button_gpio_intr_handler, gpio_button_work_func).                 *)
THEOREM ButtonTypeCorrect == Spec => []TypeOK
<1>1. Init => ButtonFlags
  BY Zenon DEF Init, ButtonFlags
<1>2. Init => ButtonSets
  BY DEF Init, IrqInit, ButtonSets
<1>3. ButtonInv /\ ButtonFlags /\ ButtonSets => TypeOK
  <2>1. ButtonFlags => {pressed, timer, status, processed, button_event} \subseteq BOOLEAN
    BY Zenon DEF ButtonFlags
  <2>2. ButtonSets => \A s \in {raw, pended, resends, scan} : s \subseteq Pins
    BY DEF ButtonSets
  <2> QED  BY <2>1, <2>2 DEF ButtonInv, ButtonTypeInv, ButtonSets, TypeOK
<1> QED  BY <1>1, <1>2, <1>3, ButtonInvariant, FlagsStep, SetsStep, PTL DEF Spec

=============================================================================
