-------------------------------- MODULE Leds --------------------------------
(***************************************************************************)
(* The two LEDs of the box (drivers/leds/leds-cns3xxx.c). A number written  *)
(* to /proc/cns3xxx/leds selects a state; blinking states are kept up by a  *)
(* timer whose callback flips a phase and starts the timer again. One       *)
(* spinlock is taken by the processes, with softirqs enabled, and by the    *)
(* callback, which is a softirq: when the timer expires on the CPU whose    *)
(* process holds the lock, the callback waits for a process it has itself   *)
(* interrupted. The model has that outcome (SelfDeadlock).                  *)
(***************************************************************************)
EXTENDS Integers, FiniteSets

CONSTANTS
  Cpus,
  Inputs,    \* the numbers that are written
  TIMER,     \* the callback as the holder of the lock
  NULL       \* no holder, no CPU

LS_BLINKING_GREEN == 4
LS_NO == 12

ASSUME LedsAssumption == Inputs \subseteq 0 .. LS_NO /\ {NULL, TIMER} \cap Cpus = {} /\ NULL # TIMER

(* The states as the switch statements distinguish them.                    *)
Blinking == 4 .. 11
Period(s) == IF s >= 8 THEN 2 ELSE 1        \* times BLINK_PERIOD_MS
GreenOn == {1, 3}
YellowOn == {2, 3}
GreenBlinks == {4, 6, 7, 8, 10, 11}
YellowBlinks == {5, 6, 9, 10}
Alternate == {7, 11}

VARIABLES
  state,        \* cns3xxx_leds_state
  blink_flag,   \* cns3xxx_blink_flag
  leds_timer,   \* 0: not pending, else the period it was started with
  green, yellow,\* the pins
  lock,         \* holder of cns3xx_leds_lock: NULL, the CPU of a process, or TIMER
  pc,           \* the process that runs on each CPU
  asked,        \* what it wrote
  finds,        \* the inputs whose bytes it may find in cns3xxx_leds_state_buffer
  cb,           \* the CPU that runs the callback
  panicked

ledVars == <<state, blink_flag, leds_timer, green, yellow>>
procVars == <<pc, asked, finds>>
ledsAllVars == <<ledVars, procVars, lock, cb, panicked>>

(* A process runs unless the callback has interrupted it.                   *)
Runs(c) == cb # c /\ ~panicked

-----------------------------------------------------------------------------
(* cns3xxx_leds_init: leds_state_manager(LS_BLINKING_GREEN)                 *)
LedsInit ==
  /\ state = LS_BLINKING_GREEN
  /\ blink_flag = TRUE /\ green = TRUE /\ yellow = FALSE
  /\ leds_timer = Period(LS_BLINKING_GREEN)
  /\ lock = NULL /\ cb = NULL /\ panicked = FALSE
  /\ pc = [c \in Cpus |-> "user"]
  /\ asked = [c \in Cpus |-> 0]
  /\ finds = [c \in Cpus |-> {}]

(* cns3xxx_leds_write_proc: the input goes into one buffer for all writers,  *)
(* which nothing protects. A writer that others overlap converts its own     *)
(* input, that of another, or a mixture of their bytes.                      *)
WriteCopies(c, n) ==
  LET others == {d \in Cpus \ {c} : pc[d] = "copied"} IN
  /\ Runs(c) /\ pc[c] = "user"
  /\ pc' = [pc EXCEPT ![c] = "copied"]
  /\ asked' = [asked EXCEPT ![c] = n]
  /\ finds' = [d \in Cpus |->
       IF d = c THEN {n} \cup UNION {finds[e] : e \in others}
       ELSE IF d \in others THEN finds[d] \cup {n} ELSE finds[d]]
  /\ UNCHANGED <<ledVars, lock, cb, panicked>>

(* kstrtouint, base 0, of the bytes of several inputs: the first digit of    *)
(* one and the second, or the end, of another. A leading zero makes the      *)
(* number octal, so that "01" is 1. What is no number counts as LS_NO.       *)
Mixtures(S) ==
  LET firsts == {IF n < 10 THEN n ELSE 1 : n \in S}
      seconds == {n - 10 : n \in S \cap (10 .. LS_NO)}
      ended == IF S \cap (0 .. 9) = {} THEN {} ELSE firsts
  IN  {LS_NO} \cup ended \cup {b \in seconds : 0 \in firsts}
        \cup {10 * a + b : a \in firsts \ {0}, b \in seconds}

WriteConverts(c) ==
  /\ Runs(c) /\ pc[c] = "copied"
  /\ \E n \in IF finds[c] = {asked[c]} THEN finds[c] ELSE Mixtures(finds[c]) :
       IF n < LS_NO
       THEN /\ pc' = [pc EXCEPT ![c] = "setting"]
            /\ asked' = [asked EXCEPT ![c] = n]
       ELSE /\ pc' = [pc EXCEPT ![c] = "user"]
            /\ asked' = [asked EXCEPT ![c] = 0]
  /\ finds' = [finds EXCEPT ![c] = {}]
  /\ UNCHANGED <<ledVars, lock, cb, panicked>>

-----------------------------------------------------------------------------
(* leds_state_manager, under the lock *)
ManagerLocks(c) ==
  /\ Runs(c) /\ pc[c] = "setting" /\ lock = NULL
  /\ lock' = c
  /\ pc' = [pc EXCEPT ![c] = IF state = asked[c] THEN "leaving" ELSE "locked"]
  /\ UNCHANGED <<ledVars, asked, finds, cb, panicked>>

ManagerSets_KeepsPhase(c) ==
  LET s == asked[c] IN
  /\ Runs(c) /\ pc[c] = "locked"
  /\ state' = s
  /\ leds_timer' = IF s \in Blinking THEN Period(s) ELSE 0
  /\ green' = (s \in GreenOn \cup GreenBlinks)
  /\ yellow' = (s \in YellowOn \cup YellowBlinks)
  /\ pc' = [pc EXCEPT ![c] = "leaving"]
  /\ UNCHANGED <<blink_flag, asked, finds, lock, cb, panicked>>

ManagerSets(c) ==
  LET s == asked[c] IN
  /\ Runs(c) /\ pc[c] = "locked"
  /\ state' = s
  /\ blink_flag' = (blink_flag \/ s \in Blinking)
  /\ leds_timer' = IF s \in Blinking THEN Period(s) ELSE 0
  /\ green' = (s \in GreenOn \cup GreenBlinks)
  /\ yellow' = (s \in YellowOn \cup YellowBlinks)
  /\ pc' = [pc EXCEPT ![c] = "leaving"]
  /\ UNCHANGED <<asked, finds, lock, cb, panicked>>

(* cns3xxx_leds_read_proc formats the state under the lock.                  *)
ReadLocks(c) ==
  /\ Runs(c) /\ pc[c] = "user" /\ lock = NULL
  /\ lock' = c
  /\ pc' = [pc EXCEPT ![c] = "leaving"]
  /\ UNCHANGED <<ledVars, asked, finds, cb, panicked>>

Unlocks(c) ==
  /\ Runs(c) /\ pc[c] = "leaving"
  /\ lock' = NULL
  /\ pc' = [pc EXCEPT ![c] = "user"]
  /\ asked' = [asked EXCEPT ![c] = 0]
  /\ UNCHANGED <<ledVars, finds, cb, panicked>>

-----------------------------------------------------------------------------
(* The timer expires: the softirq interrupts whatever runs on that CPU.      *)
LedsTimerExpires(c) ==
  /\ ~panicked /\ cb = NULL /\ leds_timer # 0
  /\ cb' = c
  /\ leds_timer' = 0
  /\ UNCHANGED <<state, blink_flag, green, yellow, procVars, lock, panicked>>

CallbackLocks ==
  /\ ~panicked /\ cb # NULL /\ lock = NULL
  /\ lock' = TIMER
  /\ UNCHANGED <<ledVars, procVars, cb, panicked>>

(* cns3xx_leds_timer_callback. A state that does not blink is left alone, and *)
(* the timer, too.                                                            *)
CallbackRuns_AnyState ==
  /\ ~panicked /\ lock = TIMER
  /\ lock' = NULL /\ cb' = NULL
  /\ blink_flag' = ~blink_flag
  /\ leds_timer' = Period(state)
  /\ green' = IF state \in GreenBlinks THEN ~blink_flag ELSE green
  /\ yellow' = CASE state \in YellowBlinks -> ~blink_flag
                 [] state \in Alternate -> blink_flag
                 [] OTHER -> yellow
  /\ UNCHANGED <<state, procVars, panicked>>

CallbackRuns_Once ==
  /\ ~panicked /\ lock = TIMER
  /\ lock' = NULL /\ cb' = NULL
  /\ UNCHANGED <<ledVars, procVars, panicked>>

CallbackRuns ==
  /\ ~panicked /\ lock = TIMER
  /\ lock' = NULL /\ cb' = NULL
  /\ IF state \in Blinking
     THEN /\ blink_flag' = ~blink_flag
          /\ leds_timer' = Period(state)
          /\ green' = IF state \in GreenBlinks THEN ~blink_flag ELSE green
          /\ yellow' = CASE state \in YellowBlinks -> ~blink_flag
                         [] state \in Alternate -> blink_flag
                         [] OTHER -> yellow
     ELSE UNCHANGED <<blink_flag, leds_timer, green, yellow>>
  /\ UNCHANGED <<state, procVars, panicked>>

-----------------------------------------------------------------------------
(* panic() stops the other CPUs and calls panic_blink in a loop, with 0 and   *)
(* 1 in turn; cns3xx_panic_blink does not take the lock.                      *)
Panic ==
  /\ ~panicked
  /\ panicked' = TRUE
  /\ UNCHANGED <<ledVars, procVars, lock, cb>>

PanicBlink(on) ==
  /\ panicked
  /\ green' = ~on /\ yellow' = ~on
  /\ UNCHANGED <<state, blink_flag, leds_timer, procVars, lock, cb, panicked>>

Process(c) ==
  WriteConverts(c) \/ ManagerLocks(c) \/ ManagerSets(c) \/ Unlocks(c)

LedsNext ==
  \/ \E c \in Cpus :
       \/ \E n \in Inputs : WriteCopies(c, n)
       \/ ReadLocks(c) \/ Process(c) \/ LedsTimerExpires(c)
  \/ CallbackLocks \/ CallbackRuns
  \/ Panic \/ \E on \in BOOLEAN : PanicBlink(on)

LedsSpec == LedsInit /\ [][LedsNext]_ledsAllVars

(* A CPU goes on with what it runs, a pending timer expires, and spinlocks   *)
(* are ticket locks: who waits for one that is released again and again gets *)
(* it. Nobody has to read or write the file.                                 *)
LedsFairSpec ==
  /\ LedsSpec
  /\ \A c \in Cpus : WF_ledsAllVars(WriteConverts(c) \/ ManagerSets(c) \/ Unlocks(c))
  /\ \A c \in Cpus : SF_ledsAllVars(ManagerLocks(c))
  /\ WF_ledsAllVars(\E c \in Cpus : LedsTimerExpires(c))
  /\ SF_ledsAllVars(CallbackLocks) /\ WF_ledsAllVars(CallbackRuns)

-----------------------------------------------------------------------------
LedsTypeOK ==
  /\ state \in 0 .. LS_NO - 1
  /\ {blink_flag, green, yellow, panicked} \subseteq BOOLEAN
  /\ leds_timer \in 0 .. 2
  /\ lock \in Cpus \cup {NULL, TIMER}
  /\ cb \in Cpus \cup {NULL}
  /\ pc \in [Cpus -> {"user", "copied", "setting", "locked", "leaving"}]
  /\ asked \in [Cpus -> 0 .. LS_NO]
  /\ finds \in [Cpus -> SUBSET Inputs]

(* The callback spins on a lock that the process it interrupted holds.       *)
SelfDeadlock == cb # NULL /\ lock = cb

Settled == lock = NULL /\ ~panicked

(* Whatever callbacks were on their way when the state was changed, the LEDs *)
(* show the state that the file reports: the right ones lit or dark, in the  *)
(* phase of the flag, and the alternating ones opposite.                     *)
LedsShowState ==
  Settled =>
    /\ green = (state \in GreenOn \/ (state \in GreenBlinks /\ blink_flag))
    /\ yellow = \/ state \in YellowOn
                \/ (state \in YellowBlinks /\ blink_flag)
                \/ (state \in Alternate /\ ~blink_flag)

(* A blinking state has its timer, at its own speed, or a callback that will *)
(* start it again; a steady one has none, also when a callback that had      *)
(* already started comes after the change.                                   *)
TimerFollowsState ==
  Settled =>
    /\ state \in Blinking => leds_timer = Period(state) \/ (leds_timer = 0 /\ cb # NULL)
    /\ state \notin Blinking => leds_timer = 0

(* The LEDs do not stop blinking: the callback runs again and again unless   *)
(* a steady state is chosen again and again, the system panics, or the       *)
(* callback has deadlocked with the process it interrupted, which is the     *)
(* only other way for a blinking state to stop.                              *)
Blinks ==
  \/ []<><<CallbackRuns>>_ledsAllVars
  \/ []<>(state \notin Blinking \/ panicked \/ SelfDeadlock)

=============================================================================
