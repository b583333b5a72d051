---------------------------------- MODULE Rtc ----------------------------------
(***************************************************************************)
(* The real-time clock (drivers/rtc/rtc-cns3xxx.c). The hardware counts     *)
(* seconds, minutes, hours and days from some moment on; the time is that   *)
(* count plus a record, RTC_REC, which settime also saves in the flash      *)
(* environment because a reboot loses it.                                   *)
(*                                                                          *)
(* The count is read register by register while it runs, the seconds first, *)
(* so that a register may have carried into the next before that is read.   *)
(*                                                                          *)
(* The record is saved as text, "%8x", which pads a small one with blanks,  *)
(* and read back by simple_strtoul, which stops at a blank (Parsed).        *)
(*                                                                          *)
(* rtc_lock is a spinlock that every holder takes with interrupts on, the   *)
(* handler of the alarm interrupt among them; settime keeps it while the    *)
(* flash is written, which sleeps, and the power saving modes while the CPU *)
(* waits for an interrupt. The ways in which that ends in a standstill are  *)
(* named (SelfDeadlock, Starved).                                           *)
(***************************************************************************)
EXTENDS Integers, FiniteSets

CONSTANTS
  Procs, Cpus,
  Callers,   \* the processes that call through the RTC class
  Sleepers,  \* the processes that write to /proc/cns3xxx/rtc
  Wanted,    \* the times that settime and setalarm are called with
  SECS, MINS, HOURS,  \* seconds to a minute, minutes to an hour, hours to a day
  SMALL,     \* the first record that fills the eight digits of the text
  Starts,    \* the counts that the model begins with
  Stops,     \* the counts at which it stops to tick
  NULL

ASSUME RtcAssumption ==
  /\ {SECS, MINS, HOURS} \subseteq Nat \ {0} /\ SMALL \in Nat
  /\ Wanted \subseteq Nat /\ Starts \subseteq Nat
  /\ NULL \notin Procs \cup Cpus

ClassOps == {"gettime", "settime", "getalarm", "setalarm"}
Kinds == ClassOps \cup {"powersave"}

VARIABLES
  count,      \* what RTC_SEC, RTC_MIN, RTC_HOUR and RTC_DAY show together
  rec,        \* RTC_REC
  flash,      \* rtc_rec in the environment
  alm,        \* RTC_SEC_ALM, RTC_MIN_ALM, RTC_HOUR_ALM
  match_en,   \* RTC_MATCH_ALARM_INTC_EN
  intr_sts,   \* RTC_INTR_STATUS_ALARM
  alarm_day,  \* set_alarm_tm.tm_mday
  rtc_lock,
  ops_lock,   \* the mutex the RTC class holds around the calls of cns3xxx_rtcops
  stage,      \* how far cns3xxx_rtc_probe has come
  buffer,     \* what it has from rtcnvet_get_env
  excuse,     \* why RTC_REC need not be what flash has (history)
  call,       \* per process: the kind of call it is in, and its argument or the
              \* record that it has read
  pc, on,     \* where it is in the call, and the CPU that runs it
  got, began, \* what it has read, and the count when it began to (history)
  irq, ipc    \* the CPU that runs the alarm handler, and where

hwVars == <<count, rec, alm, match_en, intr_sts>>
keptVars == <<flash, stage, buffer, excuse>>
procVars == <<call, pc, on, got, began>>
irqVars == <<irq, ipc>>
vars == <<hwVars, keptVars, procVars, irqVars, alarm_day, rtc_lock, ops_lock>>

NoCall == [kind |-> "none", time |-> 0]

HOUR == SECS * MINS
DAY == HOUR * HOURS

Minutes(c) == c \div SECS
Hours(c) == Minutes(c) \div MINS
Days(c) == Hours(c) \div HOURS

(* What each register adds to the time; day * 24 * 60 * 60 and so on.        *)
Share_DayFirst ==
  [second |-> DAY * Days(count), minute |-> HOUR * (Hours(count) % HOURS),
   hour |-> SECS * (Minutes(count) % MINS), day |-> count % SECS]

Share ==
  [second |-> count % SECS, minute |-> SECS * (Minutes(count) % MINS),
   hour |-> HOUR * (Hours(count) % HOURS), day |-> DAY * Days(count)]

AfterReg == [second |-> "minute", minute |-> "hour", hour |-> "day"]

(* A record below zero is a large unsigned number. *)
Parsed(r) == IF r \in 0 .. SMALL - 1 THEN 0 ELSE r

(* A CPU that neither runs a process in a call nor the handler. *)
Free(c) == irq # c /\ \A p \in Procs : on[p] # c
Runs(p) == on[p] # NULL /\ on[p] # irq

-----------------------------------------------------------------------------
Init ==
  /\ count \in Starts /\ rec = 0 /\ flash \in Wanted
  /\ alm = 0 /\ match_en = FALSE /\ intr_sts = FALSE
  /\ stage = "down" /\ buffer = 0 /\ excuse = "none"
  /\ alarm_day = 0 /\ rtc_lock = NULL /\ ops_lock = NULL
  /\ call = [p \in Procs |-> NoCall] /\ pc = [p \in Procs |-> "user"]
  /\ on = [p \in Procs |-> NULL]
  /\ got = [p \in Procs |-> 0] /\ began = [p \in Procs |-> 0]
  /\ irq = NULL /\ ipc = "out"

(* A power cut or a reset. The count goes on; whether the record survives    *)
(* depends on which it was.                                                  *)
Crash ==
  /\ stage # "down"
  /\ rec' \in {0, rec}
  /\ stage' = "down" /\ buffer' = 0 /\ excuse' = "none"
  /\ alarm_day' = 0 /\ rtc_lock' = NULL /\ ops_lock' = NULL
  /\ call' = [p \in Procs |-> NoCall] /\ pc' = [p \in Procs |-> "user"]
  /\ on' = [p \in Procs |-> NULL]
  /\ got' = [p \in Procs |-> 0] /\ began' = [p \in Procs |-> 0]
  /\ irq' = NULL /\ ipc' = "out"
  /\ UNCHANGED <<count, alm, match_en, intr_sts, flash>>

-----------------------------------------------------------------------------
(* cns3xxx_rtc_probe. The interrupt is requested before the registers are    *)
(* set up, and the device registered, and open for calls, before the record  *)
(* is fetched from flash and written.                                        *)
ProbeOpen ==
  /\ stage = "down"
  /\ stage' = "opened"
  /\ UNCHANGED <<hwVars, flash, buffer, excuse, procVars, irqVars, alarm_day, rtc_lock, ops_lock>>

ProbeRegister ==
  /\ stage = "opened"
  /\ stage' = "registered"
  /\ match_en' = FALSE /\ alm' = 0
  /\ UNCHANGED <<count, rec, intr_sts, flash, buffer, excuse,
                 procVars, irqVars, alarm_day, rtc_lock, ops_lock>>

Saving == {p \in Procs : pc[p] = "saving"}

(* rtcnvet_get_env gives nothing when the flash cannot be read, has no good  *)
(* environment or no record in it: the register then keeps what it has. In   *)
(* the middle of a save it may also give what is being saved or, as there is *)
(* no lock, an older record (for which Wanted stands).                       *)
ProbeGetEnv ==
  /\ stage = "registered"
  /\ \/ /\ stage' = "fetched"
        /\ buffer' \in {flash} \cup {call[p].time - got[p] : p \in Saving}
                             \cup (IF Saving = {} THEN {} ELSE Wanted)
        /\ UNCHANGED excuse
     \/ /\ stage' = "ready" /\ excuse' = "not read"
        /\ UNCHANGED buffer
  /\ UNCHANGED <<hwVars, flash, procVars, irqVars, alarm_day, rtc_lock, ops_lock>>

ProbeWriteRec_Omitted ==
  /\ stage = "fetched"
  /\ stage' = "ready" /\ buffer' = 0
  /\ UNCHANGED <<hwVars, flash, excuse, procVars, irqVars, alarm_day, rtc_lock, ops_lock>>

ProbeWriteRec ==
  /\ stage = "fetched"
  /\ stage' = "ready" /\ buffer' = 0
  /\ rec' = Parsed(buffer)
  /\ excuse' = IF buffer # flash \/ Saving # {} THEN "overtaken" ELSE "none"
  /\ UNCHANGED <<count, alm, match_en, intr_sts, flash,
                 procVars, irqVars, alarm_day, rtc_lock, ops_lock>>

-----------------------------------------------------------------------------
(* A process calls: through the RTC class, one at a time, or by writing      *)
(* "standby" or "mem" to /proc/cns3xxx/rtc, which no mutex orders.           *)
Call(p, c, k, t) ==
  /\ pc[p] = "user" /\ Free(c)
  /\ IF k \in ClassOps
     THEN /\ p \in Callers /\ stage \in {"registered", "fetched", "ready"}
          /\ ops_lock = NULL /\ ops_lock' = p
     ELSE p \in Sleepers /\ stage = "ready" /\ UNCHANGED ops_lock
  /\ call' = [call EXCEPT ![p] = [kind |-> k, time |-> t]]
  /\ pc' = [pc EXCEPT ![p] = "locking"]
  /\ on' = [on EXCEPT ![p] = c]
  /\ UNCHANGED <<hwVars, keptVars, got, began, irqVars, alarm_day, rtc_lock>>

LockRtc(p) ==
  LET k == call[p].kind IN
  /\ Runs(p) /\ pc[p] = "locking" /\ rtc_lock = NULL
  /\ rtc_lock' = p
  /\ pc' = [pc EXCEPT ![p] = IF k \in {"gettime", "settime"} THEN "second" ELSE k]
  /\ UNCHANGED <<hwVars, keptVars, call, on, got, began, irqVars, alarm_day, ops_lock>>

(* One readw of cns3xxx_rtc_gettime and cns3xxx_rtc_settime, but the last.   *)
ReadReg(p) ==
  /\ Runs(p) /\ pc[p] \in DOMAIN AfterReg
  /\ got' = [got EXCEPT ![p] = @ + Share[pc[p]]]
  /\ began' = [began EXCEPT ![p] = IF pc[p] = "second" THEN count ELSE @]
  /\ pc' = [pc EXCEPT ![p] = AfterReg[@]]
  /\ UNCHANGED <<hwVars, keptVars, call, on, irqVars, alarm_day, rtc_lock, ops_lock>>

(* cns3xxx_rtc_gettime reads day and record, and unlocks.                    *)
GetTime_NoUnlock(p) ==
  /\ Runs(p) /\ pc[p] = "day" /\ call[p].kind = "gettime"
  /\ got' = [got EXCEPT ![p] = @ + Share.day]
  /\ call' = [call EXCEPT ![p].time = rec]
  /\ pc' = [pc EXCEPT ![p] = "gotten"]
  /\ UNCHANGED <<hwVars, keptVars, on, began, irqVars, alarm_day, rtc_lock, ops_lock>>

GetTime(p) ==
  /\ Runs(p) /\ pc[p] = "day" /\ call[p].kind = "gettime"
  /\ got' = [got EXCEPT ![p] = @ + Share.day]
  /\ call' = [call EXCEPT ![p].time = rec]
  /\ pc' = [pc EXCEPT ![p] = "gotten"]
  /\ rtc_lock' = NULL
  /\ UNCHANGED <<hwVars, keptVars, on, began, irqVars, alarm_day, ops_lock>>

(* The call is over. *)
Return(p) ==
  /\ call' = [call EXCEPT ![p] = NoCall]
  /\ pc' = [pc EXCEPT ![p] = "user"]
  /\ on' = [on EXCEPT ![p] = NULL]
  /\ got' = [got EXCEPT ![p] = 0]
  /\ began' = [began EXCEPT ![p] = 0]
  /\ ops_lock' = IF ops_lock = p THEN NULL ELSE ops_lock

(* The class gives the time to its caller. cns3xxx_rtc_write_proc goes to    *)
(* sleep again unless it is the day of the alarm.                            *)
GotTime(p) ==
  /\ Runs(p) /\ pc[p] = "gotten"
  /\ IF ops_lock = p \/ (got[p] + call[p].time) \div DAY = alarm_day
     THEN Return(p)
     ELSE /\ call' = [call EXCEPT ![p] = [kind |-> "powersave", time |-> 0]]
          /\ pc' = [pc EXCEPT ![p] = "locking"]
          /\ got' = [got EXCEPT ![p] = 0]
          /\ began' = [began EXCEPT ![p] = 0]
          /\ UNCHANGED <<on, ops_lock>>
  /\ UNCHANGED <<hwVars, keptVars, irqVars, alarm_day, rtc_lock>>

(* cns3xxx_rtc_settime reads the day, writes the record and calls            *)
(* rtcnvet_do_setenv, which sleeps with the lock held.                       *)
WriteRec(p) ==
  /\ Runs(p) /\ pc[p] = "day" /\ call[p].kind = "settime"
  /\ got' = [got EXCEPT ![p] = @ + Share.day]
  /\ rec' = call[p].time - got'[p]
  /\ pc' = [pc EXCEPT ![p] = "saving"]
  /\ on' = [on EXCEPT ![p] = NULL]
  /\ UNCHANGED <<count, alm, match_en, intr_sts, keptVars, call, began,
                 irqVars, alarm_day, rtc_lock, ops_lock>>

(* It needs a CPU to go on, and ignores the result.                          *)
Saved(p) ==
  /\ pc[p] = "saving" /\ \E c \in Cpus : Free(c)
  /\ \/ /\ flash' = call[p].time - got[p]
        /\ excuse' = IF excuse = "overtaken" /\ rec # flash' THEN excuse
                     ELSE IF Parsed(flash') # flash' THEN "padded" ELSE "none"
     \/ /\ excuse' = "not saved"
        /\ UNCHANGED flash
  /\ rtc_lock' = NULL
  /\ Return(p)
  /\ UNCHANGED <<hwVars, stage, buffer, irqVars, alarm_day>>

(* cns3xxx_rtc_getalarm only reads. *)
GetAlarm(p) ==
  /\ Runs(p) /\ pc[p] = "getalarm"
  /\ rtc_lock' = NULL
  /\ Return(p)
  /\ UNCHANGED <<hwVars, keptVars, irqVars, alarm_day>>

(* cns3xxx_rtc_setalarm: the alarm registers are on the scale of the count.  *)
SetAlarm(p) ==
  /\ Runs(p) /\ pc[p] = "setalarm"
  /\ alarm_day' = call[p].time \div DAY
  /\ alm' = (call[p].time - rec) % DAY
  /\ intr_sts' = FALSE /\ match_en' = TRUE
  /\ rtc_lock' = NULL
  /\ Return(p)
  /\ UNCHANGED <<count, rec, keptVars, irqVars>>

(* go_to_halt_mode, go_to_doze_mode: an interrupt ends the wait, and its     *)
(* handler runs before the wait is left.                                     *)
WfiEnds(p) ==
  /\ Runs(p) /\ pc[p] = "powersave"
  /\ rtc_lock' = NULL
  /\ call' = [call EXCEPT ![p] = [kind |-> "gettime", time |-> 0]]
  /\ pc' = [pc EXCEPT ![p] = "locking"]
  /\ UNCHANGED <<hwVars, keptVars, on, got, began, irqVars, alarm_day, ops_lock>>

-----------------------------------------------------------------------------
(* The clock and its alarm interrupt.                                        *)
Tick ==
  /\ count \notin Stops
  /\ count' = count + 1
  /\ intr_sts' = (intr_sts \/ (match_en /\ count' % DAY = alm))
  /\ UNCHANGED <<rec, alm, match_en, keptVars, procVars, irqVars, alarm_day, rtc_lock, ops_lock>>

AlarmIrq(c) ==
  /\ stage # "down" /\ intr_sts /\ irq = NULL
  /\ irq' = c /\ ipc' = "locking"
  /\ UNCHANGED <<hwVars, keptVars, procVars, alarm_day, rtc_lock, ops_lock>>

(* cns3xxx_rtc_alarmirq reads the time, under the lock that it releases; it  *)
(* only compares the day, which changes nothing (see IrqAcks) ...            *)
IrqReads ==
  /\ ipc = "locking" /\ rtc_lock = NULL
  /\ ipc' = "acking"
  /\ UNCHANGED <<hwVars, keptVars, procVars, irq, alarm_day, rtc_lock, ops_lock>>

(* ... and acknowledges. On the day of the alarm it calls rtc_update_irq,    *)
(* but with the NULL that cns3xxx_rtc_open found when it requested the       *)
(* interrupt: the probe sets the driver's data last. That call does nothing. *)
IrqAcks ==
  /\ ipc = "acking"
  /\ intr_sts' = FALSE
  /\ irq' = NULL /\ ipc' = "out"
  /\ UNCHANGED <<count, rec, alm, match_en, keptVars, procVars, alarm_day, rtc_lock, ops_lock>>

-----------------------------------------------------------------------------
Proceeds(p) ==
  ReadReg(p) \/ GetTime(p) \/ GotTime(p) \/ WriteRec(p) \/ GetAlarm(p) \/ SetAlarm(p) \/ WfiEnds(p)

Times(k) == IF k \in {"settime", "setalarm"} THEN Wanted ELSE {0}

NextButCalls ==
  \/ ProbeOpen \/ ProbeRegister \/ ProbeGetEnv \/ ProbeWriteRec
  \/ \E p \in Procs : LockRtc(p) \/ Proceeds(p) \/ Saved(p)
  \/ Tick \/ (\E c \in Cpus : AlarmIrq(c)) \/ IrqReads \/ IrqAcks
  \/ Crash

Calls(k) == \E p \in Procs, c \in Cpus : \E t \in Times(k) : Call(p, c, k, t)

Next == NextButCalls \/ \E k \in Kinds : Calls(k)

Spec == Init /\ [][Next]_vars

(* CPUs go on with what they run between interrupts, a sleeper is woken when *)
(* a CPU is free, the interrupt is delivered. The lock is a ticket lock: a   *)
(* waiter gets it when it is released again and again. Calls and crashes     *)
(* need not happen.                                                          *)
Fairness ==
  /\ \A p \in Procs : SF_vars(LockRtc(p) \/ Proceeds(p) \/ Saved(p))
  /\ WF_vars(\E c \in Cpus : AlarmIrq(c)) /\ SF_vars(IrqReads \/ IrqAcks)

-----------------------------------------------------------------------------
TypeOK ==
  /\ count \in Nat /\ rec \in Int /\ flash \in Int /\ buffer \in Int
  /\ alm \in 0 .. DAY - 1 /\ match_en \in BOOLEAN /\ intr_sts \in BOOLEAN
  /\ alarm_day \in Nat
  /\ rtc_lock \in Procs \cup {NULL} /\ ops_lock \in Procs \cup {NULL}
  /\ stage \in {"down", "opened", "registered", "fetched", "ready"}
  /\ excuse \in {"none", "overtaken", "not saved", "not read", "padded"}
  /\ call \in [Procs -> [kind : Kinds \cup {"none"}, time : Int]]
  /\ pc \in [Procs -> {"user", "locking", "second", "minute", "hour", "day",
                       "gotten", "saving", "getalarm", "setalarm", "powersave"}]
  /\ on \in [Procs -> Cpus \cup {NULL}]
  /\ got \in [Procs -> Int] /\ began \in [Procs -> Nat]
  /\ irq \in Cpus \cup {NULL} /\ ipc \in {"out", "locking", "acking"}

(* The handler spins on the CPU whose process holds the lock: any holder may *)
(* be hit, and power saving is most likely to, which waits for interrupts.   *)
SelfDeadlock == ipc = "locking" /\ \E p \in Procs : rtc_lock = p /\ on[p] = irq

(* The holder sleeps in the flash and every CPU spins on its lock. *)
Starved ==
  /\ \E p \in Procs : rtc_lock = p /\ pc[p] = "saving"
  /\ \A c \in Cpus : \/ irq = c /\ ipc = "locking"
                     \/ \E p \in Procs : on[p] = c /\ pc[p] = "locking"

(* What a reading begun at b and ended at c may give.                        *)
MayRead(g, b, c) ==
  /\ b <= g
  /\ \/ g <= c
     \/ Minutes(b) # Minutes(c) /\ g < SECS * (Minutes(c) + 1)
     \/ Hours(b) # Hours(c) /\ g < HOUR * (Hours(c) + 1)
     \/ Days(b) # Days(c) /\ g < DAY * (Days(c) + 1)

(* gettime and settime read four registers of the running clock one after    *)
(* the other. What they get is never earlier than the time at which they     *)
(* began, and no later than that at which they ended unless the minutes      *)
(* changed meanwhile; when they did it is no later than the end of the       *)
(* minute in which the reading ended, when the hours did of that hour, when  *)
(* the days did of that day. The record that settime writes is the one that  *)
(* makes such a reading the time asked for.                                  *)
TimeIsRead ==
  [][\A p \in Procs :
       pc[p] = "day" /\ pc'[p] \in {"gotten", "saving"} =>
         LET time == IF pc'[p] = "gotten" THEN got'[p] ELSE call[p].time - rec'
         IN  MayRead(time, began[p], count)]_vars

(* What a reboot would make of the record in flash is the record in use,     *)
(* once the probe is done and outside settime, except where a save failed,   *)
(* which settime does not tell; where a settime came between the probe's     *)
(* registration of the clock and its write of the record; where the probe    *)
(* could not read the environment; and where the record saved is so small    *)
(* that its text begins with a blank.                                        *)
RecIsKept ==
  stage = "ready" /\ Saving = {} => rec = Parsed(flash) \/ excuse # "none"

(* An alarm interrupt is answered, unless its handler waits for the process  *)
(* it has interrupted or the sleeping holder of the lock finds no CPU: there *)
(* is no other way to a standstill.                                          *)
AlarmIsAnswered ==
  (intr_sts /\ stage # "down") ~> (~intr_sts \/ stage = "down" \/ SelfDeadlock \/ Starved)

=============================================================================
