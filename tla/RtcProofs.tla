------------------------------ MODULE RtcProofs ------------------------------
(***************************************************************************)
(* Why a time read from the running clock, register by register, is never  *)
(* off by more than what TimeIsRead allows, and why flash keeps the record.*)
(* The lock is what both rest on: LockInv says who holds it, ReadInv what  *)
(* its holder has read so far, and at which counts.                        *)
(***************************************************************************)
EXTENDS Rtc, TLAPS

PCs == {"user", "locking", "second", "minute", "hour", "day",
        "gotten", "saving", "getalarm", "setalarm", "powersave"}
Reading == {"second", "minute", "hour", "day"}
Holding == Reading \cup {"saving", "getalarm", "setalarm", "powersave"}

(* The beginnings of the minute, the hour and the day of a count.            *)
Minute(c) == SECS * Minutes(c)
Hour(c) == HOUR * Hours(c)
Day(c) == DAY * Days(c)

Types ==
  /\ count \in Nat /\ rec \in Int /\ flash \in Int /\ buffer \in Int
  /\ rtc_lock \in Procs \cup {NULL}
  /\ call \in [Procs -> [kind : Kinds \cup {"none"}, time : Int]]
  /\ pc \in [Procs -> PCs]
  /\ got \in [Procs -> Int] /\ began \in [Procs -> Nat]
  /\ \A p \in Procs : pc[p] # "user" => call[p].kind \in Kinds

LockInv == \A p \in Procs : pc[p] \in Holding => rtc_lock = p

(* What has been read by a process at this point, of a reading begun at b,   *)
(* when the count is c.                                                      *)
ReadSoFar(at, g, b, c) ==
  /\ at \notin {"minute", "hour", "day", "gotten", "saving"} => g = 0
  /\ at = "minute" => b <= c /\ g = b - Minute(b)
  /\ at = "hour" => \E m \in b .. c : g = b - Minute(b) + (Minute(m) - Hour(m))
  /\ at = "day" => \E m \in b .. c : \E h \in m .. c :
                     g = b - Minute(b) + (Minute(m) - Hour(m)) + (Hour(h) - Day(h))

ReadInv ==
  \A p \in Procs :
    /\ ReadSoFar(pc[p], got[p], began[p], count)
    /\ pc[p] = "saving" /\ excuse # "overtaken" => rec = call[p].time - got[p]

ProbeInv == stage # "ready" => excuse # "overtaken"

RtcInv == Types /\ LockInv /\ ReadInv /\ ProbeInv /\ RecIsKept

-----------------------------------------------------------------------------
(* Of the registers.                                                         *)
LEMMA Units ==
  /\ SECS \in Nat \ {0} /\ MINS \in Nat \ {0} /\ HOURS \in Nat \ {0}
  /\ HOUR \in Nat \ {0} /\ DAY \in Nat \ {0}
<1>1. SECS \in Nat \ {0} /\ MINS \in Nat \ {0} /\ HOURS \in Nat \ {0}
  BY RtcAssumption
<1>2. HOUR \in Nat \ {0}
  BY <1>1 DEF HOUR
<1>3. DAY \in Nat \ {0}
  BY <1>1, <1>2 DEF DAY
<1> QED BY <1>1, <1>2, <1>3

LEMMA DivMod ==
  ASSUME NEW c \in Nat, NEW n \in Nat \ {0}
  PROVE  /\ c \div n \in Nat /\ c % n \in 0 .. n - 1
         /\ c = n * (c \div n) + (c % n)
<1>1. c \div n \in Nat
  OBVIOUS
<1>2. c % n \in 0 .. n - 1
  OBVIOUS
<1>3. c = n * (c \div n) + (c % n)
  OBVIOUS
<1> QED BY <1>1, <1>2, <1>3

LEMMA DivMonotone ==
  ASSUME NEW n \in Nat \ {0}, NEW b \in Nat, NEW c \in Nat, b <= c
  PROVE  b \div n <= c \div n
OBVIOUS

(* A register that counts to n, each count worth w, of which x have gone by. *)
LEMMA Place ==
  ASSUME NEW w \in Nat \ {0}, NEW n \in Nat \ {0}, NEW x \in Nat
  PROVE  /\ w * (x % n) = w * x - (w * n) * (x \div n)
         /\ w * (x % n) \in 0 .. (w * n) - w
<1> DEFINE q == x \div n
           r == x % n
<1>1. q \in Nat /\ r \in 0 .. n - 1 /\ x = n * q + r
  BY DivMod
<1> HIDE DEF q, r
<1>2. w * x = (w * n) * q + w * r
  BY <1>1
<1>3. /\ w * x \in Nat /\ (w * n) * q \in Nat /\ w * r \in Nat
      /\ w * (n - 1) = (w * n) - w /\ w * n \in Nat
  BY <1>1
<1>4. w * r <= w * (n - 1)
  BY <1>1
<1> QED BY <1>1, <1>2, <1>3, <1>4 DEF q, r

LEMMA Registers ==
  ASSUME NEW c \in Nat
  PROVE  /\ Minutes(c) \in Nat /\ Hours(c) \in Nat /\ Days(c) \in Nat
         /\ Minute(c) \in Nat /\ Hour(c) \in Nat /\ Day(c) \in Nat
         /\ c % SECS = c - Minute(c) /\ c - Minute(c) \in 0 .. SECS - 1
         /\ SECS * (Minutes(c) % MINS) = Minute(c) - Hour(c)
         /\ Minute(c) - Hour(c) \in 0 .. HOUR - SECS
         /\ HOUR * (Hours(c) % HOURS) = Hour(c) - Day(c)
         /\ Hour(c) - Day(c) \in 0 .. DAY - HOUR
<1>1. Minutes(c) \in Nat /\ Hours(c) \in Nat /\ Days(c) \in Nat
  BY Units, DivMod DEF Minutes, Hours, Days
<1>2. Minute(c) \in Nat /\ Hour(c) \in Nat /\ Day(c) \in Nat
  BY <1>1, Units DEF Minute, Hour, Day
<1>3. c = Minute(c) + (c % SECS) /\ c % SECS \in 0 .. SECS - 1
  BY Units, DivMod DEF Minute, Minutes
<1>4. /\ SECS * (Minutes(c) % MINS) = Minute(c) - Hour(c)
      /\ Minute(c) - Hour(c) \in 0 .. HOUR - SECS
  <2>1. /\ SECS * (Minutes(c) % MINS) =
             SECS * Minutes(c) - (SECS * MINS) * (Minutes(c) \div MINS)
        /\ SECS * (Minutes(c) % MINS) \in 0 .. (SECS * MINS) - SECS
    BY <1>1, Units, Place
  <2> QED BY <2>1, Zenon DEF Minute, Hour, HOUR, Hours
<1>5. /\ HOUR * (Hours(c) % HOURS) = Hour(c) - Day(c)
      /\ Hour(c) - Day(c) \in 0 .. DAY - HOUR
  <2>1. /\ HOUR * (Hours(c) % HOURS) =
             HOUR * Hours(c) - (HOUR * HOURS) * (Hours(c) \div HOURS)
        /\ HOUR * (Hours(c) % HOURS) \in 0 .. (HOUR * HOURS) - HOUR
    BY <1>1, Units, Place
  <2> QED BY <2>1, Zenon DEF Hour, Day, DAY, Days
<1> QED BY <1>1, <1>2, <1>3, <1>4, <1>5, Units

LEMMA Monotone ==
  ASSUME NEW b \in Nat, NEW c \in Nat, b <= c
  PROVE  /\ Minutes(b) <= Minutes(c) /\ Hours(b) <= Hours(c) /\ Days(b) <= Days(c)
         /\ Minute(b) <= Minute(c) /\ Hour(b) <= Hour(c) /\ Day(b) <= Day(c)
<1>1. Minutes(b) <= Minutes(c)
  BY Units, DivMonotone DEF Minutes
<1>2. Hours(b) <= Hours(c)
  BY <1>1, Registers, Units, DivMonotone DEF Hours
<1>3. Days(b) <= Days(c)
  BY <1>2, Registers, Units, DivMonotone DEF Days
<1>4. ASSUME NEW w \in Nat, NEW x \in Nat, NEW y \in Nat, x <= y PROVE w * x <= w * y
  BY <1>4
<1>5. Minute(b) <= Minute(c)
  BY <1>1, <1>4, Registers, Units DEF Minute
<1>6. Hour(b) <= Hour(c)
  BY <1>2, <1>4, Registers, Units DEF Hour
<1>7. Day(b) <= Day(c)
  BY <1>3, <1>4, Registers, Units DEF Day
<1> QED BY <1>1, <1>2, <1>3, <1>5, <1>6, <1>7

LEMMA Between ==
  ASSUME NEW x \in Nat, NEW y \in Nat, NEW z \in Nat, x <= y, y <= z, x = z
  PROVE  y = x
OBVIOUS

(* The seconds read at b, the minutes at m, the hours at h and the days at c.*)
LEMMA FourReads ==
  ASSUME NEW b \in Nat, NEW c \in Nat, NEW m \in b .. c, NEW h \in m .. c
  PROVE  MayRead(b - Minute(b) + (Minute(m) - Hour(m)) + (Hour(h) - Day(h)) + Day(c), b, c)
<1> DEFINE g == b - Minute(b) + (Minute(m) - Hour(m)) + (Hour(h) - Day(h)) + Day(c)
<1>1. m \in Nat /\ h \in Nat /\ b <= m /\ m <= h /\ h <= c /\ m <= c
  OBVIOUS
<1>2. /\ Minutes(b) <= Minutes(m) /\ Minutes(m) <= Minutes(c)
      /\ Hours(b) <= Hours(m) /\ Hours(m) <= Hours(h) /\ Hours(h) <= Hours(c)
      /\ Hours(m) <= Hours(c) /\ Hours(b) <= Hours(h)
      /\ Days(b) <= Days(h) /\ Days(h) <= Days(c)
  <2>1. b <= h
    BY <1>1
  <2> QED BY <1>1, <2>1, Monotone
<1>3. /\ Minute(b) <= Minute(m) /\ Minute(m) <= Minute(c)
      /\ Hour(m) <= Hour(h) /\ Hour(h) <= Hour(c) /\ Day(h) <= Day(c)
  BY <1>1, Monotone
<1>4. /\ Minutes(b) \in Nat /\ Minutes(m) \in Nat /\ Minutes(c) \in Nat
      /\ Hours(b) \in Nat /\ Hours(m) \in Nat /\ Hours(h) \in Nat /\ Hours(c) \in Nat
      /\ Days(b) \in Nat /\ Days(h) \in Nat /\ Days(c) \in Nat
  BY <1>1, Registers
<1>5. /\ Minute(b) \in Nat /\ Minute(m) \in Nat /\ Minute(c) \in Nat
      /\ Hour(m) \in Nat /\ Hour(h) \in Nat /\ Hour(c) \in Nat
      /\ Day(h) \in Nat /\ Day(c) \in Nat
  BY <1>1, Registers
<1>6. /\ b - Minute(b) \in 0 .. SECS - 1
      /\ Minute(m) - Hour(m) \in 0 .. HOUR - SECS
      /\ Hour(h) - Day(h) \in 0 .. DAY - HOUR
  BY <1>1, Registers
<1>7. g \in Int /\ b <= g
  BY <1>3, <1>5
<1>8. CASE Minutes(b) = Minutes(c)
  <2>1. Minutes(m) = Minutes(b)
    BY <1>2, <1>4, <1>8, Between
  <2>2. Hours(b) = Hours(c)
    BY <1>8 DEF Hours
  <2>3. Hours(m) = Hours(b) /\ Hours(h) = Hours(b)
    BY <1>2, <1>4, <2>2, Between
  <2>4. Minute(m) = Minute(b) /\ Hour(m) = Hour(h) /\ Day(h) = Day(c)
    BY <2>1, <2>2, <2>3 DEF Minute, Hour, Day, Days
  <2>5. g = b
    BY <1>5, <2>4
  <2> QED BY <1>1, <2>5 DEF MayRead
<1>9. CASE Minutes(b) # Minutes(c) /\ Hours(b) = Hours(c)
  <2>1. Hours(m) = Hours(b) /\ Hours(h) = Hours(b)
    BY <1>2, <1>4, <1>9, Between
  <2>2. Hour(m) = Hour(h) /\ Day(h) = Day(c)
    BY <1>9, <2>1 DEF Hour, Day, Days
  <2>3. g <= SECS - 1 + Minute(c)
    BY <1>3, <1>5, <1>6, <2>2, Units
  <2>4. SECS * (Minutes(c) + 1) = SECS + Minute(c)
    BY <1>4, Units DEF Minute
  <2>5. g < SECS * (Minutes(c) + 1)
    BY <1>5, <1>7, <2>3, <2>4, Units
  <2> QED BY <1>7, <1>9, <2>5 DEF MayRead
<1>10. CASE Hours(b) # Hours(c) /\ Days(b) = Days(c)
  <2>1. Days(h) = Days(c)
    BY <1>2, <1>4, <1>10, Between
  <2>2. Day(h) = Day(c)
    BY <2>1 DEF Day
  <2>3. g <= HOUR - 1 + Hour(c)
    BY <1>3, <1>5, <1>6, <2>2, Units
  <2>4. HOUR * (Hours(c) + 1) = HOUR + Hour(c)
    BY <1>4, Units DEF Hour
  <2>5. g < HOUR * (Hours(c) + 1)
    BY <1>5, <1>7, <2>3, <2>4, Units
  <2> QED BY <1>7, <1>10, <2>5 DEF MayRead
<1>11. CASE Days(b) # Days(c)
  <2>1. g <= DAY - 1 + Day(c)
    BY <1>5, <1>6, Units
  <2>2. DAY * (Days(c) + 1) = DAY + Day(c)
    BY <1>4, Units DEF Day
  <2>3. g < DAY * (Days(c) + 1)
    BY <1>5, <1>7, <2>1, <2>2, Units
  <2> QED BY <1>7, <1>11, <2>3 DEF MayRead
<1> QED BY <1>8, <1>9, <1>10, <1>11

-----------------------------------------------------------------------------
LEMMA RtcInitially == Init => RtcInv
<1> SUFFICES ASSUME Init PROVE RtcInv
  OBVIOUS
<1>1. Types
  BY RtcAssumption DEF Init, Types, PCs, NoCall
<1>2. LockInv /\ ReadInv /\ ProbeInv /\ RecIsKept
  BY DEF Init, LockInv, ReadInv, ReadSoFar, ProbeInv, RecIsKept, Holding, Reading
<1> QED BY <1>1, <1>2 DEF RtcInv

LEMMA ParsedInt == ASSUME NEW r \in Int PROVE Parsed(r) \in Int
BY DEF Parsed

(* The probe: the record changes while somebody saves only with the excuse.  *)
LEMMA RtcGetEnv ==
  ASSUME RtcInv, ProbeGetEnv
  PROVE  RtcInv'
<1> USE DEF hwVars, keptVars, procVars, irqVars
<1>1. /\ UNCHANGED <<count, rec, flash, rtc_lock, call, pc, got, began>>
      /\ stage = "registered"
      /\ \/ stage' = "fetched" /\ excuse' = excuse
         \/ stage' = "ready" /\ excuse' = "not read"
  BY DEF ProbeGetEnv
<1>2. buffer' \in Int
  <2>1. \A p \in Procs : call[p].time - got[p] \in Int
    <3> SUFFICES ASSUME NEW p \in Procs PROVE call[p].time - got[p] \in Int
      OBVIOUS
    <3>1. call[p].time \in Int /\ got[p] \in Int
      BY DEF RtcInv, Types
    <3> QED BY <3>1
  <2>2. flash \in Int /\ buffer \in Int
    BY DEF RtcInv, Types
  <2>3. \/ buffer' = flash \/ buffer' = buffer \/ buffer' \in Wanted
        \/ \E p \in Procs : buffer' = call[p].time - got[p]
    BY DEF ProbeGetEnv, Saving
  <2>4. \A w \in Wanted : w \in Int
    BY RtcAssumption
  <2> QED BY <2>1, <2>2, <2>3, <2>4, Zenon
<1>3. Types'
  BY <1>1, <1>2 DEF RtcInv, Types
<1>4. LockInv'
  BY <1>1 DEF RtcInv, LockInv
<1>5. ReadInv'
  BY <1>1 DEF RtcInv, ReadInv, ProbeInv
<1>6. ProbeInv' /\ RecIsKept'
  BY <1>1 DEF RtcInv, ProbeInv, RecIsKept
<1> QED BY <1>3, <1>4, <1>5, <1>6 DEF RtcInv

LEMMA RtcProbe ==
  ASSUME RtcInv, ProbeOpen \/ ProbeRegister \/ ProbeWriteRec
  PROVE  RtcInv'
<1> USE DEF hwVars, keptVars, procVars, irqVars
<1>1. UNCHANGED <<count, flash, rtc_lock, call, pc, got, began>>
  BY DEF ProbeOpen, ProbeRegister, ProbeWriteRec
<1>2. CASE ProbeOpen \/ ProbeRegister
  <2>1. UNCHANGED <<rec, buffer, excuse>> /\ stage # "ready" /\ stage' # "ready"
    BY <1>2 DEF ProbeOpen, ProbeRegister
  <2> QED BY <1>1, <2>1 DEF RtcInv, Types, LockInv, ReadInv, ProbeInv, RecIsKept
<1>3. CASE ProbeWriteRec
  <2>1. /\ rec' = Parsed(buffer) /\ buffer' = 0 /\ stage' = "ready"
        /\ excuse' = IF buffer # flash \/ Saving # {} THEN "overtaken" ELSE "none"
    BY <1>3 DEF ProbeWriteRec
  <2>2. Types'
    BY <1>1, <2>1, ParsedInt DEF RtcInv, Types
  <2>3. LockInv' /\ ProbeInv' /\ RecIsKept'
    <3>1. Saving' = {} /\ buffer = flash => rec' = Parsed(flash')
      BY <1>1, <2>1
    <3>2. Saving' = Saving
      BY <1>1 DEF Saving
    <3>3. excuse' # "overtaken" => buffer = flash
      BY <2>1
    <3>4. RecIsKept'
      BY <2>1, <3>1, <3>2, <3>3 DEF RecIsKept
    <3> QED BY <1>1, <2>1, <3>4 DEF RtcInv, LockInv, ProbeInv
  <2>4. ReadInv'
    <3>1. \A p \in Procs : pc[p] = "saving" => excuse' = "overtaken"
      BY <2>1 DEF Saving
    <3> QED BY <1>1, <3>1 DEF RtcInv, ReadInv
  <2> QED BY <2>2, <2>3, <2>4 DEF RtcInv
<1> QED BY <1>2, <1>3

(* A process that only moves on, without the lock before or after, ...       *)
LEMMA RtcCall ==
  ASSUME RtcInv, NEW p \in Procs, NEW c \in Cpus, NEW k \in Kinds, NEW t \in Times(k),
         Call(p, c, k, t)
  PROVE  RtcInv'
<1> USE DEF hwVars, keptVars
<1>1. UNCHANGED <<count, rec, flash, buffer, stage, excuse, rtc_lock, got, began>> /\ t \in Int
  BY RtcAssumption DEF Call, Times
<1>2. pc' = [pc EXCEPT ![p] = "locking"] /\ call' = [call EXCEPT ![p] = [kind |-> k, time |-> t]]
  BY DEF Call
<1>3. Types'
  BY <1>1, <1>2 DEF RtcInv, Types, PCs
<1>4. pc[p] = "user"
  BY DEF Call
<1>5. LockInv'
  BY <1>1, <1>2 DEF RtcInv, Types, LockInv, Holding, Reading
<1>6. ReadInv'
  <2> SUFFICES ASSUME NEW q \in Procs
               PROVE  /\ ReadSoFar(pc'[q], got[q], began[q], count)
                      /\ pc'[q] = "saving" /\ excuse # "overtaken" =>
                           rec = call'[q].time - got[q]
    BY <1>1 DEF ReadInv
  <2>1. CASE q = p
    BY <2>1, <1>2, <1>4 DEF RtcInv, Types, ReadInv, ReadSoFar
  <2>2. CASE q # p
    BY <2>2, <1>2 DEF RtcInv, Types, ReadInv
  <2> QED BY <2>1, <2>2
<1>7. Saving' = Saving
  BY <1>2, <1>4 DEF RtcInv, Types, Saving
<1>8. ProbeInv' /\ RecIsKept'
  BY <1>1, <1>7 DEF RtcInv, ProbeInv, RecIsKept
<1> QED BY <1>3, <1>5, <1>6, <1>8 DEF RtcInv

LEMMA RtcLock ==
  ASSUME RtcInv, NEW p \in Procs, LockRtc(p)
  PROVE  RtcInv'
<1> USE DEF hwVars, keptVars
<1> DEFINE k == call[p].kind
           at == IF k \in {"gettime", "settime"} THEN "second" ELSE k
<1>1. /\ UNCHANGED <<count, rec, flash, buffer, stage, excuse, call, got, began>>
      /\ pc[p] = "locking" /\ rtc_lock = NULL /\ rtc_lock' = p
      /\ pc' = [pc EXCEPT ![p] = at]
  BY DEF LockRtc
<1>2. k \in Kinds /\ NULL \notin Procs
  BY <1>1, RtcAssumption DEF RtcInv, Types
<1>3. at \in {"second", "getalarm", "setalarm", "powersave"}
  BY <1>2 DEF Kinds, ClassOps
<1> HIDE DEF at, k
<1>4. Types'
  BY <1>1, <1>2, <1>3 DEF RtcInv, Types, PCs, k
<1>5. \A q \in Procs : pc[q] \notin Holding
  BY <1>1, <1>2 DEF RtcInv, LockInv
<1>6. LockInv'
  BY <1>1, <1>5 DEF RtcInv, Types, LockInv
<1>7. ReadInv'
  <2> SUFFICES ASSUME NEW q \in Procs
               PROVE  /\ ReadSoFar(pc'[q], got[q], began[q], count)
                      /\ pc'[q] # "saving"
    BY <1>1 DEF ReadInv
  <2>1. CASE q = p
    BY <2>1, <1>1, <1>3 DEF RtcInv, Types, ReadInv, ReadSoFar
  <2>2. CASE q # p
    BY <2>2, <1>1, <1>5 DEF RtcInv, Types, ReadInv, Holding
  <2> QED BY <2>1, <2>2
<1>8. ProbeInv' /\ RecIsKept'
  BY <1>1, <1>5 DEF RtcInv, Types, ProbeInv, RecIsKept, Saving, Holding
<1> QED BY <1>4, <1>6, <1>7, <1>8 DEF RtcInv

(* One register more.                                                        *)
LEMMA RegisterRead ==
  ASSUME NEW at \in {"second", "minute", "hour"}, NEW g \in Int, NEW b \in Nat,
         count \in Nat, ReadSoFar(at, g, b, count)
  PROVE  /\ Share[at] \in Int
         /\ ReadSoFar(AfterReg[at], g + Share[at], IF at = "second" THEN count ELSE b, count)
<1> DEFINE c == count
<1>1. /\ Minute(c) \in Nat /\ Hour(c) \in Nat /\ Day(c) \in Nat
      /\ Share.second = c - Minute(c) /\ Share.minute = Minute(c) - Hour(c)
      /\ Share.hour = Hour(c) - Day(c)
  BY Registers DEF Share
<1>2. AfterReg.second = "minute" /\ AfterReg.minute = "hour" /\ AfterReg.hour = "day"
  BY DEF AfterReg
<1>3. CASE at = "second"
  <2>1. g = 0
    BY <1>3 DEF ReadSoFar
  <2>2. Share[at] \in Int /\ g + Share[at] = c - Minute(c)
    BY <1>1, <1>3, <2>1
  <2> QED BY <1>2, <1>3, <2>2 DEF ReadSoFar
<1>4. CASE at = "minute"
  <2>1. b <= c /\ g = b - Minute(b)
    BY <1>4 DEF ReadSoFar
  <2>2. Share[at] = Minute(c) - Hour(c) /\ Share[at] \in Int /\ c \in b .. c
    BY <1>1, <1>4, <2>1
  <2>3. \E m \in b .. c : g + Share[at] = b - Minute(b) + (Minute(m) - Hour(m))
    BY <2>1, <2>2
  <2> QED BY <1>2, <1>4, <2>2, <2>3 DEF ReadSoFar
<1>5. CASE at = "hour"
  <2>1. PICK m \in b .. c : g = b - Minute(b) + (Minute(m) - Hour(m))
    BY <1>5 DEF ReadSoFar
  <2>2. Share[at] = Hour(c) - Day(c) /\ Share[at] \in Int /\ c \in m .. c
    BY <1>1, <1>5
  <2>3. \E n \in b .. c : \E h \in n .. c :
          g + Share[at] = b - Minute(b) + (Minute(n) - Hour(n)) + (Hour(h) - Day(h))
    BY <2>1, <2>2
  <2> QED BY <1>2, <1>5, <2>2, <2>3 DEF ReadSoFar
<1> QED BY <1>3, <1>4, <1>5

LEMMA RtcReadReg ==
  ASSUME RtcInv, NEW p \in Procs, ReadReg(p)
  PROVE  RtcInv'
<1> USE DEF hwVars, keptVars
<1> DEFINE g == got[p] + Share[pc[p]]
           b == IF pc[p] = "second" THEN count ELSE began[p]
           at == AfterReg[pc[p]]
<1>1. /\ UNCHANGED <<count, rec, flash, buffer, stage, excuse, call, rtc_lock>>
      /\ pc[p] \in {"second", "minute", "hour"}
      /\ got' = [got EXCEPT ![p] = g] /\ began' = [began EXCEPT ![p] = b]
      /\ pc' = [pc EXCEPT ![p] = at]
  BY DEF ReadReg, AfterReg
<1>2. /\ count \in Nat /\ got[p] \in Int /\ began[p] \in Nat
      /\ ReadSoFar(pc[p], got[p], began[p], count)
  BY DEF RtcInv, Types, ReadInv
<1>3. /\ at \in {"minute", "hour", "day"} /\ b \in Nat
      /\ g \in Int /\ ReadSoFar(at, g, b, count)
  <2>1. Share[pc[p]] \in Int /\ ReadSoFar(at, g, b, count)
    BY <1>1, <1>2, RegisterRead
  <2> QED BY <1>1, <1>2, <2>1 DEF AfterReg
<1> HIDE DEF g, b, at
<1>4. Types'
  BY <1>1, <1>3 DEF RtcInv, Types, PCs
<1>5. \A q \in Procs : pc'[q] \in Holding => pc[q] \in Holding
  BY <1>1, <1>3 DEF RtcInv, Types, Holding, Reading
<1>6. LockInv'
  BY <1>1, <1>5 DEF RtcInv, LockInv
<1>7. ReadInv'
  <2> SUFFICES ASSUME NEW q \in Procs
               PROVE  /\ ReadSoFar(pc'[q], got'[q], began'[q], count)
                      /\ pc'[q] = "saving" /\ excuse # "overtaken" =>
                           rec = call[q].time - got'[q]
    BY <1>1 DEF ReadInv
  <2>1. CASE q = p
    BY <2>1, <1>1, <1>3 DEF RtcInv, Types
  <2>2. CASE q # p
    BY <2>2, <1>1 DEF RtcInv, Types, ReadInv
  <2> QED BY <2>1, <2>2
<1>8. Saving' = Saving
  BY <1>1, <1>3 DEF RtcInv, Types, Saving
<1>9. ProbeInv' /\ RecIsKept'
  BY <1>1, <1>8 DEF RtcInv, ProbeInv, RecIsKept
<1> QED BY <1>4, <1>6, <1>7, <1>9 DEF RtcInv

(* The last read, the day.                                                   *)
LEMMA LastRead ==
  ASSUME RtcInv, NEW p \in Procs, pc[p] = "day"
  PROVE  /\ got[p] + Share.day \in Int
         /\ MayRead(got[p] + Share.day, began[p], count)
<1>1. count \in Nat /\ began[p] \in Nat /\ got[p] \in Int
  BY DEF RtcInv, Types
<1>2. PICK m \in began[p] .. count : \E h \in m .. count :
        got[p] = began[p] - Minute(began[p]) + (Minute(m) - Hour(m)) + (Hour(h) - Day(h))
  BY DEF RtcInv, ReadInv, ReadSoFar
<1>3. PICK h \in m .. count :
        got[p] = began[p] - Minute(began[p]) + (Minute(m) - Hour(m)) + (Hour(h) - Day(h))
  BY <1>2
<1>4. Share.day = Day(count) /\ Day(count) \in Nat
  BY <1>1, Registers DEF Share, Day
<1>5. MayRead(began[p] - Minute(began[p]) + (Minute(m) - Hour(m)) + (Hour(h) - Day(h))
                + Day(count), began[p], count)
  BY <1>1, FourReads
<1> QED BY <1>1, <1>3, <1>4, <1>5

LEMMA RtcGetTime ==
  ASSUME RtcInv, NEW p \in Procs, GetTime(p)
  PROVE  RtcInv'
<1> USE DEF hwVars, keptVars
<1>1. /\ UNCHANGED <<count, rec, flash, buffer, stage, excuse, began>>
      /\ pc[p] = "day" /\ call[p].kind = "gettime" /\ rtc_lock' = NULL
      /\ got' = [got EXCEPT ![p] = got[p] + Share.day]
      /\ call' = [call EXCEPT ![p].time = rec]
      /\ pc' = [pc EXCEPT ![p] = "gotten"]
  BY DEF GetTime
<1>2. got[p] + Share.day \in Int /\ NULL \notin Procs
  BY <1>1, LastRead, RtcAssumption
<1>3. Types'
  BY <1>1, <1>2 DEF RtcInv, Types, PCs, Kinds, ClassOps
<1>4. \A q \in Procs : pc[q] \in Holding => q = p
  BY <1>1 DEF RtcInv, LockInv, Holding, Reading
<1>5. \A q \in Procs : pc'[q] \notin Holding
  BY <1>1, <1>4 DEF RtcInv, Types, Holding, Reading
<1>6. LockInv'
  BY <1>5 DEF LockInv
<1>7. ReadInv'
  <2> SUFFICES ASSUME NEW q \in Procs PROVE ReadSoFar(pc'[q], got'[q], began[q], count)
    BY <1>1, <1>5 DEF ReadInv, Holding
  <2>1. CASE q = p
    BY <2>1, <1>1 DEF RtcInv, Types, ReadSoFar
  <2>2. CASE q # p
    BY <2>2, <1>1 DEF RtcInv, Types, ReadInv
  <2> QED BY <2>1, <2>2
<1>8. ProbeInv' /\ RecIsKept'
  BY <1>1, <1>4 DEF RtcInv, Types, ProbeInv, RecIsKept, Saving, Holding
<1> QED BY <1>3, <1>6, <1>7, <1>8 DEF RtcInv

LEMMA RtcWriteRec ==
  ASSUME RtcInv, NEW p \in Procs, WriteRec(p)
  PROVE  RtcInv'
<1> USE DEF hwVars, keptVars
<1>1. /\ UNCHANGED <<count, flash, buffer, stage, excuse, call, began, rtc_lock>>
      /\ pc[p] = "day"
      /\ got' = [got EXCEPT ![p] = got[p] + Share.day]
      /\ rec' = call[p].time - got'[p]
      /\ pc' = [pc EXCEPT ![p] = "saving"]
  BY DEF WriteRec
<1>2. got[p] + Share.day \in Int
  BY <1>1, LastRead
<1>3. Types'
  <2>1. got'[p] \in Int /\ call[p].time \in Int
    BY <1>1, <1>2 DEF RtcInv, Types
  <2>2. rec' \in Int
    BY <2>1, <1>1
  <2> QED BY <2>2, <1>1, <1>2 DEF RtcInv, Types, PCs
<1>4. \A q \in Procs : pc[q] \in Holding => q = p
  BY <1>1 DEF RtcInv, LockInv, Holding, Reading
<1>5. LockInv'
  BY <1>1, <1>4 DEF RtcInv, Types, LockInv, Holding, Reading
<1>6. ReadInv'
  <2> SUFFICES ASSUME NEW q \in Procs
               PROVE  /\ ReadSoFar(pc'[q], got'[q], began[q], count)
                      /\ pc'[q] = "saving" => rec' = call[q].time - got'[q]
    BY <1>1 DEF ReadInv
  <2>1. CASE q = p
    BY <2>1, <1>1 DEF RtcInv, Types, ReadSoFar
  <2>2. CASE q # p
    BY <2>2, <1>1, <1>4 DEF RtcInv, Types, ReadInv, Holding
  <2> QED BY <2>1, <2>2
<1>7. ProbeInv' /\ RecIsKept'
  <2>1. p \in Saving'
    BY <1>1 DEF RtcInv, Types, Saving
  <2> QED BY <1>1, <2>1 DEF RtcInv, ProbeInv, RecIsKept
<1> QED BY <1>3, <1>5, <1>6, <1>7 DEF RtcInv

LEMMA RtcSaved ==
  ASSUME RtcInv, NEW p \in Procs, Saved(p)
  PROVE  RtcInv'
<1> USE DEF hwVars, keptVars
<1>1. /\ UNCHANGED <<count, rec, buffer, stage>>
      /\ pc[p] = "saving" /\ rtc_lock' = NULL
      /\ call' = [call EXCEPT ![p] = NoCall]
      /\ pc' = [pc EXCEPT ![p] = "user"]
      /\ got' = [got EXCEPT ![p] = 0] /\ began' = [began EXCEPT ![p] = 0]
  BY DEF Saved, Return
<1>2. \/ /\ flash' = call[p].time - got[p]
         /\ excuse' = IF excuse = "overtaken" /\ rec # flash' THEN excuse
                      ELSE IF Parsed(flash') # flash' THEN "padded" ELSE "none"
      \/ excuse' = "not saved" /\ flash' = flash
  BY DEF Saved
<1>3. Types'
  <2>1. got[p] \in Int /\ call[p].time \in Int
    BY DEF RtcInv, Types
  <2>2. call[p].time - got[p] \in Int /\ flash \in Int
    BY <2>1 DEF RtcInv, Types
  <2>3. flash' \in Int
    BY <2>2, <1>2
  <2> QED BY <2>3, <1>1 DEF RtcInv, Types, PCs, NoCall
<1>4. \A q \in Procs : pc[q] \in Holding => q = p
  BY <1>1 DEF RtcInv, LockInv, Holding
<1>5. \A q \in Procs : pc'[q] \notin Holding
  BY <1>1, <1>4 DEF RtcInv, Types, Holding, Reading
<1>6. ReadInv'
  <2> SUFFICES ASSUME NEW q \in Procs PROVE ReadSoFar(pc'[q], got'[q], began'[q], count)
    BY <1>1, <1>5 DEF ReadInv, Holding
  <2>1. CASE q = p
    BY <2>1, <1>1 DEF RtcInv, Types, ReadSoFar
  <2>2. CASE q # p
    BY <2>2, <1>1 DEF RtcInv, Types, ReadInv
  <2> QED BY <2>1, <2>2
<1>7. ProbeInv'
  BY <1>1, <1>2 DEF RtcInv, ProbeInv
<1>8. RecIsKept'
  BY <1>1, <1>2 DEF RtcInv, Types, ReadInv, RecIsKept
<1> QED BY <1>3, <1>5, <1>6, <1>7, <1>8 DEF RtcInv, LockInv

(* The other ends and turns of a call change neither record nor flash.       *)
LEMMA RtcProceeds ==
  ASSUME RtcInv, NEW p \in Procs,
         GotTime(p) \/ GetAlarm(p) \/ SetAlarm(p) \/ WfiEnds(p)
  PROVE  RtcInv'
<1> USE DEF hwVars, keptVars
<1>1. /\ UNCHANGED <<count, rec, flash, buffer, stage, excuse>>
      /\ pc[p] \notin Reading \cup {"saving"}
      /\ IF pc[p] \in Holding THEN rtc_lock' = NULL ELSE UNCHANGED rtc_lock
  BY DEF GotTime, GetAlarm, SetAlarm, WfiEnds, Holding, Reading
<1>2. \E k \in Kinds : \/ call' = [call EXCEPT ![p] = NoCall] /\ pc' = [pc EXCEPT ![p] = "user"]
                       \/ /\ call' = [call EXCEPT ![p] = [kind |-> k, time |-> 0]]
                          /\ pc' = [pc EXCEPT ![p] = "locking"]
  BY DEF GotTime, GetAlarm, SetAlarm, WfiEnds, Return, Kinds, ClassOps
<1>3. \/ UNCHANGED <<got, began>> /\ pc[p] = "powersave"
      \/ got' = [got EXCEPT ![p] = 0] /\ began' = [began EXCEPT ![p] = 0]
  BY DEF GotTime, GetAlarm, SetAlarm, WfiEnds, Return
<1>4. Types'
  BY <1>1, <1>2, <1>3 DEF RtcInv, Types, PCs, NoCall
<1>5. \A q \in Procs : q # p => /\ pc'[q] = pc[q] /\ call'[q] = call[q]
                                /\ got'[q] = got[q] /\ began'[q] = began[q]
  BY <1>2, <1>3 DEF RtcInv, Types
<1>6. pc'[p] \in {"user", "locking"}
  BY <1>2 DEF RtcInv, Types
<1>7. LockInv'
  BY <1>1, <1>5, <1>6 DEF RtcInv, LockInv, Holding, Reading
<1>8. ReadInv'
  <2>1. got'[p] = 0
    BY <1>3 DEF RtcInv, Types, ReadInv, ReadSoFar
  <2>2. ReadSoFar(pc'[p], got'[p], began'[p], count)
    BY <1>6, <2>1 DEF ReadSoFar
  <2> QED BY <1>1, <1>5, <1>6, <2>2 DEF RtcInv, ReadInv
<1>9. Saving' = Saving
  BY <1>1, <1>5, <1>6 DEF Saving
<1>10. ProbeInv' /\ RecIsKept'
  BY <1>1, <1>9 DEF RtcInv, ProbeInv, RecIsKept
<1> QED BY <1>4, <1>7, <1>8, <1>10 DEF RtcInv

LEMMA RtcTick ==
  ASSUME RtcInv, Tick
  PROVE  RtcInv'
<1> USE DEF keptVars, procVars
<1>1. /\ count' = count + 1
      /\ UNCHANGED <<rec, flash, buffer, stage, excuse, rtc_lock, call, pc, got, began>>
  BY DEF Tick
<1>2. count \in Nat /\ began \in [Procs -> Nat]
  BY DEF RtcInv, Types
<1>3. Types' /\ LockInv' /\ ProbeInv' /\ RecIsKept'
  BY <1>1, <1>2 DEF RtcInv, Types, LockInv, ProbeInv, RecIsKept, Saving
<1>4. ReadInv'
  <2> SUFFICES ASSUME NEW p \in Procs
               PROVE  ReadSoFar(pc[p], got[p], began[p], count + 1)
    BY <1>1 DEF RtcInv, ReadInv
  <2>1. ReadSoFar(pc[p], got[p], began[p], count) /\ began[p] \in Nat
    BY <1>2 DEF RtcInv, ReadInv
  <2>2. \A m \in began[p] .. count : m \in began[p] .. count + 1
    BY <1>2, <2>1
  <2>3. \A m \in began[p] .. count : \A h \in m .. count : h \in m .. count + 1
    BY <1>2, <2>1
  <2>4. began[p] <= count => began[p] <= count + 1
    BY <1>2, <2>1
  <2> QED BY <2>1, <2>2, <2>3, <2>4, Zenon DEF ReadSoFar
<1> QED BY <1>3, <1>4 DEF RtcInv

LEMMA RtcCrash ==
  ASSUME RtcInv, Crash
  PROVE  RtcInv'
<1>1. /\ UNCHANGED <<count, flash>> /\ rec' \in {0, rec} /\ buffer' = 0 /\ stage' = "down"
      /\ excuse' = "none"
      /\ rtc_lock' = NULL /\ call' = [p \in Procs |-> NoCall] /\ pc' = [p \in Procs |-> "user"]
      /\ got' = [p \in Procs |-> 0] /\ began' = [p \in Procs |-> 0]
  BY DEF Crash
<1>2. Types'
  BY <1>1 DEF RtcInv, Types, PCs, NoCall
<1>3. LockInv' /\ ReadInv' /\ ProbeInv' /\ RecIsKept'
  BY <1>1 DEF LockInv, ReadInv, ReadSoFar, ProbeInv, RecIsKept, Holding, Reading
<1> QED BY <1>2, <1>3 DEF RtcInv

LEMMA RtcStep == RtcInv /\ [Next]_vars => RtcInv'
<1> SUFFICES ASSUME RtcInv, [Next]_vars PROVE RtcInv'
  OBVIOUS
<1>1. CASE ProbeOpen \/ ProbeRegister \/ ProbeGetEnv \/ ProbeWriteRec
  BY <1>1, RtcProbe, RtcGetEnv
<1>2. CASE \E k \in Kinds : Calls(k)
  BY <1>2, RtcCall DEF Calls
<1>3. ASSUME NEW p \in Procs, LockRtc(p) \/ Proceeds(p) \/ Saved(p) PROVE RtcInv'
  BY <1>3, RtcLock, RtcReadReg, RtcGetTime, RtcWriteRec, RtcSaved, RtcProceeds DEF Proceeds
<1>4. CASE Tick
  BY <1>4, RtcTick
<1>5. CASE (\E c \in Cpus : AlarmIrq(c)) \/ IrqReads \/ IrqAcks \/ UNCHANGED vars
  <2>1. UNCHANGED <<count, rec, flash, buffer, stage, excuse, rtc_lock, call, pc, got, began>>
    BY <1>5 DEF AlarmIrq, IrqReads, IrqAcks, vars, hwVars, keptVars, procVars
  <2> QED BY <2>1 DEF RtcInv, Types, LockInv, ReadInv, ProbeInv, RecIsKept, Saving
<1>6. CASE Crash
  BY <1>6, RtcCrash
<1> QED BY <1>1, <1>2, <1>3, <1>4, <1>5, <1>6 DEF Next, NextButCalls

LEMMA RtcInvHolds == Spec => []RtcInv
<1> QED BY RtcInitially, RtcStep, PTL DEF Spec

-----------------------------------------------------------------------------
(* For any number of seconds to a minute, minutes to an hour and hours to a  *)
(* day, and however long the clock runs: what gettime and settime read, four *)
(* registers one after the other, is not earlier than when they began, and   *)
(* later than when they ended by no more than what the largest register that *)
(* changed meanwhile makes stale.                                            *)
THEOREM TimeIsReadHolds == Spec => TimeIsRead
<1> DEFINE Read(p) ==
      pc[p] = "day" /\ pc'[p] \in {"gotten", "saving"} =>
        LET time == IF pc'[p] = "gotten" THEN got'[p] ELSE call[p].time - rec'
        IN  MayRead(time, began[p], count)
<1>1. RtcInv /\ [Next]_vars => [\A p \in Procs : Read(p)]_vars
  <2> SUFFICES ASSUME RtcInv, [Next]_vars, NEW p \in Procs,
                      pc[p] = "day", pc'[p] \in {"gotten", "saving"}
               PROVE  MayRead(IF pc'[p] = "gotten" THEN got'[p] ELSE call[p].time - rec',
                              began[p], count)
    OBVIOUS
  <2>1. PICK q \in Procs : GetTime(q) \/ WriteRec(q)
    <3>1. pc \in [Procs -> PCs]
      BY DEF RtcInv, Types
    <3>2. \A q \in Procs : LockRtc(q) \/ ReadReg(q) \/ GotTime(q) \/ Saved(q) \/ GetAlarm(q)
                             \/ SetAlarm(q) \/ WfiEnds(q)
                            => pc'[p] \notin {"gotten", "saving"}
      <4> SUFFICES ASSUME NEW q \in Procs,
                          LockRtc(q) \/ ReadReg(q) \/ GotTime(q) \/ Saved(q) \/ GetAlarm(q)
                            \/ SetAlarm(q) \/ WfiEnds(q)
                   PROVE  pc'[p] \notin {"gotten", "saving"}
        OBVIOUS
      <4>1. CASE LockRtc(q)
        <5>1. pc[q] = "locking" /\ call[q].kind \in Kinds
          BY <4>1 DEF LockRtc, RtcInv, Types
        <5> QED BY <3>1, <4>1, <5>1 DEF LockRtc, Kinds, ClassOps
      <4>2. CASE ReadReg(q)
        BY <3>1, <4>2 DEF ReadReg, AfterReg
      <4>3. CASE GotTime(q) \/ Saved(q) \/ GetAlarm(q) \/ SetAlarm(q) \/ WfiEnds(q)
        BY <3>1, <4>3 DEF GotTime, Saved, GetAlarm, SetAlarm, WfiEnds, Return
      <4> QED BY <4>1, <4>2, <4>3
    <3>3. CASE \E k \in Kinds : Calls(k)
      BY <3>1, <3>3 DEF Calls, Call
    <3>4. CASE Crash
      BY <3>4 DEF Crash
    <3>5. CASE \/ ProbeOpen \/ ProbeRegister \/ ProbeGetEnv \/ ProbeWriteRec \/ Tick
               \/ (\E c \in Cpus : AlarmIrq(c)) \/ IrqReads \/ IrqAcks \/ UNCHANGED vars
      BY <3>5 DEF ProbeOpen, ProbeRegister, ProbeGetEnv, ProbeWriteRec, Tick, AlarmIrq,
                  IrqReads, IrqAcks, vars, procVars
    <3> QED BY <3>2, <3>3, <3>4, <3>5 DEF Next, NextButCalls, Proceeds
  <2>2. p = q /\ pc \in [Procs -> PCs]
    <3>1. \A r \in Procs \ {q} : pc'[r] = pc[r]
      BY <2>1 DEF GetTime, WriteRec, RtcInv, Types
    <3> QED BY <3>1 DEF RtcInv, Types
  <2>3. MayRead(got[p] + Share.day, began[p], count) /\ got[p] + Share.day \in Int
    BY LastRead
  <2>4. CASE GetTime(p)
    <3>1. pc'[p] = "gotten" /\ got'[p] = got[p] + Share.day
      BY <2>4 DEF GetTime, RtcInv, Types
    <3> QED BY <2>3, <3>1
  <2>5. CASE WriteRec(p)
    <3>1. /\ pc'[p] = "saving" /\ got'[p] = got[p] + Share.day
          /\ rec' = call[p].time - got'[p] /\ call[p].time \in Int
      BY <2>5 DEF WriteRec, RtcInv, Types
    <3>2. call[p].time - rec' = got[p] + Share.day
      BY <2>3, <3>1
    <3> QED BY <2>3, <3>1, <3>2
  <2> QED BY <2>1, <2>2, <2>4, <2>5
<1> QED BY <1>1, RtcInvHolds, PTL DEF Spec, TimeIsRead

(* What a reboot makes of the record in flash is the record in use, but where*)
(* a save failed, a settime came in the middle of cns3xxx_rtc_probe, the     *)
(* probe could not read the environment or the text of the record is padded. *)
THEOREM RecIsKeptHolds == Spec => []RecIsKept
<1>1. RtcInv => RecIsKept
  BY DEF RtcInv
<1> QED BY <1>1, RtcInvHolds, PTL

-----------------------------------------------------------------------------
(* The types of what RtcInv does not speak of. The day of the alarm is a day *)
(* because setalarm is only called with a time (ArgInv).                     *)
Flags == match_en \in BOOLEAN /\ intr_sts \in BOOLEAN

Scalars ==
  /\ alm \in 0 .. DAY - 1 /\ alarm_day \in Nat
  /\ ops_lock \in Procs \cup {NULL}
  /\ stage \in {"down", "opened", "registered", "fetched", "ready"}
  /\ excuse \in {"none", "overtaken", "not saved", "not read", "padded"}
  /\ irq \in Cpus \cup {NULL} /\ ipc \in {"out", "locking", "acking"}

PerProc == on \in [Procs -> Cpus \cup {NULL}]

ArgInv ==
  \A p \in Procs : /\ pc[p] = "setalarm" => call[p].kind = "setalarm"
                   /\ call[p].kind = "setalarm" => call[p].time \in Nat

LEMMA FlagsStep == Flags /\ [Next]_vars => Flags'
<1> SUFFICES ASSUME Flags, [Next]_vars PROVE Flags'
  OBVIOUS
<1> USE DEF Flags, vars, hwVars
<1>1. CASE ProbeOpen \/ ProbeRegister \/ ProbeGetEnv \/ ProbeWriteRec
  BY <1>1, Zenon DEF ProbeOpen, ProbeRegister, ProbeGetEnv, ProbeWriteRec
<1>2. CASE \E k \in Kinds : Calls(k)
  BY <1>2, Zenon DEF Calls, Call
<1>3. CASE \E p \in Procs : LockRtc(p) \/ Proceeds(p) \/ Saved(p)
  <2>1. PICK p \in Procs : LockRtc(p) \/ Proceeds(p) \/ Saved(p)
    BY <1>3
  <2>2. CASE LockRtc(p) \/ ReadReg(p) \/ GetTime(p) \/ GotTime(p) \/ WfiEnds(p) \/ Saved(p)
    BY <2>2, Zenon DEF LockRtc, ReadReg, GetTime, GotTime, WfiEnds, Saved
  <2>3. CASE WriteRec(p) \/ GetAlarm(p) \/ SetAlarm(p)
    BY <2>3, Zenon DEF WriteRec, GetAlarm, SetAlarm
  <2> QED BY <2>1, <2>2, <2>3 DEF Proceeds
<1>4. CASE Tick
  BY <1>4, Zenon DEF Tick
<1>5. CASE (\E c \in Cpus : AlarmIrq(c)) \/ IrqReads \/ IrqAcks \/ UNCHANGED vars
  BY <1>5, Zenon DEF AlarmIrq, IrqReads, IrqAcks
<1>6. CASE Crash
  BY <1>6, Zenon DEF Crash
<1> QED BY <1>1, <1>2, <1>3, <1>4, <1>5, <1>6 DEF Next, NextButCalls

LEMMA ScalarsStep == RtcInv /\ Scalars /\ ArgInv /\ [Next]_vars => Scalars'
<1> SUFFICES ASSUME RtcInv, Scalars, ArgInv, [Next]_vars PROVE Scalars'
  OBVIOUS
<1> USE RtcAssumption DEF Scalars, hwVars, keptVars, procVars, irqVars
<1>0. count \in Nat /\ rec \in Int /\ DAY \in Nat \ {0}
  BY Units DEF RtcInv, Types
<1>1. CASE ProbeOpen \/ ProbeRegister \/ ProbeGetEnv
  <2>1. /\ UNCHANGED <<count, alarm_day, ops_lock, irq, ipc>> /\ alm' \in {0, alm}
        /\ stage' \in {"opened", "registered", "fetched", "ready"}
        /\ excuse' \in {excuse, "not read"}
    BY <1>1, Zenon DEF ProbeOpen, ProbeRegister, ProbeGetEnv
  <2>2. 0 \in 0 .. DAY - 1
    <3> HIDE DEF Scalars
    <3> QED BY <1>0
  <2>3. alm' \in 0 .. DAY - 1
    BY <2>1, <2>2, Zenon
  <2> QED BY <2>1, <2>3, Zenon
<1>2. CASE ProbeWriteRec
  BY <1>2 DEF ProbeWriteRec
<1>3. ASSUME NEW p \in Procs, NEW c \in Cpus, NEW k \in Kinds, NEW t \in Times(k),
             Call(p, c, k, t)
      PROVE  Scalars'
  BY <1>3 DEF Call
<1>4. ASSUME NEW p \in Procs, LockRtc(p) \/ ReadReg(p) \/ GetTime(p) \/ WfiEnds(p) \/ WriteRec(p)
      PROVE  Scalars'
  <2>1. /\ UNCHANGED <<count, alm, alarm_day, ops_lock>>
        /\ UNCHANGED <<stage, excuse, irq, ipc>>
    BY <1>4, Zenon DEF LockRtc, ReadReg, GetTime, WfiEnds, WriteRec
  <2> QED BY <2>1
<1>5. ASSUME NEW p \in Procs, GotTime(p) \/ GetAlarm(p) PROVE Scalars'
  <2>1. /\ UNCHANGED <<count, alm, alarm_day, stage, excuse, irq, ipc>>
        /\ ops_lock' \in {ops_lock, NULL}
    BY <1>5, Zenon DEF GotTime, GetAlarm, Return
  <2> QED BY <2>1
<1>6. ASSUME NEW p \in Procs, Saved(p) PROVE Scalars'
  <2>1. /\ UNCHANGED <<count, alm, alarm_day, stage, irq, ipc>>
        /\ ops_lock' \in {ops_lock, NULL}
    BY <1>6, Zenon DEF Saved, Return
  <2>2. excuse' \in {excuse, "none", "not saved", "padded"}
    BY <1>6, Zenon DEF Saved
  <2> QED BY <2>1, <2>2
<1>7. ASSUME NEW p \in Procs, SetAlarm(p) PROVE Scalars'
  <2>1. call[p].time \in Nat
    BY <1>7 DEF SetAlarm, ArgInv
  <2>2. call[p].time \div DAY \in Nat /\ (call[p].time - rec) % DAY \in 0 .. DAY - 1
    <3> HIDE DEF Scalars
    <3> QED BY <1>0, <2>1
  <2>3. /\ UNCHANGED <<count, stage, excuse, irq, ipc>>
        /\ ops_lock' \in {ops_lock, NULL}
        /\ alarm_day' \in Nat /\ alm' \in 0 .. DAY - 1
    BY <1>7, <2>2, Zenon DEF SetAlarm, Return
  <2> QED BY <2>3
<1>8. CASE Tick
  <2>1. UNCHANGED <<alm, alarm_day, ops_lock, stage, excuse, irq, ipc>>
    BY <1>8, Zenon DEF Tick
  <2> QED BY <2>1, Zenon
<1>9. CASE (\E c \in Cpus : AlarmIrq(c)) \/ IrqReads \/ IrqAcks
  <2>1. /\ UNCHANGED <<count, alm, alarm_day, ops_lock, stage, excuse>>
        /\ irq' \in Cpus \cup {irq, NULL} /\ ipc' \in {"out", "locking", "acking"}
    BY <1>9, Zenon DEF AlarmIrq, IrqReads, IrqAcks
  <2> QED BY <2>1
<1>10. CASE Crash
  <2>1. /\ UNCHANGED <<count, alm>> /\ alarm_day' = 0 /\ ops_lock' = NULL
        /\ stage' = "down" /\ excuse' = "none" /\ irq' = NULL /\ ipc' = "out"
    BY <1>10, Zenon DEF Crash
  <2> QED BY <2>1
<1>11. CASE UNCHANGED vars
  BY <1>11 DEF vars
<1> QED BY <1>1, <1>2, <1>3, <1>4, <1>5, <1>6, <1>7, <1>8, <1>9, <1>10, <1>11
        DEF Next, NextButCalls, Calls, Proceeds

LEMMA PerProcStep == PerProc /\ [Next]_vars => PerProc'
<1> SUFFICES ASSUME PerProc, [Next]_vars PROVE PerProc'
  OBVIOUS
<1> USE DEF PerProc
<1>1. CASE \/ ProbeOpen \/ ProbeRegister \/ ProbeGetEnv \/ ProbeWriteRec
           \/ Tick \/ (\E c \in Cpus : AlarmIrq(c)) \/ IrqReads \/ IrqAcks
           \/ UNCHANGED vars
  <2>1. UNCHANGED on
    BY <1>1, Zenon DEF ProbeOpen, ProbeRegister, ProbeGetEnv, ProbeWriteRec, Tick,
                       AlarmIrq, IrqReads, IrqAcks, vars, procVars
  <2> QED BY <2>1
<1>2. ASSUME NEW p \in Procs, NEW c \in Cpus, NEW k \in Kinds, NEW t \in Times(k),
             Call(p, c, k, t)
      PROVE  PerProc'
  BY <1>2 DEF Call
<1>3. ASSUME NEW p \in Procs, LockRtc(p) \/ Saved(p) \/ Proceeds(p)
      PROVE  PerProc'
  <2>1. on' \in {on, [on EXCEPT ![p] = NULL]}
    BY <1>3, Zenon DEF LockRtc, Saved, Proceeds, ReadReg, GetTime, GotTime, WriteRec, GetAlarm,
                       SetAlarm, WfiEnds, Return
  <2> QED BY <2>1
<1>4. CASE Crash
  BY <1>4 DEF Crash
<1> QED BY <1>1, <1>2, <1>3, <1>4 DEF Next, NextButCalls, Calls

LEMMA ArgStep == RtcInv /\ ArgInv /\ [Next]_vars => ArgInv'
<1> SUFFICES ASSUME RtcInv, ArgInv, [Next]_vars PROVE ArgInv'
  OBVIOUS
<1>0. /\ call \in [Procs -> [kind : Kinds \cup {"none"}, time : Int]]
      /\ pc \in [Procs -> PCs]
  BY DEF RtcInv, Types
<1> DEFINE Arg(cl, at) == /\ at = "setalarm" => cl.kind = "setalarm"
                          /\ cl.kind = "setalarm" => cl.time \in Nat
<1>1. \A p \in Procs : Arg(call[p], pc[p])
  BY DEF ArgInv
<1>2. SUFFICES \A p \in Procs : Arg(call'[p], pc'[p])
  BY DEF ArgInv
<1>3. CASE \/ ProbeOpen \/ ProbeRegister \/ ProbeGetEnv \/ ProbeWriteRec
           \/ Tick \/ (\E c \in Cpus : AlarmIrq(c)) \/ IrqReads \/ IrqAcks
           \/ UNCHANGED vars
  <2>1. UNCHANGED <<call, pc>>
    BY <1>3, Zenon DEF ProbeOpen, ProbeRegister, ProbeGetEnv, ProbeWriteRec, Tick,
                       AlarmIrq, IrqReads, IrqAcks, vars, procVars
  <2> QED BY <1>1, <2>1
<1>4. ASSUME NEW p \in Procs, NEW cl, NEW at, Arg(cl, at),
             call' = [call EXCEPT ![p] = cl], pc' = [pc EXCEPT ![p] = at]
      PROVE  \A q \in Procs : Arg(call'[q], pc'[q])
  <2> HIDE DEF Arg
  <2> QED BY <1>0, <1>1, <1>4
<1>5. ASSUME NEW p \in Procs, NEW c \in Cpus, NEW k \in Kinds, NEW t \in Times(k),
             Call(p, c, k, t)
      PROVE  \A q \in Procs : Arg(call'[q], pc'[q])
  <2>1. Arg([kind |-> k, time |-> t], "locking")
    BY RtcAssumption DEF Times
  <2> HIDE DEF Arg
  <2> QED BY <1>4, <1>5, <2>1 DEF Call
<1>6. ASSUME NEW p \in Procs,
             GotTime(p) \/ Saved(p) \/ GetAlarm(p) \/ SetAlarm(p) \/ WfiEnds(p)
      PROVE  \A q \in Procs : Arg(call'[q], pc'[q])
  <2>1. /\ Arg(NoCall, "user") /\ Arg([kind |-> "powersave", time |-> 0], "locking")
        /\ Arg([kind |-> "gettime", time |-> 0], "locking")
    BY DEF NoCall
  <2> HIDE DEF Arg
  <2> QED BY <1>4, <1>6, <2>1, Zenon DEF GotTime, Saved, GetAlarm, SetAlarm, WfiEnds, Return
<1>7. ASSUME NEW p \in Procs, LockRtc(p) \/ ReadReg(p) \/ WriteRec(p)
      PROVE  \A q \in Procs : Arg(call'[q], pc'[q])
  <2>1. /\ UNCHANGED call
        /\ \E at \in {call[p].kind, "second", "minute", "hour", "day", "saving"} :
              pc' = [pc EXCEPT ![p] = at]
    BY <1>7 DEF LockRtc, ReadReg, AfterReg, WriteRec
  <2> QED BY <1>0, <1>1, <2>1
<1>8. ASSUME NEW p \in Procs, GetTime(p)
      PROVE  \A q \in Procs : Arg(call'[q], pc'[q])
  <2>1. /\ call[p].kind = "gettime" /\ call' = [call EXCEPT ![p].time = rec]
        /\ pc' = [pc EXCEPT ![p] = "gotten"]
    BY <1>8 DEF GetTime
  <2>2. call'[p].kind = "gettime" /\ pc'[p] = "gotten"
    BY <1>0, <2>1
  <2>3. \A q \in Procs \ {p} : call'[q] = call[q] /\ pc'[q] = pc[q]
    BY <1>0, <2>1
  <2> QED BY <1>1, <2>2, <2>3
<1>9. CASE Crash
  BY <1>9 DEF Crash, NoCall
<1> QED BY <1>3, <1>5, <1>6, <1>7, <1>8, <1>9 DEF Next, NextButCalls, Calls, Proceeds

(* The clock's variables keep their types, on any number of CPUs and for any *)
(* times: no register, lock or call of the driver has a value that it cannot *)
(* have, whenever the power goes.                                            *)
THEOREM RtcTypeCorrect == Spec => []TypeOK
<1>1. Init => Flags
  BY Zenon DEF Init, Flags
<1>2. Init => Scalars /\ PerProc
  BY Units DEF Init, Scalars, PerProc
<1>3. Init => ArgInv
  BY DEF Init, NoCall, ArgInv
<1>4. RtcInv /\ Flags /\ Scalars /\ PerProc => TypeOK
  <2> SUFFICES ASSUME RtcInv, Flags, Scalars, PerProc PROVE TypeOK
    OBVIOUS
  <2>1. match_en \in BOOLEAN /\ intr_sts \in BOOLEAN
    BY Zenon DEF Flags
  <2>2. /\ count \in Nat /\ rec \in Int /\ flash \in Int /\ buffer \in Int
        /\ rtc_lock \in Procs \cup {NULL}
        /\ call \in [Procs -> [kind : Kinds \cup {"none"}, time : Int]]
        /\ pc \in [Procs -> PCs] /\ got \in [Procs -> Int] /\ began \in [Procs -> Nat]
    BY DEF RtcInv, Types
  <2> QED BY <2>1, <2>2, Zenon DEF Scalars, PerProc, PCs, TypeOK
<1> QED BY <1>1, <1>2, <1>3, <1>4, RtcInvHolds, FlagsStep, ScalarsStep, PerProcStep,
           ArgStep, PTL DEF Spec

===============================================================================
