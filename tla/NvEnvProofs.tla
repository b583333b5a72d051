---------------------------- MODULE NvEnvProofs ----------------------------
(***************************************************************************)
(* Proofs about the environment, for every set of variables and of values. *)
(* NvEnv: whatever fails and whenever the power goes, the two partitions   *)
(* implement the one environment of NvEnvStore. NvEnvBuf: the edited block *)
(* is a list of strings, one for each variable that is set.                *)
(***************************************************************************)
EXTENDS NvEnv, NvEnvBuf, FiniteSetTheorems, SequenceTheorems, TLAPS

(* What a setenv knows of the flash between two of its MTD calls *)
SetenvInv ==
  /\ wpc = "second" => wname \in Names /\ wfirst = part[0]
  /\ Saving => ed.mtd \in {0, 1} /\ part[ed.mtd].crc = TRUE
  /\ wpc = "erase" => Current = part[ed.mtd].data
  /\ wpc = "write" => part[Target(ed.mtd)].crc = FALSE
  /\ wpc = "flag" => part[Target(ed.mtd)] = Good("active", ed.data)

(* A get_env that found the first partition bad, with one setenv or none     *)
(* since: the second is good, and if it is being saved, then to the first.   *)
GetEnvInv ==
  /\ rpc = "second" /\ saves <= 1 /\ Current # NULL /\ rfirst.crc = FALSE =>
       /\ part[1].crc = TRUE
       /\ saves = 0 => wpc = "idle" /\ part[0].crc = FALSE
       /\ wpc = "second" => wfirst.crc = FALSE
       /\ Saving => ed.mtd = 1
  /\ rpc = "got" /\ saves <= 1 /\ Current # NULL => got # NULL

IInv == TypeOK /\ SetenvInv /\ GetEnvInv

-----------------------------------------------------------------------------
(* Partitions *)

LEMMA BlankType == Blank \in Envs
BY DEF Blank, Envs

LEMMA BadType == ASSUME NEW f \in Flags PROVE Bad(f) \in Part
BY BlankType, Zenon DEF Bad, Part

LEMMA GoodType == ASSUME NEW f \in Flags, NEW d \in Envs PROVE Good(f, d) \in Part
BY Zenon DEF Good, Part

(* A partition with a wrong CRC is never picked, and one good one is enough *)
LEMMA PickOnly ==
  ASSUME NEW p1 \in Part, NEW p2 \in Part
  PROVE  /\ p1.crc = TRUE /\ p2.crc = FALSE => EnvIn(p1, p2) = p1.data
         /\ p1.crc = FALSE /\ p2.crc = TRUE => EnvIn(p1, p2) = p2.data
         /\ Pick(p1, p2) \in {-1, 0, 1}
         /\ Pick(p1, p2) = 0 => p1.crc = TRUE /\ EnvIn(p1, p2) = p1.data
         /\ Pick(p1, p2) = 1 => p2.crc = TRUE /\ EnvIn(p1, p2) = p2.data
         /\ Pick(p1, p2) = -1 => EnvIn(p1, p2) = NULL
<1>1. p1.crc \in BOOLEAN /\ p2.crc \in BOOLEAN
  BY DEF Part
<1> QED BY <1>1 DEF Pick, EnvIn

(* Whichever partition is picked, its environment is what a reader finds *)
LEMMA EnvInType ==
  ASSUME NEW p1 \in Part, NEW p2 \in Part
  PROVE  /\ EnvIn(p1, p2) \in Envs \cup {NULL}
         /\ p1.crc = TRUE \/ p2.crc = TRUE => EnvIn(p1, p2) \in {p1.data, p2.data}
         /\ p1.data \in Envs /\ p2.data \in Envs
<1>1. p1.crc \in BOOLEAN /\ p2.crc \in BOOLEAN /\ p1.data \in Envs /\ p2.data \in Envs
  BY DEF Part
<1> QED BY <1>1 DEF Pick, EnvIn

(* After the flags have been written, the new environment is the one *)
LEMMA ObsoletePicked ==
  ASSUME NEW q \in Part, NEW d \in Envs, q.crc = TRUE, q.flag = "obsolete"
  PROVE  EnvIn(q, Good("active", d)) = d /\ EnvIn(Good("active", d), q) = d
<1>1. Good("active", d).crc = TRUE /\ Good("active", d).flag = "active" /\ Good("active", d).data = d
  BY DEF Good
<1> QED BY <1>1 DEF Pick, EnvIn, SecondIsActive

LEMMA TargetType == \A m \in {0, 1} : Target(m) \in {0, 1} /\ Target(m) # m
BY DEF Target

(* The other partition can become anything that is not good, and a reader    *)
(* still finds what the good one holds                                       *)
LEMMA OnlyGood ==
  ASSUME NEW pt \in [0 .. 1 -> Part], NEW m \in {0, 1},
         pt[m].crc = TRUE, pt[Target(m)].crc = FALSE
  PROVE  EnvIn(pt[0], pt[1]) = pt[m].data
<1>1. pt[0] \in Part /\ pt[1] \in Part
  OBVIOUS
<1>2. CASE m = 0
  BY <1>1, <1>2, PickOnly DEF Target
<1>3. CASE m = 1
  BY <1>1, <1>3, PickOnly DEF Target
<1> QED BY <1>2, <1>3

-----------------------------------------------------------------------------
LEMMA InitIInv == Init => IInv
<1> SUFFICES ASSUME Init PROVE IInv
  OBVIOUS
<1>1. part \in [0 .. 1 -> Part]
  <2>1. {Bad(f) : f \in Flags} \subseteq Part
    BY BadType
  <2>2. {Good(f, d) : f \in Flags, d \in Envs} \subseteq Part
    BY GoodType
  <2> QED BY <2>1, <2>2 DEF Init
<1>2. Bad("erased") \in Part
  BY BadType DEF Flags
<1>3. [mtd |-> -1, data |-> Blank] \in [mtd : -1 .. 1, data : Envs]
  BY BlankType
<1>4. TypeOK
  BY <1>1, <1>2, <1>3 DEF Init, TypeOK
<1>5. SetenvInv /\ GetEnvInv
  BY DEF Init, SetenvInv, GetEnvInv, Saving
<1> QED BY <1>4, <1>5 DEF IInv

(* What the steps of a setenv do to the reader's variables *)
LEMMA WatchTypes ==
  ASSUME IInv, Watch, part' \in [0 .. 1 -> Part]
  PROVE  /\ rpc' \in {"idle", "second", "got"} /\ rfirst' \in Part
         /\ got' \in Envs \cup {NULL}
         /\ saves' \in 0 .. 2 /\ rseen' \subseteq Envs \cup {NULL}
<1>1. EnvIn(part'[0], part'[1]) \in Envs \cup {NULL}
  <2>1. part'[0] \in Part /\ part'[1] \in Part
    OBVIOUS
  <2> QED BY <2>1, EnvInType
<1> QED BY <1>1 DEF IInv, TypeOK, Watch

(* A setenv that has begun never leaves the reader without a good partition  *)
LEMMA WatchInv ==
  ASSUME IInv, Watch, wpc # "idle", wpc' # "second",
         Current' # NULL => Current # NULL,
         part' = part \/ (Saving /\ (ed.mtd = 1 => part'[1].crc = part[1].crc)),
         Saving' => \/ Saving /\ ed' = ed
                    \/ /\ wpc = "second"
                       /\ wfirst.crc = FALSE /\ part[1].crc = TRUE => ed'.mtd = 1
  PROVE  GetEnvInv'
<1>1. UNCHANGED <<rpc, rfirst, got, saves>> /\ saves \in 0 .. 2
  BY DEF Watch, IInv, TypeOK
<1>2. ASSUME rpc = "second", saves <= 1, Current' # NULL, rfirst.crc = FALSE
      PROVE  /\ part'[1].crc = TRUE /\ saves # 0
             /\ Saving' => ed'.mtd = 1
  <2>1. /\ part[1].crc = TRUE /\ saves # 0
        /\ wpc = "second" => wfirst.crc = FALSE
        /\ Saving => ed.mtd = 1
    BY <1>2 DEF IInv, GetEnvInv
  <2> QED BY <2>1
<1>3. rpc = "got" /\ saves <= 1 /\ Current' # NULL => got # NULL
  BY DEF IInv, GetEnvInv
<1> QED BY <1>1, <1>2, <1>3 DEF GetEnvInv

(* ... and what its return does to its own *)
LEMMA ReturnInv ==
  ASSUME SetenvReturn
  PROVE  /\ wpc' = "idle" /\ wfirst' \in Part
         /\ wname' \in Names \cup {NULL} /\ wval' \in Vals \cup {NULL}
         /\ ed' \in [mtd : -1 .. 1, data : Envs]
         /\ SetenvInv'
<1>1. Bad("erased") \in Part
  BY BadType DEF Flags
<1>2. [mtd |-> -1, data |-> Blank] \in [mtd : -1 .. 1, data : Envs]
  BY BlankType
<1> QED BY <1>1, <1>2 DEF SetenvReturn, SetenvInv, Saving

(* An MTD call that went wrong leaves partitions behind, good or bad *)
LEMMA InterruptedType ==
  ASSUME IInv, Interrupted \/ UNCHANGED part
  PROVE  part' \in [0 .. 1 -> Part]
<1>1. part \in [0 .. 1 -> Part] /\ ed \in [mtd : -1 .. 1, data : Envs]
  BY DEF IInv, TypeOK
<1>2. \A f \in Flags : Bad(f) \in Part /\ Good(f, ed.data) \in Part
  BY <1>1, BadType, GoodType
<1>3. CASE UNCHANGED part
  BY <1>1, <1>3
<1>4. CASE wpc \in {"erase", "write"} /\ Interrupted
  BY <1>1, <1>2, <1>4 DEF Interrupted, Flags
<1>5. CASE wpc = "flag" /\ Interrupted
  <2>1. ed.mtd \in {0, 1}
    BY <1>5 DEF IInv, SetenvInv, Saving
  <2>2. \A f \in Flags : [part[ed.mtd] EXCEPT !.flag = f] \in Part
    BY <1>1, <2>1 DEF Part
  <2>3. \E f \in Flags : part' = [part EXCEPT ![ed.mtd] = [part[ed.mtd] EXCEPT !.flag = f]]
    BY <1>5 DEF Interrupted, Flags
  <2> QED BY <1>1, <2>1, <2>2, <2>3
<1> QED BY <1>3, <1>4, <1>5 DEF Interrupted

(* While env_save is at work there is an environment, the old or the new one *)
LEMMA SavingHasOne ==
  ASSUME IInv, Saving
  PROVE  /\ part[ed.mtd].crc = TRUE /\ Current \in {part[ed.mtd].data, ed.data}
         /\ Current # NULL
<1>1. /\ part \in [0 .. 1 -> Part] /\ ed.mtd \in {0, 1} /\ part[ed.mtd].crc = TRUE
      /\ part[ed.mtd].data \in Envs /\ ed.data \in Envs
  BY DEF IInv, TypeOK, SetenvInv, Part
<1>2. Current \in {part[ed.mtd].data, ed.data}
  <2>2. CASE wpc = "erase"
    BY <1>1, <2>2 DEF IInv, SetenvInv
  <2>3. CASE wpc = "write"
    BY <1>1, <2>3, OnlyGood DEF Current, IInv, SetenvInv
  <2>4. CASE wpc = "flag"
    <3>1. part[Target(ed.mtd)].data = ed.data
      BY <2>4 DEF IInv, SetenvInv, Good
    <3>2. part[0] \in Part /\ part[1] \in Part /\ (part[0].crc = TRUE \/ part[1].crc = TRUE)
      BY <1>1
    <3>3. Current \in {part[0].data, part[1].data}
      BY <3>2, EnvInType DEF Current
    <3> QED BY <1>1, <3>1, <3>3 DEF Target
  <2> QED BY <2>2, <2>3, <2>4 DEF Saving
<1> QED BY <1>1, <1>2, EnvAssumption

(* An MTD call for the first partition leaves the second as it is, but for   *)
(* its flag                                                                  *)
LEMMA InterruptedFirst ==
  ASSUME IInv, Saving, ed.mtd = 1, Interrupted \/ UNCHANGED part
  PROVE  part'[1].crc = part[1].crc
<1>1. part \in [0 .. 1 -> Part] /\ Target(ed.mtd) = 0
  BY DEF IInv, TypeOK, Target
<1>2. \A f : [part[1] EXCEPT !.flag = f].crc = part[1].crc
  BY <1>1 DEF Part
<1>3. CASE wpc = "flag" /\ Interrupted
  <2>1. \E f : part' = [part EXCEPT ![1] = [part[1] EXCEPT !.flag = f]]
    BY <1>3 DEF Interrupted
  <2> QED BY <1>1, <1>2, <2>1
<1>4. CASE wpc # "flag" /\ Interrupted
  BY <1>1, <1>4 DEF Interrupted
<1>5. CASE UNCHANGED part
  BY <1>5
<1> QED BY <1>3, <1>4, <1>5

-----------------------------------------------------------------------------
(* One lemma per action, or group of actions of one shape *)

(* Steps that give the setenv up leave nothing it must remember *)
LEMMA StepReturn ==
  ASSUME IInv, SetenvReadFails \/ SaveFails \/ Crash
  PROVE  IInv'
<1>1. part' \in [0 .. 1 -> Part]
  <2>1. CASE SetenvReadFails
    BY <2>1 DEF SetenvReadFails, IInv, TypeOK
  <2>2. CASE SaveFails \/ Crash
    BY <2>2, InterruptedType DEF SaveFails, Crash
  <2> QED BY <2>1, <2>2
<1>2. SetenvReturn
  BY DEF SetenvReadFails, SaveFails, Crash
<1>3. /\ rpc' \in {"idle", "second", "got"} /\ rfirst' \in Part
      /\ got' \in Envs \cup {NULL}
      /\ saves' \in 0 .. 2 /\ rseen' \subseteq Envs \cup {NULL}
      /\ GetEnvInv'
  <2>0. wpc' = "idle" /\ ~Saving'
    BY <1>2 DEF SetenvReturn, Saving
  <2>1. CASE SetenvReadFails
    <3>1. Watch /\ part' = part /\ Current' = Current /\ wpc # "idle"
      BY <2>1 DEF SetenvReadFails, Current
    <3> QED BY <2>0, <3>1, <1>1, WatchInv, WatchTypes
  <2>3. CASE SaveFails
    <3>1. Watch /\ Saving /\ wpc # "idle" /\ (Interrupted \/ UNCHANGED part)
      BY <2>3 DEF SaveFails, Saving
    <3> QED BY <2>0, <3>1, <1>1, WatchInv, WatchTypes, InterruptedFirst, SavingHasOne
  <2>2. CASE Crash
    <3>1. Bad("erased") \in Part
      BY BadType DEF Flags
    <3> QED BY <2>2, <3>1 DEF Crash, GetEnvInv
  <2> QED BY <2>1, <2>2, <2>3
<1> QED BY <1>1, <1>2, <1>3, ReturnInv DEF IInv, TypeOK

LEMMA StepSetenvStart ==
  ASSUME IInv, NEW n \in Names, NEW v \in Vals \cup {NULL}, SetenvStart(n, v)
  PROVE  IInv'
<1>1. part' \in [0 .. 1 -> Part] /\ part'[0] \in Part
  BY DEF SetenvStart, IInv, TypeOK
<1>2. SetenvInv'
  BY DEF SetenvStart, SetenvInv, Saving
<1>3. GetEnvInv'
  <2>1. /\ wpc = "idle" /\ wpc' = "second" /\ wfirst' = part[0] /\ part' = part
        /\ Current' = Current /\ UNCHANGED <<rpc, rfirst, got>> /\ ~Saving'
    BY DEF SetenvStart, Watch, Current, Saving
  <2>2. /\ saves \in 0 .. 2 /\ (saves' <= 1 => saves <= 1)
        /\ rpc = "second" /\ saves' <= 1 => saves = 0 /\ saves' = 1
    BY DEF SetenvStart, Watch, IInv, TypeOK
  <2>3. ASSUME rpc = "second", saves' <= 1, Current # NULL, rfirst.crc = FALSE
        PROVE  part[1].crc = TRUE /\ part[0].crc = FALSE
    <3>1. saves = 0 /\ saves <= 1
      BY <2>2, <2>3
    <3> QED BY <2>3, <3>1, Zenon DEF IInv, GetEnvInv
  <2>4. rpc = "got" /\ saves' <= 1 /\ Current # NULL => got # NULL
    BY <2>2, Zenon DEF IInv, GetEnvInv
  <2>5. rpc = "second" /\ saves' <= 1 => saves' # 0
    BY <2>2
  <2> QED BY <2>1, <2>3, <2>4, <2>5 DEF GetEnvInv
<1> QED BY <1>1, <1>2, <1>3, WatchTypes DEF SetenvStart, IInv, TypeOK

(* The environment that a setenv starts from is the current one *)
LEMMA ReadCurrent ==
  ASSUME IInv, SetenvRead
  PROVE  /\ ed'.mtd \in {0, 1} /\ part[ed'.mtd].crc = TRUE /\ Current = part[ed'.mtd].data
         /\ Current \in Envs
         /\ wfirst.crc = FALSE => ed'.mtd = 1
         /\ \E v \in Vals \cup {NULL} : ed' = [mtd |-> ed'.mtd,
                                              data |-> [Current EXCEPT ![wname] = v]]
<1> DEFINE m == Pick(part[0], part[1])
<1>1. part[0] \in Part /\ part[1] \in Part /\ wfirst = part[0] /\ wval \in Vals \cup {NULL}
  BY DEF IInv, TypeOK, SetenvInv, SetenvRead
<1>2. m \in {0, 1}
  BY <1>1, PickOnly DEF SetenvRead
<1>3. part[m].crc = TRUE /\ Current = part[m].data /\ Current \in Envs
  <2>1. part[0].data \in Envs /\ part[1].data \in Envs
    BY <1>1, EnvInType
  <2>2. CASE m = 0
    <3>1. part[0].crc = TRUE /\ Current = part[0].data
      BY <1>1, <2>2, PickOnly DEF Current
    <3> QED BY <2>1, <2>2, <3>1
  <2>3. CASE m = 1
    <3>1. part[1].crc = TRUE /\ Current = part[1].data
      BY <1>1, <2>3, PickOnly DEF Current
    <3> QED BY <2>1, <2>3, <3>1
  <2> QED BY <1>2, <2>2, <2>3
<1>4. PICK v \in Vals \cup {NULL} : ed' = [mtd |-> m, data |-> [Current EXCEPT ![wname] = v]]
  BY <1>1 DEF SetenvRead, Current
<1> HIDE DEF m
<1>5. ed'.mtd = m
  BY <1>4
<1>6. wfirst.crc = FALSE => m = 1
  BY <1>1, <1>2, PickOnly DEF m
<1> QED BY <1>2, <1>3, <1>4, <1>5, <1>6

LEMMA StepSetenvRead ==
  ASSUME IInv, SetenvRead
  PROVE  IInv'
<1>1. part' = part /\ wpc' = "erase" /\ Watch
      /\ wfirst' = wfirst /\ wname' = wname /\ wval' = wval
  BY DEF SetenvRead
<1>2. wname \in Names
  BY DEF IInv, SetenvInv, SetenvRead
<1>3. \A v \in Vals \cup {NULL} : [Current EXCEPT ![wname] = v] \in Envs
  BY <1>2, ReadCurrent DEF Envs
<1>4. ed' \in [mtd : -1 .. 1, data : Envs]
  BY <1>3, ReadCurrent
<1>5. Current' = Current
  BY <1>1 DEF Current
<1>6. SetenvInv'
  BY <1>1, <1>5, ReadCurrent DEF SetenvInv, Saving
<1>7. GetEnvInv'
  BY <1>1, <1>5, ReadCurrent, WatchInv DEF SetenvRead
<1> QED BY <1>1, <1>4, <1>6, <1>7, WatchTypes DEF IInv, TypeOK

LEMMA StepSaveErase ==
  ASSUME IInv, SaveErase
  PROVE  IInv' /\ Current' = Current /\ Current = part[ed.mtd].data
<1>1. /\ part \in [0 .. 1 -> Part] /\ ed.mtd \in {0, 1} /\ part[ed.mtd].crc = TRUE
      /\ Current = part[ed.mtd].data /\ ed' = ed /\ wpc' = "write"
  BY DEF IInv, TypeOK, SetenvInv, SaveErase, Saving
<1>2. Target(ed.mtd) \in {0, 1} /\ Target(ed.mtd) # ed.mtd
  BY <1>1, TargetType
<1>3. Bad("erased") \in Part /\ Bad("erased").crc = FALSE
  BY BadType DEF Flags, Bad
<1>4. /\ part' \in [0 .. 1 -> Part] /\ part'[ed.mtd] = part[ed.mtd]
      /\ part'[Target(ed.mtd)].crc = FALSE
  BY <1>1, <1>2, <1>3 DEF SaveErase
<1>5. Current' = part[ed.mtd].data
  BY <1>1, <1>4, OnlyGood DEF Current
<1>6. SetenvInv'
  BY <1>1, <1>4 DEF SetenvInv, Saving
<1>7. GetEnvInv'
  <2>1. Watch /\ Saving /\ wpc # "idle" /\ (ed.mtd = 1 => part'[1].crc = part[1].crc)
    BY <1>4 DEF SaveErase, Saving
  <2> QED BY <1>1, <2>1, WatchInv, SavingHasOne
<1> QED BY <1>1, <1>4, <1>5, <1>6, <1>7, WatchTypes DEF IInv, TypeOK, SaveErase

LEMMA StepSaveWrite ==
  ASSUME IInv, SaveWrite
  PROVE  IInv' /\ Current' \in {Current, ed.data} /\ ed' = ed
<1>1. /\ part \in [0 .. 1 -> Part] /\ ed.mtd \in {0, 1} /\ part[ed.mtd].crc = TRUE
      /\ part[Target(ed.mtd)].crc = FALSE /\ ed' = ed /\ wpc' = "flag" /\ ed.data \in Envs
  BY DEF IInv, TypeOK, SetenvInv, SaveWrite, Saving
<1>2. Target(ed.mtd) \in {0, 1} /\ Target(ed.mtd) # ed.mtd
  BY <1>1, TargetType
<1>3. Good("active", ed.data) \in Part /\ Good("active", ed.data).data = ed.data
      /\ Good("active", ed.data).crc = TRUE
  BY <1>1, GoodType DEF Flags, Good
<1>4. /\ part' \in [0 .. 1 -> Part] /\ part'[ed.mtd] = part[ed.mtd]
      /\ part'[Target(ed.mtd)] = Good("active", ed.data)
  BY <1>1, <1>2, <1>3 DEF SaveWrite
<1>5. Current = part[ed.mtd].data
  BY <1>1, OnlyGood DEF Current
<1>6. Current' \in {part[ed.mtd].data, ed.data}
  <2>1. part'[0] \in Part /\ part'[1] \in Part
    BY <1>4
  <2>2. part'[0].crc = TRUE \/ part'[1].crc = TRUE
    BY <1>1, <1>4
  <2>3. Current' \in {part'[0].data, part'[1].data}
    BY <2>1, <2>2, EnvInType DEF Current
  <2>4. {part'[0].data, part'[1].data} = {part[ed.mtd].data, ed.data}
    BY <1>1, <1>2, <1>3, <1>4 DEF Target
  <2> QED BY <2>3, <2>4
<1>7. SetenvInv'
  BY <1>1, <1>4 DEF SetenvInv, Saving
<1>8. GetEnvInv'
  <2>1. Watch /\ Saving /\ wpc # "idle" /\ (ed.mtd = 1 => part'[1].crc = part[1].crc)
    BY <1>4 DEF SaveWrite, Saving
  <2> QED BY <1>1, <2>1, WatchInv, SavingHasOne
<1> QED BY <1>1, <1>4, <1>5, <1>6, <1>7, <1>8, WatchTypes DEF IInv, TypeOK, SaveWrite

(* While the old partition waits for its flag to be written: if the new      *)
(* environment is in effect, no flag write, whole or torn, takes it back     *)
LEMMA FlagKeeps ==
  ASSUME IInv, wpc = "flag",
         \/ part' = [part EXCEPT ![ed.mtd].flag = "obsolete"]
         \/ part' = [part EXCEPT ![ed.mtd].flag = "torn"] /\ part[ed.mtd].flag \in {"erased", "torn"}
         \/ part' = part
  PROVE  /\ Current' \in {Current, ed.data}
         /\ part'[ed.mtd].flag = "obsolete" => Current' = ed.data
<1> DEFINE old == part[ed.mtd]
           new == Good("active", ed.data)
<1>1. /\ part \in [0 .. 1 -> Part] /\ ed.mtd \in {0, 1} /\ old.crc = TRUE
      /\ part[Target(ed.mtd)] = new /\ ed.data \in Envs /\ old \in Part
  BY DEF IInv, TypeOK, SetenvInv, Saving
<1>2. new.crc = TRUE /\ new.flag = "active" /\ new.data = ed.data /\ new \in Part
  BY <1>1, GoodType DEF Good, Flags
<1> HIDE DEF new
<1>3. /\ part'[ed.mtd].crc = TRUE /\ part'[ed.mtd].data = old.data
      /\ \/ part'[ed.mtd].flag = "obsolete"
         \/ part'[ed.mtd].flag = "torn" /\ old.flag \in {"erased", "torn"}
         \/ part'[ed.mtd].flag = old.flag
      /\ part'[Target(ed.mtd)] = new
  <2>1. Target(ed.mtd) \in {0, 1} /\ Target(ed.mtd) # ed.mtd
    BY <1>1, TargetType
  <2>2. \A f : /\ [old EXCEPT !.flag = f].crc = old.crc
               /\ [old EXCEPT !.flag = f].data = old.data
               /\ [old EXCEPT !.flag = f].flag = f
    BY <1>1 DEF Part
  <2>3. \/ part'[ed.mtd] = [old EXCEPT !.flag = "obsolete"]
        \/ part'[ed.mtd] = [old EXCEPT !.flag = "torn"] /\ old.flag \in {"erased", "torn"}
        \/ part'[ed.mtd] = old
    BY <1>1
  <2>4. part'[Target(ed.mtd)] = new
    BY <1>1, <2>1
  <2> HIDE DEF old
  <2>5. CASE part'[ed.mtd] = [old EXCEPT !.flag = "obsolete"]
    BY <1>1, <2>2, <2>4, <2>5
  <2>6. CASE part'[ed.mtd] = [old EXCEPT !.flag = "torn"] /\ old.flag \in {"erased", "torn"}
    BY <1>1, <2>2, <2>4, <2>6
  <2>7. CASE part'[ed.mtd] = old
    BY <1>1, <2>4, <2>7
  <2> QED BY <2>3, <2>5, <2>6, <2>7
<1>4. CASE ed.mtd = 0
  <2>1. part[0] = old /\ part[1] = new /\ part'[1] = new
    BY <1>1, <1>3, <1>4 DEF Target
  <2>2. Current = IF SecondIsActive(old.flag, "active") THEN ed.data ELSE old.data
    BY <1>1, <1>2, <2>1 DEF Current, EnvIn, Pick
  <2>3. Current' = IF SecondIsActive(part'[0].flag, "active") THEN ed.data ELSE old.data
    BY <1>2, <1>3, <1>4, <2>1 DEF Current, EnvIn, Pick
  <2> QED BY <1>3, <1>4, <2>2, <2>3 DEF SecondIsActive
<1>5. CASE ed.mtd = 1
  <2>1. part[0] = new /\ part[1] = old /\ part'[0] = new
    BY <1>1, <1>3, <1>5 DEF Target
  <2>2. Current = IF SecondIsActive("active", old.flag) THEN old.data ELSE ed.data
    BY <1>1, <1>2, <2>1 DEF Current, EnvIn, Pick
  <2>3. Current' = IF SecondIsActive("active", part'[1].flag) THEN old.data ELSE ed.data
    BY <1>2, <1>3, <1>5, <2>1 DEF Current, EnvIn, Pick
  <2> QED BY <1>3, <1>5, <2>2, <2>3 DEF SecondIsActive
<1> QED BY <1>1, <1>4, <1>5

(* A call that goes wrong leaves the old environment or the new one, and the *)
(* new one if it was there already                                           *)
LEMMA InterruptedKeeps ==
  ASSUME IInv, Saving, Interrupted \/ UNCHANGED part
  PROVE  Current' \in {Current, ed.data}
<1>1. /\ part \in [0 .. 1 -> Part] /\ part' \in [0 .. 1 -> Part]
      /\ ed.mtd \in {0, 1} /\ part[ed.mtd].crc = TRUE /\ ed.data \in Envs
  BY InterruptedType DEF IInv, TypeOK, SetenvInv
<1>2. Target(ed.mtd) \in {0, 1} /\ Target(ed.mtd) # ed.mtd
  BY <1>1, TargetType
<1>3. CASE UNCHANGED part
  BY <1>3 DEF Current
<1>4. CASE wpc = "erase" /\ Interrupted
  <2>1. \A f : Bad(f).crc = FALSE
    BY DEF Bad
  <2>2. part'[ed.mtd] = part[ed.mtd] /\ part'[Target(ed.mtd)].crc = FALSE
    BY <1>1, <1>2, <1>4, <2>1 DEF Interrupted
  <2>3. Current' = part[ed.mtd].data
    BY <1>1, <2>2, OnlyGood DEF Current
  <2> QED BY <1>4, <2>3 DEF IInv, SetenvInv
<1>5. CASE wpc = "write" /\ Interrupted
  <2>1. (\A f : Bad(f).crc = FALSE) /\ Good("active", ed.data).data = ed.data
    BY DEF Bad, Good
  <2>2. /\ part'[ed.mtd] = part[ed.mtd]
        /\ \/ part'[Target(ed.mtd)].crc = FALSE
           \/ part'[Target(ed.mtd)].data = ed.data
    BY <1>1, <1>2, <1>5, <2>1 DEF Interrupted
  <2>3. Current = part[ed.mtd].data
    BY <1>1, <1>5, OnlyGood DEF Current, IInv, SetenvInv
  <2>4. CASE part'[Target(ed.mtd)].crc = FALSE
    BY <1>1, <2>2, <2>3, <2>4, OnlyGood DEF Current
  <2>5. CASE part'[Target(ed.mtd)].data = ed.data
    <3>1. part'[0] \in Part /\ part'[1] \in Part
      BY <1>1
    <3>2. part'[0].crc = TRUE \/ part'[1].crc = TRUE
      BY <1>1, <2>2
    <3>3. Current' \in {part'[0].data, part'[1].data}
      BY <3>1, <3>2, EnvInType DEF Current
    <3>4. {part'[0].data, part'[1].data} = {part[ed.mtd].data, ed.data}
      BY <1>1, <2>2, <2>5 DEF Target
    <3> QED BY <3>3, <3>4, <2>3
  <2> QED BY <2>2, <2>4, <2>5
<1>6. CASE wpc = "flag" /\ Interrupted
  BY <1>6, FlagKeeps DEF Interrupted
<1> QED BY <1>3, <1>4, <1>5, <1>6 DEF Interrupted

LEMMA StepSaveFlag ==
  ASSUME IInv, SaveFlag
  PROVE  IInv' /\ Current' = ed.data
<1>1. /\ part \in [0 .. 1 -> Part] /\ ed.mtd \in {0, 1} /\ part[ed.mtd] \in Part
  BY DEF IInv, TypeOK, SetenvInv, SaveFlag, Saving
<1>2. /\ [part[ed.mtd] EXCEPT !.flag = "obsolete"] \in Part
      /\ [part[ed.mtd] EXCEPT !.flag = "obsolete"].flag = "obsolete"
  BY <1>1 DEF Part, Flags
<1>3. part' \in [0 .. 1 -> Part] /\ part'[ed.mtd].flag = "obsolete"
  BY <1>1, <1>2 DEF SaveFlag
<1>4. Current' = ed.data
  BY <1>3, FlagKeeps DEF SaveFlag
<1>5. GetEnvInv'
  <2>1. [part[ed.mtd] EXCEPT !.flag = "obsolete"].crc = part[ed.mtd].crc
    BY <1>1 DEF Part
  <2>2. /\ Watch /\ Saving /\ wpc # "idle" /\ wpc' = "idle" /\ ~Saving'
        /\ ed.mtd = 1 => part'[1].crc = part[1].crc
    BY <1>1, <2>1 DEF SaveFlag, SetenvReturn, Saving
  <2> QED BY <2>2, WatchInv, SavingHasOne
<1> QED BY <1>3, <1>4, <1>5, WatchTypes, ReturnInv DEF SaveFlag, IInv, TypeOK

LEMMA StepGetEnv ==
  ASSUME IInv, GetEnvStart \/ GetEnvRead \/ GetEnvReturn
  PROVE  IInv' /\ UNCHANGED <<part, wvars>>
<1>1. UNCHANGED <<part, wvars>> /\ Current' = Current
  BY DEF GetEnvStart, GetEnvRead, GetEnvReturn, Current
<1>2. part[0] \in Part /\ part[1] \in Part /\ rfirst \in Part /\ Bad("erased") \in Part
  BY BadType DEF IInv, TypeOK, Flags
<1>3. Current \in Envs \cup {NULL} /\ EnvIn(rfirst, part[1]) \in Envs \cup {NULL}
  BY <1>2, EnvInType DEF Current
<1>4. SetenvInv'
  BY <1>1 DEF IInv, SetenvInv, wvars, Saving
<1>5. /\ rpc' \in {"idle", "second", "got"} /\ rfirst' \in Part
      /\ got' \in Envs \cup {NULL}
      /\ saves' \in 0 .. 2 /\ rseen' \subseteq Envs \cup {NULL}
      /\ GetEnvInv'
  <2>1. CASE GetEnvStart
    <3>1. /\ rpc' = "second" /\ rfirst' = part[0] /\ got' = NULL /\ rseen' = {Current}
          /\ saves' = (IF wpc = "idle" THEN 0 ELSE 1) /\ UNCHANGED <<part, wpc, wfirst, ed>>
      BY <2>1 DEF GetEnvStart, wvars
    <3>2. Current # NULL /\ part[0].crc = FALSE => part[1].crc = TRUE
      BY <1>2, PickOnly DEF Current, EnvIn, Pick
    <3>3. wpc = "second" => wfirst = part[0]
      BY DEF IInv, SetenvInv
    <3>4. Saving /\ part[0].crc = FALSE => ed.mtd = 1
      BY DEF IInv, SetenvInv
    <3>5. GetEnvInv'
      BY <3>1, <3>2, <3>3, <3>4, <1>1 DEF GetEnvInv, Saving
    <3> QED BY <3>1, <3>5, <1>2, <1>3
  <2>2. CASE GetEnvRead
    <3>1. /\ rpc = "second" /\ rpc' = "got" /\ got' = EnvIn(rfirst, part[1])
          /\ UNCHANGED <<saves, rseen>> /\ rfirst' = Bad("erased")
      BY <2>2 DEF GetEnvRead
    <3>2. rfirst.crc = TRUE \/ part[1].crc = TRUE => EnvIn(rfirst, part[1]) # NULL
      <4>1. /\ rfirst.data \in Envs /\ part[1].data \in Envs
            /\ rfirst.crc = TRUE \/ part[1].crc = TRUE =>
                 EnvIn(rfirst, part[1]) \in {rfirst.data, part[1].data}
        BY <1>2, EnvInType
      <4> HIDE DEF EnvIn
      <4> QED BY <4>1, EnvAssumption
    <3>3. rfirst.crc \in BOOLEAN
      BY <1>2 DEF Part
    <3>4. saves <= 1 /\ Current # NULL => got' # NULL
      BY <3>1, <3>2, <3>3 DEF IInv, GetEnvInv
    <3>5. GetEnvInv'
      BY <3>1, <3>4, <1>1 DEF GetEnvInv
    <3> QED BY <3>1, <3>5, <1>2, <1>3 DEF IInv, TypeOK
  <2>3. CASE GetEnvReturn
    BY <2>3, <1>1, <1>2 DEF GetEnvReturn, GetEnvInv, IInv, TypeOK
  <2> QED BY <2>1, <2>2, <2>3
<1> QED BY <1>1, <1>4, <1>5 DEF IInv, TypeOK, wvars

-----------------------------------------------------------------------------
(* The theorems *)

(* Every reachable state, crashes and failures included, satisfies the       *)
(* inductive invariant.                                                      *)
THEOREM Invariant == Spec => []IInv
<1>1. Init => IInv
  BY InitIInv
<1>2. IInv /\ [Next]_vars => IInv'
  <2> SUFFICES ASSUME IInv, [Next]_vars PROVE IInv'
    OBVIOUS
  <2>1. CASE \E n \in Names, v \in Vals \cup {NULL} : SetenvStart(n, v)
    BY <2>1, StepSetenvStart
  <2>2. CASE SetenvRead
    BY <2>2, StepSetenvRead
  <2>3. CASE SetenvReadFails \/ SaveFails \/ Crash
    BY <2>3, StepReturn
  <2>4. CASE SaveErase \/ SaveWrite \/ SaveFlag
    BY <2>4, StepSaveErase, StepSaveWrite, StepSaveFlag
  <2>5. CASE GetEnvStart \/ GetEnvRead \/ GetEnvReturn
    BY <2>5, StepGetEnv
  <2>6. CASE UNCHANGED vars
    BY <2>6 DEF vars, wvars, rvars, IInv, TypeOK, SetenvInv, GetEnvInv, Saving, Current
  <2> QED BY <2>1, <2>2, <2>3, <2>4, <2>5, <2>6 DEF Next
<1> QED BY <1>1, <1>2, PTL DEF Spec

(* The partitions, the locals of setenv and of get_env keep their types. *)
THEOREM TypeCorrect == Spec => []TypeOK
<1>1. IInv => TypeOK
  BY DEF IInv
<1> QED BY <1>1, Invariant, PTL

(* At every step of env_save the old environment is whole in the flash, and  *)
(* a reader would find the old one or the new one.                           *)
THEOREM SourceIntactHolds == Spec => []SourceIntact
<1>1. IInv => SourceIntact
  BY SavingHasOne DEF SourceIntact
<1> QED BY <1>1, Invariant, PTL

(* A save whose MTD calls all succeeded, that for the flag included, is in   *)
(* effect, from any pair of flags.                                           *)
THEOREM SavedIsCurrentHolds == Spec => SavedIsCurrent
<1>1. IInv /\ [Next]_vars => [SaveFlag => Current' = ed.data]_vars
  BY StepSaveFlag
<1> QED BY <1>1, Invariant, PTL DEF Spec, SavedIsCurrent

(* One setenv at a time, failing or not, cannot make env_read find no good   *)
(* partition although there is one.                                          *)
THEOREM ReadFindsOneHolds == Spec => []ReadFindsOne
<1>1. IInv => ReadFindsOne
  BY DEF IInv, GetEnvInv, ReadFindsOne
<1> QED BY <1>1, Invariant, PTL

(* The dual partitions implement one environment that a setenv changes as a  *)
(* whole or not at all: env_save's failures and the power cuts at any of its *)
(* steps are covered, and so is every later boot.                            *)
THEOREM Refinement == Spec => IsStore
<1> DEFINE Job == IF Saving THEN ed.data ELSE NULL
<1>1. Init => Store!Init
  <2> SUFFICES ASSUME Init PROVE Store!Init
    OBVIOUS
  <2>1. part[0] \in Part /\ part[1] \in Part
    BY InitIInv DEF IInv, TypeOK
  <2>2. Current \in Envs \cup {NULL}
    BY <2>1, EnvInType DEF Current
  <2> QED BY <2>2 DEF Init, Store!Init, Store!Envs, Envs, Saving
<1>2. IInv /\ [Next]_vars => [Store!Next]_<<Current, Job>>
  <2> SUFFICES ASSUME IInv, [Next]_vars
               PROVE  Store!Next \/ UNCHANGED <<Current, Job>>
    OBVIOUS
  <2>1. Saving => ed.data \in Envs /\ ed.data # NULL
    BY EnvAssumption, NullAssumption DEF IInv, TypeOK
  <2>2. ASSUME NEW n \in Names, NEW v \in Vals \cup {NULL}, SetenvStart(n, v)
        PROVE  UNCHANGED <<Current, Job>>
    BY <2>2 DEF SetenvStart, Current, Saving
  <2>3. CASE SetenvRead
    <3>1. Current \in Envs /\ Current # NULL /\ Current' = Current
      BY <2>3, ReadCurrent, EnvAssumption, NullAssumption DEF SetenvRead, Current
    <3>2. ~Saving /\ Saving' /\ wname \in Names
      BY <2>3 DEF SetenvRead, Saving, IInv, SetenvInv
    <3>3. PICK v \in Vals \cup {NULL} : ed'.data = [Current EXCEPT ![wname] = v]
      BY <2>3, ReadCurrent
    <3>4. Job = NULL /\ Job' = [Current EXCEPT ![wname] = v]
      BY <3>2, <3>3
    <3>5. Store!Begin(wname, v)
      BY <3>1, <3>4 DEF Store!Begin
    <3> QED BY <3>2, <3>5 DEF Store!Next
  <2>4. CASE SetenvReadFails
    BY <2>4 DEF SetenvReadFails, SetenvReturn, Current, Saving
  <2>5. CASE SaveErase
    <3>1. Saving /\ Saving' /\ ed' = ed
      BY <2>5 DEF SaveErase, Saving
    <3> QED BY <2>5, <3>1, StepSaveErase
  <2>6. CASE SaveWrite
    <3>1. Saving /\ Saving' /\ ed' = ed /\ Current' \in {Current, ed.data}
      BY <2>6, StepSaveWrite DEF SaveWrite, Saving
    <3>2. CASE Current' = Current
      BY <3>1, <3>2
    <3>3. CASE Current' = ed.data
      BY <3>1, <3>3, <2>1 DEF Store!Next, Store!TakeEffect
    <3> QED BY <3>1, <3>2, <3>3
  <2>7. CASE Saving /\ (SaveFlag \/ SaveFails \/ Crash)
    <3>1. Current' \in {Current, ed.data}
      BY <2>7, StepSaveFlag, InterruptedKeeps DEF SaveFails, Crash
    <3>2. ~Saving'
      BY <2>7 DEF SaveFlag, SaveFails, Crash, SetenvReturn, Saving
    <3> QED BY <2>7, <3>1, <3>2, <2>1 DEF Store!Next, Store!End
  <2>8. CASE ~Saving /\ Crash
    BY <2>8 DEF Crash, Interrupted, SetenvReturn, Saving, Current
  <2>9. CASE GetEnvStart \/ GetEnvRead \/ GetEnvReturn
    BY <2>9, StepGetEnv DEF Current, Saving, wvars
  <2>10. CASE UNCHANGED vars
    BY <2>10 DEF vars, wvars, Current, Saving
  <2>11. SaveFlag \/ SaveFails => Saving
    BY DEF SaveFlag, SaveFails, Saving
  <2> QED BY <2>2, <2>3, <2>4, <2>5, <2>6, <2>7, <2>8, <2>9, <2>10, <2>11 DEF Next
<1> QED BY <1>1, <1>2, Invariant, PTL DEF Spec, IsStore, Store!Spec

-----------------------------------------------------------------------------
(* NvEnvBuf. First the least element, and what the definitions of its        *)
(* searches make of a block that is a list.                                  *)

(* The least element *)
LEMMA MinIs ==
  ASSUME NEW S \in SUBSET Int, NEW m \in S, \A y \in S : m <= y
  PROVE  Min(S) = m
<1>1. \A x \in S : (\A y \in S : x <= y) => x = m
  OBVIOUS
<1> QED BY <1>1 DEF Min

(* A set of natural numbers has one *)
LEMMA MinExists ==
  ASSUME NEW S \in SUBSET Nat, S # {}
  PROVE  Min(S) \in S /\ \A y \in S : Min(S) <= y
<1> DEFINE T == {0 .. x - 1 : x \in S}
<1>1. T \subseteq FiniteSubsetsOf(Int) /\ T # {}
  <2>1. ASSUME NEW x \in S PROVE 0 .. x - 1 \in FiniteSubsetsOf(Int)
    BY FS_Interval DEF FiniteSubsetsOf
  <2> QED BY <2>1
<1>2. PICK t \in T : \A u \in T : <<u, t>> \notin StrictSubsetOrdering(Int)
  <2> HIDE DEF T
  <2> QED BY <1>1, FS_StrictSubsetOrderingWellFounded, WFMin, Zenon
<1>3. PICK m \in S : t = 0 .. m - 1
  OBVIOUS
<1>4. ASSUME NEW y \in S, ~(m <= y) PROVE FALSE
  <2>1. 0 .. y - 1 \in T /\ 0 .. y - 1 \subseteq 0 .. m - 1
    BY <1>4
  <2>2. y \in 0 .. m - 1 /\ y \notin 0 .. y - 1
    BY <1>4
  <2>3. <<0 .. y - 1, t>> \in StrictSubsetOrdering(Int)
    BY <1>3, <2>1, <2>2 DEF StrictSubsetOrdering
  <2> QED BY <1>2, <2>1, <2>3
<1>5. \A y \in S : m <= y
  BY <1>4
<1>6. Min(S) = m
  BY <1>5, MinIs
<1> QED BY <1>5, <1>6

-----------------------------------------------------------------------------
(* The block as a list of strings: L is where it ends, at[n] where the       *)
(* string with name n begins, env what it stands for.                        *)
Ended(b, L) ==
  /\ L \in 0 .. Size - 2 /\ b[L] = NUL /\ b[L + 1] = NUL
  /\ b[0] = NUL => L = 0
  /\ \A x \in 0 .. L - 1 : b[x] = NUL => b[x + 1] # NUL

Begins(b, L, j) == j \in 0 .. L - 1 /\ b[j] # NUL /\ (j = 0 \/ b[j - 1] = NUL)

NulAt(j, n, v) == j + Len(n) + 1 + Len(v)

Holds(b, j, n, v) ==
  /\ \A i \in 1 .. Len(n) : b[j + i - 1] = n[i]
  /\ b[j + Len(n)] = EQ
  /\ \A i \in 1 .. Len(v) : b[j + Len(n) + i] = v[i]
  /\ b[NulAt(j, n, v)] = NUL

NamesIn(env) == {n \in Names : env[n] # NULL}

Layout(b, L, at, env) ==
  /\ Ended(b, L)
  /\ at \in [Names -> Int]
  /\ \A n \in NamesIn(env) : /\ Begins(b, L, at[n]) /\ Holds(b, at[n], n, env[n])
                             /\ NulAt(at[n], n, env[n]) <= L
  /\ \A j \in Int : Begins(b, L, j) => \E n \in NamesIn(env) : at[n] = j

Block == [Cells -> Int]

LEMMA Sizes == /\ Size \in Int /\ Size > 1 /\ \A x \in 0 .. Size : x \in Cells
               /\ \A x \in Cells : x \in Int /\ 0 <= x
BY BufAssumption DEF Cells

LEMMA NameIs ==
  ASSUME NEW n \in Names
  PROVE  /\ n \in Seq(Int) /\ Len(n) \in Nat /\ Len(n) >= 1
         /\ \A i \in 1 .. Len(n) : n[i] \in Int /\ n[i] # NUL /\ n[i] # EQ /\ n[i] # OUT
BY BufAssumption

LEMMA ValueIs ==
  ASSUME NEW v \in Vals
  PROVE  /\ v \in Seq(Int) /\ Len(v) \in Nat
         /\ \A i \in 1 .. Len(v) : v[i] \in Int /\ v[i] # NUL /\ v[i] # OUT
BY BufAssumption

LEMMA NulAtIs ==
  ASSUME NEW j \in Int, NEW n \in Names, NEW v \in Vals
  PROVE  /\ NulAt(j, n, v) \in Int /\ NulAt(0, n, v) \in Int
         /\ NulAt(j, n, v) = j + NulAt(0, n, v)
         /\ j < NulAt(j, n, v) /\ 0 < NulAt(0, n, v)
BY NameIs, ValueIs DEF NulAt

(* The first two NULs are where the list ends *)
LEMMA ListEndIs ==
  ASSUME NEW b \in Block, NEW L \in Int, Ended(b, L)
  PROVE  ListEnd(b) = L
<1> DEFINE S == {Size} \cup {x \in 0 .. Size - 2 : b[x] = NUL /\ b[x + 1] = NUL}
<1>1. S \in SUBSET Int /\ L \in S
  BY Sizes DEF Ended
<1>2. ASSUME NEW y \in S PROVE L <= y
  BY <1>2, Sizes DEF Ended
<1>3. Min(S) = L
  <2> HIDE DEF S
  <2> QED BY <1>1, <1>2, MinIs
<1> QED BY <1>3 DEF ListEnd

(* The search comes to the beginnings of the strings and to nothing else *)
LEMMA StartsAre ==
  ASSUME NEW b \in Block, NEW L \in Int, Ended(b, L), NEW j \in Int
  PROVE  j \in Starts(b) <=> Begins(b, L, j)
<1>1. ListEnd(b) = L
  BY ListEndIs
<1>2. L \in 0 .. Size - 2 /\ Size \in Int /\ b[L] = NUL /\ (b[0] = NUL => L = 0)
  BY Sizes DEF Ended
<1>3. ASSUME j \in Starts(b) PROVE Begins(b, L, j)
  <2>1. j \in 0 .. Size - 1 /\ b[j] # NUL /\ (j = 0 \/ b[j - 1] = NUL) /\ j <= L
    BY <1>1, <1>3 DEF Starts
  <2>2. j # L
    BY <1>2, <2>1
  <2> QED BY <1>2, <2>1, <2>2 DEF Begins
<1>4. ASSUME Begins(b, L, j) PROVE j \in Starts(b)
  BY <1>1, <1>2, <1>4 DEF Begins, Starts
<1> QED BY <1>3, <1>4

(* A string ends at its first NUL *)
LEMMA EndOfIs ==
  ASSUME NEW b \in Block, NEW j \in Int, NEW e \in Int, 0 <= j, j <= e, e <= Size - 1,
         b[e] = NUL, \A x \in j .. e - 1 : b[x] # NUL
  PROVE  EndOf(b, j) = e
<1> DEFINE S == {Size} \cup {x \in j .. Size - 1 : b[x] = NUL}
<1>1. S \in SUBSET Int /\ e \in S
  BY Sizes
<1>2. ASSUME NEW y \in S PROVE e <= y
  BY <1>2, Sizes
<1>3. Min(S) = e
  <2> HIDE DEF S
  <2> QED BY <1>1, <1>2, MinIs
<1> QED BY <1>3 DEF EndOf

(* The string "n=v" at j: it has no NUL before its end, and no "=" before    *)
(* the first one.                                                            *)
LEMMA StringIs ==
  ASSUME NEW b \in Block, NEW j \in Int, 0 <= j, NEW n \in Names, NEW v \in Vals,
         Holds(b, j, n, v), NulAt(j, n, v) <= Size - 1
  PROVE  /\ NulAt(j, n, v) \in Int /\ j + Len(n) < NulAt(j, n, v)
         /\ \A x \in j .. NulAt(j, n, v) - 1 : b[x] # NUL
         /\ \A x \in j .. j + Len(n) - 1 : b[x] # EQ
         /\ EndOf(b, j) = NulAt(j, n, v)
         /\ EndOf(b, j + Len(n) + 1) = NulAt(j, n, v)
<1> DEFINE k == Len(n)
           l == Len(v)
           e == j + k + 1 + l
<1>1. k \in Nat /\ k >= 1 /\ l \in Nat /\ e \in Int /\ e = NulAt(j, n, v)
  BY NameIs, ValueIs DEF NulAt
<1>2. ASSUME NEW x \in j .. j + k - 1 PROVE b[x] # NUL /\ b[x] # EQ
  <2>1. x - j + 1 \in 1 .. k /\ j + (x - j + 1) - 1 = x
    BY <1>1, <1>2
  <2>2. b[x] = n[x - j + 1]
    BY <2>1 DEF Holds
  <2> QED BY <2>1, <2>2, NameIs
<1>3. ASSUME NEW x \in j + k + 1 .. e - 1 PROVE b[x] # NUL
  <2>1. x - j - k \in 1 .. l /\ j + k + (x - j - k) = x
    BY <1>1, <1>3
  <2>2. b[x] = v[x - j - k]
    BY <2>1 DEF Holds
  <2> QED BY <2>1, <2>2, ValueIs
<1>4. b[j + k] # NUL
  BY DEF Holds, EQ, NUL
<1>5. \A x \in j .. e - 1 : x \in j .. j + k - 1 \/ x = j + k \/ x \in j + k + 1 .. e - 1
  BY <1>1
<1>6. \A x \in j .. e - 1 : b[x] # NUL
  BY <1>2, <1>3, <1>4, <1>5
<1>7. b[e] = NUL /\ e <= Size - 1
  BY <1>1 DEF Holds
<1>8. j <= e /\ j + k + 1 <= e /\ 0 <= j + k + 1 /\ j + k + 1 \in Int /\ j + k < e
  BY <1>1
<1>9. \A x \in j + k + 1 .. e - 1 : b[x] # NUL
  BY <1>3
<1> HIDE DEF e, k
<1>10. EndOf(b, j) = e
  BY <1>1, <1>6, <1>7, <1>8, EndOfIs
<1>11. EndOf(b, j + k + 1) = e
  BY <1>1, <1>7, <1>8, <1>9, EndOfIs
<1> QED BY <1>1, <1>2, <1>6, <1>8, <1>10, <1>11 DEF k

(* strstr and strcmp find the string by its name and by no other *)
LEMMA HasNameIs ==
  ASSUME NEW b \in Block, NEW j \in Int, 0 <= j, NEW n \in Names, NEW v \in Vals,
         Holds(b, j, n, v), NulAt(j, n, v) <= Size - 1, NEW m \in Names
  PROVE  HasName(b, j, m) <=> m = n
<1> DEFINE e == NulAt(j, n, v)
           q == j + Len(n)
           S == {x \in j .. EndOf(b, j) - 1 : b[x] = EQ}
<1>1. /\ e \in Int /\ q < e /\ q \in Int /\ j <= q /\ EndOf(b, j) = e
      /\ \A x \in j .. q - 1 : b[x] # EQ
  BY StringIs, NameIs
<1>2. b[q] = EQ
  BY DEF Holds
<1>3. S \in SUBSET Int /\ q \in S
  BY <1>1, <1>2
<1>4. \A y \in S : q <= y
  BY <1>1
<1>5. Min(S) = q
  <2> HIDE DEF S, q
  <2> QED BY <1>3, <1>4, MinIs
<1>6. EQ \in {b[x] : x \in j .. EndOf(b, j) - 1}
  BY <1>1, <1>2
<1>7. q - j = Len(n)
  BY NameIs
<1>8. HasName(b, j, m) <=> Len(n) = Len(m) /\ \A i \in 1 .. Len(m) : b[j + i - 1] = m[i]
  BY <1>5, <1>6, <1>7 DEF HasName
<1>9. \A i \in 1 .. Len(n) : b[j + i - 1] = n[i]
  BY DEF Holds
<1>10. Len(n) = Len(m) /\ (\A i \in 1 .. Len(m) : b[j + i - 1] = m[i]) <=> m = n
  <2>1. ASSUME Len(n) = Len(m), \A i \in 1 .. Len(m) : b[j + i - 1] = m[i]
        PROVE  m = n
    <3>1. \A i \in 1 .. Len(m) : m[i] = n[i]
      BY <1>9, <2>1
    <3> QED BY <2>1, <3>1, NameIs, SeqEqual
  <2> QED BY <1>9, <2>1
<1> QED BY <1>8, <1>10

(* rtcnvet_get_env reads a list as the function that it stands for *)
LEMMA GetEnvIs ==
  ASSUME NEW b \in Block, NEW L \in Int, NEW at, NEW env \in Envs, Layout(b, L, at, env),
         NEW n \in Names
  PROVE  /\ Found(b, n) = IF n \in NamesIn(env) THEN {at[n]} ELSE {}
         /\ GetEnv(b, n) = env[n]
<1>1. Ended(b, L) /\ L \in Int /\ L <= Size - 2 /\ Size \in Int
  BY Sizes DEF Layout, Ended
<1>2. ASSUME NEW m \in NamesIn(env)
      PROVE  /\ m \in Names /\ env[m] \in Vals /\ at[m] \in Int /\ 0 <= at[m]
             /\ Holds(b, at[m], m, env[m]) /\ NulAt(at[m], m, env[m]) <= Size - 1
             /\ Begins(b, L, at[m])
  <2>1. /\ m \in Names /\ env[m] \in Vals /\ at[m] \in Int
        /\ Begins(b, L, at[m]) /\ Holds(b, at[m], m, env[m]) /\ NulAt(at[m], m, env[m]) <= L
    BY <1>2 DEF Layout, NamesIn, Envs
  <2>2. NulAt(at[m], m, env[m]) \in Int
    BY <2>1, NameIs, ValueIs DEF NulAt
  <2>3. 0 <= at[m]
    BY <1>1, <2>1 DEF Begins
  <2> QED BY <1>1, <2>1, <2>2, <2>3
<1>3. ASSUME NEW j \in Int
      PROVE  j \in Found(b, n) <=> n \in NamesIn(env) /\ j = at[n]
  <2>1. j \in Found(b, n) <=> Begins(b, L, j) /\ HasName(b, j, n)
    BY <1>1, StartsAre DEF Found
  <2>2. ASSUME Begins(b, L, j), HasName(b, j, n)
        PROVE  n \in NamesIn(env) /\ j = at[n]
    <3>1. PICK m \in NamesIn(env) : at[m] = j
      BY <2>2 DEF Layout
    <3>2. n = m
      BY <1>2, <2>2, <3>1, HasNameIs
    <3> QED BY <3>1, <3>2
  <2>3. ASSUME n \in NamesIn(env), j = at[n]
        PROVE  Begins(b, L, j) /\ HasName(b, j, n)
    BY <1>2, <2>3, HasNameIs
  <2> QED BY <2>1, <2>2, <2>3
<1>4. \A j \in Found(b, n) : j \in Int
  BY Sizes DEF Found, Starts
<1>5. Found(b, n) = IF n \in NamesIn(env) THEN {at[n]} ELSE {}
  BY <1>2, <1>3, <1>4
<1>6. CASE n \notin NamesIn(env)
  BY <1>5, <1>6 DEF GetEnv, NamesIn
<1>7. CASE n \in NamesIn(env)
  <2> DEFINE j == at[n]
             v == env[n]
             k == j + Len(n) + 1
  <2>1. Found(b, n) = {j} /\ Found(b, n) # {} /\ j \in Int /\ v \in Vals /\ Holds(b, j, n, v)
    BY <1>2, <1>5, <1>7
  <2>2. Min({j}) = j
    BY <2>1, MinIs
  <2>3. EndOf(b, k) = k + Len(v)
    <3>1. EndOf(b, k) = NulAt(j, n, v)
      BY <1>2, <1>7, StringIs
    <3> QED BY <3>1 DEF NulAt
  <2>4. k \in Int /\ Len(v) \in Nat /\ v \in Seq(Int)
    BY <2>1, NameIs, ValueIs
  <2>5. EndOf(b, k) - k = Len(v)
    BY <2>3, <2>4
  <2>6. \A i \in 1 .. Len(v) : b[k + i - 1] = v[i]
    <3>1. \A i \in 1 .. Len(v) : b[j + Len(n) + i] = v[i]
      BY <2>1 DEF Holds
    <3>2. \A i \in 1 .. Len(v) : k + i - 1 = j + Len(n) + i
      BY <2>1, NameIs
    <3> QED BY <3>1, <3>2
  <2>7. GetEnv(b, n) = [i \in 1 .. EndOf(b, k) - k |-> b[k + i - 1]]
    BY <2>1, <2>2 DEF GetEnv
  <2>8. [i \in 1 .. Len(v) |-> b[k + i - 1]] = [i \in 1 .. Len(v) |-> v[i]]
    BY <2>6
  <2>9. v = [i \in 1 .. Len(v) |-> v[i]]
    BY <2>4
  <2> HIDE DEF j, k, v
  <2>10. GetEnv(b, n) = v
    BY <2>5, <2>7, <2>8, <2>9, Zenon
  <2> QED BY <1>5, <2>10 DEF v
<1> QED BY <1>5, <1>6, <1>7

(* Two strings do not overlap *)
LEMMA StringsApart ==
  ASSUME NEW b \in Block, NEW L \in Int, NEW at, NEW env \in Envs, Layout(b, L, at, env),
         NEW m \in NamesIn(env), NEW n \in NamesIn(env), m # n
  PROVE  NulAt(at[m], m, env[m]) < at[n] \/ NulAt(at[n], n, env[n]) < at[m]
<1>1. ASSUME NEW k \in NamesIn(env)
      PROVE  /\ k \in Names /\ env[k] \in Vals /\ at[k] \in Int /\ 0 <= at[k]
             /\ Holds(b, at[k], k, env[k]) /\ NulAt(at[k], k, env[k]) \in Int
             /\ NulAt(at[k], k, env[k]) <= Size - 1
             /\ \A x \in at[k] .. NulAt(at[k], k, env[k]) - 1 : b[x] # NUL
             /\ at[k] = 0 \/ b[at[k] - 1] = NUL
  <2>1. /\ k \in Names /\ env[k] \in Vals /\ at[k] \in Int
        /\ Begins(b, L, at[k]) /\ Holds(b, at[k], k, env[k]) /\ NulAt(at[k], k, env[k]) <= L
    BY <1>1 DEF Layout, NamesIn, Envs
  <2>2. NulAt(at[k], k, env[k]) \in Int
    BY <2>1, NameIs, ValueIs DEF NulAt
  <2>3. L \in Int /\ L <= Size - 2 /\ Size \in Int
    BY Sizes DEF Layout, Ended
  <2>4. 0 <= at[k] /\ NulAt(at[k], k, env[k]) <= Size - 1
    BY <2>1, <2>2, <2>3 DEF Begins
  <2> QED BY <2>1, <2>2, <2>4, StringIs DEF Begins
<1>2. at[m] # at[n]
  BY <1>1, HasNameIs
<1>3. ASSUME NEW k \in NamesIn(env), NEW l \in NamesIn(env), at[k] < at[l]
      PROVE  NulAt(at[k], k, env[k]) < at[l]
  <2>1. at[l] # 0 /\ at[k] <= at[l] - 1 /\ at[l] - 1 \in Int
    BY <1>1, <1>3
  <2>2. b[at[l] - 1] = NUL
    BY <1>1, <1>3, <2>1
  <2>3. ~(at[l] - 1 <= NulAt(at[k], k, env[k]) - 1)
    BY <1>1, <1>3, <2>1, <2>2
  <2> QED BY <1>1, <1>3, <2>3
<1>4. at[m] < at[n] \/ at[n] < at[m]
  BY <1>1, <1>2
<1> QED BY <1>3, <1>4

(* Bytes that are the same hold the same string *)
LEMMA HoldsKept ==
  ASSUME NEW b \in Block, NEW c \in Block, NEW i \in Int, NEW j \in Int,
         NEW n \in Names, NEW v \in Vals, Holds(b, i, n, v),
         \A x \in 0 .. NulAt(0, n, v) : c[j + x] = b[i + x]
  PROVE  Holds(c, j, n, v)
<1> DEFINE k == Len(n)
           l == Len(v)
<1>1. k \in Nat /\ l \in Nat /\ NulAt(0, n, v) = k + 1 + l
  BY NameIs, ValueIs DEF NulAt
<1> HIDE DEF k, l
<1>2. ASSUME NEW x \in 1 .. k PROVE c[j + x - 1] = n[x]
  <2>1. x - 1 \in 0 .. NulAt(0, n, v) /\ j + x - 1 = j + (x - 1) /\ i + x - 1 = i + (x - 1)
    BY <1>1
  <2>2. b[i + x - 1] = n[x]
    BY DEF Holds, k
  <2> QED BY <2>1, <2>2
<1>3. ASSUME NEW x \in 1 .. l PROVE c[j + k + x] = v[x]
  <2>1. k + x \in 0 .. NulAt(0, n, v) /\ j + k + x = j + (k + x) /\ i + k + x = i + (k + x)
    BY <1>1
  <2>2. b[i + k + x] = v[x]
    BY DEF Holds, k, l
  <2> QED BY <2>1, <2>2
<1>4. c[j + k] = EQ
  <2>1. k \in 0 .. NulAt(0, n, v)
    BY <1>1
  <2> QED BY <2>1 DEF Holds, k
<1>5. c[NulAt(j, n, v)] = NUL
  <2>1. NulAt(0, n, v) \in 0 .. NulAt(0, n, v)
    BY <1>1
  <2>2. NulAt(j, n, v) = j + NulAt(0, n, v) /\ NulAt(i, n, v) = i + NulAt(0, n, v)
    BY <1>1 DEF NulAt, k, l
  <2> QED BY <2>1, <2>2 DEF Holds
<1> QED BY <1>2, <1>3, <1>4, <1>5 DEF Holds, k, l

(* What a string of a list is, for the lemmas that move it *)
LEMMA StringIn ==
  ASSUME NEW b \in Block, NEW L \in Int, NEW at, NEW env \in Envs, Layout(b, L, at, env),
         NEW n \in NamesIn(env)
  PROVE  /\ n \in Names /\ env[n] \in Vals /\ at[n] \in Int /\ 0 <= at[n] /\ at[n] < L
         /\ Begins(b, L, at[n]) /\ Holds(b, at[n], n, env[n])
         /\ NulAt(at[n], n, env[n]) \in Int /\ NulAt(0, n, env[n]) \in Int
         /\ NulAt(at[n], n, env[n]) = at[n] + NulAt(0, n, env[n])
         /\ at[n] < NulAt(at[n], n, env[n]) /\ NulAt(at[n], n, env[n]) <= L
         /\ b[NulAt(at[n], n, env[n])] = NUL
         /\ \A x \in at[n] .. NulAt(at[n], n, env[n]) - 1 : b[x] # NUL
         /\ EndOf(b, at[n]) = NulAt(at[n], n, env[n])
         /\ L \in 0 .. Size - 2 /\ Size \in Int /\ ListEnd(b) = L
<1>1. /\ n \in Names /\ env[n] \in Vals /\ at[n] \in Int
      /\ Begins(b, L, at[n]) /\ Holds(b, at[n], n, env[n]) /\ NulAt(at[n], n, env[n]) <= L
  BY DEF Layout, NamesIn, Envs
<1>2. L \in 0 .. Size - 2 /\ Size \in Int /\ ListEnd(b) = L
  BY Sizes, ListEndIs DEF Layout, Ended
<1>3. 0 <= at[n] /\ at[n] < L
  BY <1>1, <1>2 DEF Begins
<1>4. /\ NulAt(at[n], n, env[n]) \in Int /\ NulAt(0, n, env[n]) \in Int
      /\ NulAt(at[n], n, env[n]) = at[n] + NulAt(0, n, env[n])
      /\ at[n] < NulAt(at[n], n, env[n])
  BY <1>1, NulAtIs
<1>5. NulAt(at[n], n, env[n]) <= Size - 1
  BY <1>1, <1>2, <1>4
<1>6. b[NulAt(at[n], n, env[n])] = NUL
  BY <1>1 DEF Holds
<1>7. /\ \A x \in at[n] .. NulAt(at[n], n, env[n]) - 1 : b[x] # NUL
      /\ EndOf(b, at[n]) = NulAt(at[n], n, env[n])
  BY <1>1, <1>3, <1>5, StringIs
<1> QED BY <1>1, <1>2, <1>3, <1>4, <1>6, <1>7

(* rtcnvet_do_setenv takes the last string out *)
LEMMA RemoveLast ==
  ASSUME NEW b \in Block, NEW L \in Int, NEW at, NEW env \in Envs, Layout(b, L, at, env),
         NEW n \in NamesIn(env), NulAt(at[n], n, env[n]) = L,
         NEW c \in Block, c = [b EXCEPT ![at[n]] = NUL, ![at[n] + 1] = NUL]
  PROVE  \E M \in Int : Layout(c, M, at, [env EXCEPT ![n] = NULL])
<1> DEFINE j == at[n]
           env2 == [env EXCEPT ![n] = NULL]
<1>1. /\ j \in Int /\ 0 <= j /\ j < L /\ Begins(b, L, j)
      /\ L \in 0 .. Size - 2 /\ Size \in Int
      /\ \A x \in j .. L - 1 : b[x] # NUL
  BY StringIn
<1>2. Ended(b, L) /\ at \in [Names -> Int] /\ n \in Names
  BY DEF Layout, NamesIn
<1>3. /\ c[j] = NUL /\ c[j + 1] = NUL
      /\ \A x \in Cells : x # j /\ x # j + 1 => c[x] = b[x]
      /\ j \in Cells /\ j + 1 \in Cells
  BY <1>1, Sizes DEF Block
<1>4. NamesIn(env2) = NamesIn(env) \ {n} /\ \A m \in NamesIn(env2) : env2[m] = env[m]
  BY <1>2 DEF NamesIn, Envs
<1>5. ASSUME NEW m \in NamesIn(env2) PROVE NulAt(at[m], m, env[m]) < j
  <2>1. m \in NamesIn(env) /\ m # n
    BY <1>4
  <2>2. ~(L < at[m])
    BY <1>1, <2>1, StringIn
  <2> QED BY <2>1, <2>2, StringsApart
<1> HIDE DEF env2
<1>6. CASE j = 0
  <2>1. Ended(c, 0)
    BY <1>1, <1>3, <1>6 DEF Ended
  <2>2. NamesIn(env2) = {}
    <3>1. ASSUME NEW m \in NamesIn(env2) PROVE FALSE
      <4>1. m \in NamesIn(env)
        BY <1>4
      <4> QED BY <1>5, <1>6, <4>1, StringIn
    <3> QED BY <3>1
  <2>3. \A i \in Int : ~Begins(c, 0, i)
    BY DEF Begins
  <2>4. Layout(c, 0, at, env2)
    BY <1>2, <2>1, <2>2, <2>3 DEF Layout
  <2> QED BY <2>4 DEF env2
<1>7. CASE j # 0
  <2>1. j - 1 \in 0 .. L - 1 /\ b[j - 1] = NUL /\ j - 1 \in Int /\ (j - 1) + 1 = j
    BY <1>1, <1>7 DEF Begins
  <2>2. \A x \in 0 .. j - 1 : c[x] = b[x]
    <3>1. ASSUME NEW x \in 0 .. j - 1 PROVE x \in Cells /\ x # j /\ x # j + 1
      BY <1>1, Sizes
    <3> QED BY <1>3, <3>1
  <2>3. Ended(c, j - 1)
    <3>1. b[0] # NUL
      BY <1>1, <1>2 DEF Ended
    <3>2. c[0] # NUL
      <4>1. 0 \in 0 .. j - 1
        BY <1>1, <1>7
      <4> QED BY <2>2, <3>1, <4>1
    <3>3. \A x \in 0 .. (j - 1) - 1 : c[x] = NUL => c[x + 1] # NUL
      <4>1. ASSUME NEW x \in 0 .. (j - 1) - 1
            PROVE  x \in 0 .. L - 1 /\ x \in 0 .. j - 1 /\ x + 1 \in 0 .. j - 1
        BY <1>1
      <4> QED BY <1>2, <2>2, <4>1 DEF Ended
    <3>4. j - 1 \in 0 .. Size - 2 /\ j - 1 \in 0 .. j - 1
      BY <1>1, <2>1
    <3>5. c[j - 1] = NUL /\ c[(j - 1) + 1] = NUL
      BY <1>3, <2>1, <2>2, <3>4
    <3> QED BY <3>2, <3>3, <3>4, <3>5 DEF Ended
  <2>4. ASSUME NEW i \in Int, i < j - 1 PROVE Begins(c, j - 1, i) <=> Begins(b, L, i)
    <3>1. 0 <= i => i \in 0 .. j - 1 /\ (i # 0 => i - 1 \in 0 .. j - 1)
      BY <1>1, <2>4
    <3>2. i \in 0 .. (j - 1) - 1 <=> i \in 0 .. L - 1
      BY <1>1, <2>4
    <3>3. i \in 0 .. L - 1 => c[i] = b[i] /\ (i # 0 => c[i - 1] = b[i - 1])
      <4>1. i \in 0 .. L - 1 => 0 <= i
        BY <1>1
      <4> QED BY <2>2, <3>1, <4>1
    <3> QED BY <3>2, <3>3 DEF Begins
  <2>5. ASSUME NEW m \in NamesIn(env2)
        PROVE  /\ Begins(c, j - 1, at[m]) /\ Holds(c, at[m], m, env2[m])
               /\ NulAt(at[m], m, env2[m]) <= j - 1
    <3> DEFINE e == NulAt(at[m], m, env[m])
    <3>1. m \in NamesIn(env) /\ env2[m] = env[m]
      BY <1>4
    <3>2. /\ m \in Names /\ env[m] \in Vals /\ at[m] \in Int /\ 0 <= at[m] /\ e \in Int
          /\ at[m] < e /\ e = at[m] + NulAt(0, m, env[m]) /\ NulAt(0, m, env[m]) \in Int
          /\ Begins(b, L, at[m]) /\ Holds(b, at[m], m, env[m])
      BY <3>1, StringIn
    <3>3. e < j
      BY <1>5
    <3> HIDE DEF e
    <3>4. e <= j - 1 /\ at[m] < j - 1
      BY <1>1, <3>2, <3>3
    <3>5. Begins(c, j - 1, at[m])
      BY <2>4, <3>2, <3>4
    <3>6. \A x \in 0 .. NulAt(0, m, env[m]) : c[at[m] + x] = b[at[m] + x]
      <4>1. ASSUME NEW x \in 0 .. NulAt(0, m, env[m]) PROVE at[m] + x \in 0 .. j - 1
        BY <1>1, <3>2, <3>4
      <4> QED BY <2>2, <4>1
    <3>7. Holds(c, at[m], m, env[m])
      BY <3>2, <3>6, HoldsKept
    <3> QED BY <3>1, <3>4, <3>5, <3>7 DEF e
  <2>6. ASSUME NEW i \in Int, Begins(c, j - 1, i) PROVE \E m \in NamesIn(env2) : at[m] = i
    <3>1. i < j - 1
      BY <1>1, <2>6 DEF Begins
    <3>2. Begins(b, L, i)
      BY <2>4, <2>6, <3>1
    <3>3. PICK m \in NamesIn(env) : at[m] = i
      BY <3>2 DEF Layout
    <3>4. m # n
      BY <1>1, <3>1, <3>3
    <3> QED BY <1>4, <3>3, <3>4
  <2>7. Layout(c, j - 1, at, env2)
    BY <1>2, <2>3, <2>5, <2>6 DEF Layout
  <2> QED BY <2>1, <2>7 DEF env2
<1> QED BY <1>6, <1>7

(* ... or one that others follow, which move down over it *)
LEMMA RemoveOther ==
  ASSUME NEW b \in Block, NEW L \in Int, NEW at, NEW env \in Envs, Layout(b, L, at, env),
         NEW n \in NamesIn(env), NEW d \in Int, d = NulAt(0, n, env[n]) + 1,
         NulAt(at[n], n, env[n]) # L, NEW c \in Block,
         \A x \in 0 .. at[n] - 1 : c[x] = b[x],
         \A x \in at[n] .. L - d : c[x] = b[x + d],
         c[L - d + 1] = NUL
  PROVE  \E M \in Int, to \in [Names -> Int] : Layout(c, M, to, [env EXCEPT ![n] = NULL])
<1> DEFINE env2 == [env EXCEPT ![n] = NULL]
           to == [m \in Names |-> IF at[m] < at[n] THEN at[m] ELSE at[m] - d]
<1>0. PICK j \in Int : j = at[n]
  BY StringIn
<1>1. /\ 0 <= j /\ j < L /\ d > 0 /\ j + d <= L
      /\ L \in 0 .. Size - 2 /\ Size \in Int /\ b[j + d - 1] = NUL
      /\ Begins(b, L, j)
  <2>1. /\ 0 <= j /\ j < L /\ L \in 0 .. Size - 2 /\ Size \in Int /\ Begins(b, L, j)
        /\ NulAt(j, n, env[n]) = j + NulAt(0, n, env[n]) /\ NulAt(0, n, env[n]) \in Int
        /\ j < NulAt(j, n, env[n]) /\ NulAt(j, n, env[n]) <= L /\ b[NulAt(j, n, env[n])] = NUL
    BY <1>0, StringIn
  <2>2. PICK e \in Int : e = NulAt(0, n, env[n])
    BY <2>1
  <2>3. 0 <= j /\ j < j + e /\ j + e <= L /\ j + e # L /\ d = e + 1 /\ b[j + e] = NUL /\ L \in Int
    BY <1>0, <2>1, <2>2
  <2>4. j + e = j + d - 1 /\ d > 0 /\ j + d <= L
    BY <2>2, <2>3
  <2> QED BY <2>1, <2>3, <2>4
<1>2. /\ Ended(b, L) /\ at \in [Names -> Int] /\ n \in Names
      /\ b[L] = NUL /\ b[0] # NUL
      /\ \A x \in 0 .. L - 1 : b[x] = NUL => b[x + 1] # NUL
  BY <1>1 DEF Layout, NamesIn, Ended
<1>3. NamesIn(env2) = NamesIn(env) \ {n} /\ \A m \in NamesIn(env2) : env2[m] = env[m]
  BY <1>2 DEF NamesIn, Envs
<1>4. /\ \A x \in 0 .. j - 1 : c[x] = b[x]
      /\ \A x \in j .. L - d : c[x] = b[x + d]
      /\ c[L - d + 1] = NUL
  BY <1>0
<1>5. b[j + d] # NUL
  <2>1. j + d - 1 \in 0 .. L - 1 /\ (j + d - 1) + 1 = j + d
    BY <1>1
  <2> QED BY <1>1, <1>2, <2>1
<1>6. PICK M \in Int : M = L - d
  BY <1>1
<1>7. /\ M \in 0 .. Size - 2 /\ j <= M /\ M + d = L /\ M + 1 = L - d + 1
  BY <1>1, <1>6
<1>8. Ended(c, M)
  <2>1. c[M] = NUL
    <3>1. M \in j .. L - d
      BY <1>6, <1>7
    <3> QED BY <1>2, <1>4, <1>7, <3>1
  <2>2. c[0] # NUL
    <3>1. CASE j = 0
      <4>1. 0 \in j .. L - d /\ 0 + d = j + d
        BY <1>1, <3>1
      <4> QED BY <1>4, <1>5, <4>1
    <3>2. CASE j # 0
      <4>1. 0 \in 0 .. j - 1
        BY <1>1, <3>2
      <4> QED BY <1>2, <1>4, <4>1
    <3> QED BY <3>1, <3>2
  <2>3. ASSUME NEW x \in 0 .. M - 1, c[x] = NUL PROVE c[x + 1] # NUL
    <3>1. CASE x + 1 < j
      <4>1. x \in 0 .. j - 1 /\ x + 1 \in 0 .. j - 1 /\ x \in 0 .. L - 1
        BY <1>1, <3>1
      <4> QED BY <1>2, <1>4, <2>3, <4>1
    <3>2. CASE x + 1 = j
      <4>1. j \in j .. L - d
        BY <1>1
      <4> QED BY <1>4, <1>5, <3>2, <4>1
    <3>3. CASE x >= j
      <4>1. x \in j .. L - d /\ x + 1 \in j .. L - d /\ x + d \in 0 .. L - 1
            /\ (x + 1) + d = (x + d) + 1
        BY <1>1, <1>7, <3>3
      <4> QED BY <1>2, <1>4, <2>3, <4>1
    <3> QED BY <1>1, <3>1, <3>2, <3>3
  <2> QED BY <1>4, <1>7, <2>1, <2>2, <2>3 DEF Ended
<1>9. ASSUME NEW i \in Int, i < j
      PROVE  Begins(c, M, i) <=> Begins(b, L, i)
  <2>1. 0 <= i => i \in 0 .. j - 1 /\ (i # 0 => i - 1 \in 0 .. j - 1)
    BY <1>1, <1>9
  <2>2. i \in 0 .. M - 1 <=> 0 <= i
    BY <1>7, <1>9
  <2>3. i \in 0 .. L - 1 <=> 0 <= i
    BY <1>1, <1>9
  <2>4. 0 <= i => c[i] = b[i] /\ (i # 0 => c[i - 1] = b[i - 1])
    BY <1>4, <2>1
  <2> QED BY <2>2, <2>3, <2>4 DEF Begins
<1>10. ASSUME NEW i \in Int, j <= i
       PROVE  Begins(c, M, i) <=> Begins(b, L, i + d)
  <2>1. i \in 0 .. M - 1 <=> i + d \in 0 .. L - 1
    BY <1>1, <1>7, <1>10
  <2>2. i \in 0 .. M - 1 => c[i] = b[i + d]
    <3>1. i \in 0 .. M - 1 => i \in j .. L - d
      BY <1>6, <1>10
    <3> QED BY <1>4, <3>1
  <2>3. i \in 0 .. M - 1 => (i = 0 \/ c[i - 1] = NUL <=> i + d = 0 \/ b[i + d - 1] = NUL)
    <3>1. CASE i = j
      <4>1. i + d # 0 /\ b[i + d - 1] = NUL
        BY <1>1, <3>1
      <4>2. i = 0 \/ c[i - 1] = NUL
        <5>1. i = 0 \/ b[i - 1] = NUL
          BY <1>1, <3>1 DEF Begins
        <5>2. i # 0 => i - 1 \in 0 .. j - 1
          BY <1>1, <3>1
        <5> QED BY <1>4, <5>1, <5>2
      <4> QED BY <4>1, <4>2
    <3>2. CASE i # j
      <4>1. i \in 0 .. M - 1 => i - 1 \in j .. L - d
        BY <1>1, <1>6, <1>10, <3>2
      <4>2. i # 0 /\ i + d # 0 /\ (i - 1) + d = i + d - 1
        BY <1>1, <1>10, <3>2
      <4> QED BY <1>4, <4>1, <4>2
    <3> QED BY <3>1, <3>2
  <2> QED BY <2>1, <2>2, <2>3 DEF Begins
<1>11. to \in [Names -> Int]
  BY <1>2
<1>12. ASSUME NEW m \in NamesIn(env2)
       PROVE  /\ Begins(c, M, to[m]) /\ Holds(c, to[m], m, env2[m])
              /\ NulAt(to[m], m, env2[m]) <= M
  <2>1. m \in NamesIn(env) /\ m # n /\ env2[m] = env[m]
    BY <1>3
  <2>2. PICK i \in Int, w \in Int, v \in Vals :
          /\ i = at[m] /\ w = NulAt(0, m, v) /\ v = env[m] /\ m \in Names
          /\ 0 <= i /\ i + w = NulAt(i, m, v) /\ 0 < w /\ i + w <= L
          /\ Begins(b, L, i) /\ Holds(b, i, m, v)
    <3>1. /\ m \in Names /\ env[m] \in Vals /\ at[m] \in Int /\ 0 <= at[m]
          /\ Begins(b, L, at[m]) /\ Holds(b, at[m], m, env[m])
          /\ NulAt(at[m], m, env[m]) <= L
      BY <2>1, StringIn
    <3> QED BY <3>1, NulAtIs
  <2>3. i + w < j \/ j + d - 1 < i
    <3>1. NulAt(at[m], m, env[m]) < at[n] \/ NulAt(at[n], n, env[n]) < at[m]
      BY <2>1, StringsApart
    <3>2. NulAt(at[n], n, env[n]) = j + d - 1
      <4>1. /\ NulAt(at[n], n, env[n]) = at[n] + NulAt(0, n, env[n])
            /\ NulAt(0, n, env[n]) \in Int
        BY StringIn
      <4> QED BY <1>0, <4>1
    <3> QED BY <1>0, <2>2, <3>1, <3>2
  <2>4. CASE i + w < j
    <3>1. to[m] = i
      BY <1>0, <2>2, <2>4
    <3>2. i < j /\ i + w <= M
      BY <1>7, <2>2, <2>4
    <3>3. ASSUME NEW x \in 0 .. NulAt(0, m, v) PROVE c[i + x] = b[i + x]
      <4>1. i + x \in 0 .. j - 1
        BY <2>2, <2>4
      <4> QED BY <1>4, <4>1
    <3>4. Holds(c, i, m, v)
      BY <2>2, <3>3, HoldsKept
    <3>5. Begins(c, M, i)
      BY <1>9, <2>2, <3>2
    <3> QED BY <2>1, <2>2, <3>1, <3>2, <3>4, <3>5
  <2>5. CASE j + d - 1 < i
    <3>0. PICK h \in Int : h = i - d
      BY <2>2
    <3>1. to[m] = h
      BY <1>0, <1>1, <2>2, <2>5, <3>0
    <3>2. j <= h /\ h + d = i /\ h + w <= M
      BY <1>1, <1>6, <2>2, <2>5, <3>0
    <3>3. ASSUME NEW x \in 0 .. NulAt(0, m, v) PROVE c[h + x] = b[i + x]
      <4>1. h + x \in j .. L - d /\ (h + x) + d = i + x
        BY <1>6, <2>2, <3>2
      <4> QED BY <1>4, <4>1
    <3>4. Holds(c, h, m, v)
      BY <2>2, <3>3, HoldsKept
    <3>5. Begins(c, M, h)
      BY <1>10, <2>2, <3>2
    <3>6. NulAt(h, m, v) = h + w
      BY <2>2, NulAtIs
    <3> QED BY <2>1, <2>2, <3>1, <3>2, <3>4, <3>5, <3>6
  <2> QED BY <2>3, <2>4, <2>5
<1>13. ASSUME NEW i \in Int, Begins(c, M, i) PROVE \E m \in NamesIn(env2) : to[m] = i
  <2>1. CASE i < j
    <3>1. PICK m \in NamesIn(env) : at[m] = i
      BY <1>9, <1>13, <2>1 DEF Layout
    <3>2. m # n /\ m \in Names
      BY <1>0, <2>1, <3>1 DEF NamesIn
    <3>3. to[m] = i
      BY <1>0, <2>1, <3>1, <3>2
    <3> QED BY <1>3, <3>1, <3>2, <3>3
  <2>2. CASE j <= i
    <3>0. PICK k \in Int : k = i + d
      OBVIOUS
    <3>1. PICK m \in NamesIn(env) : at[m] = k
      BY <1>10, <1>13, <2>2, <3>0 DEF Layout
    <3>2. m # n /\ m \in Names /\ ~(k < j) /\ k - d = i
      BY <1>0, <1>1, <2>2, <3>0, <3>1 DEF NamesIn
    <3>3. to[m] = i
      BY <1>0, <3>1, <3>2
    <3> QED BY <1>3, <3>1, <3>2, <3>3
  <2>3. i < j \/ j <= i
    BY <1>0
  <2> HIDE DEF to, env2
  <2> QED BY <2>1, <2>2, <2>3
<1>14. Layout(c, M, to, env2)
  <2> HIDE DEF to, env2
  <2> QED BY <1>8, <1>11, <1>12, <1>13 DEF Layout
<1> QED BY <1>11, <1>14

(* Whatever the block holds, taking a string out stays within it *)
LEMMA WithoutInBlock ==
  ASSUME NEW b \in Block, NEW n \in Names
  PROVE  /\ Without(b, n) \in Block
         /\ \A x \in Cells : x >= Size /\ b[x] # OUT => Without(b, n)[x] # OUT
<1>1. CASE Found(b, n) = {}
  BY <1>1 DEF Without
<1>2. CASE Found(b, n) # {}
  <2>1. PICK j \in 0 .. Size - 1 : j = Min(Found(b, n))
    <3>1. Found(b, n) \subseteq 0 .. Size - 1 /\ 0 .. Size - 1 \subseteq Nat
      BY Sizes DEF Found, Starts
    <3> QED BY <1>2, <3>1, MinExists
  <2>2. PICK e \in j .. Size : e = EndOf(b, j)
    <3> DEFINE S == {Size} \cup {x \in j .. Size - 1 : b[x] = NUL}
    <3>1. S \in SUBSET Nat /\ S # {} /\ \A x \in S : x \in j .. Size
      BY Sizes
    <3>2. Min(S) \in S
      <4> HIDE DEF S
      <4> QED BY <3>1, MinExists
    <3> QED BY <3>1, <3>2 DEF EndOf
  <2>3. PICK L \in 0 .. Size : L = ListEnd(b)
    <3> DEFINE S == {Size} \cup {x \in 0 .. Size - 2 : b[x] = NUL /\ b[x + 1] = NUL}
    <3>1. S \in SUBSET Nat /\ S # {} /\ \A x \in S : x \in 0 .. Size
      BY Sizes
    <3>2. Min(S) \in S
      <4> HIDE DEF S
      <4> QED BY <3>1, MinExists
    <3> QED BY <3>1, <3>2 DEF ListEnd
  <2>4. PICK nxt \in Int, last \in Int : nxt = e + 1 /\ last = j + L - nxt
    BY Sizes
  <2>5. Without(b, n) = IF b[nxt] = NUL
                        THEN [b EXCEPT ![j] = NUL, ![j + 1] = NUL]
                        ELSE [x \in Cells |-> IF x < j THEN b[x]
                                              ELSE IF x <= last THEN b[x + nxt - j]
                                              ELSE IF x = last + 1 THEN NUL ELSE b[x]]
    BY <1>2, <2>1, <2>2, <2>3, <2>4 DEF Without, Remove
  <2>6. CASE b[nxt] = NUL
    <3>1. j \in Cells /\ j + 1 \in Cells
      BY Sizes
    <3>2. Without(b, n) = [b EXCEPT ![j] = NUL, ![j + 1] = NUL]
      BY <2>5, <2>6
    <3> QED BY <3>1, <3>2 DEF Block, NUL, OUT
  <2>7. CASE b[nxt] # NUL
    <3>1. Without(b, n) = [x \in Cells |-> IF x < j THEN b[x]
                                           ELSE IF x <= last THEN b[x + nxt - j]
                                           ELSE IF x = last + 1 THEN NUL ELSE b[x]]
      BY <2>5, <2>7
    <3>2. last < Size
      BY <2>4, Sizes
    <3>3. ASSUME NEW x \in Cells, ~(x < j), x <= last PROVE x + nxt - j \in Cells
      <4>1. x + nxt - j \in 0 .. Size
        BY <2>4, <3>3, Sizes
      <4> QED BY <4>1, Sizes
    <3>4. Without(b, n) \in Block
      BY <3>1, <3>3 DEF Block, NUL
    <3>5. ASSUME NEW x \in Cells, x >= Size
          PROVE  Without(b, n)[x] = IF x = last + 1 THEN NUL ELSE b[x]
      <4>1. ~(x < j) /\ ~(x <= last)
        BY <3>2, <3>5, Sizes
      <4> QED BY <3>1, <4>1
    <3> QED BY <3>4, <3>5 DEF NUL, OUT
  <2> QED BY <2>6, <2>7
<1> QED BY <1>1, <1>2

(* Without its name, a list is a list of the others *)
LEMMA WithoutKeeps ==
  ASSUME NEW b \in Block, NEW L \in Int, NEW at, NEW env \in Envs, Layout(b, L, at, env),
         NEW n \in Names
  PROVE  \E M \in Int, to \in [Names -> Int] : Layout(Without(b, n), M, to, [env EXCEPT ![n] = NULL])
<1>1. CASE n \notin NamesIn(env)
  <2>1. Without(b, n) = b
    BY <1>1, GetEnvIs DEF Without
  <2>2. [env EXCEPT ![n] = NULL] = env
    BY <1>1 DEF NamesIn, Envs
  <2>3. at \in [Names -> Int]
    BY DEF Layout
  <2> QED BY <2>1, <2>2, <2>3
<1>2. CASE n \in NamesIn(env)
  <2>1. PICK j \in Int : j = at[n]
    BY <1>2, StringIn
  <2>2. Found(b, n) = {j}
    BY <1>2, <2>1, GetEnvIs
  <2>3. Min({j}) = j
    BY MinIs
  <2>4. PICK w \in Int : w = NulAt(0, n, env[n])
    BY <1>2, StringIn
  <2>5. /\ EndOf(b, j) = j + w /\ NulAt(at[n], n, env[n]) = j + w
        /\ j + w <= L /\ b[j + w] = NUL /\ 0 <= j /\ j < L
        /\ L \in 0 .. Size - 2 /\ ListEnd(b) = L /\ 0 < w
    BY <1>2, <2>1, <2>4, StringIn, NulAtIs
  <2>6. Without(b, n) = Remove(b, j)
    BY <2>2, <2>3 DEF Without
  <2>7. Without(b, n) \in Block
    BY WithoutInBlock
  <2>8. /\ b[L] = NUL /\ b[L + 1] = NUL
        /\ \A x \in 0 .. L - 1 : b[x] = NUL => b[x + 1] # NUL
    BY DEF Layout, Ended
  <2>9. CASE j + w = L
    <3>1. b[EndOf(b, j) + 1] = NUL
      BY <2>5, <2>8, <2>9
    <3>2. Without(b, n) = [b EXCEPT ![at[n]] = NUL, ![at[n] + 1] = NUL]
      BY <2>1, <2>6, <3>1 DEF Remove
    <3>3. NulAt(at[n], n, env[n]) = L
      BY <2>5, <2>9
    <3>4. \E M \in Int : Layout(Without(b, n), M, at, [env EXCEPT ![n] = NULL])
      BY <1>2, <2>7, <3>2, <3>3, RemoveLast
    <3> QED BY <3>4 DEF Layout
  <2>10. CASE j + w # L
    <3>1. b[EndOf(b, j) + 1] # NUL
      <4>1. j + w \in 0 .. L - 1
        BY <2>5, <2>10
      <4> QED BY <2>5, <2>8, <4>1
    <3>2. PICK d \in Int : d = w + 1
      OBVIOUS
    <3>3. EndOf(b, j) + 1 = j + d /\ j + L - (j + d) = L - d
      BY <2>5, <3>2
    <3>4. Without(b, n) = [x \in Cells |-> IF x < j THEN b[x]
                                           ELSE IF x <= L - d THEN b[x + (j + d) - j]
                                           ELSE IF x = L - d + 1 THEN NUL ELSE b[x]]
      BY <2>5, <2>6, <3>1, <3>3 DEF Remove
    <3>5. ASSUME NEW x \in 0 .. j - 1 PROVE Without(b, n)[x] = b[x]
      <4>1. x \in Cells /\ x < j
        BY <2>5, Sizes
      <4> QED BY <3>4, <4>1
    <3>6. ASSUME NEW x \in j .. L - d PROVE Without(b, n)[x] = b[x + d]
      <4>1. x \in Cells /\ ~(x < j) /\ x <= L - d /\ x + (j + d) - j = x + d
        BY <2>5, <3>2, Sizes
      <4> QED BY <3>4, <4>1
    <3>7. Without(b, n)[L - d + 1] = NUL
      <4>1. L - d + 1 \in Cells /\ ~(L - d + 1 < j) /\ ~(L - d + 1 <= L - d)
        BY <2>5, <2>10, <3>2, Sizes
      <4> QED BY <3>4, <4>1
    <3>8. d = NulAt(0, n, env[n]) + 1 /\ NulAt(at[n], n, env[n]) # L
      BY <2>4, <2>5, <2>10, <3>2
    <3> QED BY <1>2, <2>1, <2>7, <3>5, <3>6, <3>7, <3>8, RemoveOther
  <2> QED BY <2>9, <2>10
<1> QED BY <1>1, <1>2

-----------------------------------------------------------------------------
(* What is written for a variable, character by character *)
LEMMA StringChars ==
  ASSUME NEW n \in Names, NEW v \in Vals
  PROVE  LET s == String(n, v)
             k == Len(n)
             l == Len(v)
         IN /\ Len(s) = k + l + 3
            /\ \A i \in 1 .. k : s[i] = n[i]
            /\ s[k + 1] = EQ
            /\ \A i \in 1 .. l : s[k + 1 + i] = v[i]
            /\ s[k + l + 2] = NUL /\ s[k + l + 3] = NUL
            /\ \A i \in 1 .. Len(s) : s[i] \in Int /\ s[i] # OUT
<1> DEFINE k == Len(n)
           l == Len(v)
           s1 == n \o <<EQ>>
           s2 == s1 \o v
           s == s2 \o <<NUL, NUL>>
<1>0. /\ n \in Seq(Int) /\ k \in Nat /\ v \in Seq(Int) /\ l \in Nat
      /\ <<EQ>> \in Seq(Int) /\ Len(<<EQ>>) = 1 /\ <<EQ>>[1] = EQ
      /\ <<NUL, NUL>> \in Seq(Int) /\ Len(<<NUL, NUL>>) = 2
      /\ <<NUL, NUL>>[1] = NUL /\ <<NUL, NUL>>[2] = NUL
  BY NameIs, ValueIs DEF EQ, NUL
<1>1. /\ s1 \in Seq(Int) /\ Len(s1) = k + 1
      /\ \A i \in 1 .. k + 1 : s1[i] = IF i <= k THEN n[i] ELSE <<EQ>>[i - k]
  BY <1>0, ConcatProperties
<1>2. /\ s2 \in Seq(Int) /\ Len(s2) = k + 1 + l
      /\ \A i \in 1 .. k + 1 + l : s2[i] = IF i <= k + 1 THEN s1[i] ELSE v[i - (k + 1)]
  <2> HIDE DEF s1, k, l
  <2>1. /\ s1 \o v \in Seq(Int) /\ Len(s1 \o v) = Len(s1) + Len(v)
        /\ \A i \in 1 .. Len(s1) + Len(v) :
             (s1 \o v)[i] = IF i <= Len(s1) THEN s1[i] ELSE v[i - Len(s1)]
    BY <1>0, <1>1, ConcatProperties
  <2>2. Len(s1) = k + 1 /\ Len(v) = l
    BY <1>1 DEF l
  <2> QED BY <2>1, <2>2
<1>3. /\ s \in Seq(Int) /\ Len(s) = k + 1 + l + 2
      /\ \A i \in 1 .. k + 1 + l + 2 :
           s[i] = IF i <= k + 1 + l THEN s2[i] ELSE <<NUL, NUL>>[i - (k + 1 + l)]
  <2> HIDE DEF s2, k, l
  <2> DEFINE t == <<NUL, NUL>>
  <2>0. t \in Seq(Int) /\ Len(t) = 2
    BY <1>0
  <2> HIDE DEF t
  <2>1. /\ s2 \o t \in Seq(Int) /\ Len(s2 \o t) = Len(s2) + Len(t)
        /\ \A i \in 1 .. Len(s2) + Len(t) :
             (s2 \o t)[i] = IF i <= Len(s2) THEN s2[i] ELSE t[i - Len(s2)]
    BY <1>2, <2>0, ConcatProperties
  <2>2. Len(s2) = k + 1 + l
    BY <1>2
  <2>3. /\ s2 \o t \in Seq(Int) /\ Len(s2 \o t) = k + 1 + l + 2
        /\ \A i \in 1 .. k + 1 + l + 2 :
             (s2 \o t)[i] = IF i <= k + 1 + l THEN s2[i] ELSE t[i - (k + 1 + l)]
    BY <2>0, <2>1, <2>2
  <2> QED BY <2>3 DEF t
<1>4. String(n, v) = s
  BY DEF String
<1> HIDE DEF k, l, s1, s2, s
<1>5. ASSUME NEW i \in 1 .. k PROVE s[i] = n[i]
  <2>1. /\ i \in 1 .. k + 1 + l + 2 /\ i <= k + 1 + l
        /\ i \in 1 .. k + 1 + l /\ i <= k + 1 /\ i \in 1 .. k + 1 /\ i <= k
    BY <1>0
  <2> QED BY <1>1, <1>2, <1>3, <2>1
<1>6. s[k + 1] = EQ
  <2>1. /\ k + 1 \in 1 .. k + 1 + l + 2 /\ k + 1 <= k + 1 + l
        /\ k + 1 \in 1 .. k + 1 + l /\ k + 1 \in 1 .. k + 1 /\ ~(k + 1 <= k) /\ (k + 1) - k = 1
    BY <1>0
  <2> QED BY <1>0, <1>1, <1>2, <1>3, <2>1
<1>7. ASSUME NEW i \in 1 .. l PROVE s[k + 1 + i] = v[i]
  <2>1. /\ k + 1 + i \in 1 .. k + 1 + l + 2 /\ k + 1 + i <= k + 1 + l
        /\ k + 1 + i \in 1 .. k + 1 + l /\ ~(k + 1 + i <= k + 1) /\ (k + 1 + i) - (k + 1) = i
    BY <1>0
  <2> QED BY <1>2, <1>3, <2>1
<1>8. s[k + l + 2] = NUL /\ s[k + l + 3] = NUL
  <2>1. /\ k + l + 2 \in 1 .. k + 1 + l + 2 /\ ~(k + l + 2 <= k + 1 + l)
        /\ (k + l + 2) - (k + 1 + l) = 1
        /\ k + l + 3 \in 1 .. k + 1 + l + 2 /\ ~(k + l + 3 <= k + 1 + l)
        /\ (k + l + 3) - (k + 1 + l) = 2
    BY <1>0
  <2> QED BY <1>0, <1>3, <2>1
<1>9. Len(s) = k + l + 3
  BY <1>0, <1>3
<1>10. ASSUME NEW i \in 1 .. Len(s) PROVE s[i] \in Int /\ s[i] # OUT
  <2>1. s[i] \in Int
    BY <1>3
  <2>2. CASE i <= k
    BY <1>0, <1>5, <1>9, <2>2, NameIs DEF k
  <2>3. CASE i = k + 1
    BY <1>6, <2>3 DEF EQ, OUT
  <2>4. CASE k + 1 < i /\ i <= k + 1 + l
    <3>1. i - (k + 1) \in 1 .. l /\ k + 1 + (i - (k + 1)) = i
      BY <1>0, <1>9, <2>4
    <3>2. v[i - (k + 1)] # OUT
      BY <3>1, ValueIs DEF l
    <3> QED BY <1>7, <2>1, <3>1, <3>2
  <2>5. CASE i > k + 1 + l
    <3>1. i = k + l + 2 \/ i = k + l + 3
      BY <1>0, <1>9, <2>5
    <3> QED BY <1>8, <2>1, <3>1 DEF NUL, OUT
  <2> QED BY <1>0, <1>9, <2>2, <2>3, <2>4, <2>5
<1> QED BY <1>4, <1>5, <1>6, <1>7, <1>8, <1>9, <1>10 DEF k, l

(* A new string goes into the block or right behind it *)
LEMMA AppendAtIs ==
  ASSUME NEW b \in Block
  PROVE  AppendAt(b) \in 0 .. Size
<1>1. PICK L \in 0 .. Size : L = ListEnd(b)
  <2> DEFINE S == {Size} \cup {x \in 0 .. Size - 2 : b[x] = NUL /\ b[x + 1] = NUL}
  <2>1. S \in SUBSET Nat /\ S # {} /\ \A x \in S : x \in 0 .. Size
    BY Sizes
  <2>2. Min(S) \in S
    <3> HIDE DEF S
    <3> QED BY <2>1, MinExists
  <2> QED BY <2>1, <2>2 DEF ListEnd
<1> QED BY <1>1, Sizes DEF AppendAt

(* The bytes of an inserted string, and those around it *)
LEMMA InsertIs ==
  ASSUME NEW b \in Block, NEW j \in 0 .. Size, NEW n \in Names, NEW v \in Vals
  PROVE  /\ \A x \in Cells : /\ Insert(b, j, n, v)[x] \in Int
                             /\ x < j => Insert(b, j, n, v)[x] = b[x]
                             /\ x > NulAt(j, n, v) + 1 => Insert(b, j, n, v)[x] = b[x]
                             /\ x \in j .. NulAt(j, n, v) + 1 =>
                                  /\ Insert(b, j, n, v)[x] = String(n, v)[x - j + 1]
                                  /\ Insert(b, j, n, v)[x] # OUT
         /\ Insert(b, j, n, v) \in Block
<1>1. PICK s, m : s = String(n, v) /\ m = Len(s) /\ m \in Nat
  <2>1. Len(String(n, v)) = Len(n) + Len(v) + 3
    BY StringChars
  <2> QED BY <2>1, NameIs, ValueIs
<1>2. j + m - 1 = NulAt(j, n, v) + 1 /\ j \in Int
  <2>1. Len(String(n, v)) = Len(n) + Len(v) + 3
    BY StringChars
  <2> QED BY <1>1, <2>1, NameIs, ValueIs, Sizes DEF NulAt
<1>3. \A i \in 1 .. m : s[i] \in Int /\ s[i] # OUT
  BY <1>1, StringChars
<1>4. Insert(b, j, n, v) = [x \in Cells |-> IF x \in j .. j + m - 1 THEN s[x - j + 1] ELSE b[x]]
  BY <1>1 DEF Insert
<1>5. ASSUME NEW x \in Cells, x \in j .. j + m - 1
      PROVE  Insert(b, j, n, v)[x] = s[x - j + 1] /\ s[x - j + 1] \in Int /\ s[x - j + 1] # OUT
  <2>1. x - j + 1 \in 1 .. m
    BY <1>1, <1>2, <1>5, Sizes
  <2> QED BY <1>3, <1>4, <1>5, <2>1
<1>6. ASSUME NEW x \in Cells, x \notin j .. j + m - 1
      PROVE  Insert(b, j, n, v)[x] = b[x] /\ b[x] \in Int
  BY <1>4, <1>6 DEF Block
<1>7. \A x \in Cells : Insert(b, j, n, v)[x] \in Int
  BY <1>5, <1>6
<1>8. Insert(b, j, n, v) \in Block
  BY <1>4, <1>7 DEF Block
<1>9. ASSUME NEW x \in Cells
      PROVE  x < j \/ x > NulAt(j, n, v) + 1 <=> x \notin j .. j + m - 1
  <2>1. x \in Int /\ NulAt(j, n, v) \in Int /\ j \in Int
    BY <1>2, NulAtIs, Sizes
  <2> QED BY <1>1, <1>2, <2>1
<1> QED BY <1>1, <1>2, <1>5, <1>6, <1>7, <1>8, <1>9

(* Whatever the block holds, a string that is put in and does not fit is     *)
(* seen at the first byte beyond the block.                                  *)
LEMMA InsertBeyond ==
  ASSUME NEW b \in Block, NEW j \in 0 .. Size, NEW n \in Names, NEW v \in Vals
  PROVE  /\ \A x \in Cells : x >= Size /\ b[x] # OUT => Insert(b, j, n, v)[x] # OUT
         /\ Size \in Cells
         /\ ~(NulAt(j, n, v) + 1 < Size) => Insert(b, j, n, v)[Size] # OUT
<1>1. j \in Int /\ j <= Size /\ NulAt(j, n, v) \in Int /\ Size \in Int
  BY Sizes, NulAtIs
<1>2. Size \in Cells
  BY Sizes
<1>3. ASSUME NEW x \in Cells, b[x] # OUT PROVE Insert(b, j, n, v)[x] # OUT
  <2>1. x < j \/ x > NulAt(j, n, v) + 1 \/ x \in j .. NulAt(j, n, v) + 1
    BY <1>1, Sizes
  <2> QED BY <1>3, <2>1, InsertIs
<1>4. ASSUME ~(NulAt(j, n, v) + 1 < Size) PROVE Insert(b, j, n, v)[Size] # OUT
  <2>1. Size \in j .. NulAt(j, n, v) + 1
    BY <1>1, <1>4
  <2> QED BY <1>2, <2>1, InsertIs
<1> QED BY <1>2, <1>3, <1>4

(* A string that fits makes a list of the others and it *)
LEMMA InsertKeeps ==
  ASSUME NEW b \in Block, NEW L \in Int, NEW at, NEW env \in Envs, Layout(b, L, at, env),
         NEW n \in Names, env[n] = NULL, NEW v \in Vals,
         NulAt(AppendAt(b), n, v) + 1 < Size
  PROVE  \E M \in Int, to \in [Names -> Int] :
           Layout(Insert(b, AppendAt(b), n, v), M, to, [env EXCEPT ![n] = v])
<1>0. PICK a \in Int, M \in Int : /\ a = AppendAt(b) /\ M = NulAt(a, n, v)
                                  /\ a \in 0 .. Size
  BY AppendAtIs, NulAtIs, Sizes
<1> DEFINE c == Insert(b, a, n, v)
           to == [at EXCEPT ![n] = a]
           env2 == [env EXCEPT ![n] = v]
<1>1. /\ L \in 0 .. Size - 2 /\ Size \in Int /\ M + 1 < Size /\ 0 <= a /\ a < M
      /\ a = IF L > 0 THEN L + 1 ELSE 0
      /\ b[L] = NUL /\ (b[0] = NUL => L = 0)
      /\ \A x \in 0 .. L - 1 : b[x] = NUL => b[x + 1] # NUL
  <2>1. L \in 0 .. Size - 2 /\ ListEnd(b) = L /\ Size \in Int
    BY Sizes, ListEndIs DEF Layout, Ended
  <2>2. a = IF L > 0 THEN L + 1 ELSE 0
    BY <1>0, <2>1 DEF AppendAt
  <2>3. a < M
    BY <1>0, NulAtIs
  <2> QED BY <1>0, <2>1, <2>2, <2>3 DEF Layout, Ended
<1>2. c \in Block /\ c = Insert(b, AppendAt(b), n, v)
  BY <1>0, InsertIs
<1>3. ASSUME NEW x \in 0 .. a - 1 PROVE c[x] = b[x]
  <2>1. x \in Cells /\ x < a
    BY <1>0, <1>1, Sizes
  <2> QED BY <1>0, <2>1, InsertIs
<1>4. ASSUME NEW i \in 1 .. M - a + 2 PROVE c[a + i - 1] = String(n, v)[i]
  <2>1. a + i - 1 \in Cells /\ a + i - 1 \in a .. M + 1 /\ (a + i - 1) - a + 1 = i
    BY <1>0, <1>1, Sizes
  <2> QED BY <1>0, <2>1, InsertIs
<1>5. Holds(c, a, n, v) /\ c[M] = NUL /\ c[M + 1] = NUL
  <2>0. PICK k \in Nat, l \in Nat : k = Len(n) /\ l = Len(v) /\ M = a + k + 1 + l
    BY <1>0, NameIs, ValueIs DEF NulAt
  <2>1. /\ \A i \in 1 .. k : String(n, v)[i] = n[i]
        /\ String(n, v)[k + 1] = EQ
        /\ \A i \in 1 .. l : String(n, v)[k + 1 + i] = v[i]
        /\ String(n, v)[k + l + 2] = NUL /\ String(n, v)[k + l + 3] = NUL
    BY <2>0, StringChars
  <2>2. ASSUME NEW i \in 1 .. k PROVE c[a + i - 1] = n[i]
    <3>1. i \in 1 .. M - a + 2
      BY <2>0
    <3> QED BY <1>4, <2>1, <3>1
  <2>3. c[a + k] = EQ
    <3>1. k + 1 \in 1 .. M - a + 2 /\ a + (k + 1) - 1 = a + k
      BY <2>0
    <3> QED BY <1>4, <2>1, <3>1
  <2>4. ASSUME NEW i \in 1 .. l PROVE c[a + k + i] = v[i]
    <3>1. k + 1 + i \in 1 .. M - a + 2 /\ a + (k + 1 + i) - 1 = a + k + i
      BY <2>0
    <3> QED BY <1>4, <2>1, <3>1
  <2>5. c[M] = NUL /\ c[M + 1] = NUL
    <3>1. /\ k + l + 2 \in 1 .. M - a + 2 /\ a + (k + l + 2) - 1 = M
          /\ k + l + 3 \in 1 .. M - a + 2 /\ a + (k + l + 3) - 1 = M + 1
      BY <2>0
    <3> QED BY <1>4, <2>1, <3>1
  <2> HIDE DEF c
  <2> QED BY <1>0, <2>0, <2>2, <2>3, <2>4, <2>5 DEF Holds
<1>6. \A x \in a .. M - 1 : c[x] # NUL
  <2>1. M <= Size - 1
    BY <1>0, <1>1
  <2> HIDE DEF c
  <2> QED BY <1>0, <1>1, <1>2, <1>5, <2>1, StringIs
<1>7. NamesIn(env2) = NamesIn(env) \cup {n} /\ n \notin NamesIn(env) /\ env2[n] = v
  <2>1. v # NULL
    BY NullAssumption
  <2> QED BY <2>1 DEF NamesIn, Envs
<1>8. at \in [Names -> Int] /\ to \in [Names -> Int] /\ to[n] = a
  BY <1>0 DEF Layout
<1>9. /\ \A m \in Names : m # n => to[m] = at[m] /\ env2[m] = env[m]
  BY <1>8 DEF Envs
<1> HIDE DEF c, to, env2
<1>10. Ended(c, M)
  <2>1. M \in 0 .. Size - 2
    BY <1>0, <1>1
  <2>2. c[0] # NUL
    <3>1. CASE a = 0
      <4>1. 0 \in a .. M - 1
        BY <1>1, <3>1
      <4> QED BY <1>6, <4>1
    <3>2. CASE a # 0
      <4>1. 0 \in 0 .. a - 1 /\ L # 0
        BY <1>0, <1>1, <3>2
      <4> QED BY <1>1, <1>3, <4>1
    <3> QED BY <3>1, <3>2
  <2>3. ASSUME NEW x \in 0 .. M - 1, c[x] = NUL PROVE c[x + 1] # NUL
    <3>1. x < a
      BY <1>0, <1>6, <2>3
    <3>2. CASE x + 1 = a
      <4>1. x + 1 \in a .. M - 1
        BY <1>0, <1>1, <3>2
      <4> QED BY <1>6, <4>1
    <3>3. CASE x + 1 # a
      <4>1. x \in 0 .. a - 1 /\ x + 1 \in 0 .. a - 1 /\ x \in 0 .. L - 1
        BY <1>0, <1>1, <3>1, <3>3
      <4> QED BY <1>1, <1>3, <2>3, <4>1
    <3> QED BY <3>2, <3>3
  <2> QED BY <1>5, <2>1, <2>2, <2>3 DEF Ended
<1>11. ASSUME NEW i \in Int, i < a
       PROVE  Begins(c, M, i) <=> Begins(b, L, i)
  <2>1. 0 <= i => i \in 0 .. a - 1 /\ (i # 0 => i - 1 \in 0 .. a - 1)
    BY <1>0, <1>11
  <2>2. i \in 0 .. M - 1 <=> 0 <= i
    BY <1>1, <1>0, <1>11
  <2>3. 0 <= i => c[i] = b[i] /\ (i # 0 => c[i - 1] = b[i - 1])
    BY <1>3, <2>1
  <2>4. 0 <= i => (i \in 0 .. L - 1 \/ i = L)
    BY <1>0, <1>1, <1>11
  <2>5. i \in 0 .. L - 1 => 0 <= i
    BY <1>1
  <2> QED BY <1>1, <2>2, <2>3, <2>4, <2>5 DEF Begins
<1>12. Begins(c, M, a)
  <2>1. a \in 0 .. M - 1 /\ a \in a .. M - 1
    BY <1>0, <1>1
  <2>2. a # 0 => a - 1 \in 0 .. a - 1 /\ a - 1 = L
    BY <1>0, <1>1
  <2> QED BY <1>1, <1>3, <1>6, <2>1, <2>2 DEF Begins
<1>13. ASSUME NEW i \in Int, i > a PROVE ~Begins(c, M, i)
  <2>1. i \in 0 .. M - 1 => i # 0 /\ i - 1 \in a .. M - 1
    BY <1>0, <1>1, <1>13
  <2> QED BY <1>6, <2>1 DEF Begins
<1>14. ASSUME NEW m \in NamesIn(env2)
       PROVE  /\ Begins(c, M, to[m]) /\ Holds(c, to[m], m, env2[m])
              /\ NulAt(to[m], m, env2[m]) <= M
  <2>1. CASE m = n
    BY <1>0, <1>5, <1>7, <1>8, <1>12, <2>1
  <2>2. CASE m # n
    <3>1. m \in NamesIn(env) /\ m \in Names
      BY <1>7, <2>2 DEF NamesIn
    <3>2. PICK i \in Int, w \in Int, u \in Vals :
            /\ i = at[m] /\ w = NulAt(0, m, u) /\ u = env[m]
            /\ 0 <= i /\ i + w = NulAt(i, m, u) /\ 0 < w /\ i + w <= L
            /\ Begins(b, L, i) /\ Holds(b, i, m, u)
      <4>1. /\ m \in Names /\ env[m] \in Vals /\ at[m] \in Int /\ 0 <= at[m]
            /\ Begins(b, L, at[m]) /\ Holds(b, at[m], m, env[m])
            /\ NulAt(at[m], m, env[m]) <= L
        BY <3>1, StringIn
      <4>2. /\ NulAt(0, m, env[m]) \in Int /\ 0 < NulAt(0, m, env[m])
            /\ NulAt(at[m], m, env[m]) = at[m] + NulAt(0, m, env[m])
        BY <4>1, NulAtIs
      <4> QED BY <4>1, <4>2
    <3>3. to[m] = i /\ env2[m] = u
      BY <1>9, <2>2, <3>1, <3>2
    <3>4. i < a /\ i + w < a /\ i + w <= M
      BY <1>0, <1>1, <3>2
    <3>5. ASSUME NEW x \in 0 .. NulAt(0, m, u) PROVE c[i + x] = b[i + x]
      <4>1. i + x \in 0 .. a - 1
        BY <1>0, <3>2, <3>4
      <4> QED BY <1>3, <4>1
    <3>6. Holds(c, i, m, u)
      <4>1. c \in Block /\ m \in Names
        BY <1>2, <3>1
      <4> QED BY <3>2, <3>5, <4>1, HoldsKept
    <3>7. Begins(c, M, i)
      BY <1>11, <3>2, <3>4
    <3> QED BY <3>2, <3>3, <3>4, <3>6, <3>7
  <2> QED BY <2>1, <2>2
<1>15. ASSUME NEW i \in Int, Begins(c, M, i) PROVE \E m \in NamesIn(env2) : to[m] = i
  <2>1. CASE i = a
    BY <1>7, <1>8, <2>1
  <2>2. CASE i < a
    <3>1. PICK m \in NamesIn(env) : at[m] = i
      BY <1>11, <1>15, <2>2 DEF Layout
    <3>2. m # n /\ m \in Names /\ m \in NamesIn(env2)
      BY <1>7, <3>1 DEF NamesIn
    <3> QED BY <1>9, <3>1, <3>2
  <2>3. i = a \/ i < a \/ i > a
    BY <1>0
  <2> QED BY <1>13, <1>15, <2>1, <2>2, <2>3
<1>16. Layout(c, M, to, env2)
  BY <1>8, <1>10, <1>14, <1>15 DEF Layout
<1> QED BY <1>2, <1>8, <1>16 DEF env2

-----------------------------------------------------------------------------
(* The block is a list of strings for as long as nothing was written beyond  *)
(* it; what was written there is not taken back.                             *)
BufInv ==
  /\ p \in Block /\ value \in Envs
  /\ NeverPastTheEnd => \E L \in Int, at \in [Names -> Int] : Layout(p, L, at, value)

(* An empty list is a list *)
LEMMA BufInitInv == BufInit => BufInv
<1> SUFFICES ASSUME BufInit PROVE BufInv
  OBVIOUS
<1>1. p \in Block /\ value \in Envs
  BY DEF BufInit, Block, Envs, NUL, OUT
<1>2. \A x \in 0 .. Size - 1 : p[x] = NUL
  BY Sizes DEF BufInit
<1>3. NamesIn(value) = {}
  BY DEF BufInit, NamesIn
<1>4. Ended(p, 0)
  <2>1. 0 \in 0 .. Size - 2 /\ 0 \in 0 .. Size - 1 /\ 0 + 1 \in 0 .. Size - 1
    BY Sizes
  <2> QED BY <1>2, <2>1 DEF Ended
<1>5. Layout(p, 0, [n \in Names |-> 0], value)
  BY <1>3, <1>4 DEF Layout, Begins
<1> QED BY <1>1, <1>5 DEF BufInv

(* One name removed: the first half of each of the operations *)
LEMMA WithoutStep ==
  ASSUME BufInv, NEW n \in Names
  PROVE  /\ Without(p, n) \in Block
         /\ [value EXCEPT ![n] = NULL] \in Envs
         /\ (\A x \in Cells : x >= Size => Without(p, n)[x] = OUT) =>
              \E L \in Int, at \in [Names -> Int] : Layout(Without(p, n), L, at, [value EXCEPT ![n] = NULL])
<1>1. p \in Block /\ value \in Envs
  BY DEF BufInv
<1>2. [value EXCEPT ![n] = NULL] \in Envs
  BY <1>1 DEF Envs
<1>3. ASSUME \A x \in Cells : x >= Size => Without(p, n)[x] = OUT
      PROVE  \E L \in Int, at \in [Names -> Int] : Layout(Without(p, n), L, at, [value EXCEPT ![n] = NULL])
  <2>1. NeverPastTheEnd
    BY <1>1, <1>3, WithoutInBlock DEF NeverPastTheEnd
  <2>2. PICK L \in Int, at \in [Names -> Int] : Layout(p, L, at, value)
    BY <2>1 DEF BufInv
  <2> QED BY <1>1, <2>2, WithoutKeeps
<1> QED BY <1>1, <1>2, <1>3, WithoutInBlock

(* ... and every operation makes a list of a list, or writes beyond it *)
LEMMA BufNextInv == BufInv /\ [BufNext]_<<p, value>> => BufInv'
<1> SUFFICES ASSUME BufInv, [BufNext]_<<p, value>> PROVE BufInv'
  OBVIOUS
<1>1. ASSUME NEW n \in Names, p' = Without(p, n), value' = [value EXCEPT ![n] = NULL]
      PROVE  BufInv'
  <2>1. /\ p' \in Block /\ value' \in Envs
        /\ (\A x \in Cells : x >= Size => p'[x] = OUT) =>
              \E L \in Int, at \in [Names -> Int] : Layout(p', L, at, value')
    BY <1>1, WithoutStep
  <2> QED BY <2>1 DEF BufInv, NeverPastTheEnd
<1>2. ASSUME NEW n \in Names, NEW v \in Vals, Set(n, v) PROVE BufInv'
  <2>0. PICK b \in Block, env \in Envs :
          /\ b = Without(p, n) /\ env = [value EXCEPT ![n] = NULL]
          /\ (\A x \in Cells : x >= Size => b[x] = OUT) =>
               \E L \in Int, at \in [Names -> Int] : Layout(b, L, at, env)
    BY WithoutStep
  <2>1. p' = Insert(b, AppendAt(b), n, v) /\ value' = [value EXCEPT ![n] = v]
    BY <1>2, <2>0 DEF Set
  <2>2. AppendAt(b) \in 0 .. Size
    BY AppendAtIs
  <2>3. p' \in Block
    BY <2>1, <2>2, InsertIs
  <2>4. value' \in Envs /\ env[n] = NULL /\ value' = [env EXCEPT ![n] = v]
    BY <2>0, <2>1 DEF BufInv, Envs
  <2>5. ASSUME NeverPastTheEnd' PROVE \E L \in Int, at \in [Names -> Int] : Layout(p', L, at, value')
    <3>1. \A x \in Cells : x >= Size => p'[x] = OUT
      BY <2>5 DEF NeverPastTheEnd
    <3>2. /\ \A x \in Cells : x >= Size /\ b[x] # OUT => p'[x] # OUT
          /\ Size \in Cells
          /\ ~(NulAt(AppendAt(b), n, v) + 1 < Size) => p'[Size] # OUT
      BY <2>1, <2>2, InsertBeyond
    <3>3. NulAt(AppendAt(b), n, v) + 1 < Size
      BY <3>1, <3>2, Sizes
    <3>4. PICK L \in Int, at \in [Names -> Int] : Layout(b, L, at, env)
      BY <2>0, <3>1, <3>2
    <3>5. \E M \in Int, to \in [Names -> Int] :
            Layout(Insert(b, AppendAt(b), n, v), M, to, [env EXCEPT ![n] = v])
      BY <2>4, <3>3, <3>4, InsertKeeps
    <3> QED BY <2>1, <2>4, <3>5
  <2> QED BY <2>3, <2>4, <2>5 DEF BufInv
<1>3. CASE UNCHANGED <<p, value>>
  BY <1>3 DEF BufInv, NeverPastTheEnd
<1> QED BY <1>1, <1>2, <1>3 DEF BufNext, Unset, SetOverflow

(* As long as rtcnvet_do_setenv has written nothing beyond its block, the   *)
(* lookup finds for every name the value that was last set, however often   *)
(* strings before it were moved or removed.                                 *)
THEOREM BlockIsEnvironmentHolds == BufSpec => []BlockIsEnvironment
<1>1. BufInv => BlockIsEnvironment
  BY GetEnvIs DEF BufInv, BlockIsEnvironment
<1> QED BY <1>1, BufInitInv, BufNextInv, PTL DEF BufSpec

(* The block keeps its bytes, and a variable has one value or none. *)
THEOREM BlockTypeCorrect == BufSpec => []BufTypeOK
<1>1. BufInv => BufTypeOK
  BY DEF BufInv, BufTypeOK, Block, Envs
<1> QED BY <1>1, BufInitInv, BufNextInv, PTL DEF BufSpec
=============================================================================
