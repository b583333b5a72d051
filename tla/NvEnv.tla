------------------------------- MODULE NvEnv -------------------------------
(***************************************************************************)
(* The u-boot environment in two SPI flash partitions                      *)
(* (drivers/rtc/rtc-cns3xxx-nvedit.c, CONFIG_CIRRUS_DUAL_MTD_ENV).         *)
(*                                                                         *)
(* rtcnvet_do_setenv reads both partitions, changes one variable and saves *)
(* the whole environment to the partition it did NOT read it from; only    *)
(* then does it mark the other one obsolete. rtcnvet_get_env reads both    *)
(* partitions and uses the good one. Each call to the MTD layer is a step: *)
(* it may fail, and the power may go before, during or after it.           *)
(*                                                                         *)
(* The one caller of rtcnvet_do_setenv (cns3xxx_rtc_settime) holds         *)
(* rtc_lock, so setenvs do not overlap; rtcnvet_get_env takes no lock.     *)
(***************************************************************************)
EXTENDS NvEnvVars, Integers

VARIABLES
  part,           \* the two partitions, as the flash holds them
  wpc, wfirst, wname, wval, ed,   \* the setenv in progress: its next MTD call and its locals
  rpc, rfirst, got,               \* the get_env in progress, and what the last one found
  saves, rseen    \* (for the properties) how many setenvs overlapped its reads, 2
                  \* being many, and the environments that were current during it

wvars == <<wpc, wfirst, wname, wval, ed>>
rvars == <<rpc, rfirst, got, saves, rseen>>
vars == <<part, wvars, rvars>>

-----------------------------------------------------------------------------
Envs == [Names -> Vals \cup {NULL}]

(* The flag byte: active_flag, obsolete_flag, 0xff, or bits of a write that  *)
(* was cut off                                                               *)
Flags == {"active", "obsolete", "erased", "torn"}

(* What env_read can tell of a partition. The flag is not covered by the CRC, *)
(* the data are.                                                              *)
Part == [crc : BOOLEAN, flag : Flags, data : Envs]

Blank == [n \in Names |-> NULL]
Bad(flag) == [crc |-> FALSE, flag |-> flag, data |-> Blank]
Good(flag, data) == [crc |-> TRUE, flag |-> flag, data |-> data]

ASSUME EnvAssumption == NULL \notin Envs

(* env_read, both CRCs right: the flags decide for the second partition ... *)
SecondIsActive(flag1, flag2) ==
  \/ flag1 = "obsolete" /\ flag2 = "active"
  \/ flag2 = "erased" /\ flag1 # "erased"

(* ... and in every other case it is the first; -1 if there is no good one *)
Pick(p1, p2) ==
  IF p1.crc /\ p2.crc THEN IF SecondIsActive(p1.flag, p2.flag) THEN 1 ELSE 0
  ELSE IF p1.crc THEN 0
  ELSE IF p2.crc THEN 1
  ELSE -1

EnvIn(p1, p2) ==
  IF Pick(p1, p2) = -1 THEN NULL ELSE IF Pick(p1, p2) = 0 THEN p1.data ELSE p2.data

(* The environment that the flash holds *)
Current == EnvIn(part[0], part[1])

-----------------------------------------------------------------------------
(* u-boot, or an earlier life of this driver, may have left anything *)
Init ==
  /\ part \in [0 .. 1 -> {Bad(f) : f \in Flags} \cup {Good(f, d) : f \in Flags, d \in Envs}]
  /\ wpc = "idle" /\ wfirst = Bad("erased") /\ wname = NULL /\ wval = NULL
  /\ ed = [mtd |-> -1, data |-> Blank]
  /\ rpc = "idle" /\ rfirst = Bad("erased") /\ got = NULL
  /\ saves = 0 /\ rseen = {}

(* The reader's history variables follow every step of a setenv, the first   *)
(* of which finds wpc idle                                                   *)
Watch ==
  /\ saves' = IF rpc = "second" /\ wpc = "idle" /\ saves < 2 THEN saves + 1 ELSE saves
  /\ rseen' = IF rpc = "second" THEN rseen \cup {EnvIn(part'[0], part'[1])} ELSE rseen
  /\ UNCHANGED <<rpc, rfirst, got>>

(* Either return of rtcnvet_do_setenv; env_save tears ed down *)
SetenvReturn ==
  /\ wpc' = "idle" /\ wfirst' = Bad("erased") /\ wname' = NULL /\ wval' = NULL
  /\ ed' = [mtd |-> -1, data |-> Blank]

(* rtcnvet_do_setenv(n, v): env_read reads the first partition ... *)
SetenvStart(n, v) ==
  /\ wpc = "idle"
  /\ wpc' = "second" /\ wfirst' = part[0] /\ wname' = n /\ wval' = v
  /\ UNCHANGED <<part, ed>>
  /\ Watch

(* ... and the second one, and picks; the variable is replaced, or removed   *)
(* if there is no value to give it or no room for it                         *)
SetenvRead ==
  /\ wpc = "second"
  /\ Pick(wfirst, part[1]) # -1
  /\ \E v \in {wval, NULL} :
       ed' = [mtd |-> Pick(wfirst, part[1]),
              data |-> [EnvIn(wfirst, part[1]) EXCEPT ![wname] = v]]
  /\ wpc' = "erase"
  /\ UNCHANGED <<part, wfirst, wname, wval>>
  /\ Watch

(* No good partition, or an mtd_read that came back short *)
SetenvReadFails ==
  /\ wpc = "second"
  /\ SetenvReturn /\ UNCHANGED part
  /\ Watch

-----------------------------------------------------------------------------
(* env_save *)

Target_InPlace(mtd) == mtd
Target(mtd) == IF mtd = 0 THEN 1 ELSE 0

Saving == wpc \in {"erase", "write", "flag"}

SaveErase ==
  /\ wpc = "erase"
  /\ part' = [part EXCEPT ![Target(ed.mtd)] = Bad("erased")]
  /\ wpc' = "write"
  /\ UNCHANGED <<wfirst, wname, wval, ed>>
  /\ Watch

(* The whole environment, with its CRC and with the flag byte active *)
SaveWrite ==
  /\ wpc = "write"
  /\ part' = [part EXCEPT ![Target(ed.mtd)] = Good("active", ed.data)]
  /\ wpc' = "flag"
  /\ UNCHANGED <<wfirst, wname, wval, ed>>
  /\ Watch

SaveFlag_OnTarget ==
  /\ wpc = "flag"
  /\ part' = [part EXCEPT ![Target(ed.mtd)].flag = "obsolete"]
  /\ SetenvReturn
  /\ Watch

(* One byte of the partition the environment came from. Programming clears  *)
(* bits, so obsolete_flag can be written over anything.                     *)
SaveFlag ==
  /\ wpc = "flag"
  /\ part' = [part EXCEPT ![ed.mtd].flag = "obsolete"]
  /\ SetenvReturn
  /\ Watch

(* What an MTD call that fails, or is cut off, can leave in the flash: an   *)
(* erase, a write that may have been complete all the same, or a flag byte  *)
(* of which some bits are still set (there is only one in active_flag)      *)
Interrupted ==
  \/ /\ wpc = "erase"
     /\ \E f \in Flags : part' = [part EXCEPT ![Target(ed.mtd)] = Bad(f)]
  \/ /\ wpc = "write"
     /\ \E p \in {Bad("erased"), Bad("active"), Good("active", ed.data)} :
          part' = [part EXCEPT ![Target(ed.mtd)] = p]
  \/ /\ wpc = "flag"
     /\ \/ part' = [part EXCEPT ![ed.mtd].flag = "obsolete"]
        \/ /\ part[ed.mtd].flag \in {"erased", "torn"}
           /\ part' = [part EXCEPT ![ed.mtd].flag = "torn"]

(* The MTD call reports failure: env_save gives up, and rtcnvet_do_setenv    *)
(* returns 0 all the same                                                    *)
SaveFails ==
  /\ Saving
  /\ Interrupted \/ UNCHANGED part
  /\ SetenvReturn
  /\ Watch

-----------------------------------------------------------------------------
(* rtcnvet_get_env, for whoever probes (cns3xxx_rtc_probe, the MAC address   *)
(* of the ethernet driver)                                                   *)

GetEnvStart ==
  /\ rpc = "idle"
  /\ rpc' = "second" /\ rfirst' = part[0]
  /\ saves' = (IF wpc = "idle" THEN 0 ELSE 1) /\ rseen' = {Current} /\ got' = NULL
  /\ UNCHANGED <<part, wvars>>

GetEnvRead_FirstMustBeGood ==
  /\ rpc = "second"
  /\ got' = IF rfirst.crc THEN EnvIn(rfirst, part[1]) ELSE NULL
  /\ rpc' = "got" /\ rfirst' = Bad("erased")
  /\ UNCHANGED <<part, wvars, saves, rseen>>

GetEnvRead ==
  /\ rpc = "second"
  /\ got' = EnvIn(rfirst, part[1])
  /\ rpc' = "got" /\ rfirst' = Bad("erased")
  /\ UNCHANGED <<part, wvars, saves, rseen>>

(* It has its answer, or one of its mtd_reads came back short *)
GetEnvReturn ==
  /\ rpc \in {"second", "got"}
  /\ rpc' = "idle" /\ rfirst' = Bad("erased") /\ got' = NULL
  /\ saves' = 0 /\ rseen' = {}
  /\ UNCHANGED <<part, wvars>>

(* The power goes. Everything but the flash is lost. *)
Crash ==
  /\ Interrupted \/ UNCHANGED part
  /\ SetenvReturn
  /\ rpc' = "idle" /\ rfirst' = Bad("erased") /\ got' = NULL
  /\ saves' = 0 /\ rseen' = {}

Next ==
  \/ \E n \in Names, v \in Vals \cup {NULL} : SetenvStart(n, v)
  \/ SetenvRead \/ SetenvReadFails
  \/ SaveErase \/ SaveWrite \/ SaveFlag \/ SaveFails
  \/ GetEnvStart \/ GetEnvRead \/ GetEnvReturn
  \/ Crash

Spec == Init /\ [][Next]_vars

-----------------------------------------------------------------------------
(* Properties *)

(* The variables have their types: the flash, the save and the reader's      *)
(* locals are partitions and environments.                                   *)
TypeOK ==
  /\ part \in [0 .. 1 -> Part]
  /\ wpc \in {"idle", "second", "erase", "write", "flag"}
  /\ wfirst \in Part
  /\ wname \in Names \cup {NULL} /\ wval \in Vals \cup {NULL}
  /\ ed \in [mtd : -1 .. 1, data : Envs]
  /\ rpc \in {"idle", "second", "got"}
  /\ rfirst \in Part /\ got \in Envs \cup {NULL}
  /\ saves \in 0 .. 2 /\ rseen \subseteq Envs \cup {NULL}

(* While env_save is at work, the partition it took the environment from is  *)
(* whole, and what a reader would find now is the environment before the     *)
(* setenv or the one after it. No failure and no power cut at any of its     *)
(* steps costs the box its environment.                                      *)
SourceIntact ==
  Saving => part[ed.mtd].crc /\ Current \in {part[ed.mtd].data, ed.data}

(* A save that got through all its MTD calls, that for the flag included,    *)
(* has taken effect, whatever the two flags were before it and whichever     *)
(* partition it wrote. (What rtcnvet_do_setenv returns does not tell: it is  *)
(* 0 also when env_save failed.)                                             *)
SavedIsCurrent == [][SaveFlag => Current' = ed.data]_vars

(* env_read takes the two partitions one after the other, while a setenv     *)
(* erases one of them. A get_env that no more than one setenv overlaps,      *)
(* wherever that one succeeds or fails, still finds an environment, if the   *)
(* flash holds one: the partition being erased is never the only good one    *)
(* of the two as the reader saw them. (Two setenvs erase both, and a reader  *)
(* between them finds none.)                                                 *)
ReadFindsOne == rpc = "got" /\ saves <= 1 /\ Current # NULL => got # NULL

(* What a get_env finds was the environment at some time while it was        *)
(* reading: it is from the good partition.                                   *)
ReadWasCurrent == rpc = "got" => got \in rseen

(* All of it together: the two partitions with their flags are one           *)
(* environment, changed by a setenv as a whole or not at all.                *)
Store == INSTANCE NvEnvStore WITH
  env <- Current,
  job <- IF Saving THEN ed.data ELSE NULL

IsStore == Store!Spec
=============================================================================
