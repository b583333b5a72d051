--------------------------- MODULE FiqCacheProofs ---------------------------
(***************************************************************************)
(* Why no request to the other CPU is lost or answered twice. FiqInv says  *)
(* where the request of each call is: not made, raised, or being handled.  *)
(* BootInv says how far the second CPU has come when it is reported up.    *)
(*                                                                         *)
(* Why the CPUs and the devices see what was written last to a buffer.     *)
(* DataInv says for each buffer which copies are fresh while it is a CPU's *)
(* or the device's, and what the two halves of a call, one on each CPU,    *)
(* have done to it while it changes hands.                                 *)
(***************************************************************************)
EXTENDS FiqCache, TLAPS

PCs == {"idle", "raise", "local", "drain", "spin"}
HPCs == {"out", "op", "exit", "drain"}
AtWork == {"op", "exit"}
Waits == {"local", "drain", "spin"}
FiqsSet == {"fiq regs", "released", "synchronised", "online"}

CallTypes ==
  /\ pc \in [CPU -> PCs] /\ hpc \in [CPU -> HPCs]
  /\ op \in [CPU -> Reqs \cup {NoReq}]
  /\ req \in [CPU -> Reqs \cup {NoReq}]
  /\ hreq \in [CPU -> Reqs \cup {NoReq}]
  /\ fiq \in [CPU -> BOOLEAN] /\ r8zero \in [CPU -> BOOLEAN]

(* The call on c and the handler on o that answers it.                       *)
ReqOf(c, o) ==
  /\ pc[c] = "idle" => req[c] = NoReq /\ op[c] = NoReq
  /\ pc[c] # "idle" => op[c] \in Reqs
  /\ req[c] # NoReq => req[c] = op[c]
  /\ pc[c] = "raise" => req[c] # NoReq /\ ~fiq[c] /\ hpc[o] \notin AtWork
  /\ fiq[c] => req[c] # NoReq /\ pc[c] \in Waits /\ hpc[o] \notin AtWork
  /\ hpc[o] \in AtWork => hreq[o] = req[c] /\ req[c] # NoReq /\ pc[c] \in Waits
  /\ req[c] # NoReq => pc[c] = "raise" \/ fiq[c] \/ hpc[o] \in AtWork

ReqInv == \A c \in CPU : ReqOf(c, Other(c))

(* r8 is zero wherever a FIQ can be taken, and before the second CPU is      *)
(* online there are no requests.                                             *)
OnlineInv ==
  /\ online => second = "online"
  /\ hpc[0] \notin AtWork => r8zero[0]
  /\ second \in FiqsSet /\ hpc[1] \notin AtWork => r8zero[1]
  /\ ~online => pc[1] = "idle" /\ \A c \in CPU : hpc[c] = "out" /\ req[c] = NoReq

BootInv ==
  (boot = "waiting" /\ cns3xxx_pen_release = -1) \/ boot = "booted" =>
    second \in {"released", "synchronised", "online"}

FiqInv == CallTypes /\ ReqInv /\ OnlineInv

LEMMA OtherOf ==
  ASSUME NEW c \in CPU
  PROVE  /\ Other(c) \in CPU /\ Other(c) # c /\ Other(Other(c)) = c
         /\ \A e \in CPU : e = c \/ e = Other(c)
BY DEF CPU, Other

LEMMA NotAReq == NoReq \notin Reqs
BY DEF NoReq, Reqs, Kinds

LEMMA FiqInitially == Init => FiqInv /\ BootInv
<1> SUFFICES ASSUME Init PROVE FiqInv /\ BootInv
  OBVIOUS
<1> USE DEF Init, BootInit
<1>1. CallTypes
  <2>1. fiq \in [CPU -> BOOLEAN]  OBVIOUS
  <2>2. r8zero \in [CPU -> BOOLEAN]  OBVIOUS
  <2> QED  BY <2>1, <2>2 DEF CallTypes, PCs, HPCs
<1>2. ReqInv
  <2>1. \A c \in CPU : ~fiq[c]  OBVIOUS
  <2> QED  BY <2>1, OtherOf DEF ReqInv, ReqOf, AtWork
<1>3. OnlineInv
  <2>1. ~online /\ r8zero[0]  BY DEF CPU
  <2> QED  BY <2>1 DEF OnlineInv, FiqsSet, CPU
<1>4. BootInv  BY DEF BootInv
<1> QED  BY <1>1, <1>2, <1>3, <1>4 DEF FiqInv

LEMMA FiqBoot == ASSUME FiqInv, Boot PROVE FiqInv'
<1>1. UNCHANGED <<callVars, hpc, hreq>>
  BY DEF Boot, SecondaryFiqRegs, BringUp, fiqVars
<1>2. CallTypes'
  <2>1. r8zero' \in [CPU -> BOOLEAN]
    <3>1. CASE SecondaryFiqRegs
      BY <3>1 DEF SecondaryFiqRegs, FiqInv, CallTypes
    <3>2. CASE BringUp
      BY <3>2 DEF BringUp, fiqVars, FiqInv, CallTypes
    <3> QED  BY <3>1, <3>2 DEF Boot
  <2> QED  BY <1>1, <2>1 DEF FiqInv, CallTypes, callVars
<1>3. ReqInv'
  BY <1>1 DEF FiqInv, ReqInv, ReqOf, callVars
<1>4. OnlineInv'
  <2>1. CASE SecondaryFiqRegs
    <3>1. r8zero'[0] = r8zero[0] /\ r8zero'[1] = TRUE
      BY <2>1 DEF SecondaryFiqRegs, FiqInv, CallTypes, CPU
    <3>2. online' = online /\ second = "out" /\ second' = "fiq regs"
      BY <2>1 DEF SecondaryFiqRegs, SetsFiqRegs
    <3> QED  BY <1>1, <3>1, <3>2 DEF FiqInv, OnlineInv, callVars
  <2>2. CASE BringUp
    <3>1. r8zero' = r8zero  BY <2>2 DEF BringUp, fiqVars
    <3>2. (second' \in FiqsSet => second \in FiqsSet) /\ (online => online') /\ (online' => second' = "online")
      <4>1. CASE GoesOnline
        <5>1. online' /\ second' = "online" /\ second = "synchronised"
          BY <4>1, Zenon DEF GoesOnline
        <5> QED  BY <5>1 DEF FiqsSet
      <4>2. CASE BootWakes
        BY <4>2 DEF BootWakes, FiqInv, OnlineInv, FiqsSet
      <4>3. CASE BootWritesPen \/ BootReturns \/ CpuUpGivesUp
        BY <4>3 DEF BootWritesPen, BootReturns, CpuUpGivesUp, FiqInv, OnlineInv
      <4>4. CASE LeavesMonitor \/ LeavesPen
        <5>1. ~online  BY <4>4 DEF LeavesMonitor, LeavesPen, FiqInv, OnlineInv
        <5>2. online' = online /\ second' \in {"pen", "out"}
          BY <4>4 DEF LeavesMonitor, LeavesPen
        <5> QED  BY <5>1, <5>2 DEF FiqsSet
      <4>5. CASE TellsReleased \/ Synchronises
        <5>1. ~online  BY <4>5 DEF TellsReleased, Synchronises, FiqInv, OnlineInv
        <5>2. online' = online /\ second \in {"fiq regs", "released"}
          BY <4>5 DEF TellsReleased, Synchronises
        <5> QED  BY <5>1, <5>2 DEF FiqsSet
      <4> QED  BY <2>2, <4>1, <4>2, <4>3, <4>4, <4>5 DEF BringUp
    <3> QED  BY <1>1, <3>1, <3>2 DEF FiqInv, OnlineInv, callVars
  <2> QED  BY <2>1, <2>2 DEF Boot
<1> QED  BY <1>2, <1>3, <1>4 DEF FiqInv

LEMMA FiqStart ==
  ASSUME FiqInv, NEW c \in CPU, NEW k \in Kinds, NEW d \in Dirs, NEW b \in Bufs, Start(c, k, d, b)
  PROVE  FiqInv'
<1> DEFINE r == [flags |-> k, dir |-> d, buf |-> b]
<1>0. r \in Reqs /\ r # NoReq  BY NotAReq DEF Reqs
<1>1. /\ pc[c] = "idle" /\ hpc[c] = "out" /\ (c = 1 => online)
      /\ op' = [op EXCEPT ![c] = r]
      /\ UNCHANGED <<online, second, fiq, hpc, hreq, r8zero>>
  BY DEF Start, Runs, bootVars, fiqVars
<1>2. CASE online
  <2>1. req' = [req EXCEPT ![c] = r] /\ pc' = [pc EXCEPT ![c] = "raise"]
    BY <1>2 DEF Start
  <2>2. CallTypes'  BY <1>0, <1>1, <2>1 DEF FiqInv, CallTypes, PCs
  <2>3. ReqInv'
    BY <1>0, <1>1, <2>1, OtherOf DEF FiqInv, CallTypes, ReqInv, ReqOf, AtWork, Waits
  <2>4. OnlineInv'  BY <1>1, <1>2 DEF FiqInv, OnlineInv
  <2> QED  BY <2>2, <2>3, <2>4 DEF FiqInv
<1>3. CASE ~online
  <2>1. req' = req /\ pc' = [pc EXCEPT ![c] = "local"]
    BY <1>3 DEF Start
  <2>2. CallTypes'  BY <1>0, <1>1, <2>1 DEF FiqInv, CallTypes, PCs
  <2>3. ReqInv'
    BY <1>0, <1>1, <2>1, OtherOf DEF FiqInv, CallTypes, ReqInv, ReqOf, AtWork, Waits
  <2>4. OnlineInv'
    BY <1>1, <1>3, <2>1 DEF FiqInv, CallTypes, OnlineInv, CPU
  <2> QED  BY <2>2, <2>3, <2>4 DEF FiqInv
<1> QED  BY <1>2, <1>3

LEMMA FiqCall ==
  ASSUME FiqInv, NEW c \in CPU, Call(c)
  PROVE  FiqInv'
<1>0. (c = 1 => online) /\ hpc[c] = "out"
  BY DEF Call, Raise, LocalOp, LocalDrain, Return, Runs
<1>1. CASE Raise(c)
  <2>1. /\ pc[c] = "raise" /\ pc' = [pc EXCEPT ![c] = "local"]
        /\ fiq' = [fiq EXCEPT ![c] = TRUE]
        /\ UNCHANGED <<online, second, op, req, hpc, hreq, r8zero>>
    BY <1>1 DEF Raise, bootVars, fiqVars
  <2>2. CallTypes'  BY <2>1 DEF FiqInv, CallTypes, PCs
  <2>3. ReqInv'
    <3>1. fiq'[c] /\ \A e \in CPU \ {c} : fiq'[e] = fiq[e]
      BY <2>1 DEF FiqInv, CallTypes
    <3> QED  BY <2>1, <3>1, OtherOf DEF FiqInv, CallTypes, ReqInv, ReqOf, AtWork, Waits
  <2>4. OnlineInv'  BY <1>0, <2>1 DEF FiqInv, CallTypes, OnlineInv, CPU
  <2> QED  BY <2>2, <2>3, <2>4 DEF FiqInv
<1>2. CASE LocalOp(c) \/ LocalDrain(c)
  <2>1. /\ pc[c] \in {"local", "drain"}
        /\ pc' = [pc EXCEPT ![c] = IF pc[c] = "local" THEN "drain" ELSE "spin"]
        /\ UNCHANGED <<online, second, op, req, fiq, hpc, hreq, r8zero>>
    BY <1>2 DEF LocalOp, LocalDrain, bootVars, fiqVars
  <2>2. CallTypes'  BY <2>1 DEF FiqInv, CallTypes, PCs
  <2>3. ReqInv'
    BY <2>1, OtherOf DEF FiqInv, CallTypes, ReqInv, ReqOf, AtWork, Waits
  <2>4. OnlineInv'  BY <1>0, <2>1 DEF FiqInv, CallTypes, OnlineInv, CPU
  <2> QED  BY <2>2, <2>3, <2>4 DEF FiqInv
<1>3. CASE Return(c)
  <2>1. /\ pc[c] = "spin" /\ req[c] = NoReq
        /\ pc' = [pc EXCEPT ![c] = "idle"] /\ op' = [op EXCEPT ![c] = NoReq]
        /\ UNCHANGED <<online, second, req, fiq, hpc, hreq, r8zero>>
    BY <1>3 DEF Return, bootVars, fiqVars
  <2>2. CallTypes'  BY <2>1 DEF FiqInv, CallTypes, PCs
  <2>3. ReqInv'
    BY <2>1, OtherOf DEF FiqInv, CallTypes, ReqInv, ReqOf, AtWork, Waits
  <2>4. OnlineInv'  BY <1>0, <2>1 DEF FiqInv, CallTypes, OnlineInv, CPU
  <2> QED  BY <2>2, <2>3, <2>4 DEF FiqInv
<1> QED  BY <1>1, <1>2, <1>3 DEF Call

LEMMA FiqHandler ==
  ASSUME FiqInv, NEW c \in CPU, Handler(c)
  PROVE  FiqInv'
<1> DEFINE o == Other(c)
<1>0. o \in CPU /\ o # c /\ Other(o) = c /\ \A e \in CPU : e = c \/ e = o
  BY OtherOf
<1>9. ReqOf(c, o) /\ ReqOf(o, c)  BY <1>0 DEF FiqInv, ReqInv
<1> HIDE DEF o
<1>1. CASE FiqEntry(c)
  <2>1. /\ hpc[c] = "out" /\ fiq[o] /\ (c = 1 => online)
        /\ hpc' = [hpc EXCEPT ![c] = "op"]
        /\ hreq' = [hreq EXCEPT ![c] = req[o]]
        /\ UNCHANGED <<online, second, pc, op, req>>
    BY <1>1 DEF FiqEntry, Runs, bootVars, o
  <2>2. fiq' = [fiq EXCEPT ![o] = ~r8zero[c]] /\ r8zero' = [r8zero EXCEPT ![c] = FALSE]
    BY <1>1 DEF FiqEntry, o
  <2>3. r8zero[c]
    BY <2>1 DEF FiqInv, OnlineInv, CPU, FiqsSet, AtWork
  <2>4. ~fiq'[o] /\ fiq'[c] = fiq[c] /\ r8zero'[o] = r8zero[o]
    BY <1>0, <2>2, <2>3 DEF FiqInv, CallTypes
  <2>5. CallTypes'
    <3>1. fiq' \in [CPU -> BOOLEAN]  BY <2>2 DEF FiqInv, CallTypes
    <3>2. r8zero' \in [CPU -> BOOLEAN]  BY <2>2 DEF FiqInv, CallTypes
    <3> QED  BY <1>0, <2>1, <3>1, <3>2 DEF FiqInv, CallTypes, HPCs
  <2>6. ReqInv'
    <3>1. ReqOf(c, o)'
      BY <1>0, <1>9, <2>1, <2>4 DEF FiqInv, CallTypes, ReqOf, AtWork
    <3>2. ReqOf(o, c)'
      BY <1>0, <1>9, <2>1, <2>4 DEF FiqInv, CallTypes, ReqOf, AtWork
    <3> QED  BY <1>0, <3>1, <3>2 DEF ReqInv, o
  <2>7. OnlineInv'
    <3>1. online
      BY <1>0, <2>1 DEF FiqInv, ReqInv, ReqOf, OnlineInv, CPU
    <3> QED  BY <1>0, <2>1, <2>4, <3>1 DEF FiqInv, CallTypes, OnlineInv, AtWork, CPU
  <2> QED  BY <2>5, <2>6, <2>7 DEF FiqInv
<1>2. CASE FiqOp(c)
  <2>1. /\ hpc[c] = "op" /\ hpc' = [hpc EXCEPT ![c] = "exit"]
        /\ UNCHANGED <<online, second, pc, op, req, fiq, hreq, r8zero>>
    BY <1>2 DEF FiqOp, bootVars, callVars
  <2>2. CallTypes'  BY <2>1 DEF FiqInv, CallTypes, HPCs
  <2>3. ReqInv'
    BY <2>1, OtherOf DEF FiqInv, CallTypes, ReqInv, ReqOf, AtWork
  <2>4. OnlineInv'  BY <2>1 DEF FiqInv, CallTypes, OnlineInv, AtWork, CPU
  <2> QED  BY <2>2, <2>3, <2>4 DEF FiqInv
<1>3. CASE FiqExit(c)
  <2>1. /\ hpc[c] = "exit" /\ hpc' = [hpc EXCEPT ![c] = "drain"]
        /\ req' = [req EXCEPT ![o] = NoReq] /\ hreq' = [hreq EXCEPT ![c] = NoReq]
        /\ UNCHANGED <<online, second, pc, op, fiq>>
    BY <1>3 DEF FiqExit, bootVars, o
  <2>2. r8zero' = [r8zero EXCEPT ![c] = TRUE]
    BY <1>3 DEF FiqExit
  <2>3. CallTypes'
    <3>1. r8zero' \in [CPU -> BOOLEAN]  BY <2>2 DEF FiqInv, CallTypes
    <3> QED  BY <1>0, <2>1, <3>1 DEF FiqInv, CallTypes, HPCs
  <2>4. ReqInv'
    <3>1. ReqOf(c, o)'
      BY <1>0, <1>9, <2>1 DEF FiqInv, CallTypes, ReqOf, AtWork
    <3>2. ReqOf(o, c)'
      BY <1>0, <1>9, <2>1, NotAReq DEF FiqInv, CallTypes, ReqOf, AtWork, Waits
    <3> QED  BY <1>0, <3>1, <3>2 DEF ReqInv, o
  <2>5. OnlineInv'
    <3>1. r8zero'[c] /\ r8zero'[o] = r8zero[o]  BY <1>0, <2>2 DEF FiqInv, CallTypes
    <3>2. online  BY <2>1 DEF FiqInv, OnlineInv
    <3> QED  BY <1>0, <2>1, <3>1, <3>2 DEF FiqInv, CallTypes, OnlineInv, AtWork, CPU
  <2> QED  BY <2>3, <2>4, <2>5 DEF FiqInv
<1>4. CASE FiqReturn(c)
  <2>1. /\ hpc[c] = "drain" /\ hpc' = [hpc EXCEPT ![c] = "out"]
        /\ UNCHANGED <<online, second, pc, op, req, fiq, hreq, r8zero>>
    BY <1>4 DEF FiqReturn, bootVars, callVars
  <2>2. CallTypes'  BY <2>1 DEF FiqInv, CallTypes, HPCs
  <2>3. ReqInv'
    BY <2>1, OtherOf DEF FiqInv, CallTypes, ReqInv, ReqOf, AtWork
  <2>4. OnlineInv'  BY <2>1 DEF FiqInv, CallTypes, OnlineInv, AtWork, CPU
  <2> QED  BY <2>2, <2>3, <2>4 DEF FiqInv
<1> QED  BY <1>1, <1>2, <1>3, <1>4 DEF Handler

LEMMA FiqElsewhere ==
  ASSUME FiqInv, UNCHANGED <<bootVars, callVars, fiqVars>>
  PROVE  FiqInv'
BY DEF FiqInv, CallTypes, ReqInv, ReqOf, OnlineInv, bootVars, callVars, fiqVars

LEMMA FiqStep == FiqInv /\ dir \in [Bufs -> Dirs] /\ [Next]_vars => FiqInv'
<1> SUFFICES ASSUME FiqInv, dir \in [Bufs -> Dirs], [Next]_vars PROVE FiqInv'
  OBVIOUS
<1>1. CASE Boot  BY <1>1, FiqBoot
<1>2. ASSUME NEW c \in CPU, Call(c) \/ Handler(c) PROVE FiqInv'
  BY <1>2, FiqCall, FiqHandler
<1>3. ASSUME NEW c \in CPU, NEW b \in Bufs, NEW d \in Dirs, MapStart(c, d, b)
      PROVE  FiqInv'
  BY <1>3, FiqStart DEF MapStart, Kinds
<1>4. ASSUME NEW c \in CPU, NEW b \in Bufs, FlushStart(c, b)
      PROVE  FiqInv'
  <2>1. "flush" \in Kinds /\ "both" \in Dirs  BY DEF Kinds, Dirs
  <2> QED  BY <1>4, <2>1, FiqStart DEF FlushStart
<1>5. ASSUME NEW c \in CPU, NEW b \in Bufs, UnmapStart(c, b)
      PROVE  FiqInv'
  <2>1. "unmap" \in Kinds  BY DEF Kinds
  <2> QED  BY <1>5, <2>1, FiqStart DEF UnmapStart
<1>6. CASE UNCHANGED <<bootVars, callVars, fiqVars>>
  BY <1>6, FiqElsewhere
<1>7. ASSUME NEW c \in CPU, NEW b \in Bufs,
             WriteBack(c, b) \/ Evict(c, b) \/ Load(c, b) \/ Store(c, b)
      PROVE  UNCHANGED <<bootVars, callVars, fiqVars>>
  BY <1>7 DEF WriteBack, Evict, Load, Store
<1>9. ASSUME NEW b \in Bufs, DeviceWrites(b)
      PROVE  UNCHANGED <<bootVars, callVars, fiqVars>>
  BY <1>9 DEF DeviceWrites
<1>8. CASE UNCHANGED vars
  BY <1>6, <1>8 DEF vars
<1> QED  BY <1>1, <1>2, <1>3, <1>4, <1>5, <1>6, <1>7, <1>8, <1>9 DEF Next

LEMMA BootStep == BootInv /\ [Next]_vars => BootInv'
<1> SUFFICES ASSUME BootInv, [Next]_vars PROVE BootInv'
  OBVIOUS
<1>1. CASE Boot
  <2>1. CASE SetsFiqRegs  BY <2>1 DEF SetsFiqRegs, BootInv
  <2>3. CASE BootWakes  BY <2>3 DEF BootWakes, BootInv
  <2>4. CASE BootWritesPen  BY <2>4 DEF BootWritesPen, BootInv
  <2>5. CASE CpuUpGivesUp  BY <2>5 DEF CpuUpGivesUp, BootInv
  <2>6. CASE LeavesMonitor \/ LeavesPen  BY <2>6 DEF LeavesMonitor, LeavesPen, BootInv
  <2>7. CASE TellsReleased \/ Synchronises  BY <2>7 DEF TellsReleased, Synchronises, BootInv
  <2>8. CASE GoesOnline
    <3>1. second' = "online"  BY <2>8, Zenon DEF GoesOnline
    <3> QED  BY <3>1 DEF BootInv
  <2>2. ASSUME BootReturns PROVE BootInv'
    <3>1. boot' = "booted" => cns3xxx_pen_release = -1
      BY <2>2 DEF BootReturns
    <3> QED  BY <2>2, <3>1 DEF BootReturns, BootInv
  <2> QED  BY <1>1, <2>1, <2>2, <2>3, <2>4, <2>5, <2>6, <2>7, <2>8
           DEF Boot, SecondaryFiqRegs, BringUp
<1>2. CASE UNCHANGED bootVars
  BY <1>2 DEF bootVars, BootInv
<1>3. ASSUME NEW c \in CPU, Call(c) \/ Handler(c) PROVE UNCHANGED bootVars
  BY <1>3 DEF Call, Raise, LocalOp, LocalDrain, Return, Handler, FiqEntry, FiqOp, FiqExit, FiqReturn
<1>4. ASSUME NEW c \in CPU, NEW b \in Bufs, NEW d \in Dirs,
             MapStart(c, d, b) \/ UnmapStart(c, b) \/ FlushStart(c, b)
      PROVE  UNCHANGED bootVars
  BY <1>4 DEF MapStart, UnmapStart, FlushStart, Start
<1>5. ASSUME NEW c \in CPU, NEW b \in Bufs,
             WriteBack(c, b) \/ Evict(c, b) \/ Load(c, b) \/ Store(c, b) \/ DeviceWrites(b)
      PROVE  UNCHANGED bootVars
  BY <1>5 DEF WriteBack, Evict, Load, Store, DeviceWrites
<1>6. Dirs # {} /\ CPU # {}  BY DEF Dirs, CPU
<1>7. CASE UNCHANGED vars  BY <1>2, <1>7 DEF vars
<1> QED  BY <1>1, <1>2, <1>3, <1>4, <1>5, <1>6, <1>7 DEF Next

LEMMA DirStep == dir \in [Bufs -> Dirs] /\ [Next]_vars => dir' \in [Bufs -> Dirs]
<1> SUFFICES ASSUME dir \in [Bufs -> Dirs], [Next]_vars
             PROVE  dir' \in [Bufs -> Dirs]
  OBVIOUS
<1>1. CASE Boot  BY <1>1 DEF Boot
<1>2. ASSUME NEW c \in CPU, Call(c) PROVE dir' \in [Bufs -> Dirs]
  <2>1. "to" \in Dirs  BY DEF Dirs
  <2> QED  BY <1>2, <2>1 DEF Call, Raise, LocalOp, LocalDrain, Return
<1>3. ASSUME NEW c \in CPU, Handler(c) PROVE UNCHANGED dir
  BY <1>3 DEF Handler, FiqEntry, FiqOp, FiqExit, FiqReturn
<1>4. ASSUME NEW c \in CPU, NEW b \in Bufs, NEW d \in Dirs, MapStart(c, d, b)
      PROVE  dir' \in [Bufs -> Dirs]
  BY <1>4 DEF MapStart
<1>5. ASSUME NEW c \in CPU, NEW b \in Bufs,
             UnmapStart(c, b) \/ FlushStart(c, b) \/ WriteBack(c, b) \/ Evict(c, b)
               \/ Load(c, b) \/ Store(c, b) \/ DeviceWrites(b)
      PROVE  UNCHANGED dir
  BY <1>5 DEF UnmapStart, FlushStart, WriteBack, Evict, Load, Store, DeviceWrites
<1>6. CASE UNCHANGED vars  BY <1>6 DEF vars
<1>7. CPU # {}  BY DEF CPU
<1> QED  BY <1>1, <1>2, <1>3, <1>4, <1>5, <1>6, <1>7 DEF Next

LEMMA FiqInvHolds == Spec => [](FiqInv /\ BootInv /\ dir \in [Bufs -> Dirs])
<1>1. Init => FiqInv /\ BootInv /\ dir \in [Bufs -> Dirs]
  BY FiqInitially DEF Init, Dirs
<1>2. FiqInv /\ BootInv /\ dir \in [Bufs -> Dirs] /\ [Next]_vars
      => (FiqInv /\ BootInv /\ dir \in [Bufs -> Dirs])'
  BY FiqStep, BootStep, DirStep
<1> QED  BY <1>1, <1>2, PTL DEF Spec

(* A FIQ always finds the request of a call that waits for it, and a call    *)
(* only waits while its FIQ is raised or being handled: the handler's first  *)
(* store acknowledges the FIQ only because r8 is zero whenever a FIQ can be  *)
(* taken, which the second CPU sees to before it is out of the pen.          *)
THEOREM FiqHasRequestHolds == Spec => []FiqHasRequest
<1>1. FiqInv => FiqHasRequest
  <2> SUFFICES ASSUME FiqInv, NEW c \in CPU, NEW o, o = Other(c)
               PROVE  /\ fiq[o] => req[o] # NoReq /\ hpc[c] \in {"out", "drain"}
                      /\ hpc[c] \in {"op", "exit"} =>
                           hreq[c] = req[o] /\ pc[o] \in {"local", "drain", "spin"}
                      /\ req[o] # NoReq => \/ pc[o] = "raise" \/ fiq[o]
                                           \/ hpc[c] \in {"op", "exit"}
    BY DEF FiqHasRequest
  <2>1. o \in CPU /\ Other(o) = c  BY OtherOf
  <2>2. ReqOf(o, c)  BY <2>1 DEF FiqInv, ReqInv
  <2>3. hpc[c] \in HPCs  BY DEF FiqInv, CallTypes
  <2> QED  BY <2>2, <2>3 DEF ReqOf, AtWork, Waits, HPCs
<1> QED  BY <1>1, FiqInvHolds, PTL

(* cns3xxx_boot_secondary reports success only for a CPU that has left the   *)
(* pen and set its FIQ registers.                                            *)
THEOREM BootedIsReleasedHolds == Spec => []BootedIsReleased
<1>1. BootInv => BootedIsReleased  BY DEF BootInv, BootedIsReleased
<1> QED  BY <1>1, FiqInvHolds, PTL

-----------------------------------------------------------------------------
(* The copies of the buffers.                                               *)

MemTypes ==
  /\ owner \in [Bufs -> {"cpu", "moving", "device"}]
  /\ dir \in [Bufs -> Dirs]
  /\ holds \in [Bufs -> SUBSET Places]
  /\ dirty \in [Bufs -> SUBSET CPU]
  /\ fresh \in [Bufs -> SUBSET Places]

(* A dirty line is the only line, and no older write is under way.           *)
Shape(b) ==
  /\ Mem \in holds[b] /\ fresh[b] \subseteq holds[b]
  /\ \A c \in dirty[b] : Line(c) \in holds[b] /\ Line(Other(c)) \notin holds[b]
  /\ dirty[b] # {} => Settled(b)

WbsFresh(b) == \A c \in CPU : Wb(c) \in holds[b] => Wb(c) \in fresh[b]
LinesFresh(b) == \A c \in CPU : Line(c) \in holds[b] => Line(c) \in fresh[b]
MemFresh(b) == WbsFresh(b) /\ (Mem \in fresh[b] \/ ~Settled(b))
(* Every copy that can be read is what was written last.                     *)
AllFresh(b) ==
  LinesFresh(b) /\ WbsFresh(b) /\ (dirty[b] = {} => Mem \in fresh[b] \/ ~Settled(b))

Draining(b) == \A c \in CPU : Wb(c) \in holds[b] => hpc[c] = "drain"

BufInv(b) ==
  /\ Shape(b)
  /\ owner[b] = "cpu" => AllFresh(b)
  /\ owner[b] = "device" =>
       /\ dirty[b] = {} /\ Draining(b)
       /\ IF dir[b] = "to" THEN AllFresh(b) ELSE MemFresh(b)

OwnDone(c) == pc[c] \in {"drain", "spin"}
OtherDone(c) == req[c] = NoReq \/ hpc[Other(c)] = "exit"

(* dma_map: neither line is dirty once its CPU has done its half, and when  *)
(* the call spins only a handler on its way out has a write buffer to drain. *)
MapInv(c, b) ==
  /\ op[c].dir # "from" => AllFresh(b)
  /\ OwnDone(c) => c \notin dirty[b]
  /\ OtherDone(c) => Other(c) \notin dirty[b]
  /\ pc[c] = "spin" => Wb(c) \notin holds[b]
  /\ req[c] = NoReq /\ Wb(Other(c)) \in holds[b] => hpc[Other(c)] = "drain"

(* dma_unmap: neither line is left once its CPU has done its half.          *)
UnmapInv(c, b) ==
  IF op[c].dir = "to" THEN AllFresh(b)
  ELSE /\ dirty[b] = {} /\ MemFresh(b)
       /\ OwnDone(c) => Line(c) \notin holds[b]
       /\ OtherDone(c) => Line(Other(c)) \notin holds[b]

CallInv(c, o) == pc[c] # "idle" =>
  LET b == op[c].buf IN
  /\ pc[o] # "idle" => op[o].buf # b
  /\ owner[b] = IF op[c].flags = "flush" THEN "cpu" ELSE "moving"
  /\ op[c].flags # "flush" => dir[b] = op[c].dir
  /\ op[c].flags = "map" => MapInv(c, b)
  /\ op[c].flags = "unmap" => UnmapInv(c, b)

(* The second CPU has no copy before it is online.                           *)
Offline == ~online => \A b \in Bufs : Line(1) \notin holds[b] /\ Wb(1) \notin holds[b]

DataInv ==
  /\ MemTypes /\ Offline
  /\ \A b \in Bufs : BufInv(b)
  /\ \A c \in CPU : CallInv(c, Other(c))

LEMMA PlacesOf ==
  ASSUME NEW c \in CPU, NEW d \in CPU
  PROVE  /\ Mem \in Places /\ Line(c) \in Places /\ Wb(c) \in Places
         /\ Mem # Line(c) /\ Mem # Wb(c) /\ Line(c) # Wb(d)
         /\ c # d => Line(c) # Line(d) /\ Wb(c) # Wb(d)
<1>1. Mem \in Places /\ Line(c) \in Places /\ Wb(c) \in Places  BY DEF Places
<1>2. "mem" # "line" /\ "mem" # "wb" /\ "line" # "wb"  OBVIOUS
<1> QED  BY <1>1, <1>2 DEF Mem, Line, Wb

(* The memory of all buffers but one stays as it is.                         *)
Elsewhere(b) ==
  \A a \in Bufs \ {b} : holds'[a] = holds[a] /\ dirty'[a] = dirty[a] /\ fresh'[a] = fresh[a]

MemTypesOnly ==
  /\ holds \in [Bufs -> SUBSET Places]
  /\ dirty \in [Bufs -> SUBSET CPU]
  /\ fresh \in [Bufs -> SUBSET Places]

Maintains(c, b) ==
  /\ Shape(b)' /\ MemTypesOnly' /\ Elsewhere(b)
  /\ dirty'[b] \subseteq dirty[b]
  /\ \A e \in CPU : Line(e) \in holds'[b] => Line(e) \in holds[b]
  /\ \A e \in CPU : Wb(e) \in holds'[b] => Wb(e) \in holds[b] \/ (e = c /\ c \in dirty[b])
  /\ MemFresh(b) /\ dirty[b] = {} => MemFresh(b)'

LEMMA CleanLineDoes ==
  ASSUME MemTypesOnly, NEW c \in CPU, NEW b \in Bufs, Shape(b), CleanLine(c, b)
  PROVE  /\ Maintains(c, b) /\ c \notin dirty'[b]
         /\ AllFresh(b) => AllFresh(b)'
<1> DEFINE o == Other(c)
<1>0. o \in CPU /\ o # c /\ Other(o) = c /\ \A e \in CPU : e = c \/ e = o
  BY OtherOf
<1>1. /\ Mem # Line(c) /\ Mem # Wb(c) /\ Mem # Line(o) /\ Mem # Wb(o)
      /\ Line(c) # Wb(c) /\ Line(c) # Wb(o) /\ Line(o) # Wb(c) /\ Line(o) # Wb(o)
      /\ Line(c) # Line(o) /\ Wb(c) # Wb(o) /\ Wb(c) \in Places
  BY <1>0, PlacesOf
<1> HIDE DEF o
<1>2. CASE c \in dirty[b]
  <2>1. /\ dirty' = [dirty EXCEPT ![b] = @ \ {c}]
        /\ holds' = [holds EXCEPT ![b] = @ \cup {Wb(c)}]
        /\ fresh' = [fresh EXCEPT ![b] = Copied(@, Line(c), {Wb(c)})]
    BY <1>2 DEF CleanLine
  <2>2. /\ dirty'[b] = dirty[b] \ {c}
        /\ holds'[b] = holds[b] \cup {Wb(c)}
        /\ fresh'[b] = IF Line(c) \in fresh[b] THEN fresh[b] \cup {Wb(c)} ELSE fresh[b] \ {Wb(c)}
        /\ Elsewhere(b)
    BY <2>1 DEF MemTypesOnly, Copied, Elsewhere
  <2>3. MemTypesOnly'
    BY <1>1, <2>1, <2>2 DEF MemTypesOnly, Copied
  <2>4. dirty'[b] = {}
    BY <1>0, <1>2, <2>2 DEF Shape, MemTypesOnly, o
  <2>5. Shape(b)'
    BY <1>1, <2>2, <2>4 DEF Shape
  <2>6. AllFresh(b) => AllFresh(b)'
    BY <1>0, <1>1, <1>2, <2>2, <2>4 DEF AllFresh, LinesFresh, WbsFresh, Settled, Shape
  <2> QED  BY <1>0, <1>1, <1>2, <2>2, <2>3, <2>4, <2>5, <2>6 DEF Maintains
<1>3. CASE c \notin dirty[b]
  <2>1. /\ dirty' = [dirty EXCEPT ![b] = @ \ {c}]
        /\ UNCHANGED <<holds, fresh>>
    BY <1>3 DEF CleanLine
  <2>2. dirty' = dirty
    BY <1>3, <2>1 DEF MemTypesOnly
  <2> QED
    BY <1>3, <2>1, <2>2 DEF Maintains, Shape, MemTypesOnly, Elsewhere, MemFresh, AllFresh,
       LinesFresh, WbsFresh, Settled
<1> QED  BY <1>2, <1>3

LEMMA InvLineDoes ==
  ASSUME MemTypesOnly, NEW c \in CPU, NEW b \in Bufs, Shape(b), InvLine(c, b)
  PROVE  Maintains(c, b) /\ c \notin dirty'[b] /\ Line(c) \notin holds'[b]
<1> DEFINE o == Other(c)
<1>0. o \in CPU /\ o # c /\ Other(o) = c /\ \A e \in CPU : e = c \/ e = o
  BY OtherOf
<1>1. /\ Mem # Line(c) /\ Line(c) # Wb(c) /\ Line(c) # Wb(o) /\ Line(c) # Line(o)
  BY <1>0, PlacesOf
<1> HIDE DEF o
<1>2. /\ dirty' = [dirty EXCEPT ![b] = @ \ {c}]
      /\ holds' = [holds EXCEPT ![b] = @ \ {Line(c)}]
      /\ fresh' = [fresh EXCEPT ![b] = @ \ {Line(c)}]
  BY DEF InvLine
<1>3. /\ dirty'[b] = dirty[b] \ {c}
      /\ holds'[b] = holds[b] \ {Line(c)}
      /\ fresh'[b] = fresh[b] \ {Line(c)}
      /\ Elsewhere(b)
  BY <1>2 DEF MemTypesOnly, Elsewhere
<1>4. MemTypesOnly'  BY <1>2 DEF MemTypesOnly
<1>5. Settled(b)' <=> Settled(b)
  BY <1>0, <1>1, <1>3 DEF Settled
<1>6. Shape(b)'
  <2>1. ASSUME NEW e \in dirty'[b]
        PROVE  Line(e) \in holds'[b] /\ Line(Other(e)) \notin holds'[b]
    <3>1. e = o  BY <1>0, <1>3 DEF MemTypesOnly
    <3> QED  BY <1>0, <1>1, <1>3, <3>1 DEF Shape
  <2> QED  BY <1>1, <1>3, <1>5, <2>1 DEF Shape
<1>7. MemFresh(b) => MemFresh(b)'
  BY <1>0, <1>1, <1>3, <1>5 DEF MemFresh, WbsFresh
<1> QED  BY <1>3, <1>4, <1>6, <1>7 DEF Maintains

LEMMA CleanInvLineDoes ==
  ASSUME MemTypesOnly, NEW c \in CPU, NEW b \in Bufs, Shape(b), CleanInvLine(c, b)
  PROVE  /\ Maintains(c, b) /\ c \notin dirty'[b] /\ Line(c) \notin holds'[b]
         /\ AllFresh(b) => AllFresh(b)'
<1> DEFINE o == Other(c)
<1>0. o \in CPU /\ o # c /\ Other(o) = c /\ \A e \in CPU : e = c \/ e = o
  BY OtherOf
<1>1. /\ Mem # Line(c) /\ Mem # Wb(c) /\ Mem # Line(o) /\ Mem # Wb(o)
      /\ Line(c) # Wb(c) /\ Line(c) # Wb(o) /\ Line(o) # Wb(c) /\ Line(o) # Wb(o)
      /\ Line(c) # Line(o) /\ Wb(c) # Wb(o) /\ Wb(c) \in Places
  BY <1>0, PlacesOf
<1> HIDE DEF o
<1>2. CASE c \in dirty[b]
  <2>1. /\ dirty' = [dirty EXCEPT ![b] = @ \ {c}]
        /\ holds' = [holds EXCEPT ![b] = (@ \cup {Wb(c)}) \ {Line(c)}]
        /\ fresh' = [fresh EXCEPT ![b] = Copied(@, Line(c), {Wb(c)}) \ {Line(c)}]
    BY <1>2 DEF CleanInvLine
  <2>2. /\ dirty'[b] = dirty[b] \ {c}
        /\ holds'[b] = (holds[b] \cup {Wb(c)}) \ {Line(c)}
        /\ fresh'[b] = (IF Line(c) \in fresh[b] THEN fresh[b] \cup {Wb(c)}
                        ELSE fresh[b] \ {Wb(c)}) \ {Line(c)}
        /\ Elsewhere(b)
    BY <2>1 DEF MemTypesOnly, Copied, Elsewhere
  <2>3. MemTypesOnly'
    BY <1>1, <2>1, <2>2 DEF MemTypesOnly, Copied
  <2>4. dirty'[b] = {}
    BY <1>0, <1>2, <2>2 DEF Shape, MemTypesOnly, o
  <2>5. Shape(b)'
    BY <1>1, <2>2, <2>4 DEF Shape
  <2>6. AllFresh(b) => AllFresh(b)'
    BY <1>0, <1>1, <1>2, <2>2, <2>4 DEF AllFresh, LinesFresh, WbsFresh, Settled, Shape
  <2> QED  BY <1>0, <1>1, <1>2, <2>2, <2>3, <2>4, <2>5, <2>6 DEF Maintains
<1>3. CASE c \notin dirty[b]
  <2>1. InvLine(c, b)
    BY <1>3 DEF CleanInvLine, InvLine
  <2>2. /\ dirty'[b] = dirty[b] /\ holds'[b] = holds[b] \ {Line(c)}
        /\ fresh'[b] = fresh[b] \ {Line(c)}
    BY <1>3, <2>1 DEF InvLine, MemTypesOnly
  <2>3. AllFresh(b) => AllFresh(b)'
    BY <1>0, <1>1, <2>2 DEF AllFresh, LinesFresh, WbsFresh, Settled
  <2> QED  BY <2>1, <2>3, InvLineDoes
<1> QED  BY <1>2, <1>3

LEMMA WriteBackDoes ==
  ASSUME MemTypesOnly, NEW c \in CPU, NEW b \in Bufs, Shape(b), WriteBack(c, b)
  PROVE  Maintains(c, b) /\ (AllFresh(b) => AllFresh(b)')
<1> DEFINE o == Other(c)
<1>0. o \in CPU /\ o # c /\ Other(o) = c /\ \A e \in CPU : e = c \/ e = o
  BY OtherOf
<1>1. /\ Mem # Line(c) /\ Mem # Wb(c) /\ Mem # Line(o) /\ Mem # Wb(o)
      /\ Line(c) # Wb(c) /\ Line(c) # Wb(o) /\ Line(o) # Wb(c) /\ Line(o) # Wb(o)
      /\ Line(c) # Line(o) /\ Wb(c) # Wb(o) /\ Mem \in Places
  BY <1>0, PlacesOf
<1> HIDE DEF o
<1>2. /\ Wb(c) \in holds[b] /\ dirty' = dirty
      /\ holds' = [holds EXCEPT ![b] = @ \ {Wb(c)}]
      /\ fresh' = [fresh EXCEPT ![b] = Copied(@, Wb(c), {Mem}) \ {Wb(c)}]
  BY DEF WriteBack
<1>3. /\ holds'[b] = holds[b] \ {Wb(c)}
      /\ fresh'[b] = (IF Wb(c) \in fresh[b] THEN fresh[b] \cup {Mem}
                      ELSE fresh[b] \ {Mem}) \ {Wb(c)}
      /\ Elsewhere(b)
  BY <1>2 DEF MemTypesOnly, Copied, Elsewhere
<1>4. MemTypesOnly'  BY <1>1, <1>2, <1>3 DEF MemTypesOnly, Copied
<1>5. dirty[b] = {}  BY <1>2 DEF Shape, Settled
<1>6. Shape(b)'  BY <1>1, <1>2, <1>3, <1>5 DEF Shape
<1>7. WbsFresh(b) => WbsFresh(b)' /\ Mem \in fresh'[b]
  BY <1>0, <1>1, <1>2, <1>3 DEF WbsFresh
<1>8. LinesFresh(b) => LinesFresh(b)'
  BY <1>0, <1>1, <1>3 DEF LinesFresh
<1> QED  BY <1>0, <1>1, <1>2, <1>3, <1>4, <1>6, <1>7, <1>8 DEF Maintains, MemFresh, AllFresh

-----------------------------------------------------------------------------
(* Steps that maintain the memory of one buffer.                            *)

(* No handler that drains its write buffer stops doing so. *)
StillDrains == \A e \in CPU : hpc[e] = "drain" => hpc'[e] = "drain"

LEMMA BufKept ==
  ASSUME MemTypes, NEW c \in CPU, NEW b \in Bufs, Maintains(c, b),
         UNCHANGED <<owner, dir>>, StillDrains,
         owner[b] # "moving" => (AllFresh(b) => AllFresh(b)'),
         NEW a \in Bufs, BufInv(a)
  PROVE  BufInv(a)'
<1>1. CASE a = b
  <2>1. Shape(a)'  BY <1>1 DEF Maintains
  <2>2. owner'[a] = "cpu" => AllFresh(a)'
    BY <1>1 DEF BufInv
  <2>3. ASSUME owner'[a] = "device"
        PROVE  /\ dirty'[a] = {} /\ Draining(a)'
               /\ IF dir'[a] = "to" THEN AllFresh(a)' ELSE MemFresh(a)'
    <3>1. owner[a] = "device" /\ dirty[a] = {} /\ Draining(a)
      BY <2>3 DEF BufInv
    <3>2. dirty'[a] = {}  BY <1>1, <3>1 DEF Maintains
    <3>3. Draining(a)'
      BY <1>1, <3>1 DEF Maintains, Draining, StillDrains
    <3>4. IF dir'[a] = "to" THEN AllFresh(a)' ELSE MemFresh(a)'
      BY <1>1, <3>1 DEF Maintains, BufInv
    <3> QED  BY <3>2, <3>3, <3>4
  <2> QED  BY <2>1, <2>2, <2>3 DEF BufInv
<1>2. CASE a # b
  <2>1. holds'[a] = holds[a] /\ dirty'[a] = dirty[a] /\ fresh'[a] = fresh[a]
    BY <1>2 DEF Maintains, Elsewhere
  <2>2. Shape(a)' /\ (AllFresh(a) => AllFresh(a)') /\ (MemFresh(a) => MemFresh(a)')
    BY <2>1 DEF BufInv, Shape, AllFresh, MemFresh, LinesFresh, WbsFresh, Settled
  <2>3. Draining(a) => Draining(a)'
    BY <2>1 DEF Draining, StillDrains
  <2> QED  BY <2>1, <2>2, <2>3 DEF BufInv
<1> QED  BY <1>1, <1>2

(* CPU e has done what the call r asks for. *)
DoneBy(e, r) ==
  /\ r.flags = "map" => e \notin dirty'[r.buf]
  /\ r.flags = "unmap" /\ r.dir # "to" => Line(e) \notin holds'[r.buf]

LEMMA CallKept ==
  ASSUME MemTypes, FiqInv, NEW c \in CPU, NEW b \in Bufs, Maintains(c, b),
         UNCHANGED <<owner, dir, op, req>>, StillDrains,
         \A e \in CPU : pc'[e] = "idle" <=> pc[e] = "idle",
         NEW d \in CPU, CallInv(d, Other(d)),
         pc[d] # "idle" /\ op[d].buf = b =>
           \/ AllFresh(b) => AllFresh(b)'
           \/ op[d].flags = "map" /\ op[d].dir = "from"
           \/ op[d].flags = "unmap" /\ op[d].dir # "to",
         OwnDone(d)' => OwnDone(d) \/ (op[d].buf = b /\ DoneBy(d, op[d])),
         OtherDone(d)' => OtherDone(d) \/ (op[d].buf = b /\ DoneBy(Other(d), op[d])),
         pc'[d] = "spin" => pc[d] = "spin"
  PROVE  CallInv(d, Other(d))'
<1> DEFINE o == Other(d)
<1>0. o \in CPU /\ o # d  BY OtherOf
<1> HIDE DEF o
<1> SUFFICES ASSUME pc'[d] # "idle", NEW a, a = op[d].buf
             PROVE  /\ pc'[o] # "idle" => op'[o].buf # a
                    /\ owner'[a] = IF op'[d].flags = "flush" THEN "cpu" ELSE "moving"
                    /\ op'[d].flags # "flush" => dir'[a] = op'[d].dir
                    /\ op'[d].flags = "map" => MapInv(d, a)'
                    /\ op'[d].flags = "unmap" => UnmapInv(d, a)'
  BY DEF CallInv, o
<1>1. pc[d] # "idle"  OBVIOUS
<1>2. op[d] \in Reqs  BY <1>0, <1>1 DEF FiqInv, ReqInv, ReqOf
<1>3. a \in Bufs /\ op[d].flags \in Kinds  BY <1>2 DEF Reqs
<1>4. /\ pc[o] # "idle" => op[o].buf # a
      /\ owner[a] = IF op[d].flags = "flush" THEN "cpu" ELSE "moving"
      /\ op[d].flags # "flush" => dir[a] = op[d].dir
      /\ op[d].flags = "map" => MapInv(d, a)
      /\ op[d].flags = "unmap" => UnmapInv(d, a)
  BY <1>1 DEF CallInv, o
<1>5. pc'[o] # "idle" => pc[o] # "idle"  BY <1>0
<1>6. CASE a = b
  <2>1. /\ dirty'[a] \subseteq dirty[a]
        /\ Line(d) \in holds'[a] => Line(d) \in holds[a]
        /\ Line(o) \in holds'[a] => Line(o) \in holds[a]
        /\ Wb(d) \in holds'[a] => Wb(d) \in holds[a] \/ d \in dirty[a]
        /\ Wb(o) \in holds'[a] => Wb(o) \in holds[a] \/ o \in dirty[a]
        /\ MemFresh(a) /\ dirty[a] = {} => MemFresh(a)'
    BY <1>0, <1>6 DEF Maintains
  <2>2. OwnDone(d)' => OwnDone(d) \/ DoneBy(d, op[d])  OBVIOUS
  <2>3. OtherDone(d)' => OtherDone(d) \/ DoneBy(o, op[d])  BY DEF o
  <2>4. ASSUME op[d].flags = "map" PROVE MapInv(d, a)'
    <3>1. op'[d].dir # "from" => AllFresh(a)'
      BY <1>4, <1>6, <2>4 DEF MapInv
    <3>2. OwnDone(d)' => d \notin dirty'[a]
      BY <1>4, <2>1, <2>2, <2>4 DEF MapInv, DoneBy
    <3>3. OtherDone(d)' => o \notin dirty'[a]
      BY <1>4, <2>1, <2>3, <2>4 DEF MapInv, DoneBy, o
    <3>4. pc'[d] = "spin" => Wb(d) \notin holds'[a]
      BY <1>4, <2>1, <2>4 DEF MapInv, OwnDone
    <3>5. req'[d] = NoReq /\ Wb(o) \in holds'[a] => hpc'[o] = "drain"
      BY <1>0, <1>4, <2>1, <2>4 DEF MapInv, OtherDone, StillDrains, o
    <3> QED  BY <3>1, <3>2, <3>3, <3>4, <3>5 DEF MapInv, o
  <2>5. ASSUME op[d].flags = "unmap" PROVE UnmapInv(d, a)'
    <3>1. op[d].dir = "to" => AllFresh(a)'
      BY <1>4, <1>6, <2>5 DEF UnmapInv
    <3>2. op[d].dir # "to" => dirty'[a] = {} /\ MemFresh(a)'
      BY <1>4, <2>1, <2>5 DEF UnmapInv
    <3>3. op[d].dir # "to" /\ OwnDone(d)' => Line(d) \notin holds'[a]
      BY <1>4, <2>1, <2>2, <2>5 DEF UnmapInv, DoneBy
    <3>4. op[d].dir # "to" /\ OtherDone(d)' => Line(o) \notin holds'[a]
      BY <1>4, <2>1, <2>3, <2>5 DEF UnmapInv, DoneBy, o
    <3> QED  BY <3>1, <3>2, <3>3, <3>4 DEF UnmapInv, o
  <2> QED  BY <1>4, <1>5, <2>4, <2>5
<1>7. CASE a # b
  <2>1. holds'[a] = holds[a] /\ dirty'[a] = dirty[a] /\ fresh'[a] = fresh[a]
    BY <1>3, <1>7 DEF Maintains, Elsewhere
  <2>2. (AllFresh(a) => AllFresh(a)') /\ (MemFresh(a) => MemFresh(a)')
    BY <2>1 DEF AllFresh, MemFresh, LinesFresh, WbsFresh, Settled
  <2>3. (OwnDone(d)' => OwnDone(d)) /\ (OtherDone(d)' => OtherDone(d))
    BY <1>7
  <2>4. op[d].flags = "map" => MapInv(d, a)'
    BY <1>0, <1>4, <2>1, <2>2, <2>3 DEF MapInv, StillDrains, o
  <2>5. op[d].flags = "unmap" => UnmapInv(d, a)'
    BY <1>4, <2>1, <2>2, <2>3 DEF UnmapInv
  <2> QED  BY <1>4, <1>5, <2>4, <2>5
<1> QED  BY <1>6, <1>7

LEMMA OfflineKept ==
  ASSUME Offline, \A a \in Bufs : Shape(a), online' = online,
         NEW c \in CPU, NEW b \in Bufs, Maintains(c, b)
  PROVE  Offline'
<1> SUFFICES ASSUME ~online, NEW a \in Bufs
             PROVE  Line(1) \notin holds'[a] /\ Wb(1) \notin holds'[a]
  BY DEF Offline
<1>1. Line(1) \notin holds[a] /\ Wb(1) \notin holds[a]  BY DEF Offline
<1>2. 1 \notin dirty[a]  BY <1>1 DEF Shape
<1>3. 1 \in CPU  BY DEF CPU
<1> QED  BY <1>1, <1>2, <1>3 DEF Maintains, Elsewhere

(* Unless the call r gives up what the lines hold, all copies stay fresh.    *)
GivesUp(r) == (r.flags = "map" /\ r.dir = "from") \/ (r.flags = "unmap" /\ r.dir # "to")

LEMMA Maintained ==
  ASSUME FiqInv, DataInv, NEW c \in CPU, NEW b \in Bufs, Maintains(c, b),
         UNCHANGED <<online, owner, dir, op, req>>, StillDrains,
         \A e \in CPU : pc'[e] = "idle" <=> pc[e] = "idle",
         owner[b] # "moving" => (AllFresh(b) => AllFresh(b)'),
         \A d \in CPU :
           /\ pc[d] # "idle" /\ op[d].buf = b =>
                GivesUp(op[d]) \/ (AllFresh(b) => AllFresh(b)')
           /\ OwnDone(d)' => OwnDone(d) \/ (op[d].buf = b /\ DoneBy(d, op[d]))
           /\ OtherDone(d)' => OtherDone(d) \/ (op[d].buf = b /\ DoneBy(Other(d), op[d]))
           /\ pc'[d] = "spin" => pc[d] = "spin"
  PROVE  DataInv'
<1>1. MemTypes /\ Offline /\ (\A a \in Bufs : BufInv(a)) /\ \A d \in CPU : CallInv(d, Other(d))
  BY DEF DataInv
<1>2. MemTypes'  BY <1>1 DEF MemTypes, Maintains, MemTypesOnly
<1>3. Offline'
  <2>1. \A a \in Bufs : Shape(a)  BY <1>1 DEF BufInv
  <2> QED  BY <1>1, <2>1, OfflineKept
<1>4. ASSUME NEW a \in Bufs PROVE BufInv(a)'
  BY <1>1, BufKept
<1>5. ASSUME NEW d \in CPU PROVE CallInv(d, Other(d))'
  <2>1. pc[d] # "idle" /\ op[d].buf = b =>
          \/ AllFresh(b) => AllFresh(b)'
          \/ op[d].flags = "map" /\ op[d].dir = "from"
          \/ op[d].flags = "unmap" /\ op[d].dir # "to"
    BY DEF GivesUp
  <2> QED  BY <1>1, <2>1, CallKept
<1> QED  BY <1>2, <1>3, <1>4, <1>5 DEF DataInv

LEMMA NothingDone ==
  ASSUME MemTypesOnly, NEW c \in CPU, NEW b \in Bufs, Shape(b), UNCHANGED memVars
  PROVE  Maintains(c, b) /\ (AllFresh(b) => AllFresh(b)')
BY DEF memVars, Maintains, MemTypesOnly, Shape, Elsewhere, AllFresh, MemFresh, LinesFresh,
       WbsFresh, Settled

LEMMA LocalMaintainDoes ==
  ASSUME MemTypesOnly, NEW c \in CPU, NEW r \in Reqs, Shape(r.buf), LocalMaintain(c, r)
  PROVE  /\ Maintains(c, r.buf) /\ DoneBy(c, r)
         /\ GivesUp(r) \/ (AllFresh(r.buf) => AllFresh(r.buf)')
<1> DEFINE b == r.buf
<1>0. b \in Bufs /\ r.flags \in Kinds /\ r.dir \in Dirs  BY DEF Reqs
<1>1. CASE r.flags = "map" /\ r.dir = "from"
  <2>1. InvLine(c, b)  BY <1>1 DEF LocalMaintain
  <2> QED  BY <1>0, <1>1, <2>1, InvLineDoes DEF DoneBy, GivesUp
<1>2. CASE r.flags = "map" /\ r.dir # "from"
  <2>1. CleanLine(c, b)  BY <1>2 DEF LocalMaintain
  <2> QED  BY <1>0, <1>2, <2>1, CleanLineDoes DEF DoneBy
<1>3. CASE r.flags = "unmap" /\ r.dir = "to"
  <2>1. UNCHANGED memVars  BY <1>3 DEF LocalMaintain
  <2> QED  BY <1>0, <1>3, <2>1, NothingDone DEF DoneBy
<1>4. CASE r.flags = "unmap" /\ r.dir # "to"
  <2>1. InvLine(c, b)  BY <1>4 DEF LocalMaintain
  <2> QED  BY <1>0, <1>4, <2>1, InvLineDoes DEF DoneBy, GivesUp
<1>5. CASE r.flags = "flush"
  <2>1. CleanInvLine(c, b)  BY <1>5 DEF LocalMaintain
  <2> QED  BY <1>0, <1>5, <2>1, CleanInvLineDoes DEF DoneBy
<1> QED  BY <1>0, <1>1, <1>2, <1>3, <1>4, <1>5 DEF Kinds

LEMMA FiqMaintainDoes ==
  ASSUME MemTypesOnly, NEW c \in CPU, NEW r \in Reqs, Shape(r.buf), FiqMaintain(c, r)
  PROVE  /\ Maintains(c, r.buf) /\ DoneBy(c, r)
         /\ GivesUp(r) \/ (AllFresh(r.buf) => AllFresh(r.buf)')
<1> DEFINE b == r.buf
<1>0. b \in Bufs /\ r.flags \in Kinds /\ r.dir \in Dirs  BY DEF Reqs
<1>1. CASE r.flags = "map" /\ r.dir = "from"
  <2>1. InvLine(c, b)  BY <1>1 DEF FiqMaintain
  <2> QED  BY <1>0, <1>1, <2>1, InvLineDoes DEF DoneBy, GivesUp
<1>2. CASE r.flags = "map" /\ r.dir = "to"
  <2>1. CleanLine(c, b)  BY <1>2 DEF FiqMaintain
  <2> QED  BY <1>0, <1>2, <2>1, CleanLineDoes DEF DoneBy
<1>3. CASE r.flags = "unmap" /\ r.dir = "to"
  <2>1. UNCHANGED memVars  BY <1>3 DEF FiqMaintain
  <2> QED  BY <1>0, <1>3, <2>1, NothingDone DEF DoneBy
<1>4. CASE r.flags = "unmap" /\ r.dir # "to"
  <2>1. InvLine(c, b)  BY <1>4 DEF FiqMaintain
  <2> QED  BY <1>0, <1>4, <2>1, InvLineDoes DEF DoneBy, GivesUp
<1>5. CASE (r.flags = "map" /\ r.dir = "both") \/ r.flags = "flush"
  <2>1. CleanInvLine(c, b)  BY <1>5 DEF FiqMaintain
  <2> QED  BY <1>0, <1>5, <2>1, CleanInvLineDoes DEF DoneBy
<1> QED  BY <1>0, <1>1, <1>2, <1>3, <1>4, <1>5 DEF Kinds, Dirs

LEMMA DataLocalOp ==
  ASSUME FiqInv, DataInv, NEW c \in CPU, LocalOp(c)
  PROVE  DataInv'
<1> SUFFICES ASSUME NEW b, b = op[c].buf PROVE DataInv'
  OBVIOUS
<1>1. /\ pc[c] = "local" /\ LocalMaintain(c, op[c])
      /\ pc' = [pc EXCEPT ![c] = "drain"]
      /\ UNCHANGED <<online, op, req, fiq, hpc, owner, dir>>
  BY DEF LocalOp, bootVars, fiqVars
<1>2. op[c] \in Reqs
  BY <1>1, OtherOf DEF FiqInv, ReqInv, ReqOf
<1>3. b \in Bufs  BY <1>2 DEF Reqs
<1>4. MemTypesOnly /\ Shape(b)  BY <1>3 DEF DataInv, MemTypes, MemTypesOnly, BufInv
<1>5. /\ Maintains(c, b) /\ DoneBy(c, op[c])
      /\ GivesUp(op[c]) \/ (AllFresh(b) => AllFresh(b)')
  <2>1. ASSUME NEW r \in Reqs, r = op[c]
        PROVE  /\ Maintains(c, r.buf) /\ DoneBy(c, r)
               /\ GivesUp(r) \/ (AllFresh(r.buf) => AllFresh(r.buf)')
    BY <1>1, <1>4, <2>1, LocalMaintainDoes
  <2>2. ASSUME NEW r \in Reqs, r = op[c], r.buf = b
        PROVE  /\ Maintains(c, b) /\ DoneBy(c, op[c])
               /\ GivesUp(op[c]) \/ (AllFresh(b) => AllFresh(b)')
    BY <2>1, <2>2
  <2> QED  BY <1>2, <2>2
<1>6. pc'[c] = "drain" /\ \A e \in CPU \ {c} : pc'[e] = pc[e]
  BY <1>1 DEF FiqInv, CallTypes
<1>7. StillDrains  BY <1>1 DEF StillDrains
<1>8. \A e \in CPU : pc'[e] = "idle" <=> pc[e] = "idle"
  BY <1>1, <1>6
<1>9. owner[b] # "moving" => (AllFresh(b) => AllFresh(b)')
  <2>1. CallInv(c, Other(c))  BY DEF DataInv
  <2>2. owner[b] = IF op[c].flags = "flush" THEN "cpu" ELSE "moving"
    BY <1>1, <2>1 DEF CallInv
  <2> QED  BY <1>5, <2>2 DEF GivesUp
<1>10. ASSUME NEW d \in CPU
       PROVE  /\ pc[d] # "idle" /\ op[d].buf = b =>
                   GivesUp(op[d]) \/ (AllFresh(b) => AllFresh(b)')
              /\ OwnDone(d)' => OwnDone(d) \/ (op[d].buf = b /\ DoneBy(d, op[d]))
              /\ OtherDone(d)' => OtherDone(d) \/ (op[d].buf = b /\ DoneBy(Other(d), op[d]))
              /\ pc'[d] = "spin" => pc[d] = "spin"
  <2>1. OtherDone(d)' => OtherDone(d)  BY <1>1 DEF OtherDone
  <2>2. CASE d = c  BY <1>5, <1>6, <2>1, <2>2
  <2>3. CASE d # c
    <3>1. op[d].buf = b => pc[d] = "idle"
      BY <1>1, <2>3, OtherOf DEF DataInv, CallInv
    <3>2. pc'[d] = pc[d]  BY <1>6, <2>3
    <3> QED  BY <2>1, <3>1, <3>2 DEF OwnDone
  <2> QED  BY <2>2, <2>3
<1> QED  BY <1>1, <1>3, <1>5, <1>7, <1>8, <1>9, <1>10, Maintained
LEMMA DataFiqOp ==
  ASSUME FiqInv, DataInv, NEW c \in CPU, FiqOp(c)
  PROVE  DataInv'
<1> SUFFICES ASSUME NEW b, b = hreq[c].buf, NEW o, o = Other(c) PROVE DataInv'
  OBVIOUS
<1>0. o \in CPU /\ o # c /\ Other(o) = c /\ \A e \in CPU : e = c \/ e = o
  BY OtherOf
<1>1. /\ hpc[c] = "op" /\ FiqMaintain(c, hreq[c])
      /\ hpc' = [hpc EXCEPT ![c] = "exit"]
      /\ UNCHANGED <<online, pc, op, req, fiq, owner, dir>>
  BY DEF FiqOp, bootVars, callVars
<1>2. hreq[c] = op[o] /\ pc[o] # "idle" /\ op[o] \in Reqs
  <2>1. ReqOf(o, c)  BY <1>0 DEF FiqInv, ReqInv
  <2> QED  BY <1>1, <2>1 DEF ReqOf, AtWork, Waits
<1>3. b = op[o].buf /\ b \in Bufs  BY <1>2 DEF Reqs
<1>4. MemTypesOnly /\ Shape(b)  BY <1>3 DEF DataInv, MemTypes, MemTypesOnly, BufInv
<1>5. /\ Maintains(c, b) /\ DoneBy(c, op[o])
      /\ GivesUp(op[o]) \/ (AllFresh(b) => AllFresh(b)')
  <2>1. ASSUME NEW r \in Reqs, r = op[o]
        PROVE  /\ Maintains(c, r.buf) /\ DoneBy(c, r)
               /\ GivesUp(r) \/ (AllFresh(r.buf) => AllFresh(r.buf)')
    BY <1>1, <1>2, <1>3, <1>4, <2>1, FiqMaintainDoes
  <2>2. ASSUME NEW r \in Reqs, r = op[o], r.buf = b
        PROVE  /\ Maintains(c, b) /\ DoneBy(c, op[o])
               /\ GivesUp(op[o]) \/ (AllFresh(b) => AllFresh(b)')
    BY <2>1, <2>2
  <2> QED  BY <1>2, <1>3, <2>2
<1>6. hpc'[c] = "exit" /\ \A e \in CPU \ {c} : hpc'[e] = hpc[e]
  BY <1>1 DEF FiqInv, CallTypes
<1>7. StillDrains  BY <1>1, <1>6 DEF StillDrains
<1>9. owner[b] # "moving" => (AllFresh(b) => AllFresh(b)')
  <2>1. CallInv(o, Other(o))  BY <1>0 DEF DataInv
  <2>2. owner[b] = IF op[o].flags = "flush" THEN "cpu" ELSE "moving"
    BY <1>2, <1>3, <2>1 DEF CallInv
  <2> QED  BY <1>5, <2>2 DEF GivesUp
<1>10. ASSUME NEW d \in CPU
       PROVE  /\ pc[d] # "idle" /\ op[d].buf = b =>
                   GivesUp(op[d]) \/ (AllFresh(b) => AllFresh(b)')
              /\ OwnDone(d)' => OwnDone(d) \/ (op[d].buf = b /\ DoneBy(d, op[d]))
              /\ OtherDone(d)' => OtherDone(d) \/ (op[d].buf = b /\ DoneBy(Other(d), op[d]))
              /\ pc'[d] = "spin" => pc[d] = "spin"
  <2>1. OwnDone(d)' => OwnDone(d)  BY <1>1 DEF OwnDone
  <2>2. CASE d = o  BY <1>0, <1>1, <1>3, <1>5, <2>1, <2>2
  <2>3. CASE d = c
    <3>1. pc[d] # "idle" => op[d].buf # b
      BY <1>0, <1>2, <1>3, <2>3 DEF DataInv, CallInv
    <3>2. OtherDone(d)' => OtherDone(d)
      BY <1>0, <1>1, <1>6, <2>3 DEF OtherDone
    <3> QED  BY <1>1, <2>1, <3>1, <3>2
  <2> QED  BY <1>0, <2>2, <2>3
<1> QED  BY <1>1, <1>3, <1>5, <1>7, <1>9, <1>10, Maintained

LEMMA DataEvict ==
  ASSUME FiqInv, DataInv, NEW c \in CPU, NEW b \in Bufs, WriteBack(c, b) \/ Evict(c, b)
  PROVE  DataInv'
<1>1. MemTypesOnly /\ Shape(b)  BY DEF DataInv, MemTypes, MemTypesOnly, BufInv
<1>2. Maintains(c, b) /\ (AllFresh(b) => AllFresh(b)')
  BY <1>1, WriteBackDoes, CleanInvLineDoes DEF Evict
<1>3. UNCHANGED <<online, pc, op, req, fiq, hpc, owner, dir>>
  BY DEF WriteBack, Evict, bootVars, callVars, fiqVars
<1>4. StillDrains  BY <1>3 DEF StillDrains
<1>5. ASSUME NEW d \in CPU
      PROVE  (OwnDone(d)' => OwnDone(d)) /\ (OtherDone(d)' => OtherDone(d))
  BY <1>3 DEF OwnDone, OtherDone
<1> QED  BY <1>2, <1>3, <1>4, <1>5, Maintained

-----------------------------------------------------------------------------
(* Steps that leave the memory alone.                                       *)

LEMMA Quiet ==
  ASSUME FiqInv, DataInv, UNCHANGED <<op, owner, dir, memVars>>, online => online',
         \A e \in CPU :
           /\ pc'[e] = "idle" <=> pc[e] = "idle"
           /\ hpc[e] = "drain" => hpc'[e] = "drain" \/ Drained(e)
           /\ OwnDone(e)' => OwnDone(e)
           /\ OtherDone(e)' => OtherDone(e)
           /\ pc'[e] = "spin" => pc[e] = "spin" \/ Drained(e)
           /\ req'[e] = NoReq => req[e] = NoReq \/ hpc'[Other(e)] = "drain"
  PROVE  DataInv'
<1>1. UNCHANGED <<holds, dirty, fresh>>  BY DEF memVars
<1>2. MemTypes' /\ Offline'
  BY <1>1 DEF DataInv, MemTypes, Offline
<1>3. ASSUME NEW b \in Bufs
      PROVE  /\ Shape(b) => Shape(b)'
             /\ AllFresh(b) => AllFresh(b)'
             /\ MemFresh(b) => MemFresh(b)'
             /\ Draining(b) => Draining(b)'
  <2>1. Draining(b) => Draining(b)'
    BY <1>1 DEF Draining, Drained
  <2> QED  BY <1>1, <2>1 DEF Shape, AllFresh, MemFresh, LinesFresh, WbsFresh, Settled
<1>4. ASSUME NEW b \in Bufs PROVE BufInv(b)'
  BY <1>1, <1>3 DEF DataInv, BufInv
<1>5. ASSUME NEW c \in CPU PROVE CallInv(c, Other(c))'
  <2> SUFFICES ASSUME pc'[c] # "idle", NEW o, o = Other(c), NEW b, b = op[c].buf
               PROVE  /\ pc'[o] # "idle" => op'[o].buf # b
                      /\ owner'[b] = IF op'[c].flags = "flush" THEN "cpu" ELSE "moving"
                      /\ op'[c].flags # "flush" => dir'[b] = op'[c].dir
                      /\ op'[c].flags = "map" => MapInv(c, b)'
                      /\ op'[c].flags = "unmap" => UnmapInv(c, b)'
    BY DEF CallInv
  <2>0. o \in CPU /\ o # c  BY OtherOf
  <2>1. pc[c] # "idle"  OBVIOUS
  <2>2. op[c] \in Reqs  BY <2>0, <2>1 DEF FiqInv, ReqInv, ReqOf
  <2>3. b \in Bufs  BY <2>2 DEF Reqs
  <2>4. /\ pc[o] # "idle" => op[o].buf # b
        /\ owner[b] = IF op[c].flags = "flush" THEN "cpu" ELSE "moving"
        /\ op[c].flags # "flush" => dir[b] = op[c].dir
        /\ op[c].flags = "map" => MapInv(c, b)
        /\ op[c].flags = "unmap" => UnmapInv(c, b)
    BY <2>1 DEF DataInv, CallInv
  <2>5. ASSUME op[c].flags = "map" PROVE MapInv(c, b)'
    <3>1. pc'[c] = "spin" => Wb(c) \notin holds[b]
      BY <2>3, <2>4, <2>5 DEF MapInv, Drained
    <3>2. req'[c] = NoReq /\ Wb(o) \in holds[b] => hpc'[o] = "drain"
      BY <2>0, <2>3, <2>4, <2>5 DEF MapInv, Drained
    <3> QED  BY <1>1, <1>3, <2>3, <2>4, <2>5, <3>1, <3>2 DEF MapInv
  <2>6. ASSUME op[c].flags = "unmap" PROVE UnmapInv(c, b)'
    BY <1>1, <1>3, <2>3, <2>4, <2>6 DEF UnmapInv
  <2>7. pc'[o] # "idle" => pc[o] # "idle"  BY <2>0
  <2> QED  BY <2>4, <2>5, <2>6, <2>7
<1> QED  BY <1>2, <1>4, <1>5 DEF DataInv
LEMMA DataQuietCall ==
  ASSUME FiqInv, DataInv, NEW c \in CPU, Raise(c) \/ LocalDrain(c)
  PROVE  DataInv'
<1>1. CASE Raise(c)
  <2>1. /\ pc[c] = "raise" /\ pc' = [pc EXCEPT ![c] = "local"]
        /\ UNCHANGED <<online, op, req, hpc, owner, dir, memVars>>
    BY <1>1 DEF Raise, bootVars, fiqVars
  <2>2. pc'[c] = "local" /\ \A e \in CPU \ {c} : pc'[e] = pc[e]
    BY <2>1 DEF FiqInv, CallTypes
  <2> QED  BY <2>1, <2>2, Quiet DEF OwnDone, OtherDone
<1>2. CASE LocalDrain(c)
  <2>1. /\ pc[c] = "drain" /\ pc' = [pc EXCEPT ![c] = "spin"] /\ Drained(c)
        /\ UNCHANGED <<online, op, req, hpc, owner, dir, memVars>>
    BY <1>2 DEF LocalDrain, bootVars, fiqVars
  <2>2. pc'[c] = "spin" /\ \A e \in CPU \ {c} : pc'[e] = pc[e]
    BY <2>1 DEF FiqInv, CallTypes
  <2> QED  BY <2>1, <2>2, Quiet DEF OwnDone, OtherDone
<1> QED  BY <1>1, <1>2

LEMMA DataQuietHandler ==
  ASSUME FiqInv, DataInv, NEW c \in CPU, FiqEntry(c) \/ FiqExit(c) \/ FiqReturn(c)
  PROVE  DataInv'
<1> SUFFICES ASSUME NEW o, o = Other(c) PROVE DataInv'
  OBVIOUS
<1>0. o \in CPU /\ o # c /\ Other(o) = c /\ \A e \in CPU : e = c \/ e = o
  BY OtherOf
<1>1. CASE FiqEntry(c)
  <2>1. /\ hpc[c] = "out" /\ hpc' = [hpc EXCEPT ![c] = "op"]
        /\ UNCHANGED <<online, pc, op, req, owner, dir, memVars>>
    BY <1>1 DEF FiqEntry, Runs, bootVars
  <2>2. hpc'[c] = "op" /\ hpc'[o] = hpc[o]
    BY <1>0, <2>1 DEF FiqInv, CallTypes
  <2> QED  BY <1>0, <2>1, <2>2, Quiet DEF OwnDone, OtherDone
<1>2. CASE FiqExit(c)
  <2>1. /\ hpc[c] = "exit" /\ hpc' = [hpc EXCEPT ![c] = "drain"]
        /\ req' = [req EXCEPT ![o] = NoReq]
        /\ UNCHANGED <<online, pc, op, owner, dir, memVars>>
    BY <1>2 DEF FiqExit, bootVars
  <2>2. hpc'[c] = "drain" /\ hpc'[o] = hpc[o] /\ req'[c] = req[c] /\ req'[o] = NoReq
    BY <1>0, <2>1 DEF FiqInv, CallTypes
  <2> QED  BY <1>0, <2>1, <2>2, Quiet DEF OwnDone, OtherDone
<1>3. CASE FiqReturn(c)
  <2>1. /\ hpc[c] = "drain" /\ hpc' = [hpc EXCEPT ![c] = "out"] /\ Drained(c)
        /\ UNCHANGED <<online, pc, op, req, owner, dir, memVars>>
    BY <1>3 DEF FiqReturn, bootVars, callVars
  <2>2. hpc'[c] = "out" /\ hpc'[o] = hpc[o]
    BY <1>0, <2>1 DEF FiqInv, CallTypes
  <2> QED  BY <1>0, <2>1, <2>2, Quiet DEF OwnDone, OtherDone
<1> QED  BY <1>1, <1>2, <1>3

LEMMA DataBoot == ASSUME FiqInv, DataInv, Boot PROVE DataInv'
<1>1. UNCHANGED <<pc, op, req, hpc, owner, dir, memVars>>
  BY DEF Boot, SecondaryFiqRegs, BringUp, fiqVars, callVars
<1>2. online => online'
  <2>1. CASE SetsFiqRegs  BY <2>1 DEF SetsFiqRegs
  <2>2. CASE BootWakes \/ BootWritesPen \/ BootReturns \/ CpuUpGivesUp
    BY <2>2 DEF BootWakes, BootWritesPen, BootReturns, CpuUpGivesUp
  <2>3. CASE LeavesMonitor \/ LeavesPen \/ TellsReleased \/ Synchronises
    BY <2>3 DEF LeavesMonitor, LeavesPen, TellsReleased, Synchronises
  <2>4. CASE GoesOnline  BY <2>4, Zenon DEF GoesOnline
  <2> QED  BY <2>1, <2>2, <2>3, <2>4 DEF Boot, SecondaryFiqRegs, BringUp
<1> QED  BY <1>1, <1>2, Quiet DEF OwnDone, OtherDone

-----------------------------------------------------------------------------
(* A call starts, and returns.                                              *)

LEMMA DataStart ==
  ASSUME FiqInv, DataInv, NEW c \in CPU, NEW k \in Kinds, NEW d \in Dirs, NEW b \in Bufs,
         Start(c, k, d, b),
         owner' = [owner EXCEPT ![b] = IF k = "flush" THEN "cpu" ELSE "moving"],
         k = "flush" => owner[b] = "cpu",
         dir' \in [Bufs -> Dirs], \A a \in Bufs \ {b} : dir'[a] = dir[a],
         k # "flush" => dir'[b] = d,
         pc[Other(c)] # "idle" => op[Other(c)].buf # b,
         k = "map" => AllFresh(b),
         k = "unmap" => IF d = "to" THEN AllFresh(b) ELSE dirty[b] = {} /\ MemFresh(b)
  PROVE  DataInv'
<1> SUFFICES ASSUME NEW o, o = Other(c) PROVE DataInv'
  OBVIOUS
<1>0. o \in CPU /\ o # c /\ Other(o) = c /\ \A e \in CPU : e = c \/ e = o
  BY OtherOf
<1>1. /\ pc[c] = "idle" /\ hpc[c] = "out" /\ (c = 1 => online)
      /\ op' = [op EXCEPT ![c] = [flags |-> k, dir |-> d, buf |-> b]]
      /\ UNCHANGED <<online, hpc, holds, dirty, fresh>>
  BY DEF Start, Runs, bootVars, fiqVars, memVars
<1>2. /\ op'[c] = [flags |-> k, dir |-> d, buf |-> b] /\ op'[o] = op[o]
      /\ op'[c].flags = k /\ op'[c].dir = d /\ op'[c].buf = b
  BY <1>0, <1>1 DEF FiqInv, CallTypes
<1>3. /\ pc'[c] \in {"raise", "local"} /\ pc'[o] = pc[o] /\ req'[o] = req[o]
      /\ online => req'[c] # NoReq /\ hpc[o] # "exit"
      /\ ~online => c = 0 /\ o = 1
  <2>1. ReqOf(c, o)  BY DEF FiqInv, ReqInv
  <2>2. req[c] = NoReq /\ hpc[o] # "exit"  BY <1>1, <2>1 DEF ReqOf, AtWork
  <2>3. CASE online
    <3>1. /\ req' = [req EXCEPT ![c] = [flags |-> k, dir |-> d, buf |-> b]]
          /\ pc' = [pc EXCEPT ![c] = "raise"]
      BY <2>3 DEF Start
    <3>2. [flags |-> k, dir |-> d, buf |-> b] # NoReq  BY NotAReq DEF Reqs
    <3> QED  BY <1>0, <2>2, <2>3, <3>1, <3>2 DEF FiqInv, CallTypes
  <2>4. CASE ~online
    <3>1. req' = req /\ pc' = [pc EXCEPT ![c] = "local"]  BY <2>4 DEF Start
    <3> QED  BY <1>0, <1>1, <2>4, <3>1 DEF FiqInv, CallTypes, CPU
  <2> QED  BY <2>3, <2>4
<1>4. owner'[b] = (IF k = "flush" THEN "cpu" ELSE "moving") /\ \A a \in Bufs \ {b} : owner'[a] = owner[a]
  BY DEF DataInv, MemTypes
<1>5. MemTypes' /\ Offline'
  BY <1>1 DEF DataInv, MemTypes, Offline
<1>6. ASSUME NEW a \in Bufs
      PROVE  /\ Shape(a)' <=> Shape(a)
             /\ AllFresh(a)' <=> AllFresh(a)
             /\ MemFresh(a)' <=> MemFresh(a)
             /\ Draining(a)' <=> Draining(a)
  BY <1>1 DEF Shape, AllFresh, MemFresh, LinesFresh, WbsFresh, Settled, Draining
<1>7. ASSUME NEW a \in Bufs PROVE BufInv(a)'
  <2>1. CASE a = b
    <3>1. BufInv(b)  BY DEF DataInv
    <3>2. CASE k = "flush"
      BY <1>4, <1>6, <2>1, <3>1, <3>2 DEF BufInv
    <3>3. CASE k # "flush"
      BY <1>4, <1>6, <2>1, <3>1, <3>3 DEF BufInv
    <3> QED  BY <3>2, <3>3
  <2>2. CASE a # b  BY <1>1, <1>4, <1>6, <2>2 DEF DataInv, BufInv
  <2> QED  BY <2>1, <2>2
<1>8. CallInv(c, o)'
  <2>1. OtherDone(c)' => ~online /\ c = 0 /\ o = 1
    BY <1>0, <1>1, <1>3 DEF OtherDone
  <2>2. ~OwnDone(c)'  BY <1>3 DEF OwnDone
  <2>3. ~online => Line(1) \notin holds[b] /\ Wb(1) \notin holds[b] /\ 1 \notin dirty[b]
    BY DEF DataInv, Offline, BufInv, Shape
  <2>4. k = "map" => MapInv(c, b)'
    BY <1>0, <1>1, <1>2, <1>3, <1>6, <2>1, <2>2, <2>3 DEF MapInv, OtherDone
  <2>5. k = "unmap" => UnmapInv(c, b)'
    BY <1>0, <1>1, <1>2, <1>6, <2>1, <2>2, <2>3 DEF UnmapInv
  <2> QED  BY <1>2, <1>3, <1>4, <2>4, <2>5 DEF CallInv
<1>9. CallInv(o, c)'
  <2> SUFFICES ASSUME pc[o] # "idle", NEW a, a = op[o].buf
               PROVE  /\ pc'[c] # "idle" => op'[c].buf # a
                      /\ owner'[a] = IF op'[o].flags = "flush" THEN "cpu" ELSE "moving"
                      /\ op'[o].flags # "flush" => dir'[a] = op'[o].dir
                      /\ op'[o].flags = "map" => MapInv(o, a)'
                      /\ op'[o].flags = "unmap" => UnmapInv(o, a)'
    BY <1>2, <1>3 DEF CallInv
  <2>1. op[o] \in Reqs  BY <1>0 DEF FiqInv, ReqInv, ReqOf
  <2>2. a \in Bufs /\ a # b  BY <2>1 DEF Reqs
  <2>3. CallInv(o, c)  BY <1>0 DEF DataInv
  <2>4. (OwnDone(o)' <=> OwnDone(o)) /\ (OtherDone(o)' <=> OtherDone(o))
    BY <1>0, <1>1, <1>3 DEF OwnDone, OtherDone
  <2>5. op[o].flags = "map" => MapInv(o, a)'
    BY <1>0, <1>1, <1>2, <1>3, <1>6, <2>2, <2>3, <2>4 DEF CallInv, MapInv
  <2>6. op[o].flags = "unmap" => UnmapInv(o, a)'
    BY <1>0, <1>1, <1>2, <1>3, <1>6, <2>2, <2>3, <2>4 DEF CallInv, UnmapInv
  <2> QED  BY <1>2, <1>4, <2>2, <2>3, <2>5, <2>6 DEF CallInv
<1> QED  BY <1>0, <1>5, <1>7, <1>8, <1>9 DEF DataInv

LEMMA DataStarts ==
  ASSUME FiqInv, DataInv, NEW c \in CPU, NEW b \in Bufs, NEW d \in Dirs,
         MapStart(c, d, b) \/ UnmapStart(c, b) \/ FlushStart(c, b)
  PROVE  DataInv'
<1>0. Other(c) \in CPU  BY OtherOf
<1>1. BufInv(b) /\ MemTypes /\ dir[b] \in Dirs  BY DEF DataInv, MemTypes
<1>2. CASE MapStart(c, d, b)
  <2>1. /\ owner[b] = "cpu" /\ owner' = [owner EXCEPT ![b] = "moving"]
        /\ dir' = [dir EXCEPT ![b] = d] /\ Start(c, "map", d, b)
        /\ pc[Other(c)] # "idle" => op[Other(c)].buf # b
    BY <1>0, <1>2 DEF MapStart
  <2>2. dir' \in [Bufs -> Dirs] /\ dir'[b] = d /\ \A a \in Bufs \ {b} : dir'[a] = dir[a]
    BY <1>1, <2>1 DEF MemTypes
  <2>3. AllFresh(b)  BY <1>1, <2>1 DEF BufInv
  <2>4. "map" \in Kinds /\ "map" # "flush"  BY DEF Kinds
  <2>5. owner' = [owner EXCEPT ![b] = IF "map" = "flush" THEN "cpu" ELSE "moving"]
    BY <2>1
  <2> QED  BY <2>5, <2>1, <2>2, <2>3, <2>4, DataStart
<1>3. CASE UnmapStart(c, b)
  <2>1. /\ owner[b] = "device" /\ owner' = [owner EXCEPT ![b] = "moving"]
        /\ dir' = dir /\ Start(c, "unmap", dir[b], b)
    BY <1>3 DEF UnmapStart
  <2>2. pc[Other(c)] # "idle" => op[Other(c)].buf # b
    BY <1>0, <2>1 DEF DataInv, CallInv
  <2>3. IF dir[b] = "to" THEN AllFresh(b) ELSE dirty[b] = {} /\ MemFresh(b)
    BY <1>1, <2>1 DEF BufInv
  <2>4. "unmap" \in Kinds /\ "unmap" # "flush"  BY DEF Kinds
  <2>5. owner' = [owner EXCEPT ![b] = IF "unmap" = "flush" THEN "cpu" ELSE "moving"]
    BY <2>1
  <2> QED  BY <2>5, <1>1, <2>1, <2>2, <2>3, <2>4, DataStart DEF MemTypes
<1>4. CASE FlushStart(c, b)
  <2>1. /\ owner[b] = "cpu" /\ owner' = owner
        /\ dir' = dir /\ Start(c, "flush", "both", b)
        /\ pc[Other(c)] # "idle" => op[Other(c)].buf # b
    BY <1>0, <1>4 DEF FlushStart
  <2>2. owner' = [owner EXCEPT ![b] = IF "flush" = "flush" THEN "cpu" ELSE "moving"]
    BY <1>1, <2>1 DEF MemTypes
  <2>3. "flush" \in Kinds /\ "both" \in Dirs  BY DEF Kinds, Dirs
  <2> QED  BY <1>1, <2>1, <2>2, <2>3, DataStart DEF MemTypes
<1> QED  BY <1>2, <1>3, <1>4
LEMMA DataReturn ==
  ASSUME FiqInv, DataInv, NEW c \in CPU, Return(c)
  PROVE  DataInv'
<1> SUFFICES ASSUME NEW o, o = Other(c), NEW b, b = op[c].buf PROVE DataInv'
  OBVIOUS
<1>0. o \in CPU /\ o # c /\ Other(o) = c /\ \A e \in CPU : e = c \/ e = o
  BY OtherOf
<1>1. /\ pc[c] = "spin" /\ req[c] = NoReq
      /\ pc' = [pc EXCEPT ![c] = "idle"] /\ op' = [op EXCEPT ![c] = NoReq]
      /\ owner' = [owner EXCEPT ![b] =
           IF op[c].flags = "map" THEN "device"
           ELSE IF op[c].flags = "unmap" THEN "cpu" ELSE @]
      /\ dir' = [dir EXCEPT ![b] = IF op[c].flags = "unmap" THEN "to" ELSE @]
      /\ fresh' = [fresh EXCEPT ![b] =
           IF op[c].flags = "map" /\ op[c].dir = "from" THEN holds[b] ELSE @]
      /\ UNCHANGED <<online, req, hpc, holds, dirty>>
  BY DEF Return, bootVars, fiqVars
<1>2. op[c] \in Reqs  BY <1>0, <1>1 DEF FiqInv, ReqInv, ReqOf
<1>3. b \in Bufs /\ op[c].flags \in Kinds /\ op[c].dir \in Dirs  BY <1>2 DEF Reqs
<1>4. CallInv(c, o) /\ BufInv(b) /\ MemTypes
  BY <1>3 DEF DataInv
<1>5. /\ owner[b] = IF op[c].flags = "flush" THEN "cpu" ELSE "moving"
      /\ op[c].flags # "flush" => dir[b] = op[c].dir
      /\ op[c].flags = "map" => MapInv(c, b)
      /\ op[c].flags = "unmap" => UnmapInv(c, b)
      /\ pc[o] # "idle" => op[o].buf # b
      /\ OwnDone(c) /\ OtherDone(c)
  BY <1>1, <1>4 DEF CallInv, OwnDone, OtherDone
<1>6. /\ pc'[c] = "idle" /\ pc'[o] = pc[o] /\ op'[o] = op[o]
  BY <1>0, <1>1 DEF FiqInv, CallTypes
<1>7. \A a \in Bufs \ {b} : owner'[a] = owner[a] /\ dir'[a] = dir[a] /\ fresh'[a] = fresh[a]
  BY <1>1, <1>4 DEF MemTypes
<1>8. MemTypes' /\ Offline'
  <2>1. dir' \in [Bufs -> Dirs]  BY <1>1, <1>3, <1>4 DEF MemTypes, Dirs
  <2>2. fresh' \in [Bufs -> SUBSET Places]  BY <1>1, <1>3, <1>4 DEF MemTypes
  <2>3. owner' \in [Bufs -> {"cpu", "moving", "device"}]
    BY <1>1, <1>3, <1>4 DEF MemTypes
  <2> QED  BY <1>1, <2>1, <2>2, <2>3 DEF DataInv, MemTypes, Offline
<1>9. BufInv(b)'
  <2>0. Shape(b) /\ dirty[b] \subseteq {c, o}
    BY <1>0, <1>3, <1>4 DEF BufInv, MemTypes
  <2>1. CASE op[c].flags = "flush"
    <3>1. owner'[b] = owner[b] /\ dir'[b] = dir[b] /\ fresh'[b] = fresh[b] /\ owner[b] = "cpu"
      BY <1>1, <1>3, <1>4, <1>5, <2>1 DEF MemTypes
    <3>2. (Shape(b) => Shape(b)') /\ (AllFresh(b) => AllFresh(b)')
      BY <1>1, <3>1 DEF Shape, AllFresh, LinesFresh, WbsFresh, Settled
    <3> QED  BY <1>4, <3>1, <3>2 DEF BufInv
  <2>2. CASE op[c].flags = "unmap"
    <3>1. owner'[b] = "cpu" /\ fresh'[b] = fresh[b]
      BY <1>1, <1>3, <1>4, <2>2 DEF MemTypes
    <3>2. Shape(b)'
      BY <1>1, <2>0, <3>1 DEF Shape, Settled
    <3>3. AllFresh(b)
      <4>1. CASE op[c].dir = "to"  BY <1>5, <2>2, <4>1 DEF UnmapInv
      <4>2. CASE op[c].dir # "to"
        <5>1. Line(c) \notin holds[b] /\ Line(o) \notin holds[b] /\ MemFresh(b)
          BY <1>5, <2>2, <4>2 DEF UnmapInv
        <5> QED  BY <1>0, <5>1 DEF AllFresh, LinesFresh, MemFresh
      <4> QED  BY <4>1, <4>2
    <3>4. AllFresh(b)'
      BY <1>1, <3>1, <3>3 DEF AllFresh, LinesFresh, WbsFresh, Settled
    <3> QED  BY <3>1, <3>2, <3>4 DEF BufInv
  <2>3. CASE op[c].flags = "map"
    <3>1. owner'[b] = "device" /\ dir'[b] = dir[b] /\ dir[b] = op[c].dir
      BY <1>1, <1>3, <1>4, <1>5, <2>3 DEF MemTypes
    <3>2. MapInv(c, b)  BY <1>5, <2>3
    <3>3. dirty[b] = {}  BY <1>5, <2>0, <3>2 DEF MapInv
    <3>4. Draining(b)'
      BY <1>0, <1>1, <3>2 DEF MapInv, Draining
    <3>5. CASE op[c].dir = "from"
      <4>1. fresh'[b] = holds[b]  BY <1>1, <1>3, <1>4, <2>3, <3>5 DEF MemTypes
      <4>2. Shape(b)' /\ MemFresh(b)'
        BY <1>1, <2>0, <4>1 DEF Shape, MemFresh, WbsFresh, Settled
      <4> QED  BY <1>1, <3>1, <3>3, <3>4, <3>5, <4>2 DEF BufInv
    <3>6. CASE op[c].dir # "from"
      <4>1. fresh'[b] = fresh[b]  BY <1>1, <1>3, <1>4, <3>6 DEF MemTypes
      <4>2. AllFresh(b)  BY <3>2, <3>6 DEF MapInv
      <4>3. Shape(b)' /\ AllFresh(b)' /\ MemFresh(b)'
        BY <1>1, <2>0, <3>3, <4>1, <4>2
           DEF Shape, AllFresh, LinesFresh, MemFresh, WbsFresh, Settled
      <4> QED  BY <1>1, <3>1, <3>3, <3>4, <4>3 DEF BufInv
    <3> QED  BY <3>5, <3>6
  <2> QED  BY <1>3, <2>1, <2>2, <2>3 DEF Kinds
<1>10. ASSUME NEW a \in Bufs, a # b
       PROVE  /\ BufInv(a)' /\ (AllFresh(a) => AllFresh(a)') /\ (MemFresh(a) => MemFresh(a)')
  <2>1. (AllFresh(a) => AllFresh(a)') /\ (MemFresh(a) => MemFresh(a)')
        /\ (Shape(a) => Shape(a)') /\ (Draining(a) => Draining(a)')
    BY <1>1, <1>7, <1>10
       DEF Shape, AllFresh, LinesFresh, MemFresh, WbsFresh, Settled, Draining
  <2> QED  BY <1>1, <1>7, <1>10, <2>1 DEF DataInv, BufInv
<1>11. CallInv(c, o)'  BY <1>6 DEF CallInv
<1>12. CallInv(o, c)'
  <2> SUFFICES ASSUME pc[o] # "idle", NEW a, a = op[o].buf
               PROVE  /\ owner'[a] = IF op'[o].flags = "flush" THEN "cpu" ELSE "moving"
                      /\ op'[o].flags # "flush" => dir'[a] = op'[o].dir
                      /\ op'[o].flags = "map" => MapInv(o, a)'
                      /\ op'[o].flags = "unmap" => UnmapInv(o, a)'
    BY <1>6 DEF CallInv
  <2>1. op[o] \in Reqs  BY <1>0 DEF FiqInv, ReqInv, ReqOf
  <2>2. a \in Bufs /\ a # b  BY <1>5, <2>1 DEF Reqs
  <2>3. CallInv(o, c)  BY <1>0 DEF DataInv
  <2>4. (OwnDone(o)' <=> OwnDone(o)) /\ (OtherDone(o)' <=> OtherDone(o))
    BY <1>0, <1>1, <1>6 DEF OwnDone, OtherDone
  <2>5. op[o].flags = "map" => MapInv(o, a)'
    BY <1>0, <1>1, <1>6, <1>10, <2>2, <2>3, <2>4 DEF CallInv, MapInv
  <2>6. op[o].flags = "unmap" => UnmapInv(o, a)'
    BY <1>0, <1>1, <1>6, <1>10, <2>2, <2>3, <2>4 DEF CallInv, UnmapInv
  <2> QED  BY <1>6, <1>7, <2>2, <2>3, <2>5, <2>6 DEF CallInv
<1> QED  BY <1>0, <1>8, <1>9, <1>10, <1>11, <1>12 DEF DataInv

-----------------------------------------------------------------------------
(* Loads, stores and the device: no call but a flush is on the buffer.      *)

LEMMA Touched ==
  ASSUME FiqInv, DataInv, NEW b \in Bufs, owner[b] # "moving",
         UNCHANGED <<bootVars, callVars, fiqVars, owner, dir>>,
         Elsewhere(b), MemTypesOnly', BufInv(b)',
         ~online => Line(1) \notin holds'[b] /\ Wb(1) \notin holds'[b]
  PROVE  DataInv'
<1>1. UNCHANGED <<online, pc, op, req, hpc, owner, dir>>
  BY DEF bootVars, callVars, fiqVars
<1>2. MemTypes'  BY <1>1 DEF DataInv, MemTypes, MemTypesOnly
<1>3. Offline'
  BY <1>1 DEF DataInv, Offline, Elsewhere
<1>4. ASSUME NEW a \in Bufs, a # b
      PROVE  /\ holds'[a] = holds[a] /\ dirty'[a] = dirty[a] /\ fresh'[a] = fresh[a]
             /\ BufInv(a)' /\ (AllFresh(a) => AllFresh(a)') /\ (MemFresh(a) => MemFresh(a)')
  <2>1. holds'[a] = holds[a] /\ dirty'[a] = dirty[a] /\ fresh'[a] = fresh[a]
    BY <1>4 DEF Elsewhere
  <2>2. (AllFresh(a) => AllFresh(a)') /\ (MemFresh(a) => MemFresh(a)')
        /\ (Shape(a) => Shape(a)') /\ (Draining(a) => Draining(a)')
    BY <1>1, <2>1 DEF Shape, AllFresh, LinesFresh, MemFresh, WbsFresh, Settled, Draining
  <2> QED  BY <1>1, <2>1, <2>2 DEF DataInv, BufInv
<1>5. ASSUME NEW c \in CPU PROVE CallInv(c, Other(c))'
  <2> SUFFICES ASSUME pc[c] # "idle", NEW o, o = Other(c), NEW a, a = op[c].buf
               PROVE  /\ pc'[o] # "idle" => op'[o].buf # a
                      /\ owner'[a] = IF op'[c].flags = "flush" THEN "cpu" ELSE "moving"
                      /\ op'[c].flags # "flush" => dir'[a] = op'[c].dir
                      /\ op'[c].flags = "map" => MapInv(c, a)'
                      /\ op'[c].flags = "unmap" => UnmapInv(c, a)'
    BY <1>1 DEF CallInv
  <2>0. o \in CPU  BY OtherOf
  <2>1. op[c] \in Reqs  BY <2>0 DEF FiqInv, ReqInv, ReqOf
  <2>2. a \in Bufs  BY <2>1 DEF Reqs
  <2>3. CallInv(c, o)  BY DEF DataInv
  <2>4. op[c].flags # "flush" => a # b  BY <2>3 DEF CallInv
  <2>5. (OwnDone(c)' <=> OwnDone(c)) /\ (OtherDone(c)' <=> OtherDone(c))
    BY <1>1 DEF OwnDone, OtherDone
  <2>6. op[c].flags = "map" => MapInv(c, a)'
    BY <1>1, <1>4, <2>2, <2>3, <2>4, <2>5 DEF CallInv, MapInv
  <2>7. op[c].flags = "unmap" => UnmapInv(c, a)'
    BY <1>1, <1>4, <2>2, <2>3, <2>4, <2>5 DEF CallInv, UnmapInv
  <2> QED  BY <1>1, <2>3, <2>6, <2>7 DEF CallInv
<1> QED  BY <1>2, <1>3, <1>4, <1>5 DEF DataInv
LEMMA DataLoad ==
  ASSUME FiqInv, DataInv, NEW c \in CPU, NEW b \in Bufs, Load(c, b)
  PROVE  DataInv'
<1> SUFFICES ASSUME NEW o, o = Other(c) PROVE DataInv'
  OBVIOUS
<1>0. o \in CPU /\ o # c /\ Other(o) = c /\ \A e \in CPU : e = c \/ e = o
  BY OtherOf
<1>1. /\ Mem # Line(c) /\ Mem # Wb(c) /\ Mem # Line(o) /\ Mem # Wb(o)
      /\ Line(c) # Wb(c) /\ Line(c) # Wb(o) /\ Line(o) # Wb(c) /\ Line(o) # Wb(o)
      /\ Line(c) # Line(o) /\ Line(c) \in Places /\ Mem \in Places
  BY <1>0, PlacesOf
<1>2. /\ owner[b] \in {"cpu", "device"} /\ Line(c) \notin holds[b] /\ Settled(b)
      /\ c = 1 => online
      /\ holds' = [holds EXCEPT ![b] = @ \cup {Line(c)}]
      /\ dirty' = [dirty EXCEPT ![b] = {}]
      /\ UNCHANGED <<bootVars, callVars, fiqVars, owner, dir>>
  BY DEF Load, Runs
<1>3. PICK s \in Sources(c, b) :
        fresh' = [fresh EXCEPT ![b] =
          Copied(@, s, {Line(c)} \cup IF dirty[b] = {} THEN {} ELSE {Mem})]
  BY DEF Load
<1>4. MemTypes /\ BufInv(b)  BY DEF DataInv
<1>5. /\ holds'[b] = holds[b] \cup {Line(c)} /\ dirty'[b] = {}
      /\ fresh'[b] = IF s \in fresh[b]
                     THEN fresh[b] \cup ({Line(c)} \cup IF dirty[b] = {} THEN {} ELSE {Mem})
                     ELSE fresh[b] \ ({Line(c)} \cup IF dirty[b] = {} THEN {} ELSE {Mem})
      /\ Elsewhere(b)
  BY <1>2, <1>3, <1>4 DEF MemTypes, Copied, Elsewhere
<1>6. MemTypesOnly'
  <2>1. holds' \in [Bufs -> SUBSET Places] /\ dirty' \in [Bufs -> SUBSET CPU]
    BY <1>1, <1>2, <1>4 DEF MemTypes
  <2>2. fresh'[b] \subseteq Places  BY <1>1, <1>4, <1>5 DEF MemTypes
  <2>3. fresh' \in [Bufs -> SUBSET Places]
    BY <1>3, <1>4, <2>2 DEF MemTypes
  <2> QED  BY <2>1, <2>3 DEF MemTypesOnly
<1>7. Shape(b)'  BY <1>1, <1>4, <1>5 DEF BufInv, Shape
<1>8. dirty[b] # {} => s = Line(o) /\ Line(o) \in holds[b]
  BY <1>0, <1>2, <1>4 DEF BufInv, Shape, MemTypes, Sources
<1>9. Settled(b)'  BY <1>0, <1>1, <1>2, <1>5 DEF Settled
<1>10. AllFresh(b) => s \in fresh[b]
  <2>1. \/ s = Line(o) /\ Line(o) \in holds[b]
        \/ s = Mem /\ dirty[b] = {}
    <3>1. CASE dirty[b] # {}  BY <1>8, <3>1
    <3>2. CASE dirty[b] = {}
      BY <1>2, <3>2 DEF Sources
    <3> QED  BY <3>1, <3>2
  <2> QED  BY <1>0, <1>2, <2>1 DEF AllFresh, LinesFresh
<1>11. AllFresh(b) => AllFresh(b)'
  BY <1>0, <1>1, <1>2, <1>5, <1>9, <1>10 DEF AllFresh, LinesFresh, WbsFresh, Settled
<1>12. dirty[b] = {} /\ MemFresh(b) => MemFresh(b)'
  BY <1>1, <1>2, <1>5, <1>9 DEF MemFresh, WbsFresh, Settled
<1>13. Draining(b)'  BY <1>9 DEF Draining, Settled
<1>14. BufInv(b)'
  BY <1>2, <1>4, <1>5, <1>7, <1>11, <1>12, <1>13 DEF BufInv
<1>15. ~online => Line(1) \notin holds'[b] /\ Wb(1) \notin holds'[b]
  BY <1>0, <1>1, <1>2, <1>5 DEF DataInv, Offline, CPU
<1>16. owner[b] # "moving"  BY <1>2
<1> QED  BY <1>2, <1>5, <1>6, <1>14, <1>15, <1>16, Touched

LEMMA DataStore ==
  ASSUME FiqInv, DataInv, NEW c \in CPU, NEW b \in Bufs, Store(c, b)
  PROVE  DataInv'
<1> SUFFICES ASSUME NEW o, o = Other(c) PROVE DataInv'
  OBVIOUS
<1>0. o \in CPU /\ o # c /\ Other(o) = c /\ \A e \in CPU : e = c \/ e = o
  BY OtherOf
<1>1. /\ Mem # Line(c) /\ Mem # Wb(c) /\ Mem # Line(o) /\ Mem # Wb(o)
      /\ Line(c) # Wb(c) /\ Line(c) # Wb(o) /\ Line(o) # Wb(c) /\ Line(o) # Wb(o)
      /\ Line(c) # Line(o) /\ Line(c) \in Places /\ Mem \in Places
  BY <1>0, PlacesOf
<1>2. /\ owner[b] = "cpu" /\ (c = 1 => online)
      /\ holds' = [holds EXCEPT ![b] = {Mem, Line(c)}]
      /\ dirty' = [dirty EXCEPT ![b] = {c}]
      /\ fresh' = [fresh EXCEPT ![b] = {Line(c)}]
      /\ UNCHANGED <<bootVars, callVars, fiqVars, owner, dir>>
  BY DEF Store, Runs
<1>3. /\ holds'[b] = {Mem, Line(c)} /\ dirty'[b] = {c} /\ fresh'[b] = {Line(c)}
      /\ Elsewhere(b)
  BY <1>2 DEF DataInv, MemTypes, Elsewhere
<1>4. MemTypesOnly'
  BY <1>1, <1>2 DEF DataInv, MemTypes, MemTypesOnly
<1>5. BufInv(b)'
  <2>1. Settled(b)'  BY <1>0, <1>1, <1>3 DEF Settled
  <2>2. Shape(b)'  BY <1>0, <1>1, <1>3, <2>1 DEF Shape
  <2>3. AllFresh(b)'
    BY <1>0, <1>1, <1>3, <2>1 DEF AllFresh, LinesFresh, WbsFresh, Settled
  <2> QED  BY <1>2, <2>2, <2>3 DEF BufInv
<1>6. ~online => Line(1) \notin holds'[b] /\ Wb(1) \notin holds'[b]
  BY <1>0, <1>1, <1>2, <1>3 DEF CPU
<1>7. owner[b] # "moving"  BY <1>2
<1> QED  BY <1>2, <1>3, <1>4, <1>5, <1>6, <1>7, Touched

LEMMA DataDevice ==
  ASSUME FiqInv, DataInv, DrainedFirst, NEW b \in Bufs, DeviceWrites(b)
  PROVE  DataInv'
<1>1. /\ owner[b] = "device" /\ dir[b] # "to"
      /\ \A c \in CPU : hpc[c] # "drain"
      /\ fresh' = [fresh EXCEPT ![b] = {Mem}]
      /\ UNCHANGED <<bootVars, callVars, fiqVars, owner, dir, holds, dirty>>
  BY DEF DeviceWrites
<1>2. fresh'[b] = {Mem} /\ Elsewhere(b)
  BY <1>1 DEF DataInv, MemTypes, Elsewhere
<1>3. MemTypesOnly'
  <2>1. Mem \in Places  BY DEF Places
  <2> QED  BY <1>1, <2>1 DEF DataInv, MemTypes, MemTypesOnly
<1>4. Settled(b) /\ BufInv(b)
  BY <1>1 DEF DataInv, BufInv, Draining, Settled
<1>5. BufInv(b)'
  <2>1. Shape(b)' /\ MemFresh(b)' /\ Draining(b)'
    BY <1>1, <1>2, <1>4 DEF BufInv, Shape, MemFresh, WbsFresh, Settled, Draining
  <2> QED  BY <1>1, <1>4, <2>1 DEF BufInv
<1>6. ~online => Line(1) \notin holds'[b] /\ Wb(1) \notin holds'[b]
  BY <1>1 DEF DataInv, Offline
<1>7. owner[b] # "moving"  BY <1>1
<1> QED  BY <1>1, <1>2, <1>3, <1>5, <1>6, <1>7, Touched

-----------------------------------------------------------------------------
LEMMA DataInitially == Init => DataInv
<1> SUFFICES ASSUME Init PROVE DataInv
  OBVIOUS
<1>1. /\ owner = [b \in Bufs |-> "cpu"] /\ dir = [b \in Bufs |-> "to"]
      /\ holds = [b \in Bufs |-> {Mem}] /\ dirty = [b \in Bufs |-> {}]
      /\ fresh = [b \in Bufs |-> {Mem}] /\ pc = [c \in CPU |-> "idle"]
  BY DEF Init
<1>2. MemTypes
  <2>1. Mem \in Places /\ "to" \in Dirs  BY DEF Places, Dirs
  <2> QED  BY <1>1, <2>1 DEF MemTypes
<1>3. \A c \in CPU : Mem # Line(c) /\ Mem # Wb(c)  BY PlacesOf
<1>4. Offline  BY <1>1, <1>3 DEF Offline, CPU
<1>5. ASSUME NEW b \in Bufs PROVE BufInv(b)
  BY <1>1, <1>3 DEF BufInv, Shape, AllFresh, LinesFresh, WbsFresh, Settled
<1>6. ASSUME NEW c \in CPU PROVE CallInv(c, Other(c))
  BY <1>1 DEF CallInv
<1> QED  BY <1>2, <1>4, <1>5, <1>6 DEF DataInv

LEMMA DataStep ==
  ASSUME DrainedFirst, FiqInv, DataInv, [Next]_vars
  PROVE  DataInv'
<1>1. CASE Boot  BY <1>1, DataBoot
<1>2. ASSUME NEW c \in CPU, Call(c) PROVE DataInv'
  BY <1>2, DataQuietCall, DataLocalOp, DataReturn DEF Call
<1>3. ASSUME NEW c \in CPU, Handler(c) PROVE DataInv'
  BY <1>3, DataQuietHandler, DataFiqOp DEF Handler
<1>4. ASSUME NEW c \in CPU, NEW b \in Bufs,
             \/ \E d \in Dirs : MapStart(c, d, b)
             \/ UnmapStart(c, b) \/ FlushStart(c, b)
      PROVE  DataInv'
  <2>1. "to" \in Dirs  BY DEF Dirs
  <2> QED  BY <1>4, <2>1, DataStarts
<1>5. ASSUME NEW c \in CPU, NEW b \in Bufs,
             WriteBack(c, b) \/ Evict(c, b) \/ Load(c, b) \/ Store(c, b)
      PROVE  DataInv'
  BY <1>5, DataEvict, DataLoad, DataStore
<1>6. ASSUME NEW b \in Bufs, DeviceWrites(b) PROVE DataInv'
  BY <1>6, DataDevice
<1>7. CASE UNCHANGED vars
  <2>1. UNCHANGED <<online, pc, op, req, hpc, owner, dir, memVars>>
    BY <1>7 DEF vars, bootVars, callVars, fiqVars
  <2> QED  BY <2>1, Quiet DEF OwnDone, OtherDone
<1> QED  BY <1>1, <1>2, <1>3, <1>4, <1>5, <1>6, <1>7 DEF Next

LEMMA DataInvHolds == DrainedFirst => (Spec => []DataInv)
<1> SUFFICES ASSUME DrainedFirst PROVE Spec => []DataInv
  OBVIOUS
<1>1. DataInv /\ FiqInv /\ [Next]_vars => DataInv'  BY DataStep
<1> QED  BY <1>1, DataInitially, FiqInvHolds, PTL DEF Spec

(* A CPU that owns a buffer loads what was last written to it.               *)
THEOREM CpuSeesFreshHolds == DrainedFirst => (Spec => []CpuSeesFresh)
<1>1. DataInv => CpuSeesFresh
  <2> SUFFICES ASSUME DataInv, NEW c \in CPU, NEW b \in Bufs, owner[b] = "cpu", Settled(b)
               PROVE  Sources(c, b) \subseteq fresh[b]
    BY DEF CpuSeesFresh
  <2>1. AllFresh(b) /\ Shape(b) /\ dirty[b] \subseteq CPU
    BY DEF DataInv, BufInv, MemTypes
  <2>2. dirty[b] = {} => Mem \in fresh[b]  BY <2>1 DEF AllFresh
  <2>3. \A e \in CPU : Line(e) \in holds[b] => Line(e) \in fresh[b]
    BY <2>1 DEF AllFresh, LinesFresh
  <2>4. dirty[b] # {} => Line(c) \in holds[b] \/ Line(Other(c)) \in holds[b]
    BY <2>1, OtherOf DEF Shape
  <2> QED  BY <2>2, <2>3, <2>4, OtherOf DEF Sources
<1> QED  BY <1>1, DataInvHolds, PTL

(* When dma_map has returned, memory has or will have what the CPUs wrote,   *)
(* and no cache has a dirty line.                                            *)
THEOREM DeviceSeesFreshHolds == DrainedFirst => (Spec => []DeviceSeesFresh)
<1>1. DataInv => DeviceSeesFresh
  <2> SUFFICES ASSUME DataInv, NEW b \in Bufs, owner[b] = "device"
               PROVE  /\ dirty[b] = {}
                      /\ \/ Mem \in fresh[b]
                         \/ \E c \in CPU : hpc[c] = "drain" /\ Wb(c) \in fresh[b]
    BY DEF DeviceSeesFresh
  <2>1. dirty[b] = {} /\ Draining(b) /\ (AllFresh(b) \/ MemFresh(b))
    BY DEF DataInv, BufInv
  <2>2. WbsFresh(b) /\ (Mem \in fresh[b] \/ ~Settled(b))
    BY <2>1 DEF AllFresh, MemFresh
  <2> QED  BY <2>1, <2>2 DEF Settled, Draining, WbsFresh
<1> QED  BY <1>1, DataInvHolds, PTL

-----------------------------------------------------------------------------
(* The types, and that a dirty line is the only line. Neither needs that a  *)
(* device starts late (DrainedFirst).                                       *)
MemShape == MemTypesOnly /\ \A b \in Bufs : Shape(b)

LEMMA ShapeAt ==
  ASSUME MemShape, NEW b \in Bufs, MemTypesOnly', Shape(b)', Elsewhere(b)
  PROVE  MemShape'
<1>1. ASSUME NEW a \in Bufs, a # b PROVE Shape(a)'
  BY <1>1 DEF MemShape, Shape, Settled, Elsewhere
<1> QED BY <1>1 DEF MemShape

LEMMA ShapeKept ==
  ASSUME MemShape, UNCHANGED memVars
  PROVE  MemShape'
BY DEF MemShape, MemTypesOnly, Shape, Settled, memVars

LEMMA ShapeMaintain ==
  ASSUME FiqInv, MemShape, NEW c \in CPU, LocalOp(c) \/ FiqOp(c)
  PROVE  MemShape'
<1>1. PICK r \in Reqs : LocalMaintain(c, r) \/ FiqMaintain(c, r)
  <2>1. CASE LocalOp(c)
    <3>1. op[c] \in Reqs
      BY <2>1, OtherOf DEF LocalOp, FiqInv, ReqInv, ReqOf
    <3> QED BY <2>1, <3>1 DEF LocalOp
  <2>2. CASE FiqOp(c)
    <3>1. hpc[c] \in AtWork
      BY <2>2 DEF FiqOp, AtWork
    <3>2. hreq[c] \in Reqs
      BY <3>1, OtherOf DEF FiqInv, CallTypes, ReqInv, ReqOf, Waits
    <3> QED BY <2>2, <3>2 DEF FiqOp
  <2> QED BY <2>1, <2>2
<1>2. r.buf \in Bufs
  BY DEF Reqs
<1>3. MemTypesOnly /\ Shape(r.buf)
  BY <1>2 DEF MemShape
<1>4. Maintains(c, r.buf)
  BY <1>1, <1>3, LocalMaintainDoes, FiqMaintainDoes
<1> QED BY <1>2, <1>4, ShapeAt DEF Maintains

LEMMA ShapeReturn ==
  ASSUME FiqInv, MemShape, NEW c \in CPU, Return(c)
  PROVE  MemShape'
<1>1. op[c] \in Reqs
  BY OtherOf DEF Return, FiqInv, ReqInv, ReqOf
<1>2. PICK b \in Bufs : b = op[c].buf
  BY <1>1 DEF Reqs
<1>3. /\ fresh' = [fresh EXCEPT ![b] =
           IF op[c].flags = "map" /\ op[c].dir = "from" THEN holds[b] ELSE @]
      /\ UNCHANGED <<holds, dirty>>
  BY <1>2 DEF Return
<1>4. MemTypesOnly /\ Shape(b)
  BY DEF MemShape
<1>5. MemTypesOnly' /\ Elsewhere(b)
  BY <1>3, <1>4 DEF MemTypesOnly, Elsewhere
<1>6. Shape(b)'
  <2>1. fresh'[b] \subseteq holds[b]
    BY <1>3, <1>4 DEF MemTypesOnly, Shape
  <2> QED BY <1>3, <1>4, <2>1 DEF Shape, Settled
<1> QED BY <1>5, <1>6, ShapeAt

LEMMA ShapeUse ==
  ASSUME MemShape, NEW c \in CPU, NEW b \in Bufs,
         WriteBack(c, b) \/ Evict(c, b) \/ Load(c, b) \/ Store(c, b) \/ DeviceWrites(b)
  PROVE  MemShape'
<1> SUFFICES ASSUME NEW o, o = Other(c) PROVE MemShape'
  OBVIOUS
<1>0. o \in CPU /\ o # c /\ Other(o) = c /\ \A e \in CPU : e = c \/ e = o
  BY OtherOf
<1>1. /\ Mem # Line(c) /\ Mem # Wb(c) /\ Mem # Line(o) /\ Mem # Wb(o)
      /\ Line(c) # Wb(c) /\ Line(c) # Wb(o) /\ Line(o) # Wb(c) /\ Line(o) # Wb(o)
      /\ Line(c) # Line(o) /\ Line(c) \in Places /\ Mem \in Places
  BY <1>0, PlacesOf
<1>2. MemTypesOnly /\ Shape(b)
  BY DEF MemShape
<1>3. CASE WriteBack(c, b) \/ Evict(c, b)
  <2>1. Maintains(c, b)
    BY <1>2, <1>3, WriteBackDoes, CleanInvLineDoes DEF Evict
  <2> QED BY <2>1, ShapeAt DEF Maintains
<1>4. CASE Load(c, b)
  <2>1. PICK s : fresh' = [fresh EXCEPT ![b] =
                   Copied(@, s, {Line(c)} \cup IF dirty[b] = {} THEN {} ELSE {Mem})]
    BY <1>4 DEF Load
  <2>2. /\ holds' = [holds EXCEPT ![b] = @ \cup {Line(c)}]
        /\ dirty' = [dirty EXCEPT ![b] = {}]
    BY <1>4 DEF Load
  <2>3. /\ holds'[b] = holds[b] \cup {Line(c)} /\ dirty'[b] = {}
        /\ fresh'[b] \subseteq fresh[b] \cup {Line(c), Mem}
        /\ Elsewhere(b)
    BY <1>2, <2>1, <2>2 DEF MemTypesOnly, Copied, Elsewhere
  <2>4. fresh'[b] \subseteq Places
    BY <1>1, <1>2, <2>3 DEF MemTypesOnly
  <2>5. MemTypesOnly'
    BY <1>1, <1>2, <2>1, <2>2, <2>4 DEF MemTypesOnly
  <2>6. Shape(b)'
    BY <1>2, <2>3 DEF Shape
  <2> QED BY <2>3, <2>5, <2>6, ShapeAt
<1>5. CASE Store(c, b)
  <2>1. /\ holds' = [holds EXCEPT ![b] = {Mem, Line(c)}]
        /\ dirty' = [dirty EXCEPT ![b] = {c}]
        /\ fresh' = [fresh EXCEPT ![b] = {Line(c)}]
    BY <1>5 DEF Store
  <2>2. /\ holds'[b] = {Mem, Line(c)} /\ dirty'[b] = {c} /\ fresh'[b] = {Line(c)}
        /\ Elsewhere(b)
    BY <1>2, <2>1 DEF MemTypesOnly, Elsewhere
  <2>3. MemTypesOnly'
    BY <1>1, <1>2, <2>1 DEF MemTypesOnly
  <2>4. Settled(b)'
    BY <1>0, <1>1, <2>2 DEF Settled
  <2>5. Shape(b)'
    BY <1>0, <1>1, <2>2, <2>4 DEF Shape
  <2> QED BY <2>2, <2>3, <2>5, ShapeAt
<1>6. CASE DeviceWrites(b)
  <2>1. fresh' = [fresh EXCEPT ![b] = {Mem}] /\ UNCHANGED <<holds, dirty>>
    BY <1>6 DEF DeviceWrites
  <2>2. MemTypesOnly' /\ Elsewhere(b) /\ fresh'[b] = {Mem}
    BY <1>1, <1>2, <2>1 DEF MemTypesOnly, Elsewhere
  <2>3. Shape(b)'
    BY <1>2, <2>1, <2>2 DEF Shape, Settled
  <2> QED BY <2>2, <2>3, ShapeAt
<1> QED BY <1>3, <1>4, <1>5, <1>6

LEMMA ShapeStep == FiqInv /\ MemShape /\ [Next]_vars => MemShape'
<1> SUFFICES ASSUME FiqInv, MemShape, [Next]_vars PROVE MemShape'
  OBVIOUS
<1>1. CASE Boot \/ UNCHANGED vars
  BY <1>1, ShapeKept DEF Boot, vars
<1>2. ASSUME NEW c \in CPU, Call(c) \/ Handler(c) PROVE MemShape'
  <2>1. CASE Raise(c) \/ LocalDrain(c) \/ FiqEntry(c) \/ FiqExit(c) \/ FiqReturn(c)
    <3>1. UNCHANGED memVars
      BY <2>1 DEF Raise, LocalDrain, FiqEntry, FiqExit, FiqReturn
    <3> QED BY <3>1, ShapeKept
  <2> QED BY <1>2, <2>1, ShapeMaintain, ShapeReturn DEF Call, Handler
<1>3. ASSUME NEW c \in CPU, NEW b \in Bufs,
             \/ \E d \in Dirs : MapStart(c, d, b)
             \/ UnmapStart(c, b) \/ FlushStart(c, b)
      PROVE  MemShape'
  <2>1. UNCHANGED memVars
    BY <1>3 DEF MapStart, UnmapStart, FlushStart, Start
  <2> QED BY <2>1, ShapeKept
<1>4. ASSUME NEW c \in CPU, NEW b \in Bufs,
             WriteBack(c, b) \/ Evict(c, b) \/ Load(c, b) \/ Store(c, b)
      PROVE  MemShape'
  BY <1>4, ShapeUse
<1>5. ASSUME NEW b \in Bufs, DeviceWrites(b) PROVE MemShape'
  <2>1. 0 \in CPU
    BY DEF CPU
  <2> QED BY <1>5, <2>1, ShapeUse
<1> QED BY <1>1, <1>2, <1>3, <1>4, <1>5 DEF Next

LEMMA OwnerStep ==
  owner \in [Bufs -> {"cpu", "moving", "device"}] /\ [Next]_vars =>
    owner' \in [Bufs -> {"cpu", "moving", "device"}]
<1> SUFFICES ASSUME owner \in [Bufs -> {"cpu", "moving", "device"}], [Next]_vars
             PROVE  owner' \in [Bufs -> {"cpu", "moving", "device"}]
  OBVIOUS
<1>1. CASE Boot \/ UNCHANGED vars
  BY <1>1 DEF Boot, vars
<1>2. ASSUME NEW c \in CPU, Call(c) PROVE owner' \in [Bufs -> {"cpu", "moving", "device"}]
  BY <1>2 DEF Call, Raise, LocalOp, LocalDrain, Return
<1>3. ASSUME NEW c \in CPU, Handler(c) PROVE UNCHANGED owner
  BY <1>3 DEF Handler, FiqEntry, FiqOp, FiqExit, FiqReturn
<1>4. ASSUME NEW c \in CPU, NEW b \in Bufs,
             \/ \E d \in Dirs : MapStart(c, d, b)
             \/ UnmapStart(c, b) \/ FlushStart(c, b)
      PROVE  owner' \in [Bufs -> {"cpu", "moving", "device"}]
  BY <1>4 DEF MapStart, UnmapStart, FlushStart
<1>5. ASSUME NEW c \in CPU, NEW b \in Bufs,
             WriteBack(c, b) \/ Evict(c, b) \/ Load(c, b) \/ Store(c, b)
      PROVE  UNCHANGED owner
  BY <1>5 DEF WriteBack, Evict, Load, Store
<1>6. ASSUME NEW b \in Bufs, DeviceWrites(b) PROVE UNCHANGED owner
  BY <1>6 DEF DeviceWrites
<1> QED BY <1>1, <1>2, <1>3, <1>4, <1>5, <1>6 DEF Next

LEMMA BootTypesStep == BootTypeOK /\ [Next]_vars => BootTypeOK'
<1> SUFFICES ASSUME BootTypeOK, [Next]_vars PROVE BootTypeOK'
  OBVIOUS
<1>1. CASE Boot
  <2>1. CASE SetsFiqRegs \/ LeavesMonitor \/ LeavesPen \/ TellsReleased \/ Synchronises
    BY <2>1, Zenon DEF SetsFiqRegs, LeavesMonitor, LeavesPen, TellsReleased, Synchronises,
                       BootTypeOK
  <2>2. CASE BootWritesPen \/ CpuUpGivesUp
    BY <2>2, Zenon DEF BootWritesPen, CpuUpGivesUp, BootTypeOK
  <2>3. CASE BootReturns
    <3>1. /\ UNCHANGED <<online, cns3xxx_pen_release, tries, second>>
          /\ boot_lock' = "none" /\ boot' \in {"over", "failed", "booted"}
      BY <2>3, Zenon DEF BootReturns
    <3> QED BY <3>1, Zenon DEF BootTypeOK
  <2>4. CASE BootWakes
    <3>1. tries' \in 0 .. MaxTries
      <4>1. tries < MaxTries /\ tries' = tries + 1 /\ tries \in 0 .. MaxTries
        BY <2>4, Zenon DEF BootWakes, BootTypeOK
      <4> QED BY <4>1, SmpBootAssumption
    <3>2. /\ UNCHANGED <<online, cns3xxx_pen_release>>
          /\ boot_lock' = "boot" /\ boot' = "woken"
          /\ second' \in {"leaving monitor", second}
      BY <2>4, Zenon DEF BootWakes
    <3> QED BY <3>1, <3>2, Zenon DEF BootTypeOK
  <2>5. CASE GoesOnline
    <3>1. tries' \in 0 .. MaxTries
      <4>1. tries' = MaxTries
        BY <2>5, Zenon DEF GoesOnline
      <4> QED BY <4>1, SmpBootAssumption
    <3>2. /\ online' = TRUE /\ second' = "online" /\ boot' \in {"over", boot}
          /\ UNCHANGED <<cns3xxx_pen_release, boot_lock>>
      BY <2>5, Zenon DEF GoesOnline
    <3> QED BY <3>1, <3>2, Zenon DEF BootTypeOK
  <2> QED BY <1>1, <2>1, <2>2, <2>3, <2>4, <2>5 DEF Boot, SecondaryFiqRegs, BringUp
<1>2. CASE ~Boot
  <2>1. ASSUME NEW c \in CPU, Call(c) \/ Handler(c) PROVE UNCHANGED bootVars
    BY <2>1 DEF Call, Raise, LocalOp, LocalDrain, Return, Handler, FiqEntry, FiqOp, FiqExit,
                FiqReturn
  <2>2. ASSUME NEW c \in CPU, NEW b \in Bufs,
               \/ \E d \in Dirs : MapStart(c, d, b)
               \/ UnmapStart(c, b) \/ FlushStart(c, b)
               \/ WriteBack(c, b) \/ Evict(c, b) \/ Load(c, b) \/ Store(c, b)
               \/ DeviceWrites(b)
        PROVE  UNCHANGED bootVars
    BY <2>2 DEF MapStart, UnmapStart, FlushStart, Start, WriteBack, Evict, Load, Store,
                DeviceWrites
  <2>3. UNCHANGED bootVars
    <3>1. 0 \in CPU
      BY DEF CPU
    <3> QED BY <1>2, <2>1, <2>2, <3>1 DEF Next, vars
  <2> QED BY <2>3, Zenon DEF bootVars, BootTypeOK
<1> QED BY <1>1, <1>2

(* The variables have their types, and a dirty line is the only one, for any *)
(* number of buffers, whenever the second CPU comes up and also with devices *)
(* that start before a handler has drained its write buffer.                 *)
THEOREM FiqTypeCorrect == Spec => []TypeOK
<1>1. Init => MemShape /\ owner \in [Bufs -> {"cpu", "moving", "device"}] /\ BootTypeOK
  <2> SUFFICES ASSUME Init
               PROVE  /\ MemShape /\ owner \in [Bufs -> {"cpu", "moving", "device"}]
                      /\ BootTypeOK
    OBVIOUS
  <2>1. /\ owner = [b \in Bufs |-> "cpu"] /\ holds = [b \in Bufs |-> {Mem}]
        /\ dirty = [b \in Bufs |-> {}] /\ fresh = [b \in Bufs |-> {Mem}] /\ Mem \in Places
    BY DEF Init, Places
  <2>2. MemShape
    BY <2>1 DEF MemShape, MemTypesOnly, Shape
  <2>3. BootTypeOK
    <3>1. tries \in 0 .. MaxTries /\ cns3xxx_pen_release \in {-1, 1}
      <4>1. tries = 0 /\ cns3xxx_pen_release = -1
        BY Zenon DEF Init, BootInit
      <4> QED BY <4>1, SmpBootAssumption
    <3> QED BY <3>1, Zenon DEF Init, BootInit, BootTypeOK
  <2> QED BY <2>1, <2>2, <2>3
<1>2. Spec => [](MemShape /\ owner \in [Bufs -> {"cpu", "moving", "device"}] /\ BootTypeOK)
  <2>1. FiqInv /\ MemShape /\ owner \in [Bufs -> {"cpu", "moving", "device"}] /\ BootTypeOK
          /\ [Next]_vars
        => (MemShape /\ owner \in [Bufs -> {"cpu", "moving", "device"}] /\ BootTypeOK)'
    BY ShapeStep, OwnerStep, BootTypesStep
  <2> QED BY <1>1, <2>1, FiqInvHolds, PTL DEF Spec
<1>3. /\ FiqInv /\ MemShape /\ BootTypeOK /\ dir \in [Bufs -> Dirs]
      /\ owner \in [Bufs -> {"cpu", "moving", "device"}]
      => TypeOK
  <2> SUFFICES ASSUME FiqInv, MemShape, BootTypeOK, dir \in [Bufs -> Dirs],
                      owner \in [Bufs -> {"cpu", "moving", "device"}]
               PROVE  TypeOK
    OBVIOUS
  <2>1. CallTypes /\ MemTypesOnly /\ \A b \in Bufs : Shape(b)
    BY DEF FiqInv, MemShape
  <2>2. \A b \in Bufs : /\ Mem \in holds[b] /\ fresh[b] \subseteq holds[b]
                        /\ \A c \in dirty[b] : Line(c) \in holds[b] /\ Line(Other(c)) \notin holds[b]
    BY <2>1, Zenon DEF Shape
  <2>3. \A r \in {op, req, hreq} : r \in [CPU -> Reqs \cup {NoReq}]
    BY <2>1, Zenon DEF CallTypes
  <2> QED BY <2>1, <2>2, <2>3, Zenon DEF CallTypes, PCs, HPCs, MemTypesOnly, TypeOK
<1> QED BY <1>2, <1>3, FiqInvHolds, PTL

=============================================================================
