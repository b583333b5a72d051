------------------------------ MODULE FiqCache ------------------------------
(***************************************************************************)
(* Cache maintenance for DMA on the two CPUs of the CNS3xxx                *)
(* (arch/arm/mach-cns3xxx/platsmp.c and cns3xxx_fiq.S), from before the     *)
(* second one is up, which SmpBoot brings about. The ARM11 MPCore           *)
(* keeps its two caches coherent but does not carry cache maintenance from *)
(* one CPU to the other, so fiq_dma_map_area, fiq_dma_unmap_area and       *)
(* fiq_dma_flush_range put a request where the other CPU finds it, raise a *)
(* FIQ there, do their own cache and wait until the request is answered.   *)
(*                                                                         *)
(* A buffer is one cache line. What it holds is left out; what is kept is  *)
(* which copies of it hold the content that was written last.              *)
(***************************************************************************)
EXTENDS Integers, FiniteSets, SmpBoot

CONSTANTS
  Bufs,         \* DMA buffers
  DrainedFirst  \* a device starts later than a FIQ handler's last instruction

ASSUME FiqAssumption == DrainedFirst \in BOOLEAN

CPU == {0, 1}
Other(c) == 1 - c

Kinds == {"map", "unmap", "flush"}
Dirs == {"to", "from", "both"}  \* DMA_TO_DEVICE, FROM_DEVICE, BIDIRECTIONAL
Reqs == [flags : Kinds, dir : Dirs, buf : Bufs]
NoReq == [flags |-> "none"]   \* req->flags is 0: the rest has no meaning

(* Where a copy of a buffer can be. *)
Mem == <<"mem", 0>>
Line(c) == <<"line", c>>   \* c's cache
Wb(c) == <<"wb", c>>       \* c's write buffer, on its way to memory
Places == {Mem} \cup {Line(c) : c \in CPU} \cup {Wb(c) : c \in CPU}

VARIABLES
  pc, op,   \* the fiq_dma_ call on each CPU
  req,      \* per-CPU fiq_data; flags "none" is 0
  fiq,      \* fiq[c]: MISC_FIQ_CPU(c), by which c interrupts the other CPU
  hpc, hreq,\* the FIQ handler on each CPU and what it loaded into r8 to r11
  r8zero,   \* r8 of FIQ mode is 0
  owner, dir,   \* whose turn a buffer is, and how it is mapped
  holds,    \* the places with a copy of the buffer
  dirty,    \* the CPUs whose line is dirty
  fresh     \* the copies that hold what was written last (history)

callVars == <<pc, op, req, fiq>>
fiqVars == <<hpc, hreq, r8zero>>
memVars == <<holds, dirty, fresh>>
vars == <<bootVars, callVars, fiqVars, owner, dir, memVars>>

-----------------------------------------------------------------------------
(* The caches.                                                               *)

(* Copy b's content from one place to others. *)
Copied(f, from, to) == IF from \in f THEN f \cup to ELSE f \ to

(* What one CPU's cache instructions on the line of b leave in memVars. *)
CleanLine(c, b) ==
  /\ dirty' = [dirty EXCEPT ![b] = @ \ {c}]
  /\ IF c \in dirty[b]
     THEN /\ holds' = [holds EXCEPT ![b] = @ \cup {Wb(c)}]
          /\ fresh' = [fresh EXCEPT ![b] = Copied(@, Line(c), {Wb(c)})]
     ELSE UNCHANGED <<holds, fresh>>

InvLine(c, b) ==
  /\ dirty' = [dirty EXCEPT ![b] = @ \ {c}]
  /\ holds' = [holds EXCEPT ![b] = @ \ {Line(c)}]
  /\ fresh' = [fresh EXCEPT ![b] = @ \ {Line(c)}]

CleanInvLine(c, b) ==
  /\ dirty' = [dirty EXCEPT ![b] = @ \ {c}]
  /\ holds' = [holds EXCEPT ![b] =
       (@ \cup IF c \in dirty[b] THEN {Wb(c)} ELSE {}) \ {Line(c)}]
  /\ fresh' = [fresh EXCEPT ![b] =
       (IF c \in dirty[b] THEN Copied(@, Line(c), {Wb(c)}) ELSE @) \ {Line(c)}]

Drained(c) == \A b \in Bufs : Wb(c) \notin holds[b]

(* What a load by c returns: its own line, or the other's, or memory. *)
Sources(c, b) ==
  IF Line(c) \in holds[b] THEN {Line(c)}
  ELSE IF Line(Other(c)) \in holds[b]
       THEN {Line(Other(c))} \cup IF dirty[b] = {} THEN {Mem} ELSE {}
       ELSE {Mem}

(* No write of b is on its way to memory: a miss waits for it. *)
Settled(b) == \A c \in CPU : Wb(c) \notin holds[b]

-----------------------------------------------------------------------------
Init ==
  /\ BootInit
  /\ pc = [c \in CPU |-> "idle"]
  /\ op = [c \in CPU |-> NoReq]
  /\ req = [c \in CPU |-> NoReq]
  /\ hreq = [c \in CPU |-> NoReq]
  /\ fiq = [c \in CPU |-> FALSE]
  /\ hpc = [c \in CPU |-> "out"]
  /\ r8zero = [c \in CPU |-> c = 0]
  /\ owner = [b \in Bufs |-> "cpu"]
  /\ dir = [b \in Bufs |-> "to"]
  /\ holds = [b \in Bufs |-> {Mem}]
  /\ dirty = [b \in Bufs |-> {}]
  /\ fresh = [b \in Bufs |-> {Mem}]

(* c runs code outside its FIQ handler. *)
Runs(c) == hpc[c] = "out" /\ (c = 1 => online)

(* The second CPU comes up. It sets its FIQ registers, among them a zero in  *)
(* r8, before it tells that it has left the pen.                             *)
SecondaryFiqRegs ==
  /\ SetsFiqRegs
  /\ r8zero' = [r8zero EXCEPT ![1] = TRUE]
  /\ UNCHANGED <<hpc, hreq>>

BringUp ==
  /\ \/ BootWakes \/ BootWritesPen \/ BootReturns
     \/ CpuUpGivesUp \/ LeavesMonitor \/ LeavesPen \/ TellsReleased
     \/ Synchronises \/ GoesOnline
  /\ UNCHANGED fiqVars

Boot ==
  /\ SecondaryFiqRegs \/ BringUp
  /\ UNCHANGED <<callVars, owner, dir, memVars>>

-----------------------------------------------------------------------------
(* fiq_dma_map_area, fiq_dma_unmap_area, fiq_dma_flush_range on CPU c, with  *)
(* interrupts off, which does not keep FIQs out.                             *)

Start(c, k, d, b) ==
  /\ Runs(c) /\ pc[c] = "idle"
  /\ op' = [op EXCEPT ![c] = [flags |-> k, dir |-> d, buf |-> b]]
  /\ IF online
     THEN /\ req' = [req EXCEPT ![c] = [flags |-> k, dir |-> d, buf |-> b]]
          /\ pc' = [pc EXCEPT ![c] = "raise"]
     ELSE /\ pc' = [pc EXCEPT ![c] = "local"]
          /\ UNCHANGED req
  /\ UNCHANGED <<bootVars, fiq, fiqVars, memVars>>

MapStart(c, d, b) ==
  /\ owner[b] = "cpu"
  /\ \A e \in CPU : pc[e] # "idle" => op[e].buf # b
  /\ owner' = [owner EXCEPT ![b] = "moving"]
  /\ dir' = [dir EXCEPT ![b] = d]
  /\ Start(c, "map", d, b)

UnmapStart(c, b) ==
  /\ owner[b] = "device"
  /\ owner' = [owner EXCEPT ![b] = "moving"]
  /\ UNCHANGED dir
  /\ Start(c, "unmap", dir[b], b)

FlushStart(c, b) ==
  /\ owner[b] = "cpu"
  /\ \A e \in CPU : pc[e] # "idle" => op[e].buf # b
  /\ UNCHANGED <<owner, dir>>
  /\ Start(c, "flush", "both", b)

(* writel_relaxed(FIQ_GENERATE, req->reg) *)
Raise(c) ==
  /\ Runs(c) /\ pc[c] = "raise"
  /\ fiq' = [fiq EXCEPT ![c] = TRUE]
  /\ pc' = [pc EXCEPT ![c] = "local"]
  /\ UNCHANGED <<bootVars, op, req, fiqVars, owner, dir, memVars>>

(* v6_dma_map_area, v6_dma_unmap_area, v6_dma_flush_range. The first cleans  *)
(* for every direction but DMA_FROM_DEVICE.                                  *)
LocalMaintain(c, r) ==
  CASE r.flags = "map" /\ r.dir = "from" -> InvLine(c, r.buf)
    [] r.flags = "map" /\ r.dir # "from" -> CleanLine(c, r.buf)
    [] r.flags = "unmap" /\ r.dir = "to" -> UNCHANGED memVars
    [] r.flags = "unmap" /\ r.dir # "to" -> InvLine(c, r.buf)
    [] r.flags = "flush" -> CleanInvLine(c, r.buf)

LocalOp(c) ==
  /\ Runs(c) /\ pc[c] = "local"
  /\ LocalMaintain(c, op[c])
  /\ pc' = [pc EXCEPT ![c] = "drain"]
  /\ UNCHANGED <<bootVars, op, req, fiq, fiqVars, owner, dir>>

LocalDrain(c) ==
  /\ Runs(c) /\ pc[c] = "drain"
  /\ Drained(c)
  /\ pc' = [pc EXCEPT ![c] = "spin"]
  /\ UNCHANGED <<bootVars, op, req, fiq, fiqVars, owner, dir, memVars>>

(* while (req->flags): the call returns and the buffer changes hands. What   *)
(* a buffer mapped for the device to write holds does not matter yet.        *)
Return(c) ==
  LET b == op[c].buf  k == op[c].flags IN
  /\ Runs(c) /\ pc[c] = "spin"
  /\ req[c] = NoReq
  /\ pc' = [pc EXCEPT ![c] = "idle"]
  /\ op' = [op EXCEPT ![c] = NoReq]
  /\ owner' = [owner EXCEPT ![b] =
       IF k = "map" THEN "device" ELSE IF k = "unmap" THEN "cpu" ELSE @]
  /\ dir' = [dir EXCEPT ![b] = IF k = "unmap" THEN "to" ELSE @]
  /\ fresh' = [fresh EXCEPT ![b] =
       IF k = "map" /\ op[c].dir = "from" THEN holds[b] ELSE @]
  /\ UNCHANGED <<bootVars, req, fiq, fiqVars, holds, dirty>>

-----------------------------------------------------------------------------
(* The FIQ handler on CPU c, cns3xxx_fiq_start.                              *)

(* str r8, [r13] acknowledges the FIQ if r8 is 0; then the request is read.  *)
FiqEntry(c) ==
  /\ Runs(c) /\ fiq[Other(c)]
  /\ fiq' = [fiq EXCEPT ![Other(c)] = ~r8zero[c]]
  /\ hreq' = [hreq EXCEPT ![c] = req[Other(c)]]
  /\ r8zero' = [r8zero EXCEPT ![c] = FALSE]
  /\ hpc' = [hpc EXCEPT ![c] = "op"]
  /\ UNCHANGED <<bootVars, pc, op, req, owner, dir, memVars>>

(* The dispatch on the flags, which falls through to the flush, and on the   *)
(* direction. Without a request it would flush wherever the last one was,    *)
(* which FiqHasRequest excludes.                                             *)
FiqMaintain_NoMapClean(c, r) ==
  CASE r.flags = "map" /\ r.dir = "from" -> InvLine(c, r.buf)
    [] r.flags = "map" /\ r.dir = "to" -> UNCHANGED memVars
    [] r.flags = "unmap" /\ r.dir = "to" -> UNCHANGED memVars
    [] r.flags = "unmap" /\ r.dir # "to" -> InvLine(c, r.buf)
    [] (r.flags = "map" /\ r.dir = "both") \/ r.flags = "flush" ->
         CleanInvLine(c, r.buf)
    [] r.flags = "none" -> UNCHANGED memVars

FiqMaintain_UnmapIgnored(c, r) ==
  CASE r.flags = "map" /\ r.dir = "from" -> InvLine(c, r.buf)
    [] r.flags = "map" /\ r.dir = "to" -> CleanLine(c, r.buf)
    [] r.flags = "unmap" -> UNCHANGED memVars
    [] (r.flags = "map" /\ r.dir = "both") \/ r.flags = "flush" ->
         CleanInvLine(c, r.buf)
    [] r.flags = "none" -> UNCHANGED memVars

FiqMaintain(c, r) ==
  CASE r.flags = "map" /\ r.dir = "from" -> InvLine(c, r.buf)
    [] r.flags = "map" /\ r.dir = "to" -> CleanLine(c, r.buf)
    [] r.flags = "unmap" /\ r.dir = "to" -> UNCHANGED memVars
    [] r.flags = "unmap" /\ r.dir # "to" -> InvLine(c, r.buf)
    [] (r.flags = "map" /\ r.dir = "both") \/ r.flags = "flush" ->
         CleanInvLine(c, r.buf)
    [] r.flags = "none" -> UNCHANGED memVars

FiqOp(c) ==
  /\ hpc[c] = "op"
  /\ FiqMaintain(c, hreq[c])
  /\ hpc' = [hpc EXCEPT ![c] = "exit"]
  /\ UNCHANGED <<bootVars, callVars, hreq, r8zero, owner, dir>>

(* cns3xxx_fiq_exit: the flags are cleared, then the write buffer drained.   *)
FiqExit(c) ==
  /\ hpc[c] = "exit"
  /\ req' = [req EXCEPT ![Other(c)] = NoReq]
  /\ hreq' = [hreq EXCEPT ![c] = NoReq]
  /\ r8zero' = [r8zero EXCEPT ![c] = TRUE]
  /\ hpc' = [hpc EXCEPT ![c] = "drain"]
  /\ UNCHANGED <<bootVars, pc, op, fiq, owner, dir, memVars>>

FiqReturn_AckAgain(c) ==
  /\ hpc[c] = "drain"
  /\ Drained(c)
  /\ fiq' = [fiq EXCEPT ![Other(c)] = FALSE]
  /\ hpc' = [hpc EXCEPT ![c] = "out"]
  /\ UNCHANGED <<bootVars, pc, op, req, hreq, r8zero, owner, dir, memVars>>

FiqReturn(c) ==
  /\ hpc[c] = "drain"
  /\ Drained(c)
  /\ hpc' = [hpc EXCEPT ![c] = "out"]
  /\ UNCHANGED <<bootVars, callVars, hreq, r8zero, owner, dir, memVars>>

-----------------------------------------------------------------------------
(* The hardware and the drivers that use the buffers.                        *)

(* A write buffer empties itself. *)
WriteBack(c, b) ==
  /\ Wb(c) \in holds[b]
  /\ holds' = [holds EXCEPT ![b] = @ \ {Wb(c)}]
  /\ fresh' = [fresh EXCEPT ![b] = Copied(@, Wb(c), {Mem}) \ {Wb(c)}]
  /\ UNCHANGED <<bootVars, callVars, fiqVars, owner, dir, dirty>>

(* A line is replaced. *)
Evict(c, b) ==
  /\ Line(c) \in holds[b]
  /\ CleanInvLine(c, b)
  /\ UNCHANGED <<bootVars, callVars, fiqVars, owner, dir>>

(* A load misses; a dirty line of the other CPU also goes to memory. A CPU   *)
(* loads a buffer that is its own, and a preload that runs past the end of   *)
(* its neighbour may load one that is the device's. A CPU in a fiq_dma_ call *)
(* has its interrupts off and does neither.                                  *)
Load(c, b) ==
  /\ Runs(c) /\ pc[c] = "idle"
  /\ owner[b] \in {"cpu", "device"}
  /\ Line(c) \notin holds[b] /\ Settled(b)
  /\ holds' = [holds EXCEPT ![b] = @ \cup {Line(c)}]
  /\ dirty' = [dirty EXCEPT ![b] = {}]
  /\ \E s \in Sources(c, b) :
       fresh' = [fresh EXCEPT ![b] =
         Copied(@, s, {Line(c)} \cup IF dirty[b] = {} THEN {} ELSE {Mem})]
  /\ UNCHANGED <<bootVars, callVars, fiqVars, owner, dir>>

Store(c, b) ==
  /\ Runs(c) /\ pc[c] = "idle"
  /\ owner[b] = "cpu"
  /\ Settled(b)
  /\ holds' = [holds EXCEPT ![b] = {Mem, Line(c)}]
  /\ dirty' = [dirty EXCEPT ![b] = {c}]
  /\ fresh' = [fresh EXCEPT ![b] = {Line(c)}]
  /\ UNCHANGED <<bootVars, callVars, fiqVars, owner, dir>>

DeviceWrites(b) ==
  /\ owner[b] = "device" /\ dir[b] # "to"
  /\ DrainedFirst => \A c \in CPU : hpc[c] # "drain"
  /\ fresh' = [fresh EXCEPT ![b] = {Mem}]
  /\ UNCHANGED <<bootVars, callVars, fiqVars, owner, dir, holds, dirty>>

-----------------------------------------------------------------------------
Call(c) == Raise(c) \/ LocalOp(c) \/ LocalDrain(c) \/ Return(c)
Handler(c) == FiqEntry(c) \/ FiqOp(c) \/ FiqExit(c) \/ FiqReturn(c)

Next ==
  \/ Boot
  \/ \E c \in CPU : Call(c) \/ Handler(c)
  \/ \E c \in CPU, b \in Bufs :
       \/ \E d \in Dirs : MapStart(c, d, b)
       \/ UnmapStart(c, b)
       \/ FlushStart(c, b)
       \/ WriteBack(c, b) \/ Evict(c, b) \/ Load(c, b) \/ Store(c, b)
  \/ \E b \in Bufs : DeviceWrites(b)

Spec == Init /\ [][Next]_vars

-----------------------------------------------------------------------------
(* The variables have their types, and a dirty line is the only one. *)
TypeOK ==
  /\ BootTypeOK
  /\ pc \in [CPU -> {"idle", "raise", "local", "drain", "spin"}]
  /\ \A r \in {op, req, hreq} : r \in [CPU -> Reqs \cup {NoReq}]
  /\ fiq \in [CPU -> BOOLEAN]
  /\ hpc \in [CPU -> {"out", "op", "exit", "drain"}]
  /\ r8zero \in [CPU -> BOOLEAN]
  /\ owner \in [Bufs -> {"cpu", "moving", "device"}]
  /\ dir \in [Bufs -> Dirs]
  /\ holds \in [Bufs -> SUBSET Places]
  /\ dirty \in [Bufs -> SUBSET CPU]
  /\ fresh \in [Bufs -> SUBSET Places]
  /\ \A b \in Bufs : Mem \in holds[b] /\ fresh[b] \subseteq holds[b]
  /\ \A b \in Bufs : \A c \in dirty[b] :
       Line(c) \in holds[b] /\ Line(Other(c)) \notin holds[b]

(* A CPU that owns a buffer loads what was last written to it, by either     *)
(* CPU or by the device: after dma_unmap no stale line is left in either     *)
(* cache. (platsmp.c: both fiq_dma_unmap_area and the FIQ on the other CPU.) *)
CpuSeesFresh ==
  \A c \in CPU, b \in Bufs :
    owner[b] = "cpu" /\ Settled(b) => Sources(c, b) \subseteq fresh[b]

(* Once dma_map has returned no cache has a dirty line that would later      *)
(* overwrite the device's data, and memory has what the CPUs wrote, or will  *)
(* have it when the other CPU's handler has drained its write buffer.        *)
DeviceSeesFresh ==
  \A b \in Bufs : owner[b] = "device" =>
    /\ dirty[b] = {}
    /\ \/ Mem \in fresh[b]
       \/ \E c \in CPU : hpc[c] = "drain" /\ Wb(c) \in fresh[b]

(* A request and its FIQ are never parted. A FIQ always finds the request of *)
(* a call that waits for it, so that no handler flushes at a stale address   *)
(* or answers one request twice; and a call only waits while its FIQ is      *)
(* raised or being handled, so that no call spins for ever, also when both   *)
(* CPUs wait for each other with their interrupts off.                       *)
FiqHasRequest ==
  \A c \in CPU :
    LET o == Other(c) IN
    /\ fiq[o] => req[o] # NoReq /\ hpc[c] \in {"out", "drain"}
    /\ hpc[c] \in {"op", "exit"} =>
         hreq[c] = req[o] /\ pc[o] \in {"local", "drain", "spin"}
    /\ req[o] # NoReq => \/ pc[o] = "raise" \/ fiq[o]
                         \/ hpc[c] \in {"op", "exit"}

=============================================================================
