-------------------------------- MODULE SmpBoot --------------------------------
(***************************************************************************)
(* How the second CPU is brought up (arch/arm/mach-cns3xxx/platsmp.c and    *)
(* headsmp.S). The first writes to the pen in which the second one waits,   *)
(* holds boot_lock until it is told that the pen was left or a second has   *)
(* gone by, and may try again when it has failed; the second one may be     *)
(* late and come up all the same.                                           *)
(***************************************************************************)
EXTENDS Integers

CONSTANT MaxTries  \* bound on the calls of cns3xxx_boot_secondary

ASSUME SmpBootAssumption == MaxTries \in Nat

VARIABLES
  online,               \* cpu_online(1)
  cns3xxx_pen_release,
  boot_lock,            \* who has it: "none" or "boot"
  boot, tries,          \* cns3xxx_boot_secondary on CPU 0
  second                \* what CPU 1 does

bootVars == <<online, cns3xxx_pen_release, boot_lock, boot, tries, second>>

BootInit ==
  /\ online = FALSE
  /\ cns3xxx_pen_release = -1
  /\ boot_lock = "none"
  /\ boot = "not called" /\ tries = 0
  /\ second = "monitor"

-----------------------------------------------------------------------------
(* CPU 0. The soft interrupt lets CPU 1 out of the boot monitor, into the    *)
(* pen; only then the number of the CPU is written.                          *)
BootWakes ==
  /\ boot \in {"not called", "failed"} /\ ~online /\ tries < MaxTries
  /\ boot_lock = "none"
  /\ boot_lock' = "boot" /\ boot' = "woken" /\ tries' = tries + 1
  /\ second' = IF second = "monitor" THEN "leaving monitor" ELSE second
  /\ UNCHANGED <<online, cns3xxx_pen_release>>

BootWritesPen_NotWritten ==
  /\ boot = "woken"
  /\ boot' = "waiting"
  /\ UNCHANGED <<online, cns3xxx_pen_release, boot_lock, tries, second>>

BootWritesPen ==
  /\ boot = "woken"
  /\ cns3xxx_pen_release' = 1 /\ boot' = "waiting"
  /\ UNCHANGED <<online, boot_lock, tries, second>>

(* The loop ends because the pen is seen released, or because a second has   *)
(* gone by; the result is from another look at the pen. What becomes of it   *)
(* when the CPU is online is left out.                                       *)
BootReturns ==
  /\ boot = "waiting"
  /\ boot_lock' = "none"
  /\ boot' = IF online THEN "over"
             ELSE IF cns3xxx_pen_release # -1 THEN "failed" ELSE "booted"
  /\ UNCHANGED <<online, cns3xxx_pen_release, tries, second>>

(* __cpu_up waits a second for the CPU to be online, which may not be enough. *)
CpuUpGivesUp ==
  /\ boot = "booted" /\ ~online
  /\ boot' = "failed"
  /\ UNCHANGED <<online, cns3xxx_pen_release, boot_lock, tries, second>>

-----------------------------------------------------------------------------
(* CPU 1: cns3xxx_secondary_startup, then cns3xxx_secondary_init.            *)
LeavesMonitor ==
  /\ second = "leaving monitor"
  /\ second' = "pen"
  /\ UNCHANGED <<online, cns3xxx_pen_release, boot_lock, boot, tries>>

LeavesPen ==
  /\ second = "pen" /\ cns3xxx_pen_release = 1
  /\ second' = "out"
  /\ UNCHANGED <<online, cns3xxx_pen_release, boot_lock, boot, tries>>

SetsFiqRegs ==
  /\ second = "out"
  /\ second' = "fiq regs"
  /\ UNCHANGED <<online, cns3xxx_pen_release, boot_lock, boot, tries>>

TellsReleased ==
  /\ second = "fiq regs"
  /\ cns3xxx_pen_release' = -1 /\ second' = "released"
  /\ UNCHANGED <<online, boot_lock, boot, tries>>

(* spin_lock and spin_unlock of boot_lock; then the kernel sets it online.   *)
Synchronises ==
  /\ second = "released" /\ boot_lock = "none"
  /\ second' = "synchronised"
  /\ UNCHANGED <<online, cns3xxx_pen_release, boot_lock, boot, tries>>

GoesOnline ==
  /\ second = "synchronised"
  /\ online' = TRUE /\ second' = "online" /\ tries' = MaxTries
  /\ boot' = IF boot \in {"booted", "failed"} THEN "over" ELSE boot
  /\ UNCHANGED <<cns3xxx_pen_release, boot_lock>>

-----------------------------------------------------------------------------
BootTypeOK ==
  /\ online \in BOOLEAN /\ cns3xxx_pen_release \in {-1, 1}
  /\ boot_lock \in {"none", "boot"} /\ tries \in 0 .. MaxTries
  /\ boot \in {"not called", "woken", "waiting", "booted", "failed", "over"}
  /\ second \in {"monitor", "leaving monitor", "pen", "out", "fiq regs", "released",
                 "synchronised", "online"}

(* cns3xxx_boot_secondary only returns 0 for a CPU that is out of the pen    *)
(* and takes FIQs, also when an earlier call has given up on that CPU and    *)
(* left its number in the pen.                                               *)
BootedIsReleased ==
  boot = "booted" => second \in {"released", "synchronised", "online"}

=============================================================================
