------------------------------ MODULE GpioPins ------------------------------
(***************************************************************************)
(* Pins that the GPIO controller shares with a special function            *)
(* (drivers/gpio/gpio-cns3xxx.c). gpiolib lets one user at a time hold a   *)
(* pin; cns3xxx_sharepin_request holds it for a special function and       *)
(* routes it there. gpiolib does not ask who frees a pin, so the model     *)
(* keeps what each user believes apart from what gpiolib knows.            *)
(*                                                                         *)
(* The pins are those of one special function, in the order of its array.  *)
(* The other user is any user of gpiolib, /sys/class/gpio for one.         *)
(***************************************************************************)
EXTENDS Integers

CONSTANTS NrPins   \* pins in the array of the special function

ASSUME PinsAssumption == NrPins \in Nat /\ NrPins >= 1

VARIABLES
  holder,    \* holder[p]: who requested pin p
  routed,    \* reg_sharepin_en: pins that the special function drives
  output,    \* GPIO_DIR: pins the GPIO controller would drive
  userPins,  \* pins the other user requested and did not free
  lost       \* history: pins that one user freed while another held them

pinVars == <<holder, routed, output, userPins, lost>>

Pins == 1 .. NrPins
None == "none"
Special == "special"
User == "user"

PinsInit ==
  /\ holder = [p \in Pins |-> None]
  /\ routed = {} /\ output = {} /\ userPins = {} /\ lost = {}

-----------------------------------------------------------------------------
(* gpio_request and gpio_free.                                               *)
Requested(p) == holder[p] # None

GpioRequest(p, who) ==
  /\ ~Requested(p)
  /\ holder' = [holder EXCEPT ![p] = who]

GpioFree(p, who) ==
  /\ holder' = [holder EXCEPT ![p] = None]
  /\ lost' = IF holder[p] \in {None, who} THEN lost ELSE lost \cup {p}

(* The read-modify-writes of cns3xxx_sharepin_request and _free, under the   *)
(* lock of the controller.                                                   *)
Route(p) == routed' = routed \cup {p}
Unroute(p) == routed' = routed \ {p}

(* __set_direction, under the same lock.                                     *)
DirectionInput(p) == output' = output \ {p}
DirectionOutput(p) == output' = output \cup {p}

-----------------------------------------------------------------------------
(* The other user.                                                           *)
UserRequests(p) ==
  /\ p \notin userPins
  /\ GpioRequest(p, User)
  /\ userPins' = userPins \cup {p}
  /\ UNCHANGED <<routed, output, lost>>

UserDirects(p) ==
  /\ p \in userPins
  /\ DirectionInput(p) \/ DirectionOutput(p)
  /\ UNCHANGED <<holder, routed, userPins, lost>>

UserFrees(p) ==
  /\ p \in userPins
  /\ GpioFree(p, User)
  /\ userPins' = userPins \ {p}
  /\ UNCHANGED <<routed, output>>

UserNext == \E p \in Pins : UserRequests(p) \/ UserDirects(p) \/ UserFrees(p)

=============================================================================
