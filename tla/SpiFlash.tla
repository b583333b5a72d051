------------------------------ MODULE SpiFlash ------------------------------
(***************************************************************************)
(* Flash transactions on the CNS3xxx SPI controller                        *)
(* (drivers/spi/spi-cns3xxx.c). The controller releases the chip select    *)
(* after a byte that is sent with tx_eof set; only then does the flash     *)
(* execute the transaction. cns3xxx_spi_txrx is given one transfer of a    *)
(* message at a time and not told which is the last, so it guesses from    *)
(* the flash command, in two static variables that all chips share.        *)
(*                                                                         *)
(* A transfer is what it sends or receives and how long it is. The driver  *)
(* is built without DMA and without its interrupt.                         *)
(*                                                                         *)
(* The wires are pins shared with the GPIO controller. The driver may be   *)
(* bound and unbound (probe and remove) while others use pins; the statics *)
(* outlive it.                                                             *)
(***************************************************************************)
EXTENDS GpioPins, Sequences

CONSTANTS
  Chips,     \* chip selects
  MaxData    \* most data bytes of one operation

ASSUME SpiAssumption == MaxData \in Nat /\ MaxData >= 1

VARIABLES
  chip, message,  \* the message being transferred, of the chip it is for
  sent,           \* how many of its transfers are done
  curr_cmd, curr_cmd_bytes,
  frame,          \* frame[c]: what chip c has seen since it was selected
  executed,       \* executed[c]: transactions chip c executed since the
                  \* message began
  driver,         \* where the driver is in probe and remove
  pin,            \* the pin its loop is at
  failed,         \* history: a probe failed and no remove came since
  spi_on          \* bit 31 of SPI_CONFIGURATION_REG

messageVars == <<chip, message, sent, curr_cmd, curr_cmd_bytes, frame, executed>>
driverVars == <<driver, pin, failed, spi_on>>
vars == <<messageVars, driverVars, pinVars>>

-----------------------------------------------------------------------------
(* What the flash drivers send (linux/mtd/spi-nor.h and spi-mem).            *)

WREN == 6   WRDI == 4   BE_4K == 32   PP == 2
RDSR == 5   READ == 3   FAST_READ == 11

Cmds == {WREN, WRDI, BE_4K, PP, RDSR, READ, FAST_READ}
Byte == 255   \* a transfer that does not start with a command
AddrLen == 3  \* the board's flash has three-byte addresses

Tx(what, n) == [tx |-> TRUE, what |-> what, len |-> n]
Rx(n) == [tx |-> FALSE, what |-> Byte, len |-> n]

(* An operation sends its opcode, an address, dummy bytes, data, or receives *)
(* data, each as a transfer of its own (spi_mem_exec_op) ...                 *)
Split(cmd, n) ==
  << Tx(cmd, 1) >> \o
  CASE cmd \in {WREN, WRDI} -> << >>
    [] cmd = BE_4K -> << Tx(Byte, AddrLen) >>
    [] cmd = PP -> << Tx(Byte, AddrLen), Tx(Byte, n) >>
    [] cmd = RDSR -> << Rx(n) >>
    [] cmd = READ -> << Tx(Byte, AddrLen), Rx(n) >>
    [] cmd = FAST_READ -> << Tx(Byte, AddrLen), Tx(Byte, 1), Rx(n) >>

(* ... or all that it sends as one transfer (spi_write, spi_write_then_read). *)
Joined(cmd, n) ==
  CASE cmd \in {WREN, WRDI} -> << Tx(cmd, 1) >>
    [] cmd = BE_4K -> << Tx(cmd, 1 + AddrLen) >>
    [] cmd = PP -> << Tx(cmd, 1 + AddrLen + n) >>
    [] cmd = RDSR -> << Tx(cmd, 1), Rx(n) >>
    [] cmd = READ -> << Tx(cmd, 1 + AddrLen), Rx(n) >>
    [] cmd = FAST_READ -> << Tx(cmd, 1 + AddrLen + 1), Rx(n) >>

Messages == { Split(cmd, n) : cmd \in Cmds, n \in 1 .. MaxData }
            \cup { Joined(cmd, n) : cmd \in Cmds, n \in 1 .. MaxData }

-----------------------------------------------------------------------------
Init ==
  /\ PinsInit
  /\ driver = "unbound" /\ pin = 1 /\ failed = FALSE /\ spi_on = FALSE
  /\ chip \in Chips
  /\ message = << >> /\ sent = 0
  /\ curr_cmd = 0 /\ curr_cmd_bytes = 0
  /\ frame = [c \in Chips |-> << >>]
  /\ executed = [c \in Chips |-> << >>]

GoesTo(where, p) == driver' = where /\ pin' = p

(* cns3xxx_spi_probe, cns3xxx_spi_initial. The second is __init: a probe when *)
(* the kernel has freed its initial memory is as if it had kept it.          *)
Probe ==
  /\ driver = "unbound"
  /\ GoesTo("request", 1)
  /\ message' = << >> /\ sent' = 0
  /\ UNCHANGED <<chip, curr_cmd, curr_cmd_bytes, frame, executed, failed,
                 spi_on, pinVars>>

(* cns3xxx_sharepin_request_array: each pin is requested, routed and made an *)
(* input ...                                                                 *)
RequestPin ==
  /\ driver = "request"
  /\ GpioRequest(pin, Special)
  /\ GoesTo("route", pin)
  /\ UNCHANGED <<routed, output, userPins, lost, failed, spi_on, messageVars>>

RoutePin ==
  /\ driver = "route"
  /\ Route(pin)
  /\ GoesTo("direct", pin)
  /\ UNCHANGED <<holder, output, userPins, lost, failed, spi_on, messageVars>>

DirectPin ==
  /\ driver = "direct"
  /\ DirectionInput(pin)
  /\ IF pin < NrPins THEN GoesTo("request", pin + 1) ELSE GoesTo("set up", 1)
  /\ UNCHANGED <<holder, routed, userPins, lost, failed, spi_on, messageVars>>

(* ... or, if one is taken, those before it are freed again.                 *)
RequestPinFails_FromHere ==
  /\ driver = "request" /\ Requested(pin)
  /\ IF pin > 1 THEN GoesTo("undo", pin) ELSE GoesTo("set up", 1)
  /\ UNCHANGED <<failed, spi_on, pinVars, messageVars>>

RequestPinFails ==
  /\ driver = "request" /\ Requested(pin)
  /\ IF pin > 1 THEN GoesTo("undo", pin - 1) ELSE GoesTo("set up", 1)
  /\ UNCHANGED <<failed, spi_on, pinVars, messageVars>>

(* cns3xxx_sharepin_free: gpio_free, and then the routing.                   *)
FreePin ==
  /\ \/ driver = "undo" /\ GoesTo("undo unroute", pin)
     \/ driver = "free" /\ GoesTo("unroute", pin)
  /\ GpioFree(pin, Special)
  /\ UNCHANGED <<routed, output, userPins, failed, spi_on, messageVars>>

UnroutePin ==
  /\ \/ /\ driver = "undo unroute"
        /\ IF pin > 1 THEN GoesTo("undo", pin - 1) ELSE GoesTo("set up", 1)
     \/ /\ driver = "unroute"
        /\ IF pin < NrPins THEN GoesTo("free", pin + 1) ELSE GoesTo("unbound", 1)
  /\ Unroute(pin)
  /\ UNCHANGED <<holder, output, userPins, lost, failed, spi_on, messageVars>>

(* cns3xxx_spi_initial ignores what cns3xxx_sharepin_request_array returns,  *)
(* sets the controller up and enables it.                                    *)
SetUp ==
  /\ driver = "set up"
  /\ GoesTo("start", 1)
  /\ spi_on' = TRUE
  /\ UNCHANGED <<failed, pinVars, messageVars>>

(* spi_bitbang_start registers the bus, or the probe fails and keeps what it *)
(* requested.                                                                *)
StartBus ==
  /\ driver = "start"
  /\ \/ GoesTo("bound", 1) /\ UNCHANGED failed
     \/ GoesTo("unbound", 1) /\ failed' = TRUE
  /\ UNCHANGED <<spi_on, pinVars, messageVars>>

(* The SPI core serves one message after the other, whatever its chip.       *)
Busy == sent < Len(message)

(* cns3xxx_spi_remove; spi_unregister_master waits for the message. All pins *)
(* are freed, requested or not.                                              *)
Remove ==
  /\ driver = "bound"
  /\ ~Busy
  /\ GoesTo("free", 1)
  /\ failed' = FALSE /\ spi_on' = FALSE
  /\ UNCHANGED <<pinVars, messageVars>>

-----------------------------------------------------------------------------
(* cns3xxx_spi_chipselect.                                                   *)
StartMessage(c, m) ==
  /\ driver = "bound"
  /\ ~Busy
  /\ chip' = c /\ message' = m /\ sent' = 0
  /\ executed' = [d \in Chips |-> << >>]
  /\ UNCHANGED <<curr_cmd, curr_cmd_bytes, frame, driverVars, pinVars>>

(* What the controller puts on the wires, with tx_eof in the last byte or    *)
(* not, reaches the chip if the controller has its pins.                     *)
Wired == spi_on /\ Pins \subseteq routed

OnWires(t, eof) ==
  CASE ~Wired -> UNCHANGED <<frame, executed>>
    [] Wired /\ eof ->
         /\ executed' = [executed EXCEPT ![chip] = @ \o Append(frame[chip], t)]
         /\ frame' = [frame EXCEPT ![chip] = << >>]
    [] Wired /\ ~eof ->
         /\ frame' = [frame EXCEPT ![chip] = Append(@, t)]
         /\ UNCHANGED executed

(* A command that only sends is complete when so many bytes followed it.     *)
IsComplete_NoBE4K(cmd, bytes) ==
  \/ cmd \in {WREN, WRDI}
  \/ cmd = PP /\ bytes >= 4

IsComplete(cmd, bytes) ==
  \/ cmd \in {WREN, WRDI}
  \/ cmd = BE_4K /\ bytes >= 3
  \/ cmd = PP /\ bytes >= 4

(* cns3xxx_spi_txrx with something to send: curr_cmd is the first byte since *)
(* the last end of a frame.                                                  *)
TxTransfer(t) ==
  LET new == curr_cmd = 0
      cmd == IF new THEN t.what ELSE curr_cmd
      bytes == IF new THEN t.len - 1 ELSE curr_cmd_bytes + t.len
      eof == IsComplete(cmd, bytes)
  IN
  /\ t.tx
  /\ OnWires(t, eof)
  /\ curr_cmd' = IF eof THEN 0 ELSE cmd
  /\ curr_cmd_bytes' = IF eof THEN 0 ELSE bytes

(* cns3xxx_spi_txrx with something to receive only: always the end.          *)
RxTransfer_KeepCmd(t) ==
  /\ ~t.tx
  /\ OnWires(t, TRUE)
  /\ UNCHANGED <<curr_cmd, curr_cmd_bytes>>

RxTransfer(t) ==
  /\ ~t.tx
  /\ OnWires(t, TRUE)
  /\ curr_cmd' = 0
  /\ curr_cmd_bytes' = 0

Txrx ==
  /\ Busy
  /\ LET t == message[sent + 1] IN TxTransfer(t) \/ RxTransfer(t)
  /\ sent' = sent + 1
  /\ UNCHANGED <<chip, message, driverVars, pinVars>>

Next ==
  \/ Probe \/ RequestPin \/ RoutePin \/ DirectPin \/ RequestPinFails
  \/ FreePin \/ UnroutePin \/ SetUp \/ StartBus \/ Remove
  \/ \E c \in Chips, m \in Messages : StartMessage(c, m)
  \/ Txrx
  \/ UserNext /\ UNCHANGED <<messageVars, driverVars>>

Spec == Init /\ [][Next]_vars

-----------------------------------------------------------------------------
TypeOK ==
  /\ chip \in Chips /\ message \in Messages \cup {<< >>} /\ sent \in 0 .. Len(message)
  /\ curr_cmd \in Cmds \cup {0, Byte} /\ curr_cmd_bytes \in Nat
  /\ \A c \in Chips : Len(frame[c]) <= Len(message) /\ executed[c] \in Messages \cup {<< >>}
  /\ driver \in {"unbound", "request", "route", "direct", "undo", "undo unroute",
                 "set up", "start", "bound", "free", "unroute"}
  /\ pin \in Pins /\ failed \in BOOLEAN /\ spi_on \in BOOLEAN
  /\ holder \in [Pins -> {None, Special, User}]
  /\ routed \subseteq Pins /\ output \subseteq Pins
  /\ userPins \subseteq Pins /\ lost \subseteq Pins

(* The chip select is held from the first transfer of a message to its last  *)
(* and released then: what the selected chip has seen is what was sent of    *)
(* this message, with nothing of an earlier one before it and no part of it  *)
(* executed on its own; no other chip is in the middle of a transaction or   *)
(* executed anything; and this also after the driver was bound again.        *)
FrameIsMessage ==
  /\ frame[chip] = IF Busy /\ Wired THEN SubSeq(message, 1, sent) ELSE << >>
  /\ Busy => executed[chip] = << >>
  /\ \A c \in Chips \ {chip} : frame[c] = << >> /\ executed[c] = << >>

(* When a message is done its chip has executed exactly that message, if the *)
(* driver got its pins, and the statics hold nothing that the next message,  *)
(* perhaps for another chip or of the next binding, could be taken for a     *)
(* part of.                                                                  *)
MessageExecuted ==
  ~Busy =>
    /\ driver = "bound" /\ message # << >> /\ Wired => executed[chip] = message
    /\ curr_cmd = 0 /\ curr_cmd_bytes = 0

(* The controller has all of its pins or none, whoever uses them meanwhile:  *)
(* when the driver is neither probed nor removed, the pins routed to it are  *)
(* those it holds, which are all or none; after a remove it has none and is  *)
(* off, also if a probe failed before that one; and none of its pins is one  *)
(* that the GPIO controller would drive. Not so a pin that a remove freed    *)
(* although a user held it, or that this user then freed although the        *)
(* controller held it.                                                       *)
PinsMatch ==
  LET sound == Pins \ lost
      held == {p \in sound : holder[p] = Special}
  IN driver \in {"bound", "unbound"} =>
       /\ routed \cap sound = held
       /\ held \in {{}, sound}
       /\ driver = "unbound" /\ ~failed => held = {} /\ ~spi_on
       /\ held \cap output = {}

=============================================================================
