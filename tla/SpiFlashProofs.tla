--------------------------- MODULE SpiFlashProofs ---------------------------
(***************************************************************************)
(* Proofs about SpiFlash for every set of chips, length of data and number  *)
(* of pins. Two invariants, each of its own half of the state, meet only in *)
(* where the driver is.                                                     *)
(***************************************************************************)
EXTENDS SpiFlash, SequenceTheorems, TLAPS

-----------------------------------------------------------------------------
(* The messages: at most four transfers, of which the last and no other     *)
(* one is where cns3xxx_spi_txrx sees an end.                               *)

Transfer == [tx : BOOLEAN, what : Cmds \cup {Byte}, len : Nat]

(* What curr_cmd_bytes is when k transfers of m have been sent *)
Bytes(m, k) ==
  CASE k = 1 -> m[1].len - 1
    [] k = 2 -> m[1].len - 1 + m[2].len
    [] k = 3 -> m[1].len - 1 + m[2].len + m[3].len
    [] OTHER -> m[1].len - 1 + m[2].len + m[3].len + m[4].len

EndsAt(m, k) == ~m[k].tx \/ IsComplete(m[1].what, Bytes(m, k))

Shape(m) ==
  /\ m \in Seq(Transfer) /\ Len(m) \in 1 .. 4
  /\ m[1].tx /\ m[1].what # 0 /\ m[1].len >= 1
  /\ \A k \in 1 .. Len(m) : EndsAt(m, k) <=> k = Len(m)

LEMMA TransferType ==
  /\ \A what \in Cmds \cup {Byte}, n \in Nat :
       /\ Tx(what, n) \in Transfer
       /\ Tx(what, n).tx /\ Tx(what, n).what = what /\ Tx(what, n).len = n
  /\ \A n \in Nat : /\ Rx(n) \in Transfer
                    /\ ~Rx(n).tx /\ Rx(n).what = Byte /\ Rx(n).len = n
BY DEF Tx, Rx, Transfer

LEMMA CmdsAre ==
  /\ WREN \in Cmds /\ WRDI \in Cmds /\ BE_4K \in Cmds /\ PP \in Cmds
  /\ RDSR \in Cmds /\ READ \in Cmds /\ FAST_READ \in Cmds
  /\ 0 \notin Cmds
  /\ \A b \in Int : /\ IsComplete(WREN, b) /\ IsComplete(WRDI, b)
                    /\ IsComplete(BE_4K, b) <=> b >= 3
                    /\ IsComplete(PP, b) <=> b >= 4
                    /\ ~IsComplete(RDSR, b) /\ ~IsComplete(READ, b) /\ ~IsComplete(FAST_READ, b)
BY DEF Cmds, WREN, WRDI, BE_4K, PP, RDSR, READ, FAST_READ, IsComplete

LEMMA Shape1 ==
  ASSUME NEW a \in Transfer, a.tx, a.what # 0, a.len >= 1, IsComplete(a.what, a.len - 1)
  PROVE  Shape(<<a>>)
BY DEF Shape, EndsAt, Bytes

LEMMA Shape2 ==
  ASSUME NEW a \in Transfer, NEW b \in Transfer, a.tx, a.what # 0, a.len >= 1,
         ~IsComplete(a.what, a.len - 1),
         ~b.tx \/ IsComplete(a.what, a.len - 1 + b.len)
  PROVE  Shape(<<a, b>>)
BY DEF Shape, EndsAt, Bytes

LEMMA Shape3 ==
  ASSUME NEW a \in Transfer, NEW b \in Transfer, NEW c \in Transfer,
         a.tx, a.what # 0, a.len >= 1, b.tx,
         ~IsComplete(a.what, a.len - 1), ~IsComplete(a.what, a.len - 1 + b.len),
         ~c.tx \/ IsComplete(a.what, a.len - 1 + b.len + c.len)
  PROVE  Shape(<<a, b, c>>)
BY DEF Shape, EndsAt, Bytes

LEMMA Shape4 ==
  ASSUME NEW a \in Transfer, NEW b \in Transfer, NEW c \in Transfer, NEW d \in Transfer,
         a.tx, a.what # 0, a.len >= 1, b.tx, c.tx,
         ~IsComplete(a.what, a.len - 1), ~IsComplete(a.what, a.len - 1 + b.len),
         ~IsComplete(a.what, a.len - 1 + b.len + c.len),
         ~d.tx \/ IsComplete(a.what, a.len - 1 + b.len + c.len + d.len)
  PROVE  Shape(<<a, b, c, d>>)
BY DEF Shape, EndsAt, Bytes

LEMMA Distinct ==
  /\ BE_4K \notin {WREN, WRDI}
  /\ PP \notin {WREN, WRDI, BE_4K}
  /\ RDSR \notin {WREN, WRDI, BE_4K, PP}
  /\ READ \notin {WREN, WRDI, BE_4K, PP, RDSR}
  /\ FAST_READ \notin {WREN, WRDI, BE_4K, PP, RDSR, READ}
BY DEF WREN, WRDI, BE_4K, PP, RDSR, READ, FAST_READ

(* One transfer and then others are one sequence of transfers *)
LEMMA OneThenOthers ==
  ASSUME NEW x \in Transfer, NEW s \in Seq(Transfer), NEW t \in Seq(Transfer),
         Len(t) = Len(s) + 1, t[1] = x, \A k \in 1 .. Len(s) : t[k + 1] = s[k]
  PROVE  <<x>> \o s = t
<1>1. /\ <<x>> \o s \in Seq(Transfer) /\ Len(<<x>> \o s) = 1 + Len(s)
      /\ \A k \in 1 .. 1 + Len(s) : (<<x>> \o s)[k] = IF k <= 1 THEN <<x>>[k] ELSE s[k - 1]
  <2>1. <<x>> \in Seq(Transfer) /\ Len(<<x>>) = 1
    OBVIOUS
  <2> QED BY <2>1, ConcatProperties
<1>2. Len(s) \in Nat
  BY LenProperties
<1>3. ASSUME NEW k \in 1 .. 1 + Len(s) PROVE (<<x>> \o s)[k] = t[k]
  <2>1. CASE k = 1
    BY <1>1, <1>2, <2>1
  <2>2. CASE k # 1
    <3>1. k - 1 \in 1 .. Len(s) /\ (k - 1) + 1 = k /\ ~(k <= 1)
      BY <1>2, <2>2
    <3>2. t[k] = s[k - 1]
      BY <3>1
    <3> QED BY <1>1, <3>1, <3>2
  <2> QED BY <2>1, <2>2
<1> QED BY <1>1, <1>2, <1>3, SeqEqual

LEMMA OneAndOne ==
  ASSUME NEW x \in Transfer, NEW y \in Transfer
  PROVE  <<x>> \o <<y>> = <<x, y>>
<1> DEFINE s == <<y>>
           t == <<x, y>>
<1>1. s \in Seq(Transfer) /\ t \in Seq(Transfer) /\ t[1] = x
  OBVIOUS
<1>2. Len(t) = Len(s) + 1 /\ \A k \in 1 .. Len(s) : t[k + 1] = s[k]
  OBVIOUS
<1> HIDE DEF s, t
<1>3. <<x>> \o s = t
  BY <1>1, <1>2, OneThenOthers
<1> QED BY <1>3 DEF s, t

LEMMA OneAndTwo ==
  ASSUME NEW x \in Transfer, NEW y \in Transfer, NEW z \in Transfer
  PROVE  <<x>> \o <<y, z>> = <<x, y, z>>
<1> DEFINE s == <<y, z>>
           t == <<x, y, z>>
<1>1. s \in Seq(Transfer) /\ t \in Seq(Transfer) /\ t[1] = x
  OBVIOUS
<1>2. Len(t) = Len(s) + 1 /\ \A k \in 1 .. Len(s) : t[k + 1] = s[k]
  OBVIOUS
<1> HIDE DEF s, t
<1>3. <<x>> \o s = t
  BY <1>1, <1>2, OneThenOthers
<1> QED BY <1>3 DEF s, t

LEMMA OneAndThree ==
  ASSUME NEW x \in Transfer, NEW y \in Transfer, NEW z \in Transfer, NEW u \in Transfer
  PROVE  <<x>> \o <<y, z, u>> = <<x, y, z, u>>
<1> DEFINE s == <<y, z, u>>
           t == <<x, y, z, u>>
<1>1. s \in Seq(Transfer) /\ t \in Seq(Transfer) /\ t[1] = x
  OBVIOUS
<1>2. Len(t) = Len(s) + 1 /\ \A k \in 1 .. Len(s) : t[k + 1] = s[k]
  OBVIOUS
<1> HIDE DEF s, t
<1>3. <<x>> \o s = t
  BY <1>1, <1>2, OneThenOthers
<1> QED BY <1>3 DEF s, t

LEMMA MessagesShaped == \A m \in Messages : Shape(m)
<1>1. ASSUME NEW cmd \in Cmds, NEW n \in 1 .. MaxData
      PROVE  Shape(Split(cmd, n)) /\ Shape(Joined(cmd, n))
  <2>0. n \in Nat /\ n >= 1 /\ Byte \in Cmds \cup {Byte} /\ AddrLen = 3
    BY SpiAssumption DEF AddrLen
  <2> DEFINE c == Tx(cmd, 1)
             a == Tx(Byte, AddrLen)
             d == Tx(Byte, 1)
             w == Tx(Byte, n)
             r == Rx(n)
  <2>1. /\ c \in Transfer /\ c.tx /\ c.what = cmd /\ c.len = 1
        /\ a \in Transfer /\ a.tx /\ a.len = 3
        /\ d \in Transfer /\ d.tx /\ d.len = 1
        /\ w \in Transfer /\ w.tx /\ w.len = n
        /\ r \in Transfer /\ ~r.tx
    BY <2>0, TransferType
  <2> DEFINE j(k) == Tx(cmd, k)
  <2>2. \A k \in Nat : j(k) \in Transfer /\ j(k).tx /\ j(k).what = cmd /\ j(k).len = k
    BY TransferType
  <2>3. cmd # 0 /\ 1 \in Nat /\ 4 \in Nat /\ 5 \in Nat /\ 4 + n \in Nat /\ 4 + n >= 1
    BY <2>0, CmdsAre
  <2>10. 4 = 1 + AddrLen /\ 5 = 1 + AddrLen + 1 /\ 4 + n = 1 + AddrLen + n
    BY <2>0
  <2> HIDE DEF c, a, d, w, r, j
  <2>4. CASE cmd \in {WREN, WRDI}
    <3>1. Split(cmd, n) = <<c>> \o << >>
      BY <2>4, Distinct, Zenon DEF Split, c
    <3>2. Joined(cmd, n) = <<j(1)>>
      BY <2>4, <2>10, Distinct, Zenon DEF Joined, j
    <3>3. Split(cmd, n) = <<c>>
      BY <3>1
    <3> QED BY <3>2, <3>3, <2>1, <2>2, <2>3, <2>4, CmdsAre, Shape1
  <2>5. CASE cmd = BE_4K
    <3>1. Split(cmd, n) = <<c>> \o <<a>>
      BY <2>5, Distinct, Zenon DEF Split, c, a
    <3>2. Joined(cmd, n) = <<j(4)>>
      BY <2>5, <2>10, Distinct, Zenon DEF Joined, j
    <3>3. Split(cmd, n) = <<c, a>>
      BY <3>1, <2>1, OneAndOne, Zenon
    <3> QED BY <3>2, <3>3, <2>1, <2>2, <2>3, <2>5, CmdsAre, Shape1, Shape2
  <2>6. CASE cmd = PP
    <3>1. Split(cmd, n) = <<c>> \o <<a, w>>
      BY <2>6, Distinct, Zenon DEF Split, c, a, w
    <3>2. Joined(cmd, n) = <<j(4 + n)>>
      BY <2>6, <2>10, Distinct, Zenon DEF Joined, j
    <3>3. Split(cmd, n) = <<c, a, w>>
      BY <3>1, <2>1, OneAndTwo, Zenon
    <3> QED BY <3>2, <3>3, <2>0, <2>1, <2>2, <2>3, <2>6, CmdsAre, Shape1, Shape3
  <2>7. CASE cmd = RDSR
    <3>1. Split(cmd, n) = <<c>> \o <<r>>
      BY <2>7, Distinct, Zenon DEF Split, c, r
    <3>2. Joined(cmd, n) = <<c, r>>
      BY <2>7, <2>10, Distinct, Zenon DEF Joined, c, r
    <3>3. Split(cmd, n) = <<c, r>>
      BY <3>1, <2>1, OneAndOne, Zenon
    <3> QED BY <3>2, <3>3, <2>1, <2>3, <2>7, CmdsAre, Shape2
  <2>8. CASE cmd = READ
    <3>1. Split(cmd, n) = <<c>> \o <<a, r>>
      BY <2>8, Distinct, Zenon DEF Split, c, a, r
    <3>2. Joined(cmd, n) = <<j(4), r>>
      BY <2>8, <2>10, Distinct, Zenon DEF Joined, j, r
    <3>3. Split(cmd, n) = <<c, a, r>>
      BY <3>1, <2>1, OneAndTwo, Zenon
    <3> QED BY <3>2, <3>3, <2>1, <2>2, <2>3, <2>8, CmdsAre, Shape2, Shape3
  <2>9. CASE cmd = FAST_READ
    <3>1. Split(cmd, n) = <<c>> \o <<a, d, r>>
      BY <2>9, Distinct, Zenon DEF Split, c, a, d, r
    <3>2. Joined(cmd, n) = <<j(5), r>>
      BY <2>9, <2>10, Distinct, Zenon DEF Joined, j, r
    <3>3. Split(cmd, n) = <<c, a, d, r>>
      <4>1. c \in Transfer /\ a \in Transfer /\ d \in Transfer /\ r \in Transfer
        BY <2>1
      <4>2. <<c>> \o <<a, d, r>> = <<c, a, d, r>>
        BY <4>1, OneAndThree
      <4> QED BY <3>1, <4>2, Zenon
    <3>4. Shape(<<j(5), r>>)
      BY <2>1, <2>2, <2>3, <2>9, CmdsAre, Shape2
    <3>5. Shape(<<c, a, d, r>>)
      BY <2>1, <2>3, <2>9, CmdsAre, Shape4
    <3> QED BY <3>2, <3>3, <3>4, <3>5
  <2> QED BY <2>4, <2>5, <2>6, <2>7, <2>8, <2>9 DEF Cmds
<1> QED BY <1>1 DEF Messages

-----------------------------------------------------------------------------
(* The pins. A pin that nobody freed behind its holder's back is the        *)
(* controller's in every respect, or in none; between the two it is only    *)
(* at the pin where the driver's loop stands.                               *)

Sound == Pins \ lost

Taken(p) == holder[p] = Special /\ p \in routed /\ p \notin output
Left(p) == holder[p] # Special /\ p \notin routed

TakenFrom(a, b) == \A p \in Sound : a <= p /\ p <= b => Taken(p)
LeftFrom(a, b) == \A p \in Sound : a <= p /\ p <= b => Left(p)

AllTaken == TakenFrom(1, NrPins)
AllLeft == LeftFrom(1, NrPins)

(* The loops of cns3xxx_sharepin_request_array: the pins up to last are     *)
(* taken and those from next on are not; or an earlier probe failed and     *)
(* kept all of them, and those the loop got over are not sound.             *)
Between(last, next) ==
  \/ TakenFrom(1, last) /\ LeftFrom(next, NrPins)
  \/ AllTaken /\ \A p \in Sound : p >= next

PinType ==
  /\ pin \in Pins
  /\ holder \in [Pins -> {None, Special, User}]

UserInv == \A p \in Sound : p \in userPins <=> holder[p] = User

(* What holds of the pins when the loop stands at pin k, between i and j *)
LoopAt(i, k, j) ==
  /\ driver = "request" => Between(i, k)
  /\ driver = "route" => Between(i, j) /\ (k \in Sound => holder[k] = Special)
  /\ driver = "direct" => Between(i, j) /\ (k \in Sound => holder[k] = Special /\ k \in routed)
  /\ driver = "undo" => Between(k, j)
  /\ driver = "undo unroute" => Between(i, j) /\ (k \in Sound => holder[k] # Special)
  /\ driver = "free" => LeftFrom(1, i) /\ (TakenFrom(k, NrPins) \/ LeftFrom(k, NrPins))
  /\ driver = "unroute" => /\ LeftFrom(1, i)
                           /\ TakenFrom(j, NrPins) \/ LeftFrom(j, NrPins)
                           /\ k \in Sound => holder[k] # Special

LoopInv == \A i, k, j \in Int : k = pin /\ i = k - 1 /\ j = k + 1 => LoopAt(i, k, j)

RestInv ==
  /\ driver \in {"set up", "start", "bound"} => AllTaken \/ AllLeft
  /\ driver = "unbound" => AllLeft \/ (AllTaken /\ failed)

PowerInv == driver \in {"free", "unroute"} \/ (driver = "unbound" /\ ~failed) => ~spi_on

DriverType ==
  driver \in {"unbound", "request", "route", "direct", "undo", "undo unroute",
              "set up", "start", "bound", "free", "unroute"}

PinInv == DriverType /\ PinType /\ UserInv /\ LoopInv /\ RestInv /\ PowerInv

LEMMA InitPinInv == Init => PinInv
<1> SUFFICES ASSUME Init PROVE PinInv
  OBVIOUS
<1>1. AllLeft
  BY DEF Init, PinsInit, AllLeft, LeftFrom, Left, Sound, Pins, None, Special
<1>2. DriverType /\ PinType /\ UserInv /\ PowerInv
  BY PinsAssumption
     DEF Init, PinsInit, DriverType, PinType, UserInv, PowerInv, Sound, Pins, None, Special, User
<1>3. LoopInv /\ RestInv
  BY <1>1 DEF Init, LoopInv, LoopAt, RestInv
<1> QED BY <1>2, <1>3 DEF PinInv

LEMMA PinRange ==
  /\ 1 \in Pins /\ NrPins \in Int /\ Sound \subseteq Pins
  /\ \A k \in Pins : /\ k \in Int /\ 1 <= k /\ k <= NrPins
                     /\ k < NrPins => k + 1 \in Pins
                     /\ k > 1 => k - 1 \in Pins
BY PinsAssumption DEF Pins, Sound

LEMMA LoopIsAt ==
  ASSUME PinType, LoopInv
  PROVE  \E i, j \in Int, k \in Pins :
           /\ k \in Int /\ k = pin /\ i = k - 1 /\ j = k + 1 /\ i < k /\ k < j
           /\ LoopAt(i, k, j)
<1>1. pin \in Pins /\ pin \in Int /\ pin - 1 \in Int /\ pin + 1 \in Int
  BY PinRange DEF PinType
<1>2. LoopAt(pin - 1, pin, pin + 1)
  BY <1>1 DEF LoopInv
<1>3. pin - 1 < pin /\ pin < pin + 1
  BY <1>1
<1> QED BY <1>1, <1>2, <1>3

LEMMA LoopComesTo ==
  ASSUME NEW i \in Int, NEW k \in Int, NEW j \in Int, i = k - 1, j = k + 1, pin' = k,
         LoopAt(i, k, j)'
  PROVE  LoopInv'
BY DEF LoopInv

LEMMA LoopEnds ==
  ASSUME driver' \in {"set up", "start", "bound", "unbound"}
  PROVE  LoopInv'
BY DEF LoopInv, LoopAt

(* A step that leaves all sound pins but one as they are *)
OthersKept(p) ==
  \A q \in Sound' : /\ q \in Sound
                    /\ q # p => (Taken(q) <=> Taken(q)') /\ (Left(q) <=> Left(q)')

LEMMA RangesKept ==
  ASSUME NEW p \in Int, OthersKept(p), NEW a \in Int, NEW b \in Int, p < a \/ b < p
  PROVE  /\ TakenFrom(a, b) => TakenFrom(a, b)'
         /\ LeftFrom(a, b) => LeftFrom(a, b)'
<1>1. \A q \in Sound' : q \in Int
  BY DEF Sound, Pins
<1> QED BY <1>1 DEF OthersKept, TakenFrom, LeftFrom

LEMMA BetweenKept ==
  ASSUME NEW p \in Int, OthersKept(p), NEW a \in Int, NEW b \in Int, a < p, p < b,
         Between(a, b)
  PROVE  Between(a, b)'
<1>1. CASE TakenFrom(1, a) /\ LeftFrom(b, NrPins)
  BY <1>1, RangesKept, PinsAssumption DEF Between
<1>2. CASE AllTaken /\ \A q \in Sound : q >= b
  <2>1. \A q \in Sound' : q \in Sound /\ q \in Int /\ q >= b /\ q # p
    BY <1>2 DEF OthersKept, Sound, Pins
  <2>2. AllTaken'
    BY <1>2, <2>1 DEF OthersKept, AllTaken, TakenFrom
  <2> QED BY <2>1, <2>2 DEF Between
<1> QED BY <1>1, <1>2 DEF Between

(* The pin of the loop joins those before it or those after it *)
LEMMA BetweenJoins ==
  ASSUME NEW i \in Int, NEW j \in Int, NEW k \in Int, i = k - 1, j = k + 1
  PROVE  /\ Between(i, j) /\ (k \in Sound => Taken(k)) => Between(k, j)
         /\ Between(i, j) /\ (k \in Sound => Left(k)) => Between(i, k)
         /\ Between(k, j) => Between(i, j)
         /\ Between(i, k) /\ (k \in Sound => ~Taken(k)) => Between(i, j)
<1>1. \A q \in Sound : q \in Int /\ 1 <= q /\ q <= NrPins
  BY PinRange
<1>2. /\ TakenFrom(1, i) /\ (k \in Sound => Taken(k)) => TakenFrom(1, k)
      /\ LeftFrom(j, NrPins) /\ (k \in Sound => Left(k)) => LeftFrom(k, NrPins)
      /\ TakenFrom(1, k) => TakenFrom(1, i)
      /\ LeftFrom(k, NrPins) => LeftFrom(j, NrPins)
  BY <1>1 DEF TakenFrom, LeftFrom
<1>3. /\ (\A q \in Sound : q >= j) => (\A q \in Sound : q >= k)
      /\ AllTaken /\ (\A q \in Sound : q >= k) /\ (k \in Sound => ~Taken(k))
         => (\A q \in Sound : q >= j)
  BY <1>1 DEF AllTaken, TakenFrom
<1> QED BY <1>2, <1>3 DEF Between

LEMMA BetweenAtEnds ==
  ASSUME NEW i \in Int, NEW j \in Int
  PROVE  /\ i = 0 /\ j = 1 => ((AllTaken \/ AllLeft) <=> Between(i, j))
         /\ i = NrPins /\ Between(i, j) => AllTaken
<1>1. \A q \in Sound : q \in Int /\ 1 <= q /\ q <= NrPins
  BY PinRange
<1>2. i = 0 => TakenFrom(1, i)
  BY <1>1 DEF TakenFrom
<1> QED BY <1>1, <1>2 DEF Between, AllTaken, AllLeft

LEMMA PinsOfUser ==
  ASSUME PinInv, NEW p \in Pins, UserRequests(p) \/ UserDirects(p) \/ UserFrees(p),
         UNCHANGED driverVars
  PROVE  PinInv'
<1>1. PinType /\ UserInv /\ LoopInv /\ RestInv
  BY DEF PinInv
<1>2. /\ driver' = driver /\ pin' = pin /\ failed' = failed /\ spi_on' = spi_on
      /\ routed' = routed
      /\ \A q \in Sound' : q \in Sound /\ q \in Pins
  BY DEF driverVars, UserRequests, UserDirects, UserFrees, GpioRequest, GpioFree, Sound
<1>3. PinType'
  BY <1>1, <1>2
     DEF PinType, UserRequests, UserDirects, UserFrees, GpioRequest, GpioFree, None, Special, User
<1>4. UserInv'
  BY <1>1, <1>2
     DEF PinType, UserInv, UserRequests, UserDirects, UserFrees, GpioRequest, GpioFree, Requested,
         Sound, None, Special, User
<1>5. \A q \in Sound' : /\ Taken(q) => Taken(q)'
                        /\ Left(q) => Left(q)'
                        /\ holder[q] = Special <=> holder'[q] = Special
  BY <1>1, <1>2
     DEF PinType, UserInv, UserRequests, UserDirects, UserFrees, GpioRequest, GpioFree,
         DirectionInput, DirectionOutput, Requested, Sound, Taken, Left, None, Special, User
<1>6. \A a, b \in Int : /\ TakenFrom(a, b) => TakenFrom(a, b)'
                        /\ LeftFrom(a, b) => LeftFrom(a, b)'
  BY <1>2, <1>5 DEF TakenFrom, LeftFrom
<1>7. (AllTaken => AllTaken') /\ (AllLeft => AllLeft')
  BY <1>6, PinsAssumption DEF AllTaken, AllLeft
<1>8. \A a, b \in Int : Between(a, b) => Between(a, b)'
  BY <1>2, <1>6, <1>7, PinsAssumption DEF Between
<1>9. PICK i, j \in Int, k \in Pins :
        /\ k \in Int /\ k = pin /\ i = k - 1 /\ j = k + 1 /\ i < k /\ k < j
        /\ LoopAt(i, k, j)
  BY <1>1, LoopIsAt
<1>10. k \in Int /\ 1 \in Int /\ NrPins \in Int
  BY PinRange
<1>11. LoopAt(i, k, j)'
  BY <1>2, <1>5, <1>6, <1>8, <1>9, <1>10 DEF LoopAt
<1>12. LoopInv'
  BY <1>2, <1>9, <1>10, <1>11, LoopComesTo
<1>13. DriverType' /\ RestInv' /\ PowerInv'
  BY <1>1, <1>2, <1>7 DEF PinInv, DriverType, RestInv, PowerInv
<1> QED BY <1>3, <1>4, <1>12, <1>13 DEF PinInv

LEMMA PinsProbe ==
  ASSUME PinInv, Probe
  PROVE  PinInv'
<1>1. PinType' /\ UserInv' /\ DriverType' /\ PowerInv' /\ RestInv'
  BY PinsAssumption
     DEF Probe, GoesTo, pinVars, PinInv, PinType, UserInv, DriverType, PowerInv, RestInv, Sound, Pins
<1>2. AllTaken \/ AllLeft
  BY DEF PinInv, RestInv, Probe
<1>3. (AllTaken \/ AllLeft)'
  BY <1>2 DEF Probe, pinVars, AllTaken, AllLeft, TakenFrom, LeftFrom, Taken, Left, Sound
<1>4. driver' = "request" /\ pin' = 1
  BY DEF Probe, GoesTo
<1>5. PICK i, j, k \in Int : i = 0 /\ k = 1 /\ j = 2
  OBVIOUS
<1>6. Between(i, k)'
  <2>1. \A q \in Sound' : q \in Int /\ 1 <= q
    BY DEF Sound, Pins
  <2> QED BY <1>3, <1>5, <2>1 DEF Between, AllTaken, AllLeft, TakenFrom, LeftFrom
<1>7. LoopAt(i, k, j)'
  BY <1>4, <1>6 DEF LoopAt
<1>8. LoopInv'
  BY <1>4, <1>5, <1>7, LoopComesTo
<1> QED BY <1>1, <1>8 DEF PinInv

LEMMA PinsRequest ==
  ASSUME PinInv, RequestPin
  PROVE  PinInv'
<1>0. PICK i, j \in Int, k \in Pins :
        /\ k \in Int /\ k = pin /\ i = k - 1 /\ j = k + 1 /\ i < k /\ k < j
        /\ LoopAt(i, k, j)
  BY LoopIsAt DEF PinInv
<1>1. /\ driver = "request" /\ driver' = "route" /\ pin' = k
      /\ holder[k] = None /\ holder' = [holder EXCEPT ![k] = Special]
      /\ UNCHANGED <<routed, output, userPins, lost, spi_on, failed>>
      /\ PinType /\ UserInv /\ k \in Int
  BY <1>0, PinRange DEF RequestPin, GoesTo, GpioRequest, Requested, PinInv, PinType
<1>2. PinType' /\ UserInv' /\ Sound' = Sound
  BY <1>1 DEF PinType, UserInv, Sound, Special, None, User
<1>3. OthersKept(k)
  BY <1>1, <1>2, PinRange DEF OthersKept, PinType, Taken, Left
<1>4. ~Taken(k) /\ Between(i, k)
  BY <1>0, <1>1 DEF Taken, None, Special, LoopAt
<1>5. Between(i, j)
  BY <1>0, <1>1, <1>4, BetweenJoins
<1>6. Between(i, j)'
  BY <1>0, <1>1, <1>3, <1>5, BetweenKept
<1>7. LoopAt(i, k, j)'
  BY <1>1, <1>6 DEF LoopAt, PinType
<1>8. LoopInv'
  BY <1>0, <1>1, <1>7, LoopComesTo
<1> QED BY <1>1, <1>2, <1>8 DEF PinInv, DriverType, RestInv, PowerInv

LEMMA PinsRoute ==
  ASSUME PinInv, RoutePin
  PROVE  PinInv'
<1>0. PICK i, j \in Int, k \in Pins :
        /\ k \in Int /\ k = pin /\ i = k - 1 /\ j = k + 1 /\ i < k /\ k < j
        /\ LoopAt(i, k, j)
  BY LoopIsAt DEF PinInv
<1>1. /\ driver = "route" /\ driver' = "direct" /\ pin' = k
      /\ routed' = routed \cup {k}
      /\ UNCHANGED <<holder, output, userPins, lost, spi_on, failed>>
      /\ PinType /\ UserInv /\ k \in Int
      /\ Between(i, j) /\ (k \in Sound => holder[k] = Special)
  BY <1>0, PinRange DEF RoutePin, GoesTo, Route, PinInv, PinType, LoopAt
<1>2. PinType' /\ UserInv' /\ Sound' = Sound
  BY <1>1 DEF PinType, UserInv, Sound
<1>3. OthersKept(k)
  BY <1>1, <1>2, PinRange DEF OthersKept, Taken, Left
<1>4. Between(i, j)'
  BY <1>0, <1>1, <1>3, BetweenKept
<1>5. LoopAt(i, k, j)'
  BY <1>1, <1>2, <1>4 DEF LoopAt
<1>6. LoopInv'
  BY <1>0, <1>1, <1>5, LoopComesTo
<1> QED BY <1>1, <1>2, <1>6 DEF PinInv, DriverType, RestInv, PowerInv

LEMMA PinsDirect ==
  ASSUME PinInv, DirectPin
  PROVE  PinInv'
<1>0. PICK i, j \in Int, k \in Pins :
        /\ k \in Int /\ k = pin /\ i = k - 1 /\ j = k + 1 /\ i < k /\ k < j
        /\ LoopAt(i, k, j)
  BY LoopIsAt DEF PinInv
<1>1. /\ driver = "direct"
      /\ k < NrPins => driver' = "request" /\ pin' = j
      /\ ~(k < NrPins) => driver' = "set up" /\ pin' = 1
      /\ output' = output \ {k}
      /\ UNCHANGED <<holder, routed, userPins, lost, spi_on, failed>>
      /\ PinType /\ UserInv /\ k \in Int
      /\ Between(i, j) /\ (k \in Sound => holder[k] = Special /\ k \in routed)
  BY <1>0, PinRange DEF DirectPin, GoesTo, DirectionInput, PinInv, PinType, LoopAt
<1>2. (k < NrPins /\ j \in Pins) \/ (~(k < NrPins) /\ k = NrPins)
  BY <1>0, PinRange
<1>3. PinType' /\ UserInv' /\ Sound' = Sound
  BY <1>1, <1>2, PinRange DEF PinType, UserInv, Sound
<1>4. OthersKept(k)
  BY <1>1, <1>3, PinRange DEF OthersKept, Taken, Left
<1>5. Between(i, j)'
  BY <1>0, <1>1, <1>4, BetweenKept
<1>6. k \in Sound' => Taken(k)'
  BY <1>1, <1>3 DEF Taken
<1>7. Between(k, j)'
  <2>1. TakenFrom(1, i)' => TakenFrom(1, k)'
    <3>1. \A q \in Sound' : q \in Int
      BY DEF Sound, Pins
    <3> QED BY <1>0, <1>6, <3>1 DEF TakenFrom
  <2> QED BY <1>5, <2>1 DEF Between
<1>8. CASE k < NrPins
  <2>1. PICK l \in Int : l = j + 1
    OBVIOUS
  <2>2. LoopAt(k, j, l)'
    BY <1>1, <1>7, <1>8 DEF LoopAt
  <2>3. LoopInv'
    BY <1>0, <1>1, <1>8, <2>1, <2>2, LoopComesTo
  <2> QED BY <1>1, <1>3, <1>8, <2>3 DEF PinInv, DriverType, RestInv, PowerInv
<1>9. CASE ~(k < NrPins)
  <2>1. AllTaken'
    BY <1>2, <1>7, <1>9 DEF Between, AllTaken
  <2>2. LoopInv'
    BY <1>1, <1>9, LoopEnds
  <2> QED BY <1>1, <1>3, <1>9, <2>1, <2>2 DEF PinInv, DriverType, RestInv, PowerInv
<1> QED BY <1>8, <1>9

LEMMA PinsRequestFails ==
  ASSUME PinInv, RequestPinFails
  PROVE  PinInv'
<1>0. PICK i, j \in Int, k \in Pins :
        /\ k \in Int /\ k = pin /\ i = k - 1 /\ j = k + 1 /\ i < k /\ k < j
        /\ LoopAt(i, k, j)
  BY LoopIsAt DEF PinInv
<1>1. /\ driver = "request"
      /\ k > 1 => driver' = "undo" /\ pin' = i
      /\ ~(k > 1) => driver' = "set up" /\ pin' = 1
      /\ UNCHANGED <<holder, routed, output, userPins, lost, spi_on, failed>>
      /\ PinType /\ UserInv /\ k \in Int /\ Between(i, k)
  BY <1>0, PinRange DEF RequestPinFails, GoesTo, pinVars, PinInv, PinType, LoopAt
<1>2. (k > 1 /\ i \in Pins) \/ (~(k > 1) /\ i = 0 /\ k = 1)
  BY <1>0, PinRange
<1>3. PinType' /\ UserInv' /\ Sound' = Sound
  BY <1>1, <1>2, PinRange DEF PinType, UserInv, Sound
<1>4. CASE k > 1
  <2>1. PICK h \in Int : h = i - 1
    OBVIOUS
  <2>2. Between(i, k)'
    BY <1>1, <1>3 DEF Between, AllTaken, TakenFrom, LeftFrom, Taken, Left
  <2>3. LoopAt(h, i, k)'
    BY <1>1, <1>4, <2>2 DEF LoopAt
  <2>4. LoopInv'
    BY <1>0, <1>1, <1>4, <2>1, <2>3, LoopComesTo
  <2> QED BY <1>1, <1>3, <1>4, <2>4 DEF PinInv, DriverType, RestInv, PowerInv
<1>5. CASE ~(k > 1)
  <2>1. AllTaken \/ AllLeft
    BY <1>1, <1>2, <1>5, BetweenAtEnds
  <2>2. AllTaken' \/ AllLeft'
    BY <1>1, <1>3, <2>1 DEF AllTaken, AllLeft, TakenFrom, LeftFrom, Taken, Left
  <2>3. LoopInv'
    BY <1>1, <1>5, LoopEnds
  <2> QED BY <1>1, <1>3, <1>5, <2>2, <2>3 DEF PinInv, DriverType, RestInv, PowerInv
<1> QED BY <1>4, <1>5

LEMMA PinsFree ==
  ASSUME PinInv, FreePin
  PROVE  PinInv'
<1>0. PICK i, j \in Int, k \in Pins :
        /\ k \in Int /\ k = pin /\ i = k - 1 /\ j = k + 1 /\ i < k /\ k < j
        /\ LoopAt(i, k, j)
  BY LoopIsAt DEF PinInv
<1>1. /\ \/ driver = "undo" /\ driver' = "undo unroute"
         \/ driver = "free" /\ driver' = "unroute"
      /\ pin' = k
      /\ holder' = [holder EXCEPT ![k] = None]
      /\ holder[k] \in {None, Special} => lost' = lost
      /\ holder[k] \notin {None, Special} => lost' = lost \cup {k}
      /\ UNCHANGED <<routed, output, userPins, spi_on, failed>>
      /\ PinType /\ UserInv /\ k \in Int /\ 1 \in Int /\ NrPins \in Int
  BY <1>0, PinRange DEF FreePin, GoesTo, GpioFree, PinInv, PinType
<1>2. PinType'
  BY <1>1 DEF PinType
<1>3. \A q \in Sound' : q \in Sound /\ q \in Pins /\ (q = k => holder[q] \in {None, Special})
  BY <1>1 DEF Sound
<1>4. UserInv'
  BY <1>1, <1>3 DEF PinType, UserInv, None, Special, User
<1>5. OthersKept(k)
  BY <1>1, <1>3 DEF OthersKept, PinType, Taken, Left
<1>6. holder'[k] # Special
  BY <1>1 DEF PinType, None, Special
<1>7. LoopAt(i, k, j)'
  <2>1. CASE driver = "undo"
    <3>1. Between(i, j)
      BY <1>0, <1>1, <2>1, BetweenJoins DEF LoopAt
    <3>2. Between(i, j)'
      BY <1>0, <1>1, <1>5, <3>1, BetweenKept
    <3> QED BY <1>1, <1>6, <2>1, <3>2 DEF LoopAt
  <2>2. CASE driver = "free"
    <3>1. LeftFrom(1, i) /\ (TakenFrom(k, NrPins) \/ LeftFrom(k, NrPins))
      BY <1>0, <2>2 DEF LoopAt
    <3>2. \A q \in Sound : q \in Int
      BY PinRange
    <3>3. /\ TakenFrom(k, NrPins) => TakenFrom(j, NrPins)
          /\ LeftFrom(k, NrPins) => LeftFrom(j, NrPins)
      BY <1>0, <3>2 DEF TakenFrom, LeftFrom
    <3>4. LeftFrom(1, i)' /\ (TakenFrom(j, NrPins)' \/ LeftFrom(j, NrPins)')
      BY <1>0, <1>1, <1>5, <3>1, <3>3, RangesKept
    <3> QED BY <1>1, <1>6, <2>2, <3>4 DEF LoopAt
  <2> QED BY <1>1, <2>1, <2>2
<1>8. LoopInv'
  BY <1>0, <1>1, <1>7, LoopComesTo
<1>9. DriverType' /\ RestInv' /\ PowerInv'
  BY <1>1 DEF PinInv, DriverType, RestInv, PowerInv
<1> QED BY <1>2, <1>4, <1>8, <1>9 DEF PinInv

LEMMA PinsUnroute ==
  ASSUME PinInv, UnroutePin
  PROVE  PinInv'
<1>0. PICK i, j \in Int, k \in Pins :
        /\ k \in Int /\ k = pin /\ i = k - 1 /\ j = k + 1 /\ i < k /\ k < j
        /\ LoopAt(i, k, j)
  BY LoopIsAt DEF PinInv
<1>1. /\ \/ /\ driver = "undo unroute"
            /\ k > 1 => driver' = "undo" /\ pin' = i
            /\ ~(k > 1) => driver' = "set up" /\ pin' = 1
         \/ /\ driver = "unroute"
            /\ k < NrPins => driver' = "free" /\ pin' = j
            /\ ~(k < NrPins) => driver' = "unbound" /\ pin' = 1
      /\ routed' = routed \ {k}
      /\ UNCHANGED <<holder, output, userPins, lost, spi_on, failed>>
      /\ PinType /\ UserInv /\ k \in Int /\ 1 \in Int /\ NrPins \in Int
  BY <1>0, PinRange DEF UnroutePin, GoesTo, Unroute, PinInv, PinType
<1>2. /\ (k > 1 /\ i \in Pins) \/ (~(k > 1) /\ i = 0 /\ k = 1)
      /\ (k < NrPins /\ j \in Pins) \/ (~(k < NrPins) /\ k = NrPins)
  BY <1>0, PinRange
<1>3. PinType' /\ UserInv' /\ Sound' = Sound
  BY <1>1, <1>2, PinRange DEF PinType, UserInv, Sound
<1>4. OthersKept(k)
  BY <1>1, <1>3, PinRange DEF OthersKept, Taken, Left
<1>5. k \in Sound => holder[k] # Special
  BY <1>0, <1>1 DEF LoopAt
<1>6. k \in Sound' => Left(k)'
  BY <1>1, <1>3, <1>5 DEF Left
<1>7. \A q \in Sound' : q \in Int
  BY DEF Sound, Pins
<1>8. CASE driver = "undo unroute"
  <2>1. Between(i, j)
    BY <1>0, <1>8 DEF LoopAt
  <2>2. Between(i, j)'
    BY <1>0, <1>1, <1>4, <2>1, BetweenKept
  <2>3. LeftFrom(j, NrPins)' => LeftFrom(k, NrPins)'
    BY <1>0, <1>6, <1>7 DEF LeftFrom
  <2>4. (\A q \in Sound' : q >= j) => (\A q \in Sound' : q >= k)
    BY <1>0, <1>7
  <2>5. Between(i, k)'
    BY <2>2, <2>3, <2>4 DEF Between
  <2>6. CASE k > 1
    <3>1. PICK h \in Int : h = i - 1
      OBVIOUS
    <3>2. LoopAt(h, i, k)'
      BY <1>1, <1>8, <2>5, <2>6 DEF LoopAt
    <3>3. LoopInv'
      <4>1. pin' = i
        BY <1>1, <1>8, <2>6
      <4> QED BY <1>0, <3>1, <3>2, <4>1, LoopComesTo
    <3> QED BY <1>1, <1>3, <1>8, <2>6, <3>3 DEF PinInv, DriverType, RestInv, PowerInv
  <2>7. CASE ~(k > 1)
    <3>1. AllTaken' \/ AllLeft'
      BY <1>2, <2>5, <2>7 DEF Between, AllLeft
    <3>2. LoopInv'
      BY <1>1, <1>8, <2>7, LoopEnds
    <3> QED BY <1>1, <1>3, <1>8, <2>7, <3>1, <3>2 DEF PinInv, DriverType, RestInv, PowerInv
  <2> QED BY <2>6, <2>7
<1>9. CASE driver = "unroute"
  <2>1. LeftFrom(1, i) /\ (TakenFrom(j, NrPins) \/ LeftFrom(j, NrPins))
    BY <1>0, <1>9 DEF LoopAt
  <2>2. LeftFrom(1, i)' /\ (TakenFrom(j, NrPins)' \/ LeftFrom(j, NrPins)')
    BY <1>0, <1>1, <1>4, <2>1, RangesKept
  <2>3. LeftFrom(1, k)'
    BY <1>0, <1>6, <1>7, <2>2 DEF LeftFrom
  <2>4. ~spi_on'
    BY <1>1, <1>9 DEF PinInv, PowerInv
  <2>5. CASE k < NrPins
    <3>1. PICK l \in Int : l = j + 1
      OBVIOUS
    <3>2. LoopAt(k, j, l)'
      BY <1>1, <1>9, <2>2, <2>3, <2>5 DEF LoopAt
    <3>3. LoopInv'
      BY <1>0, <1>1, <1>9, <2>5, <3>1, <3>2, LoopComesTo
    <3> QED BY <1>1, <1>3, <1>9, <2>4, <2>5, <3>3 DEF PinInv, DriverType, RestInv, PowerInv
  <2>6. CASE ~(k < NrPins)
    <3>1. AllLeft'
      BY <1>2, <2>3, <2>6 DEF AllLeft
    <3>2. LoopInv'
      BY <1>1, <1>9, <2>6, LoopEnds
    <3> QED BY <1>1, <1>3, <1>9, <2>4, <2>6, <3>1, <3>2 DEF PinInv, DriverType, RestInv, PowerInv
  <2> QED BY <2>5, <2>6
<1> QED BY <1>1, <1>8, <1>9

LEMMA PinsOnOff ==
  ASSUME PinInv, SetUp \/ StartBus \/ Remove
  PROVE  PinInv'
<1>1. /\ driver \in {"set up", "start", "bound"}
      /\ \/ driver' \in {"start", "bound"}
         \/ driver' = "unbound" /\ failed'
         \/ driver' = "free" /\ ~spi_on'
      /\ pin' = 1 /\ UNCHANGED pinVars
      /\ PinType /\ UserInv /\ RestInv
  BY DEF SetUp, StartBus, Remove, GoesTo, PinInv
<1>2. PinType' /\ UserInv' /\ DriverType' /\ PowerInv'
  BY <1>1, PinRange DEF pinVars, PinType, UserInv, DriverType, PowerInv, Sound
<1>3. AllTaken \/ AllLeft
  BY <1>1 DEF RestInv
<1>4. AllTaken' \/ AllLeft'
  BY <1>1, <1>3 DEF pinVars, AllTaken, AllLeft, TakenFrom, LeftFrom, Taken, Left, Sound
<1>5. CASE driver' = "free"
  <2>1. PICK i, j, k \in Int : i = 0 /\ k = 1 /\ j = 2
    OBVIOUS
  <2>2. LeftFrom(1, i)'
    BY <2>1 DEF LeftFrom, Sound, Pins
  <2>3. LoopAt(i, k, j)'
    BY <1>4, <1>5, <2>1, <2>2 DEF LoopAt, AllTaken, AllLeft
  <2>4. LoopInv'
    <3>1. i = k - 1 /\ j = k + 1
      BY <2>1
    <3>2. pin' = k
      BY <1>1, <2>1
    <3> QED BY <2>3, <3>1, <3>2, LoopComesTo
  <2> QED BY <1>2, <1>5, <2>4 DEF PinInv, RestInv
<1>6. CASE driver' \in {"start", "bound", "unbound"}
  <2>1. RestInv'
    BY <1>1, <1>4, <1>6 DEF RestInv
  <2> QED BY <1>2, <1>6, <2>1, LoopEnds DEF PinInv
<1> QED BY <1>1, <1>5, <1>6

LEMMA PinsElsewhere ==
  ASSUME PinInv, UNCHANGED <<driverVars, pinVars>>
  PROVE  PinInv'
<1>1. /\ UNCHANGED <<driver, pin, failed, spi_on, holder, routed, output, userPins, lost>>
      /\ Sound' = Sound
  BY DEF driverVars, pinVars, Sound
<1>2. \A q \in Sound' : (Taken(q) <=> Taken(q)') /\ (Left(q) <=> Left(q)')
  BY <1>1 DEF Taken, Left
<1>3. \A a, b \in Int : /\ TakenFrom(a, b) <=> TakenFrom(a, b)'
                        /\ LeftFrom(a, b) <=> LeftFrom(a, b)'
  BY <1>1, <1>2 DEF TakenFrom, LeftFrom
<1>4. (AllTaken <=> AllTaken') /\ (AllLeft <=> AllLeft') /\ 1 \in Int /\ NrPins \in Int
  BY <1>3, PinRange DEF AllTaken, AllLeft
<1>5. \A a, b \in Int : Between(a, b) <=> Between(a, b)'
  BY <1>1, <1>3, <1>4 DEF Between
<1>6. PICK i, j \in Int, k \in Pins :
        /\ k \in Int /\ k = pin /\ i = k - 1 /\ j = k + 1 /\ i < k /\ k < j
        /\ LoopAt(i, k, j)
  BY LoopIsAt DEF PinInv
<1>7. LoopInv'
  <2>1. LoopAt(i, k, j)'
    BY <1>1, <1>3, <1>4, <1>5, <1>6 DEF LoopAt
  <2> QED BY <1>1, <1>6, <2>1, LoopComesTo
<1>8. DriverType' /\ PinType' /\ UserInv' /\ RestInv' /\ PowerInv'
  BY <1>1, <1>4 DEF PinInv, DriverType, PinType, UserInv, RestInv, PowerInv
<1> QED BY <1>7, <1>8 DEF PinInv

LEMMA PinInvariant == Spec => []PinInv
<1>1. PinInv /\ [Next]_vars => PinInv'
  <2> SUFFICES ASSUME PinInv, [Next]_vars PROVE PinInv'
    OBVIOUS
  <2>1. CASE (\E c \in Chips, m \in Messages : StartMessage(c, m)) \/ Txrx \/ UNCHANGED vars
    BY <2>1, PinsElsewhere DEF StartMessage, Txrx, vars
  <2>2. CASE UserNext /\ UNCHANGED <<messageVars, driverVars>>
    BY <2>2, PinsOfUser DEF UserNext
  <2> QED BY <2>1, <2>2, PinsProbe, PinsRequest, PinsRoute, PinsDirect, PinsRequestFails,
             PinsFree, PinsUnroute, PinsOnOff DEF Next
<1> QED BY <1>1, InitPinInv, PTL DEF Spec

(* The controller holds all of its sound pins or none (cns3xxx_spi_initial,  *)
(* cns3xxx_sharepin_request_array, cns3xxx_sharepin_free_array), whatever    *)
(* another user of the GPIO controller requests, drives and frees meanwhile. *)
THEOREM PinsMatchHolds == Spec => []PinsMatch
<1>1. PinInv => PinsMatch
  <2> SUFFICES ASSUME PinInv, driver \in {"bound", "unbound"}
               PROVE  LET sound == Pins \ lost
                          held == {p \in sound : holder[p] = Special}
                      IN /\ routed \cap sound = held
                         /\ held \in {{}, sound}
                         /\ driver = "unbound" /\ ~failed => held = {} /\ ~spi_on
                         /\ held \cap output = {}
    BY DEF PinsMatch
  <2>1. AllTaken \/ AllLeft
    BY DEF PinInv, RestInv
  <2>2. driver = "unbound" /\ ~failed => AllLeft /\ ~spi_on
    BY DEF PinInv, RestInv, PowerInv
  <2>3. AllTaken => \A p \in Sound : holder[p] = Special /\ p \in routed /\ p \notin output
    BY PinsAssumption DEF AllTaken, TakenFrom, Taken, Sound, Pins
  <2>4. AllLeft => \A p \in Sound : holder[p] # Special /\ p \notin routed
    BY PinsAssumption DEF AllLeft, LeftFrom, Left, Sound, Pins
  <2> QED BY <2>1, <2>2, <2>3, <2>4 DEF Sound
<1> QED BY <1>1, PinInvariant, PTL
-----------------------------------------------------------------------------
(* The bus. While a message is transferred the statics hold its command and *)
(* the bytes sent after it, and nothing otherwise.                          *)

BusType ==
  /\ chip \in Chips /\ message \in Messages \cup {<< >>} /\ sent \in 0 .. Len(message)
  /\ DOMAIN frame = Chips
  /\ executed \in [Chips -> Messages \cup {<< >>}]

CmdInv ==
  /\ curr_cmd = IF Busy /\ sent > 0 THEN message[1].what ELSE 0
  /\ curr_cmd_bytes = IF Busy /\ sent > 0 THEN Bytes(message, sent) ELSE 0

(* The pins only change when there is no message *)
BindInv ==
  /\ Busy => driver = "bound"
  /\ driver \in {"request", "route", "direct", "undo", "undo unroute", "set up", "start"}
       => message = << >>

BusInv == BusType /\ CmdInv /\ BindInv /\ FrameIsMessage /\ MessageExecuted

LEMMA InitBusInv == Init => BusInv
<1> SUFFICES ASSUME Init PROVE BusInv
  OBVIOUS
<1>1. Len(<< >>) = 0 /\ Len(message) = 0 /\ ~Busy
  BY DEF Init, Busy
<1>2. BusType
  BY <1>1 DEF Init, BusType
<1> QED BY <1>1, <1>2 DEF Init, BusInv, CmdInv, BindInv, FrameIsMessage, MessageExecuted

LEMMA MessageIs ==
  ASSUME NEW m \in Messages
  PROVE  m \in Seq(Transfer) /\ Len(m) \in 1 .. 4 /\ m # << >>
<1>1. Shape(m)
  BY MessagesShaped
<1> QED BY <1>1 DEF Shape

(* All but the bus: what goes on between two messages, and users of pins *)
LEMMA BusElsewhere ==
  ASSUME BusInv, UNCHANGED messageVars,
         \/ Wired' = Wired /\ driver' = driver
         \/ /\ ~Busy
            /\ driver' \in {"request", "route", "direct", "undo", "undo unroute", "set up",
                            "start", "bound"} => message = << >>
  PROVE  BusInv'
<1>1. /\ UNCHANGED <<chip, message, sent, curr_cmd, curr_cmd_bytes, frame, executed>>
      /\ Busy' = Busy
  BY DEF messageVars, Busy
<1>2. BusType' /\ CmdInv'
  BY <1>1 DEF BusInv, BusType, CmdInv
<1>3. BindInv'
  BY <1>1 DEF BusInv, BindInv
<1>4. FrameIsMessage'
  <2>1. CASE ~Busy
    BY <1>1, <2>1 DEF BusInv, FrameIsMessage
  <2>2. CASE Wired' = Wired
    BY <1>1, <2>2 DEF BusInv, FrameIsMessage
  <2> QED BY <2>1, <2>2
<1>5. MessageExecuted'
  BY <1>1 DEF BusInv, MessageExecuted
<1> QED BY <1>2, <1>3, <1>4, <1>5 DEF BusInv

LEMMA BusDriver ==
  ASSUME BusInv,
         \/ RequestPin \/ RoutePin \/ DirectPin \/ RequestPinFails
         \/ FreePin \/ UnroutePin \/ SetUp \/ StartBus \/ Remove
  PROVE  BusInv'
<1>1. UNCHANGED messageVars
  BY DEF RequestPin, RoutePin, DirectPin, RequestPinFails, FreePin, UnroutePin, SetUp, StartBus, Remove
<1>2. CASE Remove
  <2>1. ~Busy /\ driver' = "free"
    BY <1>2 DEF Remove, GoesTo
  <2> QED BY <1>1, <2>1, BusElsewhere
<1>3. CASE driver \in {"free", "unroute"} /\ (FreePin \/ UnroutePin)
  <2>1. driver' \in {"free", "unroute", "unbound"}
    BY <1>3 DEF FreePin, UnroutePin, GoesTo
  <2>2. ~Busy
    BY <1>3 DEF BusInv, BindInv
  <2> QED BY <1>1, <2>1, <2>2, BusElsewhere
<1>4. CASE driver \in {"request", "route", "direct", "undo", "undo unroute", "set up", "start"}
  <2>1. ~Busy /\ message = << >>
    BY <1>4 DEF BusInv, BindInv
  <2> QED BY <1>1, <2>1, BusElsewhere
<1> QED BY <1>2, <1>3, <1>4
        DEF RequestPin, RoutePin, DirectPin, RequestPinFails, FreePin, UnroutePin, SetUp, StartBus

LEMMA BusUser ==
  ASSUME BusInv, UserNext, UNCHANGED <<messageVars, driverVars>>
  PROVE  BusInv'
<1>1. routed' = routed
  BY DEF UserNext, UserRequests, UserDirects, UserFrees
<1>2. Wired' = Wired /\ driver' = driver
  BY <1>1 DEF driverVars, Wired
<1> QED BY <1>2, BusElsewhere

LEMMA BusProbe ==
  ASSUME BusInv, Probe
  PROVE  BusInv'
<1>1. /\ driver = "unbound" /\ driver' = "request"
      /\ message' = << >> /\ sent' = 0 /\ Len(<< >>) = 0
      /\ UNCHANGED <<chip, curr_cmd, curr_cmd_bytes, frame, executed>>
  BY DEF Probe, GoesTo
<1>2. ~Busy /\ ~Busy'
  BY <1>1 DEF BusInv, BindInv, Busy
<1>3. BusType'
  BY <1>1 DEF BusInv, BusType
<1>4. CmdInv' /\ BindInv'
  BY <1>1, <1>2 DEF BusInv, CmdInv, BindInv
<1>5. FrameIsMessage' /\ MessageExecuted'
  BY <1>1, <1>2 DEF BusInv, CmdInv, FrameIsMessage, MessageExecuted
<1> QED BY <1>3, <1>4, <1>5 DEF BusInv

LEMMA BusStart ==
  ASSUME BusInv, NEW c \in Chips, NEW m \in Messages, StartMessage(c, m)
  PROVE  BusInv'
<1>1. /\ driver = "bound" /\ ~Busy /\ driver' = driver
      /\ chip' = c /\ message' = m /\ sent' = 0
      /\ executed' = [d \in Chips |-> << >>]
      /\ UNCHANGED <<curr_cmd, curr_cmd_bytes, frame>>
  BY DEF StartMessage, driverVars
<1>2. Len(m) \in 1 .. 4
  BY MessageIs
<1>3. Busy'
  BY <1>1, <1>2 DEF Busy
<1>4. BusType'
  BY <1>1, <1>2 DEF BusInv, BusType
<1>5. CmdInv' /\ BindInv'
  BY <1>1, <1>3 DEF BusInv, CmdInv, BindInv
<1>6. \A d \in Chips : frame[d] = << >>
  <2>1. ~Busy
    BY <1>1
  <2>2. frame[chip] = << >> /\ \A d \in Chips \ {chip} : frame[d] = << >>
    BY <2>1 DEF BusInv, FrameIsMessage
  <2> QED BY <2>2
<1>7. SubSeq(m, 1, 0) = << >>
  BY SubSeqEmpty
<1>8. FrameIsMessage'
  BY <1>1, <1>6, <1>7 DEF FrameIsMessage
<1>9. MessageExecuted'
  BY <1>3 DEF MessageExecuted
<1> QED BY <1>4, <1>5, <1>8, <1>9 DEF BusInv

(* cns3xxx_spi_txrx sees the end of a message at its last transfer and at no *)
(* other one.                                                                *)
LEMMA TxrxEnds ==
  ASSUME BusInv, Txrx, NEW m \in Messages, m = message, NEW k \in 1 .. Len(m), k = sent + 1
  PROVE  /\ OnWires(m[k], k = Len(m))
         /\ curr_cmd' = IF k = Len(m) THEN 0 ELSE m[1].what
         /\ curr_cmd_bytes' = IF k = Len(m) THEN 0 ELSE Bytes(m, k)
<1>1. Shape(m)
  BY MessagesShaped
<1>2. k \in 1 .. 4 /\ m[k] \in Transfer /\ m[1] \in Transfer
  BY <1>1 DEF Shape
<1>3. EndsAt(m, k) <=> k = Len(m)
  BY <1>1 DEF Shape
<1>4. Busy /\ (TxTransfer(m[k]) \/ RxTransfer(m[k]))
  BY DEF Txrx
<1>5. CASE RxTransfer(m[k])
  <2>1. k = Len(m)
    BY <1>3, <1>5 DEF RxTransfer, EndsAt
  <2>2. (k = Len(m)) = TRUE
    BY <2>1
  <2> QED BY <1>5, <2>1, <2>2 DEF RxTransfer
<1>6. CASE TxTransfer(m[k])
  <2> DEFINE new == curr_cmd = 0
             cmd == IF new THEN m[k].what ELSE curr_cmd
             bytes == IF new THEN m[k].len - 1 ELSE curr_cmd_bytes + m[k].len
             eof == IsComplete(cmd, bytes)
  <2>1. /\ m[k].tx /\ OnWires(m[k], eof)
        /\ curr_cmd' = IF eof THEN 0 ELSE cmd
        /\ curr_cmd_bytes' = IF eof THEN 0 ELSE bytes
    BY <1>6 DEF TxTransfer
  <2>2. cmd = m[1].what /\ bytes = Bytes(m, k)
    <3>1. CASE k = 1
      <4>1. curr_cmd = 0
        BY <3>1 DEF BusInv, CmdInv, BusType
      <4> QED BY <3>1, <4>1 DEF Bytes
    <3>2. CASE k # 1
      <4>1. sent > 0 /\ sent = k - 1
        BY <3>2 DEF BusInv, BusType
      <4>2. curr_cmd = m[1].what /\ curr_cmd_bytes = Bytes(m, k - 1)
        BY <1>4, <4>1 DEF BusInv, CmdInv
      <4>3. m[1].what # 0
        BY <1>1 DEF Shape
      <4>4. Bytes(m, k) = Bytes(m, k - 1) + m[k].len
        BY <1>2, <3>2 DEF Bytes, Transfer
      <4> QED BY <4>2, <4>3, <4>4
    <3> QED BY <3>1, <3>2
  <2>3. eof <=> k = Len(m)
    BY <1>3, <2>1, <2>2 DEF EndsAt
  <2>4. eof = (k = Len(m))
    BY <2>3 DEF IsComplete
  <2> HIDE DEF eof, cmd, bytes
  <2> QED BY <2>1, <2>2, <2>4
<1> QED BY <1>4, <1>5, <1>6

LEMMA BusTxrx ==
  ASSUME BusInv, Txrx
  PROVE  BusInv'
<1>1. message # << >> /\ message \in Messages
  <2>1. Len(<< >>) = 0
    OBVIOUS
  <2> QED BY <2>1 DEF Txrx, Busy, BusInv, BusType
<1>2. PICK m \in Messages : m = message
  BY <1>1
<1>3. m \in Seq(Transfer) /\ Len(m) \in 1 .. 4 /\ m # << >>
  BY MessageIs
<1>4. PICK k \in 1 .. Len(m) : k = sent + 1
  BY <1>2, <1>3 DEF BusInv, BusType, Txrx, Busy
<1>5. /\ OnWires(m[k], k = Len(m))
      /\ curr_cmd' = IF k = Len(m) THEN 0 ELSE m[1].what
      /\ curr_cmd_bytes' = IF k = Len(m) THEN 0 ELSE Bytes(m, k)
  BY <1>2, <1>4, TxrxEnds
<1>6. /\ Busy /\ sent' = k /\ message' = m /\ chip' = chip /\ chip \in Chips
      /\ UNCHANGED driverVars /\ routed' = routed /\ Wired' = Wired
  BY <1>2, <1>4 DEF Txrx, BusInv, BusType, driverVars, pinVars, Wired
<1>7. Busy' <=> k # Len(m)
  BY <1>3, <1>4, <1>6 DEF Busy
<1>8. SubSeq(m, 1, k) = Append(SubSeq(m, 1, sent), m[k]) /\ SubSeq(m, 1, Len(m)) = m
  <2>0. sent \in Int
    BY DEF BusInv, BusType
  <2>1. 1 \in 1 .. Len(m) /\ k \in 1 .. Len(m) /\ k - 1 = sent /\ sent \in Int
    BY <1>3, <1>4, <2>0
  <2>2. SubSeq(m, 1, k) = SubSeq(m, 1, sent) \o <<m[k]>>
    BY <1>3, <2>1, SubSeqRecursiveSecond
  <2>3. m[k] \in Transfer /\ SubSeq(m, 1, sent) \in Seq(Transfer)
    <3>1. \A i \in 1 .. sent : m[i] \in Transfer
      BY <1>3, <1>4, <2>1
    <3> QED BY <1>3, <2>1, <3>1, SubSeqProperties
  <2> QED BY <1>3, <2>2, <2>3, AppendIsConcat, SubSeqFull
<1>9. /\ frame[chip] = IF Wired THEN SubSeq(m, 1, sent) ELSE << >>
      /\ executed[chip] = << >>
      /\ \A c \in Chips \ {chip} : frame[c] = << >> /\ executed[c] = << >>
      /\ DOMAIN frame = Chips
  BY <1>2, <1>6 DEF BusInv, FrameIsMessage, BusType
<1>10. /\ DOMAIN frame' = Chips /\ executed' \in [Chips -> Messages \cup {<< >>}]
       /\ frame'[chip] = IF Wired /\ k # Len(m) THEN SubSeq(m, 1, k) ELSE << >>
       /\ executed'[chip] = IF Wired /\ k = Len(m) THEN m ELSE << >>
       /\ \A c \in Chips \ {chip} : frame'[c] = << >> /\ executed'[c] = << >>
  <2>0. executed \in [Chips -> Messages \cup {<< >>}]
    BY DEF BusInv, BusType
  <2>1. CASE ~Wired
    <3>1. UNCHANGED <<frame, executed>>
      BY <1>5, <2>1 DEF OnWires
    <3> QED BY <1>9, <2>0, <2>1, <3>1
  <2>2. CASE Wired /\ k # Len(m)
    <3>1. frame' = [frame EXCEPT ![chip] = Append(@, m[k])] /\ executed' = executed
      BY <1>5, <2>2 DEF OnWires
    <3> QED BY <1>6, <1>8, <1>9, <2>0, <2>2, <3>1
  <2>3. CASE Wired /\ k = Len(m)
    <3>1. /\ executed' = [executed EXCEPT ![chip] = @ \o Append(frame[chip], m[k])]
          /\ frame' = [frame EXCEPT ![chip] = << >>]
      BY <1>5, <2>3 DEF OnWires
    <3>2. executed'[chip] = << >> \o Append(SubSeq(m, 1, sent), m[k])
      BY <1>6, <1>9, <2>0, <2>3, <3>1
    <3>3. Append(SubSeq(m, 1, sent), m[k]) = m
      BY <1>8, <2>3
    <3>4. << >> \o m = m
      BY <1>3, ConcatEmptySeq
    <3> QED BY <1>6, <1>9, <2>0, <2>3, <3>1, <3>2, <3>3, <3>4
  <2> QED BY <2>1, <2>2, <2>3
<1>11. BusType'
  BY <1>3, <1>4, <1>6, <1>10 DEF BusInv, BusType
<1>12. CmdInv'
  BY <1>3, <1>4, <1>5, <1>6, <1>7 DEF CmdInv
<1>13. BindInv'
  BY <1>2, <1>3, <1>6 DEF BusInv, BindInv, driverVars
<1>14. FrameIsMessage'
  BY <1>6, <1>7, <1>10 DEF FrameIsMessage
<1>15. MessageExecuted'
  BY <1>5, <1>6, <1>7, <1>10 DEF MessageExecuted
<1> QED BY <1>11, <1>12, <1>13, <1>14, <1>15 DEF BusInv

LEMMA BusInvariant == Spec => []BusInv
<1>1. BusInv /\ [Next]_vars => BusInv'
  <2> SUFFICES ASSUME BusInv, [Next]_vars PROVE BusInv'
    OBVIOUS
  <2>1. CASE UNCHANGED vars
    BY <2>1, BusElsewhere DEF vars, driverVars, pinVars, Wired
  <2>2. CASE \E c \in Chips, m \in Messages : StartMessage(c, m)
    BY <2>2, BusStart
  <2>3. CASE UserNext /\ UNCHANGED <<messageVars, driverVars>>
    BY <2>3, BusUser
  <2> QED BY <2>1, <2>2, <2>3, BusProbe, BusDriver, BusTxrx DEF Next
<1> QED BY <1>1, InitBusInv, PTL DEF Spec

(* The chip select is held from the first transfer of a message to its last  *)
(* (cns3xxx_spi_txrx), for every mix of messages and chips.                  *)
THEOREM FrameIsMessageHolds == Spec => []FrameIsMessage
<1>1. BusInv => FrameIsMessage
  BY DEF BusInv
<1> QED BY <1>1, BusInvariant, PTL

(* A message that is done was executed as one transaction, and leaves        *)
(* nothing in the statics (curr_cmd, curr_cmd_bytes).                        *)
THEOREM MessageExecutedHolds == Spec => []MessageExecuted
<1>1. BusInv => MessageExecuted
  BY DEF BusInv
<1> QED BY <1>1, BusInvariant, PTL
-----------------------------------------------------------------------------
FlagsType ==
  /\ failed \in BOOLEAN /\ spi_on \in BOOLEAN
  /\ routed \subseteq Pins /\ output \subseteq Pins
  /\ userPins \subseteq Pins /\ lost \subseteq Pins

LEMMA FlagsInvariant == Spec => [](FlagsType /\ PinInv)
<1>1. Init => FlagsType
  BY DEF Init, PinsInit, FlagsType
<1>2. FlagsType /\ PinInv /\ [Next]_vars => FlagsType'
  <2> SUFFICES ASSUME FlagsType, PinInv, [Next]_vars PROVE FlagsType'
    OBVIOUS
  <2>1. pin \in Pins
    BY DEF PinInv, PinType
  <2>2. CASE UNCHANGED <<driverVars, pinVars>>
    BY <2>2 DEF FlagsType, driverVars, pinVars
  <2>3. CASE (\E c \in Chips, m \in Messages : StartMessage(c, m)) \/ Txrx \/ UNCHANGED vars
    BY <2>2, <2>3 DEF StartMessage, Txrx, vars
  <2>4. CASE Probe \/ RequestPinFails \/ SetUp \/ StartBus \/ Remove
    BY <2>4 DEF FlagsType, Probe, RequestPinFails, SetUp, StartBus, Remove, pinVars
  <2>5. CASE RequestPin \/ RoutePin \/ DirectPin
    BY <2>1, <2>5 DEF FlagsType, RequestPin, RoutePin, DirectPin, Route, DirectionInput
  <2>6. CASE FreePin \/ UnroutePin
    BY <2>1, <2>6 DEF FlagsType, FreePin, UnroutePin, GpioFree, Unroute
  <2>7. CASE UserNext /\ UNCHANGED <<messageVars, driverVars>>
    <3>1. PICK p \in Pins : UserRequests(p) \/ UserDirects(p) \/ UserFrees(p)
      BY <2>7 DEF UserNext
    <3>2. failed' = failed /\ spi_on' = spi_on
      BY <2>7 DEF driverVars
    <3> QED BY <3>1, <3>2 DEF FlagsType, UserRequests, UserDirects, UserFrees, GpioFree,
                              DirectionInput, DirectionOutput
  <2> QED BY <2>3, <2>4, <2>5, <2>6, <2>7 DEF Next
<1> QED BY <1>1, <1>2, PinInvariant, PTL DEF Spec

LEMMA CmdTyped == BusInv => curr_cmd \in Cmds \cup {0, Byte} /\ curr_cmd_bytes \in Nat
<1> SUFFICES ASSUME BusInv PROVE curr_cmd \in Cmds \cup {0, Byte} /\ curr_cmd_bytes \in Nat
  OBVIOUS
<1>1. CASE ~(Busy /\ sent > 0)
  BY <1>1 DEF BusInv, CmdInv
<1>2. CASE Busy /\ sent > 0
  <2>1. curr_cmd = message[1].what /\ curr_cmd_bytes = Bytes(message, sent)
    BY <1>2 DEF BusInv, CmdInv
  <2>2. message \in Messages /\ sent < Len(message)
    <3>1. Len(<< >>) = 0
      OBVIOUS
    <3> QED BY <1>2, <3>1 DEF BusInv, BusType, Busy
  <2>3. message \in Seq(Transfer) /\ Len(message) \in 1 .. 4 /\ message[1].len >= 1
    BY <2>2, MessagesShaped DEF Shape
  <2>4. sent \in 1 .. 3 /\ \A k \in 1 .. Len(message) : message[k] \in Transfer
    <3>1. sent \in Int /\ sent >= 1
      BY <1>2 DEF BusInv, BusType
    <3>2. PICK n \in 1 .. 4 : sent < n
      BY <2>2, <2>3
    <3>3. sent \in 1 .. 3
      BY <3>1, <3>2
    <3>4. \A k \in 1 .. Len(message) : message[k] \in Transfer
      BY <2>3
    <3> QED BY <3>3, <3>4
  <2>5. message[1].what \in Cmds \cup {Byte} /\ message[1].len - 1 \in Nat
    BY <2>3, <2>4 DEF Transfer
  <2>6. sent >= 2 => message[2].len \in Nat
    BY <2>2, <2>3, <2>4 DEF Transfer
  <2>7. sent >= 3 => message[3].len \in Nat
    BY <2>2, <2>3, <2>4 DEF Transfer
  <2>8. Bytes(message, sent) \in Nat
    <3>1. CASE sent = 1
      BY <2>5, <3>1 DEF Bytes
    <3>2. CASE sent = 2
      BY <2>5, <2>6, <3>2 DEF Bytes
    <3>3. CASE sent = 3
      BY <2>5, <2>6, <2>7, <3>3 DEF Bytes
    <3> QED BY <2>4, <3>1, <3>2, <3>3
  <2> QED BY <2>1, <2>5, <2>8
<1> QED BY <1>1, <1>2

LEMMA FrameShort == BusInv => \A c \in Chips : Len(frame[c]) <= Len(message)
<1> SUFFICES ASSUME BusInv, NEW c \in Chips PROVE Len(frame[c]) <= Len(message)
  OBVIOUS
<1>1. Len(<< >>) = 0
  OBVIOUS
<1>2. Len(message) \in Nat
  BY <1>1, MessageIs DEF BusInv, BusType
<1>3. CASE frame[c] = << >>
  BY <1>1, <1>2, <1>3
<1>4. CASE c = chip /\ Busy /\ frame[chip] = SubSeq(message, 1, sent)
  <2>1. message \in Messages
    BY <1>1, <1>4 DEF BusInv, BusType, Busy
  <2>2. message \in Seq(Transfer) /\ sent \in Int /\ 0 <= sent /\ sent <= Len(message)
    BY <1>2, <2>1, MessageIs DEF BusInv, BusType
  <2>3. \A i \in 1 .. sent : message[i] \in Transfer
    BY <2>2
  <2>4. Len(SubSeq(message, 1, sent)) = IF 1 <= sent THEN sent - 1 + 1 ELSE 0
    BY <2>2, <2>3, SubSeqProperties
  <2> QED BY <1>2, <1>4, <2>2, <2>4
<1> QED BY <1>3, <1>4 DEF BusInv, FrameIsMessage

(* Every variable keeps its type: the statics hold a command and a number of *)
(* bytes, no chip has seen more than the message, and what a chip executed   *)
(* is always one whole message or nothing.                                   *)
THEOREM SpiTypeCorrect == Spec => []TypeOK
<1>1. BusInv /\ FlagsType /\ PinInv => TypeOK
  BY CmdTyped, FrameShort DEF TypeOK, BusInv, BusType, FlagsType, PinInv, PinType, DriverType
<1> QED BY <1>1, BusInvariant, FlagsInvariant, PTL
=============================================================================
