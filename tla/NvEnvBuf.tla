------------------------------ MODULE NvEnvBuf ------------------------------
(***************************************************************************)
(* The environment block in memory: how rtcnvet_do_setenv edits the list   *)
(* of "name=value" strings in place, and how rtcnvet_get_env looks a name  *)
(* up (drivers/rtc/rtc-cns3xxx-nvedit.c, CONFIG_CIRRUS_DUAL_MTD_ENV).      *)
(* Checked against the function from names to values that the list is      *)
(* meant to be. What flash does with the block is NvEnv's business.        *)
(***************************************************************************)
EXTENDS NvEnvVars, Integers, Sequences, FiniteSetsExt

CONSTANTS
  Size,     \* ed.size - ENV_HEADER_SIZE: the bytes there are for strings
  Beyond    \* how many bytes beyond the block are kept an eye on

(* Names and values are sequences of characters, and these are numbers. OUT *)
(* is what lies beyond the block: no string has it, so that a byte that is  *)
(* written there shows.                                                     *)
NUL == 0
EQ == 1
OUT == -1

ASSUME BufAssumption ==
  /\ Size \in Nat /\ Size > 1 /\ Beyond \in Nat /\ Beyond >= 1
  /\ \A n \in Names : /\ n \in Seq(Int) /\ n # <<>>
                       /\ \A i \in DOMAIN n : n[i] \notin {NUL, EQ, OUT}
  /\ \A v \in Vals : v \in Seq(Int) /\ \A i \in DOMAIN v : v[i] \notin {NUL, OUT}

VARIABLES
  p,     \* the block, and the Beyond bytes after it
  value  \* what the variables should be

Cells == 0 .. Size + Beyond - 1

-----------------------------------------------------------------------------
(* Where the string that starts at j ends *)
EndOf(b, j) == Min({Size} \cup {x \in j .. Size - 1 : b[x] = NUL})

(* The first NUL that another one follows: the end of the list *)
ListEnd(b) == Min({Size} \cup {x \in 0 .. Size - 2 : b[x] = NUL /\ b[x + 1] = NUL})

(* Where strings start, as the search steps from one to the next *)
Starts(b) ==
  {j \in 0 .. Size - 1 : /\ b[0] # NUL /\ b[j] # NUL
                         /\ j = 0 \/ b[j - 1] = NUL
                         /\ j <= ListEnd(b)}

(* strstr(p+j, "="), and strcmp of what comes before it with the name *)
HasName(b, j, name) ==
  /\ EQ \in {b[x] : x \in j .. EndOf(b, j) - 1}
  /\ LET q == Min({x \in j .. EndOf(b, j) - 1 : b[x] = EQ})
     IN q - j = Len(name) /\ \A i \in 1 .. Len(name) : b[j + i - 1] = name[i]

Found(b, name) == {j \in Starts(b) : HasName(b, j, name)}

(* rtcnvet_get_env: the value of the first string with that name *)
GetEnv(b, name) ==
  IF Found(b, name) = {} THEN NULL
  ELSE LET j == Min(Found(b, name))
           k == j + Len(name) + 1
       IN [i \in 1 .. EndOf(b, k) - k |-> b[k + i - 1]]

(* The strings after it move down over the one at j; two NULs end the list,  *)
(* and what was behind them stays where it was                               *)
Remove(b, j) ==
  LET nxt == EndOf(b, j) + 1
      last == j + ListEnd(b) - nxt
  IN IF b[nxt] = NUL
     THEN [b EXCEPT ![j] = NUL, ![j + 1] = NUL]
     ELSE [x \in Cells |-> IF x < j THEN b[x]
                           ELSE IF x <= last THEN b[x + nxt - j]
                           ELSE IF x = last + 1 THEN NUL ELSE b[x]]

(* Where a new string goes: at 0, or after the NUL of the last one *)
AppendAt(b) ==
  IF ListEnd(b) > 0 /\ ListEnd(b) < Size THEN ListEnd(b) + 1 ELSE ListEnd(b)

(* The check for overflow. The lengths of the name and of the "=" are added  *)
(* up and then thrown away: `len = strlen(val)`.                             *)
Overflows(name, val, j) == Len(val) + 2 > Size - j

(* name, "=", val and two NULs *)
String(name, val) == name \o <<EQ>> \o val \o <<NUL, NUL>>

Insert(b, j, name, val) ==
  LET s == String(name, val)
  IN [x \in Cells |-> IF x \in j .. j + Len(s) - 1 THEN s[x - j + 1] ELSE b[x]]

Without_KeepOld(b, name) == b
Without(b, name) == IF Found(b, name) = {} THEN b ELSE Remove(b, Min(Found(b, name)))

-----------------------------------------------------------------------------
(* u-boot's list with no variable in it *)
BufInit ==
  /\ p = [x \in Cells |-> IF x < Size THEN NUL ELSE OUT]
  /\ value = [n \in Names |-> NULL]

(* No value: the variable is removed *)
Unset(name) ==
  /\ p' = Without(p, name)
  /\ value' = [value EXCEPT ![name] = NULL]

(* No room: "Environment overflow, deleted!" *)
SetOverflow(name, val) ==
  LET b == Without(p, name)
  IN /\ Overflows(name, val, AppendAt(b))
     /\ p' = b
     /\ value' = [value EXCEPT ![name] = NULL]

Set(name, val) ==
  LET b == Without(p, name)
  IN /\ ~Overflows(name, val, AppendAt(b))
     /\ p' = Insert(b, AppendAt(b), name, val)
     /\ value' = [value EXCEPT ![name] = val]

BufNext ==
  \E name \in Names :
    \/ Unset(name)
    \/ \E val \in Vals : SetOverflow(name, val) \/ Set(name, val)

BufSpec == BufInit /\ [][BufNext]_<<p, value>>

-----------------------------------------------------------------------------
(* The block is its bytes, and a variable has one value or none. *)
BufTypeOK ==
  /\ DOMAIN p = Cells
  /\ value \in [Names -> Vals \cup {NULL}]

(* rtcnvet_do_setenv writes to its block and to nothing else: what it appends *)
(* fits in what is left, name, "=", value and the two NULs.                   *)
NeverPastTheEnd == \A x \in Cells : x >= Size => p[x] = OUT

(* As long as that is so, the block is the environment it is meant to be: a  *)
(* variable that is set has its last value, whichever strings before it were *)
(* moved and whatever they left behind; one that was not touched keeps its   *)
(* value; a removed one is gone.                                             *)
BlockIsEnvironment ==
  NeverPastTheEnd => \A n \in Names : GetEnv(p, n) = value[n]

=============================================================================
