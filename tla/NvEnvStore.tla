----------------------------- MODULE NvEnvStore -----------------------------
(***************************************************************************)
(* What the u-boot environment in flash promises, with no partitions, no   *)
(* flags and no crashes in sight: one environment, changed by one setenv   *)
(* at a time. A setenv happens as a whole or not at all, and nothing else  *)
(* ever changes the environment or loses it.                               *)
(***************************************************************************)
CONSTANTS Names, Vals, NULL

VARIABLES
  env,  \* the environment a reader would find, NULL if there is none
  job   \* the environment the setenv in progress is trying to save, or NULL

Begin(n, v) ==
  /\ env # NULL /\ job = NULL
  /\ job' = [env EXCEPT ![n] = v]
  /\ env' = env

TakeEffect == job # NULL /\ env' = job /\ job' = job

(* It succeeds, fails or is cut off by a crash *)
End == job # NULL /\ env' \in {env, job} /\ job' = NULL

Envs == [Names -> Vals \cup {NULL}]

Init == env \in Envs \cup {NULL} /\ job = NULL

Next ==
  \/ \E n \in Names, v \in Vals \cup {NULL} : Begin(n, v)
  \/ TakeEffect
  \/ End

Spec == Init /\ [][Next]_<<env, job>>
=============================================================================
