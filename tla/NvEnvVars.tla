----------------------------- MODULE NvEnvVars -----------------------------
(* The variables that an environment has, for the flash and for the block   *)
(* in memory (drivers/rtc/rtc-cns3xxx-nvedit.c).                            *)
CONSTANTS
  Names,   \* environment variables
  Vals,    \* values they can have
  NULL     \* no value, and no environment

ASSUME NullAssumption == NULL \notin Vals
=============================================================================
