--------------------------------- MODULE MCRtc ---------------------------------
(***************************************************************************)
(* The instance of Rtc that TLC checks. settime is called again only while  *)
(* the record that the model began with is in flash: until a save succeeds. *)
(***************************************************************************)
EXTENDS Rtc

MCNext ==
  \/ NextButCalls
  \/ \E k \in Kinds \ {"settime"} : Calls(k)
  \/ flash \in Wanted /\ Calls("settime")

MCSpec == Init /\ [][MCNext]_vars /\ Fairness

===============================================================================
