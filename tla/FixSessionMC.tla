---------------------------- MODULE FixSessionMC ----------------------------
(***************************************************************************)
(* FixSession with the budget of the environment given number by number in *)
(* the configuration.                                                      *)
(***************************************************************************)
EXTENDS FixSession

CONSTANTS Apps, Skips, Holes, Beats, Logoffs, Connects, Lates, Drops, Crashes, NewDays

MCLimit == [k \in Budget |->
  CASE k = "app" -> Apps [] k = "skip" -> Skips [] k = "hole" -> Holes
    [] k = "beat" -> Beats [] k = "logoff" -> Logoffs
    [] k = "connect" -> Connects [] k = "late" -> Lates
    [] k = "drop" -> Drops [] k = "crash" -> Crashes
    [] k = "newday" -> NewDays]

(* A bound of session_restart: an unsaved order and a late Logon, each of  *)
(* which changes the numbers by itself, do not meet in one behaviour.      *)
HoleOrLate == used["hole"] = 0 \/ used["late"] = 0
=============================================================================
