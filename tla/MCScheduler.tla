----------------------------- MODULE MCScheduler -----------------------------
(***************************************************************************)
(* Seven tests of every kind, three threads of which two run at a time,    *)
(* two names for files, and a file that can fail to be read again.         *)
(***************************************************************************)
EXTENDS Scheduler, TLC

CONSTANTS a, b, c, d, e, f, g

MCTests == {a, b, c, d, e, f, g}
Certain ==
  a :> "success" @@ c :> "skipped" @@ d :> "failure" @@ e :> "success"
    @@ f :> "failure" @@ g :> "discarded"
MCOutcomes == {Certain @@ b :> v : v \in {"success", "failure"}}
==============================================================================
