----------------------------- MODULE MCUpdater -----------------------------
(***************************************************************************)
(* An instance of Updater for TLC: two versions, of which the second drops *)
(* one file of the first and adds another.                                 *)
(***************************************************************************)
EXTENDS Updater

TwoVersions == {1, 2}
Contents == <<{"version.py", "dropped.py"}, {"version.py", "added.py"}>>

SomeFiles == {"version.py", "dropped.py", "added.py"}

Periodic  == {"periodic"}
OnePage   == {"page"}
TwoPages  == {"page", "other"}
Nobody    == {}
OneWorker == {"worker"}
TwoWorkers == {"worker", "second"}

AnyFault == {"backup", "replace", "sync", "record", "state",
             "restore", "restart", "kill", "raise"}
OnlySync == {"sync"}
=============================================================================
