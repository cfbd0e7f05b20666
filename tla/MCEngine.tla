------------------------------ MODULE MCEngine ------------------------------
(***************************************************************************)
(* Instances of Engine for TLC: which clients exist and which commands the *)
(* operator gives.                                                         *)
(***************************************************************************)
EXTENDS Engine

\* The background loop alone, and beside it one client asking for decisions.
NoRequest  == {}
OneRequest == {"request"}

PauseOnly      == {"pause"}
PauseAndReset  == {"pause", "reset"}
NoSavedStates  == {"pause", "reset", "restart"}
EveryCommand   == {"decide", "pause", "reset", "save", "restart"}
=============================================================================
