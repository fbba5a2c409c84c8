------------------------------ MODULE MC_Console -------------------------------
(* Intervals of two polls: a read, a write or a change of an enable bit may   *)
(* fall before the first, between the two, or after the last one.  Three      *)
(* keys are enough for a character that replaces an unread one and a Ctrl-C.  *)
EXTENDS Console
================================================================================
