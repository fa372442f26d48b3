------------------------- MODULE MCManagerCommands -------------------------
(* Small instances of ManagerCommands. One program at a time means one     *)
(* element of Proc: a program that has ended may be followed by another.   *)
EXTENDS ManagerCommands
=============================================================================
