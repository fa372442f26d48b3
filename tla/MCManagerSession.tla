-------------------------- MODULE MCManagerSession --------------------------
(* Small instances of ManagerSession: one program, run again and again.    *)
EXTENDS ManagerSession
=============================================================================
