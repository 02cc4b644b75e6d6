---------------------------- MODULE MCControlLock ----------------------------
(* TLC instance of ControlLock: two places for processes, one death, after which *)
(* the place is taken by a new process.                                         *)
EXTENDS ControlLock
=============================================================================
