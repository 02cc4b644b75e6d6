------------------------------ MODULE MCJobQueue ------------------------------
(* TLC instances of JobQueue. *)
EXTENDS JobQueue
=============================================================================
