---------------------------- MODULE MCRunRecovery ----------------------------
(* TLC instance of RunRecovery: one request that is sent again and again, one   *)
(* key of manual resumes besides the automatic one.                             *)
EXTENDS RunRecovery
CONSTANTS q1, k1
MCRequest == {q1}
MCManualKey == {k1}
=============================================================================
