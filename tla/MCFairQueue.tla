----------------------------- MODULE MCFairQueue -----------------------------
(* TLC instance of FairQueue: payloads of one or two bytes. *)
EXTENDS FairQueue
MCSizes == {1, 2}
=============================================================================
