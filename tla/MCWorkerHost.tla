---------------------------- MODULE MCWorkerHost ----------------------------
(* TLC instance of WorkerHost: a protected write, an ordinary write and a read. *)
EXTENDS WorkerHost
CONSTANTS w1, w2, r1, t1, t2
MCRequest == {w1, w2, r1}
MCWrite == {w1, w2}
MCProtected == {w1}
MCThread == {t1, t2}
=============================================================================
