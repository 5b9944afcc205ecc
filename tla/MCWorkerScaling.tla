-------------------------- MODULE MCWorkerScaling --------------------------
(* The workers of one channel, with a few calls from outside at a time. *)
EXTENDS WorkerScaling

Steps == {-5, 1}
=============================================================================
