-------------------------- MODULE MCEventPipeline --------------------------
(* EventPipeline on a small instance: interchangeable workers.              *)
EXTENDS EventPipeline, TLC

WorkerSymmetry == Permutations(Workers)

=============================================================================
