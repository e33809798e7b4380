-------------------------- MODULE MCExecutionWorker --------------------------
(***************************************************************************)
(* An instance of ExecutionWorker for TLC: a local and a cloud execution   *)
(* of one run; another run takes part with its cancellations.              *)
(***************************************************************************)
EXTENDS ExecutionWorker, TLC

CONSTANTS r1, r2, e1, e2

MCRequest ==
  (e1 :> [run |-> r1, tier |-> "LOCAL_ISOLATED", lacks |-> {{}, {"target"}},
          repository |-> {"ok"}, launch |-> {{}, {"env"}}]) @@
  (e2 :> [run |-> r1, tier |-> "CLOUD_GOVERNED", lacks |-> {{}, {"launcher", "target"}},
          repository |-> {"ok", "BASE_REF_NOT_ALLOWED"}, launch |-> {{}, {"env", "model"}}])
=============================================================================
