---------------------------- MODULE MCBuildWork ----------------------------
(* Model-checking instance of BuildWork.                                   *)
EXTENDS BuildWork

CONSTANTS b1, b2

MCBuilds == {b1, b2}

\* Two builds whose clock only advances, or one whose clock may be set back.
MCInit ==
    /\ Init
    /\ rollbacks < MaxRollbacks => phase[b2] = "ended" /\ root[b2] = None

MCSpec == MCInit /\ [][Next]_vars /\ Fairness

\* Maintenance leaves leased work alone, and sweeps only over work that was concluded.
WorkIsSound == TypeOK /\ LeaseUndisturbed /\ SweepOnlyOverConcludedWork

=============================================================================
