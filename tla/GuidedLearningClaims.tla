------------------------ MODULE GuidedLearningClaims ------------------------
(***************************************************************************)
(* What the repository's documents and tests say of guided learning and    *)
(* the code does not do. Each formula here is refuted by a run.            *)
(***************************************************************************)
EXTENDS GuidedLearning

(* docs/tasks/backlog/T-W1-014-guided-learning-worker.yaml:65: a model     *)
(* failure is recorded as retryable and RETRY recovers from it. So while   *)
(* nothing but the model gateway fails, a session that was retried does    *)
(* not end up FAILED.                                                      *)
RetryRecoversFromModelFailures ==
  \A id \in SessionIds :
    (\E row \in failures : row.session = id /\ row.superseded) =>
      sessions[id].state # "FAILED"

(* docs/acceptance/wave1-real-byok-evidence-grounding.md:16: a repeated    *)
(* evidence key is materialised once. So answers that are well-formed and  *)
(* quote the document uniquely are accepted, also when two questions rest  *)
(* on the same passage.                                                    *)
WellFormedAnswersAreAccepted ==
  \A id \in SessionIds : sessions[id].state # "FAILED"
=============================================================================
