---------------------------- MODULE ReviewAttempts ----------------------------
(***************************************************************************)
(* The life of one review attempt: the webhook or the retry that creates   *)
(* its run and loads the changes (packages/nine1bot/src/review/            *)
(* gitlab-controller.ts), and the runtime session that reviews them and    *)
(* reports (opencode/packages/opencode/src/server/routes/webhooks.ts).     *)
(*                                                                         *)
(* Settings are not state: what they decide (a project that is rejected, a *)
(* directory that is missing) is a choice of the step that reads them.     *)
(* Dry runs and rejected mentions are not modelled.                        *)
(***************************************************************************)
EXTENDS ReviewPublisher, FailureNotifier

AttemptMoves(r, pc) == attempts' = [attempts EXCEPT ![r].pc = pc]

(* The attempt saves st and goes on; a save that fails ends it.            *)
AttemptSaves(r, st, pc) ==
  \/ Persist(st, 0) /\ AttemptMoves(r, pc)
  \/ st # store /\ InMemory(store, 1) /\ AttemptMoves(r, "done")

(***************************************************************************)
(* Webhook and retry                                                       *)
(***************************************************************************)

(* The first delivery of a trigger: the run is accepted or rejected.       *)
Deliver(t) ==
  LET r == NextRunId(store) IN
  /\ r \in RunId
  /\ AttemptsOf(store, t) = {}
  /\ \/ /\ Persist(Create(store, t, "accepted", "none"), 0)
        /\ AttemptMoves(r, "loading")
     \/ \E reason \in {"configuration", "policy"} :
          /\ Persist(Create(store, t, "rejected", reason), 0)
          /\ AttemptMoves(r, "done")
  /\ UNCHANGED <<crashes, publishers, notifiers, remote, late>>

(* isRetryableGitLabReviewAttempt                                          *)
Retryable(run) ==
  \/ IsActiveAttemptStale(run)
  \/ run.status = "rejected" /\ run.reason = "configuration"
  \/ run.status = "failed" /\ run.reason = "load_transient"

(* Mutant: the publication of the run is not looked at.                    *)
RetryIgnoringPublication(r) ==
  LET new == NextRunId(store)
  IN  /\ new \in RunId
      /\ Retryable(store.runs[r])
      /\ RetryAttemptAllowed(store, r)
      /\ Persist(CreateRetryAttempt(store, r), 0)
      /\ AttemptMoves(new, "loading")
      /\ UNCHANGED <<crashes, publishers, notifiers, remote, late>>

(* A repeated delivery of the trigger of r, or POST .../:runId/retry.      *)
Retry(r) ==
  LET run == store.runs[r]
      new == NextRunId(store)
  IN  /\ new \in RunId
      /\ Retryable(run)
      /\ run.pub = "none" /\ run.note # "notified"
      /\ RetryAttemptAllowed(store, r)
      /\ Persist(CreateRetryAttempt(store, r), 0)
      /\ AttemptMoves(new, "loading")
      /\ UNCHANGED <<crashes, publishers, notifiers, remote, late>>

(***************************************************************************)
(* Loading the changes: executeGitLabReviewAttempt                         *)
(***************************************************************************)

(* rejectGitLabReviewRuntimeConfiguration                                  *)
RejectConfiguration(st, r) ==
  LET run == st.runs[r] IN
  IF run.pub = "none" /\ run.note = "none" /\ run.status \in ActiveStatus
  THEN UpdateIfCurrent(st, r, run.session, WithStatus(run, "rejected", "configuration"))
  ELSE st

LoadMisconfigured(r) ==
  /\ attempts[r].pc = "loading"
  /\ AttemptSaves(r, RejectConfiguration(store, r), "done")
  /\ UNCHANGED <<crashes, publishers, notifiers, remote, late>>

(* A failure that may pass is left to a retry, any other one is reported.  *)
LoadFails(r) ==
  LET failed(reason) == Update(store, r, WithStatus(store.runs[r], "failed", reason)) IN
  /\ attempts[r].pc = "loading"
  /\ \/ AttemptSaves(r, failed("load_transient"), "done")
     \/ AttemptSaves(r, failed("other"), "reporting")
  /\ UNCHANGED <<crashes, publishers, notifiers, remote, late>>

LoadHeadChanged(r) ==
  /\ attempts[r].pc = "loading"
  /\ AttemptSaves(r, Update(store, r, WithStatus(store.runs[r], "rejected", "policy")), "done")
  /\ UNCHANGED <<crashes, publishers, notifiers, remote, late>>

LoadSucceeds(r) ==
  LET loaded == [store.runs[r] EXCEPT !.status = "running", !.context = TRUE] IN
  /\ attempts[r].pc = "loading"
  /\ AttemptSaves(r, Update(store, r, loaded), "starting")
  /\ UNCHANGED <<crashes, publishers, notifiers, remote, late>>

(***************************************************************************)
(* A diff that is too large: maybeWriteBlockedComment                      *)
(***************************************************************************)

(* The session of a run is set after its changes are loaded.               *)
LoaderCurrent(r) == IdentityCurrent(store, r, FALSE)

Blocked(r) == Update(store, r, [store.runs[r] EXCEPT !.status = "blocked", !.context = TRUE])

(* A run that is no longer current goes without its comment.               *)
LoadBlocked(r) ==
  /\ attempts[r].pc = "loading"
  /\ IF LoaderCurrent(r)
     THEN AttemptMoves(r, "blockedSecret") /\ UNCHANGED storeVars
     ELSE AttemptSaves(r, Blocked(r), "done")
  /\ UNCHANGED <<crashes, publishers, notifiers, remote, late>>

(* The token, the head of the merge request, and the head once more.       *)
BlockedProceeds(r) ==
  /\ LoaderCurrent(r)
  /\ \E step \in {<<"blockedSecret", "blockedHead">>, <<"blockedHead", "blockedCheck">>,
                  <<"blockedCheck", "blockedSent">>} :
       attempts[r].pc = step[1] /\ AttemptMoves(r, step[2])
  /\ UNCHANGED <<storeVars, crashes, publishers, notifiers, remote, late>>

BlockedHeadChanged(r) ==
  LET rejected == WithStatus(store.runs[r], "rejected", "policy") IN
  /\ attempts[r].pc \in {"blockedHead", "blockedCheck"}
  /\ LoaderCurrent(r)
  /\ AttemptSaves(r, UpdateIfCurrent(store, r, FALSE, rejected), "done")
  /\ UNCHANGED <<crashes, publishers, notifiers, remote, late>>

BlockedRequest(r) == [run |-> r, op |-> BlockedNote, payload |-> NoPayload, by |-> NoClaim]

GitLabTakesBlocked(r) ==
  /\ attempts[r].pc = "blockedSent" /\ ~attempts[r].landed
  /\ remote' = Taken(BlockedRequest(r))
  /\ attempts' = [attempts EXCEPT ![r].landed = TRUE]
  /\ UNCHANGED <<storeVars, crashes, publishers, notifiers, late>>

(* Whatever became of the comment, the run is blocked.                     *)
BlockedEnds(r) ==
  /\ attempts[r].pc \in {"blockedSecret", "blockedHead", "blockedCheck", "blockedSent"}
  /\ AttemptSaves(r, Blocked(r), "done")
  /\ late' = IF attempts[r].pc = "blockedSent"
             THEN GivenUp(BlockedRequest(r), attempts[r].landed) ELSE late
  /\ UNCHANGED <<crashes, publishers, notifiers, remote>>

=============================================================================
