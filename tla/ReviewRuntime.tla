----------------------------- MODULE ReviewRuntime -----------------------------
(***************************************************************************)
(* The runtime session of an attempt (startGitLabReviewRuntimeRun and its  *)
(* callbacks in opencode/packages/opencode/src/server/routes/webhooks.ts), *)
(* from the start of the session to the report of its failure.             *)
(***************************************************************************)
EXTENDS ReviewAttempts

(* Mutant: a publication does not hold a patch back.                       *)
RuntimePatchUnguarded(run) == run.status \notin {"absent", "rejected"}

(* gitLabReviewRuntimePatch lets a patch through.                          *)
RuntimePatchAllowed(run) == run.status \notin {"absent", "rejected"} /\ run.pub = "none"

(* gitLabReviewControllerResponsePatch lets a patch through.               *)
ResponsePatchAllowed(run) == run.status \in ActiveStatus /\ RuntimePatchAllowed(run)

FailAllowed(run) == RuntimePatchAllowed(run) /\ UpdateAllowed(run, [run EXCEPT !.status = "failed"])

(* failGitLabReviewRuntimeRun on the store st after n saves that failed:   *)
(* the run is failed, and that will be reported; or the save fails; or the *)
(* run is not one to fail.                                                 *)
AttemptEnds(r, pc) == attempts' = [attempts EXCEPT ![r].pc = pc, ![r].response = "done"]

RunFailed(st, r, n) ==
  /\ FailAllowed(st.runs[r])
  /\ Persist(Update(st, r, WithStatus(st.runs[r], "failed", "other")), n)
  /\ AttemptEnds(r, "reporting")

RunFailureLost(st, r, n) ==
  FailAllowed(st.runs[r]) /\ Persist(st, n) /\ AttemptEnds(r, "done")

RunFailureRefused(st, r, n) ==
  ~FailAllowed(st.runs[r]) /\ Persist(st, n) /\ AttemptEnds(r, "done")

FailsRun(r, n) ==
  RunFailed(store, r, n) \/ RunFailureLost(store, r, n + 1) \/ RunFailureRefused(store, r, n)

(* publishGitLabReviewRunResult and failGitLabReviewRuntimeRun are in one  *)
(* try block, whose catch calls failGitLabReviewRuntimeRun (again).        *)
FailsPublishedRun(st, r) ==
  \/ RunFailed(st, r, 0)
  \/ RunFailed(st, r, 1)
  \/ RunFailureLost(st, r, 2)
  \/ RunFailureRefused(st, r, 0)

(***************************************************************************)
(* Start                                                                   *)
(***************************************************************************)

DirectoryMissing(r) ==
  /\ attempts[r].pc = "starting"
  /\ AttemptSaves(r, RejectConfiguration(store, r), "done")
  /\ UNCHANGED <<crashes, publishers, notifiers, remote, late>>

(* onSessionCreated.  A run that is gone, or a save that fails, fails the  *)
(* start.                                                                  *)
SessionCreated(r) ==
  LET run == store.runs[r]
      created == Update(store, r, [run EXCEPT !.status = "running", !.session = TRUE, !.reason = "none"])
      patched == IF RuntimePatchAllowed(run) THEN created ELSE store
  IN  /\ attempts[r].pc = "starting"
      /\ run.status # "absent"
      /\ \/ /\ Persist(patched, 0)
            /\ attempts' = [attempts EXCEPT ![r].pc = "live", ![r].response = "waiting"]
         \/ patched # store /\ FailsRun(r, 1)
      /\ UNCHANGED <<crashes, publishers, notifiers, remote, late>>

StartFails(r) ==
  /\ attempts[r].pc = "starting"
  /\ FailsRun(r, 0)
  /\ UNCHANGED <<crashes, publishers, notifiers, remote, late>>

(***************************************************************************)
(* While the session runs                                                  *)
(***************************************************************************)

(* onControllerResponse: the message was accepted.                         *)
ResponseAccepted(r) ==
  LET run == store.runs[r]
      patched == IF ResponsePatchAllowed(run)
                 THEN Update(store, r, [run EXCEPT !.status = "running"]) ELSE store
  IN  /\ attempts[r].pc \in {"live", "publishing"}
      /\ attempts[r].response = "waiting"
      /\ \/ Persist(patched, 0) /\ attempts' = [attempts EXCEPT ![r].response = "done"]
         \/ patched # store /\ FailsRun(r, 1)
      /\ UNCHANGED <<crashes, publishers, notifiers, remote, late>>

(* The message was not accepted, or sending it failed, or the session ends *)
(* without a result (onFinished).  The first two also end the monitor, and *)
(* so fail the run twice: once more changes nothing.                       *)
SessionFails(r) ==
  /\ attempts[r].pc = "live"
  /\ FailsRun(r, 0)
  /\ UNCHANGED <<crashes, publishers, notifiers, remote, late>>

(* onRuntimeOutput: the session's stage result is published.               *)
RuntimeOutput(p, r, payload) ==
  /\ attempts[r].pc = "live"
  /\ PublisherClaims(p, "runtime", r, payload)
  /\ AttemptMoves(r, "publishing")
  /\ UNCHANGED <<crashes, notifiers, remote, late>>

(* The result is invalid: publishGitLabReviewRunResult fails the run, and  *)
(* then its caller does.                                                   *)
RuntimeOutputInvalid(r) ==
  LET run == store.runs[r]
      considered == IF PublicationConsidered(run)
                    THEN UpdateIfCurrent(store, r, run.session, WithStatus(run, "failed", "other"))
                    ELSE store
  IN  /\ attempts[r].pc = "live"
      /\ FailsPublishedRun(considered, r) \/ (considered # store /\ FailsRun(r, 1))
      /\ UNCHANGED <<crashes, publishers, notifiers, remote, late>>

(* The claim is refused, or cannot be saved.                               *)
RuntimeOutputRefused(r, payload) ==
  /\ attempts[r].pc = "live"
  /\ IF PublicationAccepted(r, payload) THEN FailsRun(r, 1) ELSE FailsPublishedRun(store, r)
  /\ UNCHANGED <<crashes, publishers, notifiers, remote, late>>

(* publishGitLabReviewRunResult returns to onRuntimeOutput.                *)
PublicationEnds(r) ==
  /\ attempts[r].pc = "publishing"
  /\ \E p \in PublicationClaim :
       /\ publishers[p].caller = "runtime" /\ publishers[p].run = r
       /\ \/ /\ publishers[p].pc = "published"
             /\ attempts' = [attempts EXCEPT ![r].pc = "done", ![r].response = "done"]
             /\ UNCHANGED storeVars
          \/ publishers[p].pc = "failed" /\ FailsPublishedRun(store, r)
  /\ UNCHANGED <<crashes, publishers, notifiers, remote, late>>

(***************************************************************************)
(* The report of a failure: reportStoredGitLabReviewFailure                *)
(***************************************************************************)

ReportFailure(n, r, payload) ==
  /\ attempts[r].pc = "reporting"
  /\ NotifierClaims(n, r, payload)
  /\ AttemptMoves(r, "done")
  /\ UNCHANGED <<crashes, publishers, remote, late>>

(* The claim is refused, or cannot be saved.                               *)
ReportRefused(r, payload) ==
  /\ attempts[r].pc = "reporting"
  /\ InMemory(store, IF NotificationAccepted(r, payload) THEN 1 ELSE 0)
  /\ AttemptMoves(r, "done")
  /\ UNCHANGED <<crashes, publishers, notifiers, remote, late>>

AttemptStep(r) ==
  \/ LoadMisconfigured(r)
  \/ LoadFails(r)
  \/ LoadHeadChanged(r)
  \/ LoadSucceeds(r)
  \/ LoadBlocked(r)
  \/ BlockedProceeds(r)
  \/ BlockedHeadChanged(r)
  \/ BlockedEnds(r)
  \/ DirectoryMissing(r)
  \/ SessionCreated(r)
  \/ StartFails(r)
  \/ ResponseAccepted(r)
  \/ SessionFails(r)
  \/ RuntimeOutputInvalid(r)
  \/ PublicationEnds(r)
  \/ \E payload \in Payload :
       \/ RuntimeOutputRefused(r, payload)
       \/ ReportRefused(r, payload)
       \/ \E p \in PublicationClaim : RuntimeOutput(p, r, payload)
       \/ \E n \in NoteClaim : ReportFailure(n, r, payload)

=============================================================================
