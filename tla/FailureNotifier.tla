---------------------------- MODULE FailureNotifier ----------------------------
(***************************************************************************)
(* One call of reportGitLabReviewRunFailure (packages/nine1bot/src/review/ *)
(* gitlab-controller.ts): claim the notification of a failed run, and post *)
(* one note that says so, unless an earlier call may have posted it.  The  *)
(* claim id of the call is the call itself.                                *)
(***************************************************************************)
EXTENDS ReviewServer

NotifierId(n) == [run |-> notifiers[n].run, by |-> n, session |-> notifiers[n].session]

NotifierCurrent(n) == IsFailureNotificationClaimCurrent(store, NotifierId(n))

NotifierEnds(n, outcome) ==
  notifiers' = [notifiers EXCEPT ![n] = [IdleNotifier EXCEPT !.pc = outcome, !.run = notifiers[n].run]]

NotifierWaits(n, pc) == notifiers' = [notifiers EXCEPT ![n].pc = pc]

NotificationAccepted(r, payload) == ClaimFailureNotificationAllowed(store, r, payload)

(* The call claims the notification and asks for the GitLab token.         *)
NotifierClaims(n, r, payload) ==
  LET run == store.runs[r]
  IN  /\ notifiers[n].pc = "idle"
      /\ NotificationAccepted(r, payload)
      /\ Persist(ClaimFailureNotification(store, r, n, payload), 0)
      /\ notifiers' = [notifiers EXCEPT ![n] =
           [IdleNotifier EXCEPT
              !.pc = "secret", !.run = r, !.payload = payload, !.session = run.session,
              !.resume = run.note # "none", !.posted = run.postStarted]]

(* POST /gitlab/runs/:runId/recover-failure-notification                   *)
RecoverNotification(n, r) ==
  /\ store.runs[r].note # "none"
  /\ NotifierClaims(n, r, store.runs[r].notePayload)
  /\ UNCHANGED <<crashes, attempts, publishers, remote, late>>

(***************************************************************************)
(* The ends of a call                                                      *)
(***************************************************************************)

(* failFailureNotification, then the finally block.                        *)
NotificationFailed(n, deliveryRejected) ==
  ReleaseFailureNotificationClaim(
    FailFailureNotification(store, NotifierId(n), deliveryRejected), NotifierId(n))

(* The catch block: a save failed, and so may the one that records it.     *)
NotifierAborts(n, faults) ==
  /\ NotifierEnds(n, "failed")
  /\ \/ Persist(NotificationFailed(n, FALSE), faults)
     \/ InMemory(ReleaseFailureNotificationClaim(store, NotifierId(n)), faults + 1)

NotifierGivesUp(n, deliveryRejected) ==
  \/ NotifierEnds(n, "failed") /\ Persist(NotificationFailed(n, deliveryRejected), 0)
  \/ HoldsNotification(store, NotifierId(n)) /\ NotifierAborts(n, 1)

(* rejectFailureNotificationForPolicy, then failFailureNotification.       *)
NotifierRejects(n) ==
  LET id == NotifierId(n)
      rejected == RejectFailureNotificationForPolicy(store, id)
      failed == FailFailureNotification(rejected, id, FALSE)
  IN  \/ /\ NotifierEnds(n, "failed")
         /\ Persist(ReleaseFailureNotificationClaim(failed, id), 0)
      \/ NotifierAborts(n, 1)

(* completeFailureNotification refuses a claim that is not current.        *)
NotifierSucceeds(n) ==
  LET id == NotifierId(n) IN
  IF NotifierCurrent(n)
  THEN \/ NotifierEnds(n, "notified") /\ Persist(CompleteFailureNotification(store, id), 0)
       \/ NotifierAborts(n, 1)
  ELSE NotifierEnds(n, "failed") /\ InMemory(ReleaseFailureNotificationClaim(store, id), 0)

(***************************************************************************)
(* Steps                                                                   *)
(***************************************************************************)

(* A call that resumes an earlier one only looks for its note.             *)
NotifierHasToken(n) ==
  /\ notifiers[n].pc = "secret"
  /\ NotifierCurrent(n)
  /\ NotifierWaits(n, IF notifiers[n].resume THEN "find" ELSE "head")
  /\ UNCHANGED <<storeVars, crashes, attempts, publishers, remote, late>>

NotifierHeadVerified(n) ==
  /\ notifiers[n].pc = "head"
  /\ NotifierCurrent(n)
  /\ NotifierWaits(n, "check")
  /\ UNCHANGED <<storeVars, crashes, attempts, publishers, remote, late>>

(* findFailureNotification                                                 *)
NotifierFindsNote(n) ==
  /\ notifiers[n].pc = "find"
  /\ remote[notifiers[n].run].count[FailureNote] > 0
  /\ NotifierSucceeds(n)
  /\ UNCHANGED <<crashes, attempts, publishers, remote, late>>

(* No note is found: post one, unless an earlier post was never answered.  *)
NotifierFindsNone(n) ==
  /\ notifiers[n].pc = "find"
  /\ remote[notifiers[n].run].count[FailureNote] = 0
  /\ \/ notifiers[n].posted /\ NotifierGivesUp(n, FALSE)
     \/ ~notifiers[n].posted /\ NotifierWaits(n, "check") /\ UNCHANGED storeVars
  /\ UNCHANGED <<crashes, attempts, publishers, remote, late>>

(* No token, no answer from GitLab, or a claim lost meanwhile.             *)
NotifierBlocked(n) ==
  /\ notifiers[n].pc \in {"secret", "head", "find", "check"}
  /\ NotifierGivesUp(n, FALSE)
  /\ UNCHANGED <<crashes, attempts, publishers, remote, late>>

(* The merge request has moved on.  The update of the run to rejected that *)
(* the preparation tries is refused: the run is failed.                    *)
NotifierHeadChanged(n) ==
  /\ notifiers[n].pc \in {"head", "check"}
  /\ NotifierCurrent(n)
  /\ NotifierRejects(n)
  /\ UNCHANGED <<crashes, attempts, publishers, remote, late>>

(* The head is right: markFailureNotificationPostStarted is on disk before *)
(* the request goes out.                                                   *)
NotifierSends(n) ==
  /\ notifiers[n].pc = "check"
  /\ NotifierCurrent(n)
  /\ \/ /\ Persist(MarkFailureNotificationPostStarted(store, NotifierId(n)), 0)
        /\ notifiers' = [notifiers EXCEPT ![n].pc = "sent", ![n].landed = FALSE]
     \/ NotifierAborts(n, 1)
  /\ UNCHANGED <<crashes, attempts, publishers, remote, late>>

NotifierRequest(n) ==
  [run |-> notifiers[n].run, op |-> FailureNote, payload |-> notifiers[n].payload, by |-> n]

GitLabTakesNote(n) ==
  /\ notifiers[n].pc = "sent" /\ ~notifiers[n].landed
  /\ remote' = Taken(NotifierRequest(n))
  /\ notifiers' = [notifiers EXCEPT ![n].landed = TRUE]
  /\ UNCHANGED <<storeVars, crashes, attempts, publishers, late>>

NotifierConfirmed(n) ==
  /\ notifiers[n].pc = "sent" /\ notifiers[n].landed
  /\ NotifierCurrent(n)
  /\ NotifierSucceeds(n)
  /\ UNCHANGED <<crashes, attempts, publishers, remote, late>>

(* GitLab answers with one of the statuses that say it took nothing.       *)
NotifierRefused(n) ==
  /\ notifiers[n].pc = "sent" /\ ~notifiers[n].landed
  /\ NotifierCurrent(n)
  /\ NotifierGivesUp(n, TRUE)
  /\ UNCHANGED <<crashes, attempts, publishers, remote, late>>

(* Any other answer, no answer in time, or a claim lost meanwhile.         *)
NotifierUnconfirmed(n) ==
  /\ notifiers[n].pc = "sent"
  /\ NotifierGivesUp(n, FALSE)
  /\ late' = GivenUp(NotifierRequest(n), notifiers[n].landed)
  /\ UNCHANGED <<crashes, attempts, publishers, remote>>

NotifierStep(n) ==
  \/ NotifierHasToken(n)
  \/ NotifierHeadVerified(n)
  \/ NotifierFindsNote(n)
  \/ NotifierFindsNone(n)
  \/ NotifierBlocked(n)
  \/ NotifierHeadChanged(n)
  \/ NotifierSends(n)
  \/ NotifierConfirmed(n)
  \/ NotifierRefused(n)
  \/ NotifierUnconfirmed(n)

=============================================================================
