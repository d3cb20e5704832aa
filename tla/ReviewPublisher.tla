--------------------------- MODULE ReviewPublisher ---------------------------
(***************************************************************************)
(* One call of publishGitLabReviewRunResult (packages/nine1bot/src/review/ *)
(* gitlab-controller.ts): claim the run, check the token and the head of   *)
(* the merge request, reconcile with what is already on GitLab, post what  *)
(* is missing, finish.  The claim id of the call is the call itself.       *)
(*                                                                         *)
(* Only merge requests are modelled: a commit review takes the same path   *)
(* without the head checks, that is with every head check succeeding.      *)
(***************************************************************************)
EXTENDS ReviewServer

PublisherId(p) ==
  [run |-> publishers[p].run, by |-> p, session |-> publishers[p].session,
   allow |-> publishers[p].allow]

(* assertReviewRunIdentityCurrent asks for less than the claim does.       *)
PublisherCurrent(p) == IsPublicationClaimCurrent(store, PublisherId(p))

PublisherEnds(p, outcome) ==
  publishers' = [publishers EXCEPT ![p] =
    [IdlePublisher EXCEPT !.pc = outcome,
       !.run = publishers[p].run, !.caller = publishers[p].caller]]

PublisherWaits(p, pc) == publishers' = [publishers EXCEPT ![p].pc = pc]

(***************************************************************************)
(* Entry                                                                   *)
(***************************************************************************)

(* reviewRunResultTerminalError finds nothing, and the changes are loaded. *)
PublicationConsidered(run) ==
  /\ run.context
  /\ run.pub # "published"
  /\ \/ run.status = "failed" /\ run.pub = "partial"
     \/ run.status \in ActiveStatus /\ run.note = "none"

(* Mutant: a failed run is published like any other, reported or not.      *)
PublicationOfReportedRun(r, payload) ==
  LET run == store.runs[r] IN
  /\ run.context /\ run.status # "absent" /\ run.pub # "published"
  /\ run.pub = "none" \/ run.payload = payload
  /\ store.pubClaims[r].by = NoClaim

PublicationAccepted(r, payload) ==
  PublicationConsidered(store.runs[r]) /\ ClaimPublicationAllowed(store, r, payload)

(* The call claims the run and asks for the GitLab token.                  *)
PublisherClaims(p, caller, r, payload) ==
  LET run == store.runs[r]
      resume == run.pub # "none"
  IN  /\ publishers[p].pc = "idle"
      /\ PublicationAccepted(r, payload)
      /\ Persist(ClaimPublication(store, r, p, payload), 0)
      /\ publishers' = [publishers EXCEPT ![p] =
           [IdlePublisher EXCEPT
              !.pc = "secret", !.caller = caller, !.run = r, !.payload = payload,
              !.session = run.session, !.resume = resume,
              !.allow = resume /\ run.status = "failed"]]

(* The stage result does not parse, or is over the publication budget.     *)
ResultInvalid(r) ==
  /\ PublicationConsidered(store.runs[r])
  /\ LET run == store.runs[r]
     IN  Persist(UpdateIfCurrent(store, r, run.session, WithStatus(run, "failed", "other")), 0)

(* POST /gitlab/runs/:runId/publish                                        *)
ManagementPublish(p, r, payload) ==
  /\ PublisherClaims(p, "management", r, payload)
  /\ UNCHANGED <<crashes, attempts, notifiers, remote, late>>

ManagementPublishInvalid(r) ==
  /\ ResultInvalid(r)
  /\ UNCHANGED <<crashes, attempts, publishers, notifiers, remote, late>>

(***************************************************************************)
(* Preparation: prepareGitLabReviewPublication                             *)
(***************************************************************************)

(* Mutant: the claim is given back and the run is left as it is.           *)
PreparationOnlyReleases(p) ==
  /\ PublisherEnds(p, "failed")
  /\ Persist(ReleasePublicationClaim(store, PublisherId(p), publishers[p].resume), 0)

(* The preparation failed: give the claim back, and fail a run that is     *)
(* still current.  Either save may fail, and the claim then stays.         *)
PreparationFails(p) ==
  LET self == publishers[p]
      released == ReleasePublicationClaim(store, PublisherId(p), self.resume)
      run == released.runs[self.run]
      failed == IF IdentityCurrent(released, self.run, self.session)
                THEN UpdateIfCurrent(released, self.run, self.session,
                                     WithStatus(run, "failed", "other"))
                ELSE released
  IN  /\ PublisherEnds(p, "failed")
      /\ \/ Persist(failed, 0)
         \/ released # store /\ InMemory(store, 1)
         \/ failed # released /\ Persist(released, 1)

PublisherHasToken(p) ==
  /\ publishers[p].pc = "secret"
  /\ PublisherCurrent(p)
  /\ PublisherWaits(p, "head")
  /\ UNCHANGED <<storeVars, crashes, attempts, notifiers, remote, late>>

(* The token is missing or unavailable, the head cannot be read, or the    *)
(* call lost its run meanwhile.                                            *)
PublisherUnprepared(p) ==
  /\ publishers[p].pc \in {"secret", "head"}
  /\ PreparationFails(p)
  /\ UNCHANGED <<crashes, attempts, notifiers, remote, late>>

(* The merge request has moved on since the run was triggered.             *)
PublisherHeadChanged(p) ==
  LET self == publishers[p]
      rejected == UpdateIfCurrent(store, self.run, self.session,
                    WithStatus(store.runs[self.run], "rejected", "policy"))
      released == ReleasePublicationClaim(rejected, PublisherId(p), self.resume)
  IN  /\ self.pc = "head"
      /\ PublisherCurrent(p)
      /\ PublisherEnds(p, "failed")
      /\ Persist(released, 0) \/ (released # rejected /\ Persist(rejected, 1))
      /\ UNCHANGED <<crashes, attempts, notifiers, remote, late>>

(***************************************************************************)
(* Posting                                                                 *)
(***************************************************************************)

(* With these markers completed the call goes on to its next comment.      *)
PublisherContinues(p, done) ==
  IF NextOperations(done) = {}
  THEN publishers' = [publishers EXCEPT ![p].pc = "finish", ![p].done = done, ![p].pending = {}]
  ELSE \E m \in NextOperations(done) :
         publishers' = [publishers EXCEPT ![p].pc = "check", ![p].done = done,
                                          ![p].pending = {}, ![p].op = m]

(* failPublication in the catch block, after n saves that failed.          *)
PublisherFails(p, n) ==
  /\ PublisherEnds(p, "failed")
  /\ \/ Persist(FailPublication(store, PublisherId(p)), n)
     \/ HoldsPublication(store, PublisherId(p)) /\ InMemory(store, n + 1)

PublisherHeadVerified(p) ==
  LET self == publishers[p] IN
  /\ self.pc = "head"
  /\ PublisherCurrent(p)
  /\ IF self.resume THEN PublisherWaits(p, "list") ELSE PublisherContinues(p, {})
  /\ UNCHANGED <<storeVars, crashes, attempts, notifiers, remote, late>>

(* Mutant: a resumed call trusts the markers in the store.                 *)
PublisherTrustsStore(p) ==
  LET id == PublisherId(p)
      found == store.runs[id.run].done
  IN  /\ publishers[p].pc = "list"
      /\ PublisherCurrent(p)
      /\ Persist(ReplacePublicationMarkers(store, id, found), 0)
      /\ PublisherContinues(p, found)
      /\ UNCHANGED <<crashes, attempts, notifiers, remote, late>>

(* reconcileGitLabReviewPublication: what is on GitLab replaces what the   *)
(* store remembers.                                                        *)
PublisherReconciles(p) ==
  LET id == PublisherId(p)
      found == Visible(id.run)
  IN  /\ publishers[p].pc = "list"
      /\ PublisherCurrent(p)
      /\ Persist(ReplacePublicationMarkers(store, id, found), 0)
      /\ PublisherContinues(p, found)
      /\ UNCHANGED <<crashes, attempts, notifiers, remote, late>>

(* A listing fails or is ambiguous, or the markers cannot be saved.        *)
PublisherReconcileFails(p) ==
  /\ publishers[p].pc = "list"
  /\ PublisherFails(p, 0) \/ (PublisherCurrent(p) /\ PublisherFails(p, 1))
  /\ UNCHANGED <<crashes, attempts, notifiers, remote, late>>

(* assertGitLabReviewWriteHeadCurrent passes and the request goes out.     *)
PublisherSends(p) ==
  /\ publishers[p].pc = "check"
  /\ PublisherCurrent(p)
  /\ publishers' = [publishers EXCEPT ![p].pc = "sent", ![p].landed = FALSE]
  /\ UNCHANGED <<storeVars, crashes, attempts, notifiers, remote, late>>

(* The head cannot be read, or the claim was lost while reading it.        *)
PublisherCheckFails(p) ==
  /\ publishers[p].pc = "check"
  /\ PublisherFails(p, 0)
  /\ UNCHANGED <<crashes, attempts, notifiers, remote, late>>

PublisherCheckRejects(p) ==
  LET id == PublisherId(p) IN
  /\ publishers[p].pc = "check"
  /\ PublisherCurrent(p)
  /\ PublisherEnds(p, "failed")
  /\ Persist(RejectPublicationForPolicy(store, id), 0) \/ InMemory(store, 1)
  /\ UNCHANGED <<crashes, attempts, notifiers, remote, late>>

PublisherRequest(p) ==
  [run |-> publishers[p].run, op |-> publishers[p].op,
   payload |-> publishers[p].payload, by |-> p]

GitLabTakesResult(p) ==
  /\ publishers[p].pc = "sent" /\ ~publishers[p].landed
  /\ remote' = Taken(PublisherRequest(p))
  /\ publishers' = [publishers EXCEPT ![p].landed = TRUE]
  /\ UNCHANGED <<storeVars, crashes, attempts, notifiers, late>>

(* Mutant: no answer is taken for a good one.                              *)
PublisherAssumesConfirmed(p) ==
  /\ publishers[p].pc = "sent"
  /\ PublisherCurrent(p)
  /\ publishers' = [publishers EXCEPT ![p].pc = "record", ![p].pending = Carried(publishers[p].op)]
  /\ UNCHANGED <<storeVars, crashes, attempts, notifiers, remote, late>>

(* GitLab confirms the comment and the call is still current.              *)
PublisherConfirmed(p) ==
  LET self == publishers[p] IN
  /\ self.pc = "sent" /\ self.landed
  /\ PublisherCurrent(p)
  /\ publishers' = [publishers EXCEPT ![p].pc = "record", ![p].pending = Carried(self.op)]
  /\ UNCHANGED <<storeVars, crashes, attempts, notifiers, remote, late>>

(* GitLab answers 400 to an inline discussion: its fallback note is next.  *)
PublisherPositionRefused(p) ==
  LET self == publishers[p] IN
  /\ self.pc = "sent" /\ ~self.landed
  /\ self.op.kind = "inline"
  /\ PublisherCurrent(p)
  /\ publishers' = [publishers EXCEPT ![p].pc = "check", ![p].op = FallbackMarker(self.op.finding)]
  /\ UNCHANGED <<storeVars, crashes, attempts, notifiers, remote, late>>

(* Any other answer, no answer in time, or a claim lost meanwhile.         *)
PublisherUnconfirmed(p) ==
  /\ publishers[p].pc = "sent"
  /\ PublisherFails(p, 0)
  /\ late' = GivenUp(PublisherRequest(p), publishers[p].landed)
  /\ UNCHANGED <<crashes, attempts, notifiers, remote>>

(* onMarkerCompleted, one marker of the comment at a time.                 *)
PublisherRecords(p) ==
  LET self == publishers[p] IN
  /\ self.pc = "record"
  /\ PublisherCurrent(p)
  /\ \E m \in self.pending :
       /\ Summary \in self.pending => m = Summary
       /\ Persist(RecordPublicationMarker(store, PublisherId(p), m), 0)
       /\ IF self.pending = {m}
          THEN PublisherContinues(p, self.done \cup {m})
          ELSE publishers' = [publishers EXCEPT ![p].done = @ \cup {m}, ![p].pending = @ \ {m}]
  /\ UNCHANGED <<crashes, attempts, notifiers, remote, late>>

PublisherRecordFails(p) ==
  /\ publishers[p].pc = "record"
  /\ IF PublisherCurrent(p) THEN PublisherFails(p, 1) ELSE PublisherFails(p, 0)
  /\ UNCHANGED <<crashes, attempts, notifiers, remote, late>>

(* completePublication; status is that of the stage result.  When the save *)
(* fails the publication is released as partial, on disk if that works.    *)
PublisherFinishes(p, status) ==
  LET id == PublisherId(p) IN
  /\ publishers[p].pc = "finish"
  /\ PublisherCurrent(p)
  /\ PublicationComplete(publishers[p].done)
  /\ \/ Persist(CompletePublication(store, id, status), 0) /\ PublisherEnds(p, "published")
     \/ Persist(Saved(ReleaseAsPartial(store, id), id.run), 1) /\ PublisherEnds(p, "failed")
     \/ InMemory(ReleaseAsPartial(store, id), 2) /\ PublisherEnds(p, "failed")
  /\ UNCHANGED <<crashes, attempts, notifiers, remote, late>>

PublisherFinishFails(p) ==
  /\ publishers[p].pc = "finish"
  /\ ~(PublisherCurrent(p) /\ PublicationComplete(publishers[p].done))
  /\ PublisherFails(p, 0)
  /\ UNCHANGED <<crashes, attempts, notifiers, remote, late>>

PublisherStep(p) ==
  \/ PublisherHasToken(p)
  \/ PublisherUnprepared(p)
  \/ PublisherHeadChanged(p)
  \/ PublisherHeadVerified(p)
  \/ PublisherReconciles(p)
  \/ PublisherReconcileFails(p)
  \/ PublisherSends(p)
  \/ PublisherCheckFails(p)
  \/ PublisherCheckRejects(p)
  \/ PublisherConfirmed(p)
  \/ PublisherPositionRefused(p)
  \/ PublisherUnconfirmed(p)
  \/ PublisherRecords(p)
  \/ PublisherRecordFails(p)
  \/ \E status \in {"blocked", "succeeded", "failed"} : PublisherFinishes(p, status)
  \/ PublisherFinishFails(p)

=============================================================================
