----------------------------- MODULE GitLabReview -----------------------------
(***************************************************************************)
(* The GitLab review subsystem: webhooks and retries, the attempts they    *)
(* start, the publications and failure notifications of those attempts and *)
(* of the management routes, one server that may restart, and GitLab.      *)
(***************************************************************************)
EXTENDS ReviewRuntime

(* The process dies and starts again: what it held in memory is gone, and  *)
(* a request it had sent is lost or, with LateWrites, still on its way.    *)
Outstanding ==
  {PublisherRequest(p) : p \in {x \in PublicationClaim : publishers[x].pc = "sent" /\ ~publishers[x].landed}}
  \cup {NotifierRequest(n) : n \in {x \in NoteClaim : notifiers[x].pc = "sent" /\ ~notifiers[x].landed}}
  \cup {BlockedRequest(r) : r \in {x \in RunId : attempts[x].pc = "blockedSent" /\ ~attempts[x].landed}}

Crash ==
  /\ crashes < MaxCrashes
  /\ crashes' = crashes + 1
  /\ store' = Loaded(disk)
  /\ attempts' = [r \in RunId |->
       IF attempts[r].pc = "none" THEN NoAttempt ELSE [NoAttempt EXCEPT !.pc = "done"]]
  /\ publishers' = [p \in PublicationClaim |->
       IF publishers[p].pc \in {"idle", "published"} THEN publishers[p]
       ELSE [IdlePublisher EXCEPT !.pc = "failed", !.run = publishers[p].run]]
  /\ notifiers' = [n \in NoteClaim |->
       IF notifiers[n].pc \in {"idle", "notified"} THEN notifiers[n]
       ELSE [IdleNotifier EXCEPT !.pc = "failed", !.run = notifiers[n].run]]
  /\ late' = IF LateWrites THEN late \cup Outstanding ELSE late
  /\ UNCHANGED <<disk, diskFaults, remote>>

Management ==
  \/ \E r \in RunId : Retry(r) \/ ManagementPublishInvalid(r)
  \/ \E r \in RunId, p \in PublicationClaim, payload \in Payload : ManagementPublish(p, r, payload)
  \/ \E r \in RunId, n \in NoteClaim : RecoverNotification(n, r)

Environment ==
  \/ \E t \in Trigger : Deliver(t)
  \/ \E r \in RunId : LeaseExpires(r) \/ GitLabTakesBlocked(r)
  \/ \E p \in PublicationClaim : GitLabTakesResult(p)
  \/ \E n \in NoteClaim : GitLabTakesNote(n)
  \/ \E q \in late : LateArrival(q)
  \/ Crash

Server ==
  \/ \E r \in RunId : AttemptStep(r)
  \/ \E p \in PublicationClaim : PublisherStep(p)
  \/ \E n \in NoteClaim : NotifierStep(n)

Next == Management \/ Environment \/ Server

Spec == Init /\ [][Next]_vars

(***************************************************************************)
(* Safety                                                                  *)
(***************************************************************************)

FailurePosted(r) == remote[r].count[FailureNote] > 0

(* A merge request never shows both the result of a run and a note that    *)
(* the run failed, however publications, notifications and their retries   *)
(* interleave: claimPublication and claimFailureNotification exclude each  *)
(* other, and a publication that may have posted is never forgotten.       *)
ExclusiveOutcome == \A r \in RunId : ~(Visible(r) # {} /\ FailurePosted(r))

(* No comment of a result is posted twice, through crashes, lost answers   *)
(* and resumed publications: a resumed publication lists what is there.    *)
(* Nothing of the kind holds when writes may be late (LateWrites).         *)
NoDuplicateComment ==
  \A r \in RunId : \A m \in Marker : remote[r].count[m] <= 1

(* No finding is reported both inline and by a fallback note.              *)
NoFindingTwice ==
  \A r \in RunId : \A f \in Finding : ~({InlineMarker(f), FallbackMarker(f)} \subseteq Visible(r))

(* Nothing of a result is shown twice, in the same form or in another.     *)
NothingTwice == NoDuplicateComment /\ NoFindingTwice

(* The failure note of a run is posted at most once, even when writes may  *)
(* be late: postStartedAt is on disk before the request goes out, and a    *)
(* call that finds it set never posts.                                     *)
FailureNoteAtMostOnce == \A r \in RunId : remote[r].count[FailureNote] <= 1

(* The markers the store remembers, in memory and on disk, are on GitLab,  *)
(* and a run is "published" only when all of its result is.                *)
PublishedMeansPosted ==
  \A r \in RunId :
    /\ store.runs[r].done \cup disk.runs[r].done \subseteq Visible(r)
    /\ "published" \in {store.runs[r].pub, disk.runs[r].pub} => PublicationComplete(Visible(r))

(* Two different results are never mixed in the comments of one run: a     *)
(* publication is resumed with the payload that began it.                  *)
OnePayload == \A r \in RunId : Cardinality(remote[r].payloads) <= 1

(* A run in the state "publishing" is held by exactly the active claim it  *)
(* names; no session change, update or retry separates the two.            *)
PublishingIsClaimed ==
  \A r \in RunId :
    store.runs[r].pub = "publishing" => PublicationClaimMatches(store.runs[r], store.pubClaims[r])

(* The record of a run never holds a publication and a failure             *)
(* notification at once, whatever has become of either.                    *)
OneOutcomeInStore ==
  \A r \in RunId : store.runs[r].pub # "none" => store.runs[r].note = "none"

(* An active claim belongs to a call that is still under way.  A save that *)
(* fails while a call gives up leaves its claim behind (MaxDiskFaults > 0).*)
ClaimIsHeld ==
  \A r \in RunId :
    /\ \A p \in PublicationClaim : store.pubClaims[r].by = p =>
         publishers[p].run = r /\ publishers[p].pc \notin {"idle", "published", "failed"}
    /\ \A n \in NoteClaim : store.noteClaims[r].by = n =>
         notifiers[n].run = r /\ notifiers[n].pc \notin {"idle", "notified", "failed"}

(* An attempt that was superseded by a retry has published nothing, has    *)
(* notified nothing and is over, although retries and redeliveries race    *)
(* with it.  Later runs of a trigger have higher attempt numbers, so that  *)
(* of its attempts only the latest speaks.                                 *)
OnlyLatestSpeaks ==
  /\ \A r \in Exists(store) : ~IsLatest(store, r) =>
       /\ store.runs[r].status \in TerminalStatus
       /\ store.runs[r].pub = "none" /\ store.runs[r].note = "none"
       /\ Visible(r) = {} /\ ~FailurePosted(r)
  /\ \A a, b \in Exists(store) :
       a < b /\ store.runs[a].trigger = store.runs[b].trigger => store.runs[a].attempt < store.runs[b].attempt

(***************************************************************************)
(* What a step may not do                                                  *)
(***************************************************************************)

(* A terminal status is left only by a publication that ends a failed run, *)
(* or that finds the merge request moved on.  A crash may undo a status    *)
(* that was never saved.                                                   *)
TerminalIsFinal ==
  [][\A r \in RunId :
       LET run == store.runs[r]
           next == store'.runs[r]
       IN  /\ run.status \in TerminalStatus
           /\ next.status \notin {run.status, "absent"}
           /\ crashes' = crashes
           => /\ run.status = "failed"
              /\ next.pub = "published" \/ (next.status = "rejected" /\ next.reason = "policy")]_vars

(* A new run pushes out no run whose trigger has an active claim, unless   *)
(* the claimed attempts and those at the trigger of the new run are, with  *)
(* it, more than the store may hold.                                       *)
ClaimedAttempts(st) ==
  {r \in Exists(st) : \E x \in AttemptsOf(st, st.runs[r].trigger) :
     st.pubClaims[x].by # NoClaim \/ st.noteClaims[x].by # NoClaim}

PruneSparesClaims ==
  [][\A r \in Exists(store) \ Exists(store'), new \in Exists(store') \ Exists(store) :
       LET protected == ClaimedAttempts(store) \cup AttemptsOf(store, store'.runs[new].trigger)
       IN  r \in ClaimedAttempts(store) => Cardinality(protected) >= MaxRecords]_vars

(* Of the attempts at one trigger the oldest are pruned first.             *)
PruneDropsOldest ==
  [][\A r \in Exists(store) \ Exists(store') :
       \A x \in AttemptsOf(store, store.runs[r].trigger) \cap Exists(store') :
         store.runs[x].attempt > store.runs[r].attempt]_vars

(* A published run stays as it is, through crashes too.                    *)
PublishedIsFinal ==
  [][\A r \in RunId : store.runs[r].pub = "published" =>
       LET next == store'.runs[r]
       IN  \/ next.status = "absent"
           \/ /\ next.pub = "published" /\ next.status = store.runs[r].status
              /\ next.done = store.runs[r].done]_vars

(***************************************************************************)
(* The outcome of a review                                                 *)
(***************************************************************************)

SilentVoice == [run |-> 0, kind |-> "none"]

(* The attempts at t that have begun a publication or a notification.      *)
Speakers(t) == {r \in AttemptsOf(store, t) : store.runs[r].pub # "none" \/ store.runs[r].note # "none"}

VoiceOf(t) ==
  IF Speakers(t) = {} THEN SilentVoice
  ELSE LET r == CHOOSE x \in Speakers(t) : TRUE
       IN  [run |-> r, kind |-> IF store.runs[r].pub # "none" THEN "result" ELSE "failure"]

PostedFor(t) ==
  {x \in AttemptsOf(store, t) \X (Marker \cup {FailureNote}) : remote[x[1]].count[x[2]] > 0}

ConcludedTriggers ==
  {t \in Trigger : \E r \in AttemptsOf(store, t) :
     store.runs[r].pub = "published" \/ store.runs[r].note = "notified"}

Outcome == INSTANCE ReviewOutcome WITH
  Run <- RunId, Failure <- FailureNote, Silent <- SilentVoice,
  voice <- [t \in Trigger |-> VoiceOf(t)],
  posted <- [t \in Trigger |-> PostedFor(t)],
  concluded <- ConcludedTriggers

(* The subsystem keeps the promise of ReviewOutcome: see there.  While no  *)
(* run is pruned, and writes are not late.                                 *)
OneOutcome == Outcome!OutcomeSpec

(***************************************************************************)
(* Liveness                                                                *)
(***************************************************************************)

(* Requests and sessions time out (api-client.ts, RUN_MONITOR_TIMEOUT_MS), *)
(* so no call waits for ever; that anything is delivered, retried or       *)
(* answered is not assumed.                                                *)
FairSpec ==
  /\ Spec
  /\ \A r \in RunId : WF_vars(AttemptStep(r))
  /\ \A p \in PublicationClaim : WF_vars(PublisherStep(p))
  /\ \A n \in NoteClaim : WF_vars(NotifierStep(n))

(* Every publication and every notification that was begun is settled: no  *)
(* run is left "publishing" or "notifying", after a crash either.          *)
ClaimsSettle ==
  \A r \in RunId :
    /\ store.runs[r].pub = "publishing" ~> store.runs[r].pub # "publishing"
    /\ store.runs[r].note = "notifying" ~> store.runs[r].note # "notifying"

(* While the process lives, every active run comes to an end.              *)
RunsEnd ==
  \A r \in RunId :
    store.runs[r].status \in ActiveStatus ~> (store.runs[r].status \notin ActiveStatus \/ crashes > 0)

=============================================================================
