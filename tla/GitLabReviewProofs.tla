-------------------------- MODULE GitLabReviewProofs --------------------------
(***************************************************************************)
(* Proofs about GitLabReview, for any number of triggers, runs, calls,     *)
(* findings, restarts and failing saves: type correctness, and the two     *)
(* invariants of the store that keep a result and a failure apart.         *)
(*                                                                         *)
(* The inductive invariant has one conjunct for each part of the state.    *)
(* It is stronger than the theorems in two places: what holds of the store *)
(* holds of its file too, since a restart loads it, and a call that has    *)
(* begun names a run.                                                      *)
(***************************************************************************)
EXTENDS GitLabReview, ReviewRunStoreProofs

Stored ==
  /\ SoundStore(store)
  /\ SoundDisk(disk)
  /\ diskFaults \in 0..MaxDiskFaults

Attempting == attempts \in [RunId -> Attempt]

Publishing ==
  /\ publishers \in [PublicationClaim -> Publisher]
  /\ \A p \in PublicationClaim : publishers[p].pc # "idle" => publishers[p].run \in RunId

Notifying ==
  /\ notifiers \in [NoteClaim -> Notifier]
  /\ \A n \in NoteClaim : notifiers[n].pc # "idle" => notifiers[n].run \in RunId

RemoteComments == [count : [Comment -> Nat], payloads : SUBSET (Payload \cup {NoPayload})]

Posting ==
  /\ remote \in [RunId -> RemoteComments]
  /\ late \subseteq Request

Restarting == crashes \in 0..MaxCrashes

IInv == Stored /\ Attempting /\ Publishing /\ Notifying /\ Posting /\ Restarting

(***************************************************************************)
(* Saving                                                                  *)
(***************************************************************************)

(* A step that saves a sound store.                                        *)
LEMMA PersistSound ==
  ASSUME Stored, NEW st, SoundStore(st), NEW n \in Nat, Persist(st, n)
  PROVE  Stored'
BY DiskOfSound, EnvironmentAssumption DEF Stored, Persist, FaultsAllow

(* A step that leaves a sound store in memory and the file as it was.      *)
LEMMA InMemorySound ==
  ASSUME Stored, NEW st, SoundStore(st), NEW n \in Nat, InMemory(st, n)
  PROVE  Stored'
BY EnvironmentAssumption DEF Stored, InMemory, FaultsAllow

(* A step that leaves the store alone.                                     *)
LEMMA UnchangedStore == Stored /\ UNCHANGED storeVars => Stored'
BY DEF Stored, storeVars

(* A run whose status and reason are changed keeps its claims.             *)
LEMMA WithStatusSound ==
  ASSUME NEW st, SoundStore(st), NEW r \in RunId, NEW status \in TerminalStatus, NEW reason \in Reason
  PROVE  /\ WithStatus(st.runs[r], status, reason) \in Run
         /\ OneSided(WithStatus(st.runs[r], status, reason))
         /\ HeldBy(WithStatus(st.runs[r], status, reason), st.pubClaims[r])
<1> DEFINE run == st.runs[r]
           new == [run EXCEPT !.status = status, !.reason = reason]
<1>1. run \in Run /\ OneSided(run) /\ HeldBy(run, st.pubClaims[r])
  BY StoreFields
<1>2. new \in Run /\ SameClaims(new, run)
  <2> HIDE DEF run
  <2> QED
    BY <1>1, StatusKeepsClaims
<1>3. OneSided(new) /\ HeldBy(new, st.pubClaims[r])
  <2> HIDE DEF run, new
  <2> QED
    BY <1>1, <1>2, ClaimsCarryOver
<1> QED
  BY <1>2, <1>3 DEF WithStatus

(* A terminal status set through update or updateIfCurrent.                *)
LEMMA UpdateStatusSound ==
  ASSUME NEW st, SoundStore(st), NEW r \in RunId, NEW status \in TerminalStatus, NEW reason \in Reason
  PROVE  /\ SoundStore(Update(st, r, WithStatus(st.runs[r], status, reason)))
         /\ \A session : SoundStore(UpdateIfCurrent(st, r, session, WithStatus(st.runs[r], status, reason)))
<1> DEFINE rec == WithStatus(st.runs[r], status, reason)
<1>1. rec \in Run /\ OneSided(rec) /\ HeldBy(rec, st.pubClaims[r])
  BY WithStatusSound
<1> HIDE DEF rec
<1>2. SoundStore(Update(st, r, rec))
  BY <1>1, UpdateSound
<1>3. ASSUME NEW session PROVE SoundStore(UpdateIfCurrent(st, r, session, rec))
  BY <1>1, UpdateIfCurrentSound
<1> QED
  BY <1>2, <1>3 DEF rec

(***************************************************************************)
(* Publishers                                                              *)
(***************************************************************************)

(* A publication under way has the fields of its type and names a run.     *)
LEMMA PublisherFields ==
  ASSUME Publishing, NEW p \in PublicationClaim, publishers[p].pc # "idle"
  PROVE  /\ publishers[p] \in Publisher
         /\ PublisherId(p).run = publishers[p].run
         /\ publishers[p].run \in RunId
BY DEF Publishing, PublisherId

(* A call moves to a record that names a run.                              *)
LEMMA PublisherMoves ==
  ASSUME Publishing, NEW p \in PublicationClaim, NEW rec \in Publisher, rec.run \in RunId,
         publishers' = [publishers EXCEPT ![p] = rec]
  PROVE  Publishing'
BY DEF Publishing

(* A publication ends.                                                     *)
LEMMA PublisherEndsTyped ==
  ASSUME Publishing, NEW p \in PublicationClaim, publishers[p].pc # "idle",
         NEW outcome \in {"published", "failed"}, PublisherEnds(p, outcome)
  PROVE  Publishing'
<1> DEFINE self == publishers[p]
           rec == [IdlePublisher EXCEPT !.pc = outcome, !.run = self.run, !.caller = self.caller]
<1>1. self \in Publisher /\ self.run \in RunId
  BY PublisherFields
<1>2. Summary \in Marker
  BY DEF Marker
<1>3. rec \in Publisher /\ rec.run \in RunId
  <2> HIDE DEF self
  <2> QED
    BY <1>1, <1>2 DEF Publisher, IdlePublisher
<1>4. publishers' = [publishers EXCEPT ![p] = rec]
  BY DEF PublisherEnds
<1> HIDE DEF rec
<1> QED
  BY <1>3, <1>4, PublisherMoves

(* A publication goes on to its next await.                                *)
LEMMA PublisherWaitsTyped ==
  ASSUME Publishing, NEW p \in PublicationClaim, publishers[p].pc # "idle",
         NEW pc \in {"head", "list"}, PublisherWaits(p, pc)
  PROVE  Publishing'
<1> DEFINE self == publishers[p]
           rec == [self EXCEPT !.pc = pc]
<1>1. self \in Publisher /\ self.run \in RunId
  BY PublisherFields
<1>2. rec \in Publisher /\ rec.run \in RunId
  <2> HIDE DEF self
  <2> QED
    BY <1>1 DEF Publisher
<1>3. publishers' = [publishers EXCEPT ![p] = rec]
  BY DEF PublisherWaits
<1> HIDE DEF rec
<1> QED
  BY <1>2, <1>3, PublisherMoves

(* The comments of a publication are named by markers.                     *)
LEMMA OperationsAreMarkers ==
  ASSUME NEW done \in SUBSET Marker
  PROVE  NextOperations(done) \subseteq Marker
BY FindingAssumption DEF NextOperations, Marker, Deferred

(* A publication goes on to its next comment, or to its end.               *)
LEMMA PublisherContinuesTyped ==
  ASSUME Publishing, NEW p \in PublicationClaim, publishers[p].pc # "idle",
         NEW done \in SUBSET Marker, PublisherContinues(p, done)
  PROVE  Publishing'
<1> DEFINE self == publishers[p]
           finish == [self EXCEPT !.pc = "finish", !.done = done, !.pending = {}]
           next(m) == [self EXCEPT !.pc = "check", !.done = done, !.pending = {}, !.op = m]
<1>1. self \in Publisher /\ self.run \in RunId
  BY PublisherFields
<1>2. finish \in Publisher /\ finish.run \in RunId
  <2> HIDE DEF self
  <2> QED
    BY <1>1 DEF Publisher
<1>3. ASSUME NEW m \in Marker PROVE next(m) \in Publisher /\ next(m).run \in RunId
  <2> HIDE DEF self
  <2> QED
    BY <1>1 DEF Publisher
<1>4. CASE NextOperations(done) = {}
  <2>1. publishers' = [publishers EXCEPT ![p] = finish]
    BY <1>4 DEF PublisherContinues
  <2> HIDE DEF finish
  <2> QED
    BY <1>2, <2>1, PublisherMoves
<1>5. CASE NextOperations(done) # {}
  <2>1. PICK m \in NextOperations(done) : publishers' = [publishers EXCEPT ![p] = next(m)]
    BY <1>5 DEF PublisherContinues
  <2>2. m \in Marker
    BY OperationsAreMarkers
  <2> HIDE DEF next
  <2> QED
    BY <1>3, <2>1, <2>2, PublisherMoves
<1> QED
  BY <1>4, <1>5

(* A publication fails, with or without the saves that record it.          *)
LEMMA PublisherFailsSound ==
  ASSUME Stored, Publishing, NEW p \in PublicationClaim, publishers[p].pc # "idle",
         NEW n \in Nat, PublisherFails(p, n)
  PROVE  Stored' /\ Publishing'
<1>1. PublisherId(p).run \in RunId
  BY PublisherFields
<1>2. SoundStore(store) /\ SoundStore(FailPublication(store, PublisherId(p)))
  BY <1>1, FailPublicationSound DEF Stored
<1>3. Stored'
  BY <1>2, PersistSound, InMemorySound DEF PublisherFails
<1>4. Publishing'
  BY PublisherEndsTyped DEF PublisherFails
<1> QED
  BY <1>3, <1>4

(* A publication cannot be prepared and gives its claim back.              *)
LEMMA PreparationFailsSound ==
  ASSUME Stored, Publishing, NEW p \in PublicationClaim, publishers[p].pc # "idle",
         PreparationFails(p)
  PROVE  Stored' /\ Publishing'
<1> DEFINE self == publishers[p]
           released == ReleasePublicationClaim(store, PublisherId(p), self.resume)
           run == released.runs[self.run]
           failed == IF IdentityCurrent(released, self.run, self.session)
                     THEN UpdateIfCurrent(released, self.run, self.session,
                                          WithStatus(run, "failed", "other"))
                     ELSE released
<1>1. PublisherId(p).run \in RunId /\ self.run \in RunId
  BY PublisherFields
<1>2. SoundStore(store) /\ SoundStore(released)
  BY <1>1, ReleasePublicationClaimSound DEF Stored
<1>3. SoundStore(failed)
  <2>1. "failed" \in TerminalStatus /\ "other" \in Reason
    BY DEF TerminalStatus, Reason
  <2> HIDE DEF released
  <2> QED
    BY <1>1, <1>2, <2>1, UpdateStatusSound
<1>4. /\ PublisherEnds(p, "failed")
      /\ Persist(failed, 0) \/ InMemory(store, 1) \/ Persist(released, 1)
  BY DEF PreparationFails
<1> HIDE DEF failed, released
<1>5. Stored'
  BY <1>2, <1>3, <1>4, PersistSound, InMemorySound
<1> QED
  BY <1>4, <1>5, PublisherEndsTyped

(* What the entry of the call asks of the store, and what it leaves.       *)
LEMMA PublisherClaimsSound ==
  ASSUME Stored, Publishing, NEW p \in PublicationClaim, NEW caller \in {"runtime", "management"},
         NEW r \in RunId, NEW payload \in Payload, PublisherClaims(p, caller, r, payload)
  PROVE  Stored' /\ Publishing'
<1> DEFINE run == store.runs[r]
           resume == run.pub # "none"
           allow == resume /\ run.status = "failed"
           rec == [IdlePublisher EXCEPT
                     !.pc = "secret", !.caller = caller, !.run = r, !.payload = payload,
                     !.session = run.session, !.resume = resume, !.allow = allow]
<1>1. SoundStore(store)
  BY DEF Stored
<1>2. ClaimPublicationAllowed(store, r, payload)
  BY DEF PublisherClaims, PublicationAccepted
<1>3. SoundStore(ClaimPublication(store, r, p, payload))
  BY <1>1, <1>2, ClaimPublicationSound
<1>4. Persist(ClaimPublication(store, r, p, payload), 0)
  BY DEF PublisherClaims
<1>5. Stored'
  BY <1>3, <1>4, PersistSound
<1>6. run.session \in BOOLEAN /\ resume \in BOOLEAN /\ allow \in BOOLEAN
  BY <1>1, StoreFields DEF Run
<1>7. publishers' = [publishers EXCEPT ![p] = rec]
  BY DEF PublisherClaims
<1>8. rec \in Publisher /\ rec.run \in RunId
  <2>1. Summary \in Marker
    BY DEF Marker
  <2> HIDE DEF run, resume, allow
  <2> QED
    BY <1>6, <2>1 DEF Publisher, IdlePublisher
<1> HIDE DEF rec
<1> QED
  BY <1>5, <1>7, <1>8, PublisherMoves

(***************************************************************************)
(* Notifiers                                                               *)
(***************************************************************************)

(* A notification under way has the fields of its type and names a run.    *)
LEMMA NotifierFields ==
  ASSUME Notifying, NEW n \in NoteClaim, notifiers[n].pc # "idle"
  PROVE  /\ notifiers[n] \in Notifier
         /\ NotifierId(n).run = notifiers[n].run
         /\ notifiers[n].run \in RunId
BY DEF Notifying, NotifierId

(* A notification moves to a record that names a run.                      *)
LEMMA NotifierMoves ==
  ASSUME Notifying, NEW n \in NoteClaim, NEW rec \in Notifier, rec.run \in RunId,
         notifiers' = [notifiers EXCEPT ![n] = rec]
  PROVE  Notifying'
BY DEF Notifying

(* A notification ends.                                                    *)
LEMMA NotifierEndsTyped ==
  ASSUME Notifying, NEW n \in NoteClaim, notifiers[n].pc # "idle",
         NEW outcome \in {"notified", "failed"}, NotifierEnds(n, outcome)
  PROVE  Notifying'
<1> DEFINE self == notifiers[n]
           rec == [IdleNotifier EXCEPT !.pc = outcome, !.run = self.run]
<1>1. self \in Notifier /\ self.run \in RunId
  BY NotifierFields
<1>2. rec \in Notifier /\ rec.run \in RunId
  <2> HIDE DEF self
  <2> QED
    BY <1>1 DEF Notifier, IdleNotifier
<1>3. notifiers' = [notifiers EXCEPT ![n] = rec]
  BY DEF NotifierEnds
<1> HIDE DEF rec
<1> QED
  BY <1>2, <1>3, NotifierMoves

(* A notification goes on to its next await.                               *)
LEMMA NotifierWaitsTyped ==
  ASSUME Notifying, NEW n \in NoteClaim, notifiers[n].pc # "idle",
         NEW pc \in {"head", "find", "check"}, NotifierWaits(n, pc)
  PROVE  Notifying'
<1> DEFINE self == notifiers[n]
           rec == [self EXCEPT !.pc = pc]
<1>1. self \in Notifier /\ self.run \in RunId
  BY NotifierFields
<1>2. rec \in Notifier /\ rec.run \in RunId
  <2> HIDE DEF self
  <2> QED
    BY <1>1 DEF Notifier
<1>3. notifiers' = [notifiers EXCEPT ![n] = rec]
  BY DEF NotifierWaits
<1> HIDE DEF rec
<1> QED
  BY <1>2, <1>3, NotifierMoves

(* A call claims the notification of a failed run.                         *)
LEMMA NotifierClaimsSound ==
  ASSUME Stored, Notifying, NEW n \in NoteClaim, NEW r \in RunId,
         NEW payload \in Payload \cup {NoPayload}, NotifierClaims(n, r, payload)
  PROVE  Stored' /\ Notifying'
<1> DEFINE run == store.runs[r]
           resume == run.note # "none"
           rec == [IdleNotifier EXCEPT
                     !.pc = "secret", !.run = r, !.payload = payload, !.session = run.session,
                     !.resume = resume, !.posted = run.postStarted]
<1>1. SoundStore(store)
  BY DEF Stored
<1>2. ClaimFailureNotificationAllowed(store, r, payload)
  BY DEF NotifierClaims, NotificationAccepted
<1>3. SoundStore(ClaimFailureNotification(store, r, n, payload))
  BY <1>1, <1>2, ClaimFailureNotificationSound
<1>4. Persist(ClaimFailureNotification(store, r, n, payload), 0)
  BY DEF NotifierClaims
<1>5. Stored'
  BY <1>3, <1>4, PersistSound
<1>6. run.session \in BOOLEAN /\ resume \in BOOLEAN /\ run.postStarted \in BOOLEAN
  BY <1>1, StoreFields DEF Run
<1>7. notifiers' = [notifiers EXCEPT ![n] = rec]
  BY DEF NotifierClaims
<1>8. rec \in Notifier /\ rec.run \in RunId
  <2> HIDE DEF run, resume
  <2> QED
    BY <1>6 DEF Notifier, IdleNotifier
<1> HIDE DEF rec
<1> QED
  BY <1>5, <1>7, <1>8, NotifierMoves

(* What is left of the store when a notification fails is sound.           *)
LEMMA NotificationFailedSound ==
  ASSUME Stored, Notifying, NEW n \in NoteClaim, notifiers[n].pc # "idle", NEW rejected \in BOOLEAN
  PROVE  /\ SoundStore(NotificationFailed(n, rejected))
         /\ SoundStore(ReleaseFailureNotificationClaim(store, NotifierId(n)))
<1>1. SoundStore(store) /\ NotifierId(n).run \in RunId
  BY NotifierFields DEF Stored
<1>2. SoundStore(FailFailureNotification(store, NotifierId(n), rejected))
  BY <1>1, FailFailureNotificationSound
<1> QED
  BY <1>1, <1>2, ReleaseFailureNotificationClaimSound DEF NotificationFailed

(* A notification ends in its catch block.                                 *)
LEMMA NotifierAbortsSound ==
  ASSUME Stored, Notifying, NEW n \in NoteClaim, notifiers[n].pc # "idle",
         NotifierAborts(n, 1)
  PROVE  Stored' /\ Notifying'
<1>1. /\ SoundStore(NotificationFailed(n, FALSE))
      /\ SoundStore(ReleaseFailureNotificationClaim(store, NotifierId(n)))
  BY NotificationFailedSound
<1>2. 1 \in Nat /\ 1 + 1 \in Nat
  OBVIOUS
<1>3. Stored'
  BY <1>1, <1>2, PersistSound, InMemorySound DEF NotifierAborts
<1> QED
  BY <1>3, NotifierEndsTyped DEF NotifierAborts

(* A notification gives up, with or without the save that records it.      *)
LEMMA NotifierGivesUpSound ==
  ASSUME Stored, Notifying, NEW n \in NoteClaim, notifiers[n].pc # "idle",
         NEW rejected \in BOOLEAN, NotifierGivesUp(n, rejected)
  PROVE  Stored' /\ Notifying'
<1>1. CASE NotifierEnds(n, "failed") /\ Persist(NotificationFailed(n, rejected), 0)
  <2>1. SoundStore(NotificationFailed(n, rejected))
    BY NotificationFailedSound
  <2> QED
    BY <1>1, <2>1, PersistSound, NotifierEndsTyped
<1>2. CASE NotifierAborts(n, 1)
  BY <1>2, NotifierAbortsSound
<1> QED
  BY <1>1, <1>2 DEF NotifierGivesUp

(* A notification finds that the merge request has moved on.               *)
LEMMA NotifierRejectsSound ==
  ASSUME Stored, Notifying, NEW n \in NoteClaim, notifiers[n].pc # "idle", NotifierRejects(n)
  PROVE  Stored' /\ Notifying'
<1> DEFINE id == NotifierId(n)
           rejected == RejectFailureNotificationForPolicy(store, id)
           failed == FailFailureNotification(rejected, id, FALSE)
<1>1. SoundStore(store) /\ id.run \in RunId
  BY NotifierFields DEF Stored
<1>2. SoundStore(rejected)
  BY <1>1, RejectFailureNotificationForPolicySound
<1>3. SoundStore(failed)
  BY <1>1, <1>2, FailFailureNotificationSound
<1>4. SoundStore(ReleaseFailureNotificationClaim(failed, id))
  BY <1>1, <1>3, ReleaseFailureNotificationClaimSound
<1>5. \/ /\ NotifierEnds(n, "failed")
         /\ Persist(ReleaseFailureNotificationClaim(failed, id), 0)
      \/ NotifierAborts(n, 1)
  BY DEF NotifierRejects
<1> QED
  BY <1>4, <1>5, PersistSound, NotifierEndsTyped, NotifierAbortsSound

(* A notification is confirmed, if its claim is still current.             *)
LEMMA NotifierSucceedsSound ==
  ASSUME Stored, Notifying, NEW n \in NoteClaim, notifiers[n].pc # "idle", NotifierSucceeds(n)
  PROVE  Stored' /\ Notifying'
<1> DEFINE id == NotifierId(n)
<1>1. SoundStore(store) /\ id.run \in RunId
  BY NotifierFields DEF Stored
<1>2. CASE NotifierCurrent(n)
  <2>1. SoundStore(CompleteFailureNotification(store, id))
    BY <1>1, <1>2, CompleteFailureNotificationSound DEF NotifierCurrent
  <2>2. \/ NotifierEnds(n, "notified") /\ Persist(CompleteFailureNotification(store, id), 0)
        \/ NotifierAborts(n, 1)
    BY <1>2 DEF NotifierSucceeds
  <2> QED
    BY <2>1, <2>2, PersistSound, NotifierEndsTyped, NotifierAbortsSound
<1>3. CASE ~NotifierCurrent(n)
  <2>1. SoundStore(ReleaseFailureNotificationClaim(store, id))
    BY <1>1, ReleaseFailureNotificationClaimSound
  <2>2. NotifierEnds(n, "failed") /\ InMemory(ReleaseFailureNotificationClaim(store, id), 0)
    BY <1>3 DEF NotifierSucceeds
  <2> QED
    BY <2>1, <2>2, InMemorySound, NotifierEndsTyped
<1> QED
  BY <1>2, <1>3

(***************************************************************************)
(* Attempts                                                                *)
(***************************************************************************)

AttemptPc == {"loading", "blockedSecret", "blockedHead", "blockedCheck",
              "blockedSent", "starting", "live", "publishing", "reporting", "done"}

(* An attempt goes on to its next await.                                   *)
LEMMA AttemptMovesTyped ==
  ASSUME Attempting, NEW r \in RunId, NEW pc \in AttemptPc, AttemptMoves(r, pc)
  PROVE  Attempting'
BY DEF Attempting, AttemptMoves, AttemptPc, Attempt

(* The session of an attempt ends.                                         *)
LEMMA AttemptEndsTyped ==
  ASSUME Attempting, NEW r \in RunId, NEW pc \in AttemptPc, AttemptEnds(r, pc)
  PROVE  Attempting'
BY DEF Attempting, AttemptEnds, AttemptPc, Attempt

(* An attempt saves a sound store and goes on.                             *)
LEMMA AttemptSavesSound ==
  ASSUME Stored, Attempting, NEW r \in RunId, NEW st, SoundStore(st), NEW pc \in AttemptPc,
         AttemptSaves(r, st, pc)
  PROVE  Stored' /\ Attempting'
<1>1. SoundStore(store) /\ "done" \in AttemptPc
  BY DEF Stored, AttemptPc
<1> QED
  BY <1>1, PersistSound, InMemorySound, AttemptMovesTyped DEF AttemptSaves

(* failGitLabReviewRuntimeRun, in each of its three outcomes.              *)
LEMMA RunFailedSound ==
  ASSUME Stored, Attempting, NEW st, SoundStore(st), NEW r \in RunId, NEW n \in Nat,
         RunFailed(st, r, n) \/ RunFailureLost(st, r, n) \/ RunFailureRefused(st, r, n)
  PROVE  Stored' /\ Attempting'
<1>1. "failed" \in TerminalStatus /\ "other" \in Reason
      /\ "done" \in AttemptPc /\ "reporting" \in AttemptPc
  BY DEF TerminalStatus, Reason, AttemptPc
<1>2. SoundStore(Update(st, r, WithStatus(st.runs[r], "failed", "other")))
  BY <1>1, UpdateStatusSound
<1>3. Stored'
  BY <1>2, PersistSound DEF RunFailed, RunFailureLost, RunFailureRefused
<1>4. Attempting'
  BY <1>1, AttemptEndsTyped DEF RunFailed, RunFailureLost, RunFailureRefused
<1> QED
  BY <1>3, <1>4

(* A session fails its run.                                                *)
LEMMA FailsRunSound ==
  ASSUME Stored, Attempting, NEW r \in RunId, NEW n \in {0, 1}, FailsRun(r, n)
  PROVE  Stored' /\ Attempting'
<1>1. SoundStore(store) /\ n \in Nat /\ n + 1 \in Nat
  BY DEF Stored
<1> QED
  BY <1>1, RunFailedSound DEF FailsRun

(* A session fails its run after a publication of it ended.                *)
LEMMA FailsPublishedRunSound ==
  ASSUME Stored, Attempting, NEW st, SoundStore(st), NEW r \in RunId, FailsPublishedRun(st, r)
  PROVE  Stored' /\ Attempting'
BY RunFailedSound DEF FailsPublishedRun

(***************************************************************************)
(* GitLab                                                                  *)
(***************************************************************************)

(* GitLab counts a comment and keeps what it counted before.               *)
LEMMA TakenTyped ==
  ASSUME Posting, NEW q \in Request
  PROVE  Taken(q) \in [RunId -> RemoteComments]
<1> DEFINE old == remote[q.run]
           new == [count |-> [c \in Comment |-> IF c \in Contents(q.op) THEN old.count[c] + 1 ELSE old.count[c]],
                   payloads |-> IF q.op \in Marker THEN old.payloads \cup {q.payload} ELSE old.payloads]
<1>1. q.run \in RunId /\ q.payload \in Payload \cup {NoPayload}
  BY DEF Request
<1>2. old \in RemoteComments
  BY <1>1 DEF Posting
<1>3. old.count \in [Comment -> Nat] /\ old.payloads \in SUBSET (Payload \cup {NoPayload})
  <2> HIDE DEF old
  <2> QED
    BY <1>2 DEF RemoteComments
<1>4. new \in RemoteComments
  <2> HIDE DEF old
  <2> QED
    BY <1>1, <1>3 DEF RemoteComments
<1>5. Taken(q) = [remote EXCEPT ![q.run] = new]
  BY DEF Taken
<1> HIDE DEF new
<1> QED
  BY <1>4, <1>5 DEF Posting

(* What the calls under way send are requests.                             *)
LEMMA RequestTypes ==
  ASSUME Publishing, Notifying
  PROVE  /\ \A p \in PublicationClaim : publishers[p].pc # "idle" => PublisherRequest(p) \in Request
         /\ \A n \in NoteClaim : notifiers[n].pc # "idle" => NotifierRequest(n) \in Request
         /\ \A r \in RunId : BlockedRequest(r) \in Request
<1>1. ASSUME NEW p \in PublicationClaim, publishers[p].pc # "idle"
      PROVE  PublisherRequest(p) \in Request
  <2> DEFINE self == publishers[p]
  <2>1. self \in Publisher /\ self.run \in RunId
    BY <1>1, PublisherFields
  <2>2. self.op \in Comment /\ self.payload \in Payload \cup {NoPayload}
    <3> HIDE DEF self
    <3> QED
      BY <2>1 DEF Publisher, Comment
  <2> QED
    BY <2>1, <2>2 DEF PublisherRequest, Request
<1>2. ASSUME NEW n \in NoteClaim, notifiers[n].pc # "idle"
      PROVE  NotifierRequest(n) \in Request
  <2> DEFINE self == notifiers[n]
  <2>1. self \in Notifier /\ self.run \in RunId
    BY <1>2, NotifierFields
  <2>2. self.payload \in Payload \cup {NoPayload} /\ FailureNote \in Comment
    <3> HIDE DEF self
    <3> QED
      BY <2>1 DEF Notifier, Comment
  <2> QED
    BY <2>1, <2>2 DEF NotifierRequest, Request
<1>3. ASSUME NEW r \in RunId PROVE BlockedRequest(r) \in Request
  <2>1. BlockedNote \in Comment
    BY DEF Comment
  <2> QED
    BY <2>1 DEF BlockedRequest, Request
<1> QED
  BY <1>1, <1>2, <1>3

(* A request that was given up on may still be on its way.                 *)
LEMMA GivenUpTyped ==
  ASSUME Posting, NEW q \in Request, NEW landed, late' = GivenUp(q, landed), UNCHANGED remote
  PROVE  Posting'
BY DEF Posting, GivenUp

(***************************************************************************)
(* Every step of a publisher preserves the invariant                       *)
(***************************************************************************)

(* Every step of a publication.                                            *)
LEMMA PublisherStepSound ==
  ASSUME IInv, NEW p \in PublicationClaim, PublisherStep(p)
  PROVE  IInv'
<1> DEFINE self == publishers[p]
           id == PublisherId(p)
           Calm == UNCHANGED <<crashes, attempts, notifiers, remote, late>>
<1> USE DEF IInv
<1>0. self.pc # "idle"
  BY DEF PublisherStep, PublisherHasToken, PublisherUnprepared, PublisherHeadChanged,
         PublisherHeadVerified, PublisherReconciles, PublisherReconcileFails, PublisherSends,
         PublisherCheckFails, PublisherCheckRejects, PublisherConfirmed, PublisherPositionRefused,
         PublisherUnconfirmed, PublisherRecords, PublisherRecordFails, PublisherFinishes,
         PublisherFinishFails
<1>1. /\ SoundStore(store) /\ id.run \in RunId
      /\ self \in Publisher /\ self.run \in RunId
  BY <1>0, PublisherFields DEF Stored
<1>2. ASSUME Calm, Stored', Publishing' PROVE IInv'
  BY <1>2 DEF Attempting, Notifying, Posting, Restarting
<1>3. "rejected" \in TerminalStatus /\ "policy" \in Reason
  BY DEF TerminalStatus, Reason
<1>4. CASE PublisherHasToken(p)
  BY <1>0, <1>2, <1>4, PublisherWaitsTyped, UnchangedStore DEF PublisherHasToken
<1>5. CASE PublisherUnprepared(p)
  BY <1>0, <1>2, <1>5, PreparationFailsSound DEF PublisherUnprepared
<1>6. CASE PublisherHeadChanged(p)
  <2> DEFINE rejected == UpdateIfCurrent(store, self.run, self.session,
                           WithStatus(store.runs[self.run], "rejected", "policy"))
             released == ReleasePublicationClaim(rejected, PublisherId(p), self.resume)
  <2>1. SoundStore(rejected)
    BY <1>1, <1>3, UpdateStatusSound
  <2>2. SoundStore(released)
    <3> HIDE DEF rejected
    <3> QED
      BY <1>1, <2>1, ReleasePublicationClaimSound
  <2>3. /\ Persist(released, 0) \/ Persist(rejected, 1)
        /\ PublisherEnds(p, "failed") /\ Calm
    BY <1>6 DEF PublisherHeadChanged
  <2>4. Stored'
    <3> HIDE DEF rejected, released
    <3> QED
      BY <2>1, <2>2, <2>3, PersistSound
  <2>5. Publishing'
    BY <1>0, <2>3, PublisherEndsTyped
  <2> QED
    BY <1>2, <2>3, <2>4, <2>5
<1>7. CASE PublisherHeadVerified(p)
  <2>1. Publishing'
    BY <1>0, <1>7, PublisherWaitsTyped, PublisherContinuesTyped DEF PublisherHeadVerified
  <2> QED
    BY <1>2, <1>7, <2>1, UnchangedStore DEF PublisherHeadVerified
<1>8. CASE PublisherReconciles(p)
  <2>1. Visible(id.run) \in SUBSET Marker
    BY DEF Visible
  <2>2. SoundStore(ReplacePublicationMarkers(store, id, Visible(id.run)))
    BY <1>1, <2>1, ReplacePublicationMarkersSound
  <2>3. Stored'
    BY <1>8, <2>2, PersistSound DEF PublisherReconciles
  <2>4. Publishing'
    BY <1>0, <1>8, <2>1, PublisherContinuesTyped DEF PublisherReconciles
  <2> QED
    BY <1>2, <1>8, <2>3, <2>4 DEF PublisherReconciles
<1>9. CASE PublisherReconcileFails(p)
  BY <1>0, <1>2, <1>9, PublisherFailsSound DEF PublisherReconcileFails
<1>10. CASE PublisherSends(p)
  <2> DEFINE rec == [self EXCEPT !.pc = "sent", !.landed = FALSE]
  <2>1. rec \in Publisher /\ rec.run \in RunId
    <3> HIDE DEF self
    <3> QED
      BY <1>1 DEF Publisher
  <2>2. publishers' = [publishers EXCEPT ![p] = rec]
    BY <1>10 DEF PublisherSends
  <2>3. Publishing'
    <3> HIDE DEF rec
    <3> QED
      BY <2>1, <2>2, PublisherMoves
  <2> QED
    BY <1>2, <1>10, <2>3, UnchangedStore DEF PublisherSends
<1>11. CASE PublisherCheckFails(p)
  BY <1>0, <1>2, <1>11, PublisherFailsSound DEF PublisherCheckFails
<1>12. CASE PublisherCheckRejects(p)
  <2>1. SoundStore(RejectPublicationForPolicy(store, id))
    BY <1>1, RejectPublicationForPolicySound
  <2>2. Stored'
    BY <1>1, <1>12, <2>1, PersistSound, InMemorySound DEF PublisherCheckRejects
  <2>3. Publishing'
    BY <1>0, <1>12, PublisherEndsTyped DEF PublisherCheckRejects
  <2> QED
    BY <1>2, <1>12, <2>2, <2>3 DEF PublisherCheckRejects
<1>13. CASE PublisherConfirmed(p)
  <2> DEFINE rec == [self EXCEPT !.pc = "record", !.pending = Carried(self.op)]
  <2>1. Carried(self.op) \in SUBSET Marker
    <3>1. self.op \in Marker
      BY <1>1 DEF Publisher
    <3> HIDE DEF self
    <3> QED
      BY <3>1, FindingAssumption DEF Carried, Marker, Deferred
  <2>2. rec \in Publisher /\ rec.run \in RunId
    <3> HIDE DEF self
    <3> QED
      BY <1>1, <2>1 DEF Publisher
  <2>3. publishers' = [publishers EXCEPT ![p] = rec]
    BY <1>13 DEF PublisherConfirmed
  <2>4. Publishing'
    <3> HIDE DEF rec
    <3> QED
      BY <2>2, <2>3, PublisherMoves
  <2> QED
    BY <1>2, <1>13, <2>4, UnchangedStore DEF PublisherConfirmed
<1>14. CASE PublisherPositionRefused(p)
  <2> DEFINE next == FallbackMarker(self.op.finding)
             rec == [self EXCEPT !.pc = "check", !.op = next]
  <2>1. next \in Marker
    <3>1. self.op \in Marker /\ self.op.kind = "inline"
      BY <1>1, <1>14 DEF Publisher, PublisherPositionRefused
    <3>2. PICK f \in Finding : self.op = InlineMarker(f)
      <4>1. Summary.kind # "inline" /\ \A f \in Finding : FallbackMarker(f).kind # "inline"
        BY DEF Summary, FallbackMarker
      <4> HIDE DEF self
      <4> QED
        BY <3>1, <4>1 DEF Marker
    <3>3. next = FallbackMarker(f)
      BY <3>2 DEF InlineMarker
    <3> QED
      BY <3>3 DEF Marker
  <2>2. rec \in Publisher /\ rec.run \in RunId
    <3> HIDE DEF self, next
    <3> QED
      BY <1>1, <2>1 DEF Publisher
  <2>3. publishers' = [publishers EXCEPT ![p] = rec]
    BY <1>14 DEF PublisherPositionRefused
  <2>4. Publishing'
    <3> HIDE DEF rec
    <3> QED
      BY <2>2, <2>3, PublisherMoves
  <2> QED
    BY <1>2, <1>14, <2>4, UnchangedStore DEF PublisherPositionRefused
<1>15. CASE PublisherUnconfirmed(p)
  <2>1. Stored' /\ Publishing'
    BY <1>0, <1>15, PublisherFailsSound DEF PublisherUnconfirmed
  <2>2. Posting'
    BY <1>0, <1>15, RequestTypes, GivenUpTyped DEF PublisherUnconfirmed
  <2> QED
    BY <1>15, <2>1, <2>2 DEF PublisherUnconfirmed, Attempting, Notifying, Restarting
<1>16. CASE PublisherRecords(p)
  <2>1. PICK m \in self.pending :
          /\ Persist(RecordPublicationMarker(store, id, m), 0)
          /\ IF self.pending = {m}
             THEN PublisherContinues(p, self.done \cup {m})
             ELSE publishers' = [publishers EXCEPT ![p].done = @ \cup {m}, ![p].pending = @ \ {m}]
    BY <1>16 DEF PublisherRecords
  <2>2. m \in Marker /\ self.done \in SUBSET Marker /\ self.pending \in SUBSET Marker
    BY <1>1 DEF Publisher
  <2>3. SoundStore(RecordPublicationMarker(store, id, m))
    BY <1>1, <2>2, RecordPublicationMarkerSound
  <2>4. Stored'
    BY <2>1, <2>3, PersistSound
  <2>5. CASE self.pending = {m}
    <3>1. self.done \cup {m} \in SUBSET Marker /\ PublisherContinues(p, self.done \cup {m})
      BY <2>1, <2>2, <2>5
    <3>2. Publishing'
      BY <1>0, <3>1, PublisherContinuesTyped
    <3> QED
      BY <1>2, <1>16, <2>4, <3>2 DEF PublisherRecords
  <2>6. CASE self.pending # {m}
    <3> DEFINE rec == [self EXCEPT !.done = self.done \cup {m}, !.pending = self.pending \ {m}]
    <3>1. rec \in Publisher /\ rec.run \in RunId
      <4>1. self.done \cup {m} \in SUBSET Marker /\ self.pending \ {m} \in SUBSET Marker
        BY <2>2
      <4> HIDE DEF self
      <4> QED
        BY <1>1, <4>1 DEF Publisher
    <3>2. publishers' = [publishers EXCEPT ![p] = rec]
      BY <2>1, <2>6 DEF Publishing
    <3>3. Publishing'
      <4> HIDE DEF rec
      <4> QED
        BY <3>1, <3>2, PublisherMoves
    <3> QED
      BY <1>2, <1>16, <2>4, <3>3 DEF PublisherRecords
  <2> QED
    BY <2>5, <2>6
<1>17. CASE PublisherRecordFails(p)
  BY <1>0, <1>2, <1>17, PublisherFailsSound DEF PublisherRecordFails
<1>18. ASSUME NEW status \in {"blocked", "succeeded", "failed"}, PublisherFinishes(p, status)
       PROVE  IInv'
  <2>1. IsPublicationClaimCurrent(store, id) /\ status \in TerminalStatus
    BY <1>18 DEF PublisherFinishes, PublisherCurrent, TerminalStatus
  <2>2. /\ SoundStore(CompletePublication(store, id, status))
        /\ SoundStore(ReleaseAsPartial(store, id))
    BY <1>1, <2>1, CompletePublicationSound, ReleaseAsPartialSound
  <2>3. SoundStore(Saved(ReleaseAsPartial(store, id), id.run))
    BY <2>2, SavedSound
  <2>4. Stored'
    BY <1>18, <2>2, <2>3, PersistSound, InMemorySound DEF PublisherFinishes
  <2>5. Publishing'
    BY <1>0, <1>18, PublisherEndsTyped DEF PublisherFinishes
  <2> QED
    BY <1>2, <1>18, <2>4, <2>5 DEF PublisherFinishes
<1>19. CASE PublisherFinishFails(p)
  BY <1>0, <1>2, <1>19, PublisherFailsSound DEF PublisherFinishFails
<1> QED
  BY <1>4, <1>5, <1>6, <1>7, <1>8, <1>9, <1>10, <1>11, <1>12, <1>13, <1>14, <1>15, <1>16,
     <1>17, <1>18, <1>19 DEF PublisherStep

(***************************************************************************)
(* Every step of a notifier preserves the invariant                        *)
(***************************************************************************)

(* Every step of a notification.                                           *)
LEMMA NotifierStepSound ==
  ASSUME IInv, NEW n \in NoteClaim, NotifierStep(n)
  PROVE  IInv'
<1> DEFINE self == notifiers[n]
           id == NotifierId(n)
           Calm == UNCHANGED <<crashes, attempts, publishers, remote, late>>
<1> USE DEF IInv
<1>0. self.pc # "idle"
  BY DEF NotifierStep, NotifierHasToken, NotifierHeadVerified, NotifierFindsNote, NotifierFindsNone,
         NotifierBlocked, NotifierHeadChanged, NotifierSends, NotifierConfirmed, NotifierRefused,
         NotifierUnconfirmed
<1>1. /\ SoundStore(store) /\ id.run \in RunId
      /\ self \in Notifier /\ self.run \in RunId
  BY <1>0, NotifierFields DEF Stored
<1>2. ASSUME Calm, Stored', Notifying' PROVE IInv'
  BY <1>2 DEF Attempting, Publishing, Posting, Restarting
<1>3. CASE NotifierHasToken(n)
  BY <1>0, <1>2, <1>3, NotifierWaitsTyped, UnchangedStore DEF NotifierHasToken
<1>4. CASE NotifierHeadVerified(n)
  BY <1>0, <1>2, <1>4, NotifierWaitsTyped, UnchangedStore DEF NotifierHeadVerified
<1>5. CASE NotifierFindsNote(n)
  BY <1>0, <1>2, <1>5, NotifierSucceedsSound DEF NotifierFindsNote
<1>6. CASE NotifierFindsNone(n)
  <2>1. NotifierGivesUp(n, FALSE) \/ (NotifierWaits(n, "check") /\ UNCHANGED storeVars)
    BY <1>6 DEF NotifierFindsNone
  <2>2. Stored' /\ Notifying'
    BY <1>0, <2>1, NotifierGivesUpSound, NotifierWaitsTyped, UnchangedStore
  <2> QED
    BY <1>2, <1>6, <2>2 DEF NotifierFindsNone
<1>7. CASE NotifierBlocked(n)
  BY <1>0, <1>2, <1>7, NotifierGivesUpSound DEF NotifierBlocked
<1>8. CASE NotifierHeadChanged(n)
  BY <1>0, <1>2, <1>8, NotifierRejectsSound DEF NotifierHeadChanged
<1>9. CASE NotifierSends(n)
  <2> DEFINE rec == [self EXCEPT !.pc = "sent", !.landed = FALSE]
  <2>1. CASE Persist(MarkFailureNotificationPostStarted(store, id), 0)
             /\ notifiers' = [notifiers EXCEPT ![n].pc = "sent", ![n].landed = FALSE]
    <3>1. SoundStore(MarkFailureNotificationPostStarted(store, id))
      BY <1>1, MarkFailureNotificationPostStartedSound
    <3>2. Stored'
      BY <2>1, <3>1, PersistSound
    <3>3. rec \in Notifier /\ rec.run \in RunId
      <4> HIDE DEF self
      <4> QED
        BY <1>1 DEF Notifier
    <3>4. notifiers' = [notifiers EXCEPT ![n] = rec]
      BY <2>1 DEF Notifying
    <3>5. Notifying'
      <4> HIDE DEF rec
      <4> QED
        BY <3>3, <3>4, NotifierMoves
    <3> QED
      BY <1>2, <1>9, <3>2, <3>5 DEF NotifierSends
  <2>2. CASE NotifierAborts(n, 1)
    BY <1>0, <1>2, <1>9, <2>2, NotifierAbortsSound DEF NotifierSends
  <2> QED
    BY <1>9, <2>1, <2>2 DEF NotifierSends
<1>10. CASE NotifierConfirmed(n)
  BY <1>0, <1>2, <1>10, NotifierSucceedsSound DEF NotifierConfirmed
<1>11. CASE NotifierRefused(n)
  BY <1>0, <1>2, <1>11, NotifierGivesUpSound DEF NotifierRefused
<1>12. CASE NotifierUnconfirmed(n)
  <2>1. Stored' /\ Notifying'
    BY <1>0, <1>12, NotifierGivesUpSound DEF NotifierUnconfirmed
  <2>2. Posting'
    BY <1>0, <1>12, RequestTypes, GivenUpTyped DEF NotifierUnconfirmed
  <2> QED
    BY <1>12, <2>1, <2>2 DEF NotifierUnconfirmed, Attempting, Publishing, Restarting
<1> QED
  BY <1>3, <1>4, <1>5, <1>6, <1>7, <1>8, <1>9, <1>10, <1>11, <1>12 DEF NotifierStep

(***************************************************************************)
(* Every step of an attempt preserves the invariant                        *)
(***************************************************************************)

(* A run is rejected for its configuration.                                *)
LEMMA RejectConfigurationSound ==
  ASSUME NEW st, SoundStore(st), NEW r \in RunId
  PROVE  SoundStore(RejectConfiguration(st, r))
<1>1. "rejected" \in TerminalStatus /\ "configuration" \in Reason
  BY DEF TerminalStatus, Reason
<1> QED
  BY <1>1, UpdateStatusSound DEF RejectConfiguration

(* Loading the changes sets the status and stores the context.             *)
LEMMA LoadedRunSound ==
  ASSUME NEW st, SoundStore(st), NEW r \in RunId, NEW status \in {"running", "blocked"}
  PROVE  SoundStore(Update(st, r, [st.runs[r] EXCEPT !.status = status, !.context = TRUE]))
<1> DEFINE run == st.runs[r]
           new == [run EXCEPT !.status = status, !.context = TRUE]
<1>1. run \in Run /\ OneSided(run) /\ HeldBy(run, st.pubClaims[r])
  BY StoreFields
<1>2. new \in Run /\ SameClaims(new, run)
  <2>1. status \in {"absent"} \cup ActiveStatus \cup TerminalStatus
    BY DEF ActiveStatus, TerminalStatus
  <2> HIDE DEF run
  <2> QED
    BY <1>1, <2>1 DEF Run, SameClaims
<1>3. OneSided(new) /\ HeldBy(new, st.pubClaims[r])
  <2> HIDE DEF run, new
  <2> QED
    BY <1>1, <1>2, ClaimsCarryOver
<1>4. SoundStore(Update(st, r, new))
  <2> HIDE DEF new
  <2> QED
    BY <1>2, <1>3, UpdateSound
<1> QED
  BY <1>4

(* A session is set only while the run has no publication.                 *)
LEMMA SessionRunSound ==
  ASSUME NEW st, SoundStore(st), NEW r \in RunId, RuntimePatchAllowed(st.runs[r])
  PROVE  SoundStore(Update(st, r, [st.runs[r] EXCEPT !.status = "running", !.session = TRUE,
                                                     !.reason = "none"]))
<1> DEFINE run == st.runs[r]
           new == [run EXCEPT !.status = "running", !.session = TRUE, !.reason = "none"]
<1>1. run \in Run /\ run.pub = "none"
  BY StoreFields DEF RuntimePatchAllowed
<1>2. "running" \in {"absent"} \cup ActiveStatus \cup TerminalStatus /\ "none" \in Reason
  BY DEF ActiveStatus, Reason
<1>3. new \in Run
  <2> HIDE DEF run
  <2> QED
    BY <1>1, <1>2 DEF Run
<1>4. new.pub = "none"
  <2> HIDE DEF run
  <2> QED
    BY <1>1 DEF Run
<1>5. SoundStore(Update(st, r, new))
  <2> HIDE DEF new
  <2> QED
    BY <1>3, <1>4, UpdateSound DEF OneSided, HeldBy
<1> QED
  BY <1>5

(* A run is marked as running.                                             *)
LEMMA RunningRunSound ==
  ASSUME NEW st, SoundStore(st), NEW r \in RunId
  PROVE  SoundStore(Update(st, r, [st.runs[r] EXCEPT !.status = "running"]))
<1> DEFINE run == st.runs[r]
           new == [run EXCEPT !.status = "running"]
<1>1. run \in Run /\ OneSided(run) /\ HeldBy(run, st.pubClaims[r])
  BY StoreFields
<1>2. new \in Run /\ SameClaims(new, run)
  <2>1. "running" \in {"absent"} \cup ActiveStatus \cup TerminalStatus
    BY DEF ActiveStatus
  <2> HIDE DEF run
  <2> QED
    BY <1>1, <2>1 DEF Run, SameClaims
<1>3. OneSided(new) /\ HeldBy(new, st.pubClaims[r])
  <2> HIDE DEF run, new
  <2> QED
    BY <1>1, <1>2, ClaimsCarryOver
<1>4. SoundStore(Update(st, r, new))
  <2> HIDE DEF new
  <2> QED
    BY <1>2, <1>3, UpdateSound
<1> QED
  BY <1>4

(* Every step of an attempt and of its session.                            *)
LEMMA AttemptStepSound ==
  ASSUME IInv, NEW r \in RunId, AttemptStep(r)
  PROVE  IInv'
<1> DEFINE run == store.runs[r]
           Calm == UNCHANGED <<crashes, publishers, notifiers, remote, late>>
<1> USE DEF IInv
<1>1. SoundStore(store)
  BY DEF Stored
<1>2. ASSUME Calm, Stored', Attempting' PROVE IInv'
  BY <1>2 DEF Publishing, Notifying, Posting, Restarting
<1>3. /\ {"failed", "rejected"} \subseteq TerminalStatus
      /\ {"load_transient", "other", "policy"} \subseteq Reason
      /\ {"done", "reporting", "starting", "blockedSecret", "publishing"} \subseteq AttemptPc
  BY DEF TerminalStatus, Reason, AttemptPc
<1>4. \A st : SoundStore(st) => \A pc \in AttemptPc : AttemptSaves(r, st, pc) => Stored' /\ Attempting'
  BY AttemptSavesSound
<1>5. CASE LoadMisconfigured(r)
  BY <1>1, <1>2, <1>3, <1>4, <1>5, RejectConfigurationSound DEF LoadMisconfigured
<1>6. CASE LoadFails(r)
  <2>1. \A reason \in Reason : SoundStore(Update(store, r, WithStatus(run, "failed", reason)))
    BY <1>1, <1>3, UpdateStatusSound
  <2>2. \/ AttemptSaves(r, Update(store, r, WithStatus(run, "failed", "load_transient")), "done")
        \/ AttemptSaves(r, Update(store, r, WithStatus(run, "failed", "other")), "reporting")
    BY <1>6 DEF LoadFails
  <2>3. Stored' /\ Attempting'
    BY <1>3, <1>4, <2>1, <2>2
  <2> QED
    BY <1>2, <1>6, <2>3 DEF LoadFails
<1>7. CASE LoadHeadChanged(r)
  <2>1. SoundStore(Update(store, r, WithStatus(run, "rejected", "policy")))
    BY <1>1, <1>3, UpdateStatusSound
  <2>2. Stored' /\ Attempting'
    BY <1>3, <1>4, <1>7, <2>1 DEF LoadHeadChanged
  <2> QED
    BY <1>2, <1>7, <2>2 DEF LoadHeadChanged
<1>8. CASE LoadSucceeds(r)
  <2>1. SoundStore(Update(store, r, [run EXCEPT !.status = "running", !.context = TRUE]))
    BY <1>1, LoadedRunSound
  <2>2. AttemptSaves(r, Update(store, r, [run EXCEPT !.status = "running", !.context = TRUE]), "starting")
    BY <1>8 DEF LoadSucceeds
  <2>3. Stored' /\ Attempting'
    BY <1>3, <1>4, <2>1, <2>2
  <2> QED
    BY <1>2, <1>8, <2>3 DEF LoadSucceeds
<1>9. SoundStore(Blocked(r))
  BY <1>1, LoadedRunSound DEF Blocked
<1>10. CASE LoadBlocked(r)
  <2>1. \/ AttemptMoves(r, "blockedSecret") /\ UNCHANGED storeVars
        \/ AttemptSaves(r, Blocked(r), "done")
    BY <1>10 DEF LoadBlocked
  <2>2. Stored' /\ Attempting'
    BY <1>3, <1>4, <1>9, <2>1, AttemptMovesTyped, UnchangedStore
  <2> QED
    BY <1>2, <1>10, <2>2 DEF LoadBlocked
<1>11. CASE BlockedProceeds(r)
  <2>1. PICK step \in {<<"blockedSecret", "blockedHead">>, <<"blockedHead", "blockedCheck">>,
                       <<"blockedCheck", "blockedSent">>} : AttemptMoves(r, step[2])
    BY <1>11 DEF BlockedProceeds
  <2>2. step[2] \in AttemptPc
    BY DEF AttemptPc
  <2>3. Attempting'
    BY <2>1, <2>2, AttemptMovesTyped
  <2> QED
    BY <1>2, <1>11, <2>3, UnchangedStore DEF BlockedProceeds
<1>12. CASE BlockedHeadChanged(r)
  <2>1. SoundStore(UpdateIfCurrent(store, r, FALSE, WithStatus(run, "rejected", "policy")))
    BY <1>1, <1>3, UpdateStatusSound
  <2>2. AttemptSaves(r, UpdateIfCurrent(store, r, FALSE, WithStatus(run, "rejected", "policy")), "done")
    BY <1>12 DEF BlockedHeadChanged
  <2>3. Stored' /\ Attempting'
    BY <1>3, <1>4, <2>1, <2>2
  <2> QED
    BY <1>2, <1>12, <2>3 DEF BlockedHeadChanged
<1>13. CASE BlockedEnds(r)
  <2>1. Stored' /\ Attempting'
    BY <1>3, <1>4, <1>9, <1>13 DEF BlockedEnds
  <2>2. late' = late \/ late' = GivenUp(BlockedRequest(r), attempts[r].landed)
    BY <1>13 DEF BlockedEnds
  <2>3. Posting'
    BY <1>13, <2>2, RequestTypes, GivenUpTyped DEF BlockedEnds, Posting
  <2> QED
    BY <1>13, <2>1, <2>3 DEF BlockedEnds, Publishing, Notifying, Restarting
<1>14. CASE DirectoryMissing(r)
  BY <1>1, <1>2, <1>3, <1>4, <1>14, RejectConfigurationSound DEF DirectoryMissing
<1>15. CASE SessionCreated(r)
  <2> DEFINE created == Update(store, r, [run EXCEPT !.status = "running", !.session = TRUE,
                                                     !.reason = "none"])
             patched == IF RuntimePatchAllowed(run) THEN created ELSE store
  <2>1. SoundStore(patched)
    BY <1>1, SessionRunSound
  <2>2. \/ /\ Persist(patched, 0)
           /\ attempts' = [attempts EXCEPT ![r].pc = "live", ![r].response = "waiting"]
        \/ FailsRun(r, 1)
    BY <1>15 DEF SessionCreated
  <2>3. Calm
    BY <1>15 DEF SessionCreated
  <2> HIDE DEF patched
  <2>4. Stored' /\ Attempting'
    BY <2>1, <2>2, PersistSound, FailsRunSound DEF Attempting, Attempt
  <2> QED
    BY <1>2, <2>3, <2>4
<1>16. CASE StartFails(r)
  BY <1>2, <1>16, FailsRunSound DEF StartFails
<1>17. CASE ResponseAccepted(r)
  <2> DEFINE patched == IF ResponsePatchAllowed(run)
                        THEN Update(store, r, [run EXCEPT !.status = "running"]) ELSE store
  <2>1. SoundStore(patched)
    BY <1>1, RunningRunSound
  <2>2. \/ Persist(patched, 0) /\ attempts' = [attempts EXCEPT ![r].response = "done"]
        \/ FailsRun(r, 1)
    BY <1>17 DEF ResponseAccepted
  <2>3. Calm
    BY <1>17 DEF ResponseAccepted
  <2> HIDE DEF patched
  <2>4. Stored' /\ Attempting'
    BY <2>1, <2>2, PersistSound, FailsRunSound DEF Attempting, Attempt
  <2> QED
    BY <1>2, <2>3, <2>4
<1>18. CASE SessionFails(r)
  BY <1>2, <1>18, FailsRunSound DEF SessionFails
<1>19. CASE RuntimeOutputInvalid(r)
  <2> DEFINE considered == IF PublicationConsidered(run)
                           THEN UpdateIfCurrent(store, r, run.session, WithStatus(run, "failed", "other"))
                           ELSE store
  <2>1. SoundStore(considered)
    BY <1>1, <1>3, UpdateStatusSound
  <2>2. (FailsPublishedRun(considered, r) \/ FailsRun(r, 1)) /\ Calm
    BY <1>19 DEF RuntimeOutputInvalid
  <2> HIDE DEF considered
  <2>3. Stored' /\ Attempting'
    BY <2>1, <2>2, FailsPublishedRunSound, FailsRunSound
  <2> QED
    BY <1>2, <2>2, <2>3
<1>20. CASE PublicationEnds(r)
  <2>1. \/ /\ attempts' = [attempts EXCEPT ![r].pc = "done", ![r].response = "done"]
           /\ UNCHANGED storeVars
        \/ FailsPublishedRun(store, r)
    BY <1>20 DEF PublicationEnds
  <2>2. Stored' /\ Attempting'
    BY <1>1, <2>1, UnchangedStore, FailsPublishedRunSound DEF Attempting, Attempt
  <2> QED
    BY <1>2, <1>20, <2>2 DEF PublicationEnds
<1>21. ASSUME NEW payload \in Payload, RuntimeOutputRefused(r, payload) PROVE IInv'
  BY <1>1, <1>2, <1>21, FailsRunSound, FailsPublishedRunSound DEF RuntimeOutputRefused
<1>22. ASSUME NEW payload \in Payload, ReportRefused(r, payload) PROVE IInv'
  BY <1>1, <1>2, <1>3, <1>22, InMemorySound, AttemptMovesTyped DEF ReportRefused
<1>23. ASSUME NEW payload \in Payload, NEW p \in PublicationClaim, RuntimeOutput(p, r, payload)
       PROVE  IInv'
  <2>1. Stored' /\ Publishing'
    BY <1>23, PublisherClaimsSound DEF RuntimeOutput
  <2>2. Attempting'
    BY <1>3, <1>23, AttemptMovesTyped DEF RuntimeOutput
  <2> QED
    BY <1>23, <2>1, <2>2 DEF RuntimeOutput, Notifying, Posting, Restarting
<1>24. ASSUME NEW payload \in Payload, NEW n \in NoteClaim, ReportFailure(n, r, payload)
       PROVE  IInv'
  <2>1. Stored' /\ Notifying'
    BY <1>24, NotifierClaimsSound DEF ReportFailure
  <2>2. Attempting'
    BY <1>3, <1>24, AttemptMovesTyped DEF ReportFailure
  <2> QED
    BY <1>24, <2>1, <2>2 DEF ReportFailure, Publishing, Posting, Restarting
<1> QED
  BY <1>5, <1>6, <1>7, <1>8, <1>10, <1>11, <1>12, <1>13, <1>14, <1>15, <1>16, <1>17, <1>18,
     <1>19, <1>20, <1>21, <1>22, <1>23, <1>24 DEF AttemptStep

(***************************************************************************)
(* Every step of the management routes and of the environment preserves    *)
(* the invariant                                                           *)
(***************************************************************************)

(* A retry, by hand or by a repeated delivery.                             *)
LEMMA RetrySound ==
  ASSUME IInv, NEW r \in RunId, Retry(r)
  PROVE  IInv'
<1>1. SoundStore(store) /\ "loading" \in AttemptPc
  BY DEF IInv, Stored, AttemptPc
<1>2. SoundStore(CreateRetryAttempt(store, r))
  BY <1>1, CreateRetryAttemptSound DEF Retry
<1>3. Stored'
  BY <1>2, PersistSound DEF Retry, IInv
<1>4. Attempting'
  BY <1>1, AttemptMovesTyped DEF Retry, IInv
<1> QED
  BY <1>3, <1>4 DEF IInv, Retry, Publishing, Notifying, Posting, Restarting

(* Every management route.                                                 *)
LEMMA ManagementSound ==
  ASSUME IInv, Management
  PROVE  IInv'
<1> USE DEF IInv
<1>1. SoundStore(store)
  BY DEF Stored
<1>2. ASSUME NEW r \in RunId, Retry(r) PROVE IInv'
  BY <1>2, RetrySound
<1>3. ASSUME NEW r \in RunId, ManagementPublishInvalid(r) PROVE IInv'
  <2>1. "failed" \in TerminalStatus /\ "other" \in Reason
    BY DEF TerminalStatus, Reason
  <2>2. SoundStore(UpdateIfCurrent(store, r, store.runs[r].session,
                                   WithStatus(store.runs[r], "failed", "other")))
    BY <1>1, <2>1, UpdateStatusSound
  <2>3. Stored'
    BY <1>3, <2>2, PersistSound DEF ManagementPublishInvalid, ResultInvalid
  <2> QED
    BY <1>3, <2>3 DEF ManagementPublishInvalid, Attempting, Publishing, Notifying, Posting, Restarting
<1>4. ASSUME NEW r \in RunId, NEW p \in PublicationClaim, NEW payload \in Payload,
             ManagementPublish(p, r, payload)
      PROVE  IInv'
  <2>1. Stored' /\ Publishing'
    BY <1>4, PublisherClaimsSound DEF ManagementPublish
  <2> QED
    BY <1>4, <2>1 DEF ManagementPublish, Attempting, Notifying, Posting, Restarting
<1>5. ASSUME NEW r \in RunId, NEW n \in NoteClaim, RecoverNotification(n, r) PROVE IInv'
  <2>1. store.runs[r].notePayload \in Payload \cup {NoPayload}
    BY <1>1, StoreFields DEF Run
  <2>2. Stored' /\ Notifying'
    BY <1>5, <2>1, NotifierClaimsSound DEF RecoverNotification
  <2> QED
    BY <1>5, <2>2 DEF RecoverNotification, Attempting, Publishing, Posting, Restarting
<1> QED
  BY <1>2, <1>3, <1>4, <1>5 DEF Management

(* The first delivery of a trigger.                                        *)
LEMMA DeliverSound ==
  ASSUME IInv, NEW t \in Trigger, Deliver(t)
  PROVE  IInv'
<1> USE DEF IInv
<1>1. /\ SoundStore(store)
      /\ {"accepted", "rejected"} \subseteq ActiveStatus \cup TerminalStatus
      /\ {"none", "configuration", "policy"} \subseteq Reason
      /\ {"loading", "done"} \subseteq AttemptPc
  BY DEF Stored, ActiveStatus, TerminalStatus, Reason, AttemptPc
<1>2. PICK status \in ActiveStatus \cup TerminalStatus, reason \in Reason, pc \in AttemptPc :
        Persist(Create(store, t, status, reason), 0) /\ AttemptMoves(NextRunId(store), pc)
  BY <1>1 DEF Deliver
<1>3. NextRunId(store) \in RunId
  BY DEF Deliver
<1>4. SoundStore(Create(store, t, status, reason))
  BY <1>1, <1>3, CreateSound
<1>5. Stored' /\ Attempting'
  BY <1>2, <1>3, <1>4, PersistSound, AttemptMovesTyped
<1> QED
  BY <1>5 DEF Deliver, Publishing, Notifying, Posting, Restarting

(* The end of a lease keeps the claims of every run.                       *)
LEMMA LeaseOverKeepsClaims ==
  ASSUME NEW runs \in [RunId -> Run], NEW r \in RunId
  PROVE  LET new == [runs EXCEPT ![r].leaseOver = TRUE]
         IN  /\ new \in [RunId -> Run]
             /\ \A x \in RunId : new[x] \in Run /\ runs[x] \in Run /\ SameClaims(new[x], runs[x])
<1> DEFINE run == runs[r]
           over == [run EXCEPT !.leaseOver = TRUE]
           new == [runs EXCEPT ![r] = over]
<1>1. run \in Run
  OBVIOUS
<1>2. over \in Run /\ SameClaims(over, run)
  <2> HIDE DEF run
  <2> QED
    BY <1>1 DEF Run, SameClaims
<1>3. [runs EXCEPT ![r].leaseOver = TRUE] = new
  OBVIOUS
<1>4. new \in [RunId -> Run]
  <2> HIDE DEF over
  <2> QED
    BY <1>2
<1>5. \A x \in RunId : new[x] \in Run /\ runs[x] \in Run /\ SameClaims(new[x], runs[x])
  <2>1. \A x \in RunId : new[x] = IF x = r THEN over ELSE runs[x]
    OBVIOUS
  <2>2. \A a : SameClaims(a, a)
    BY DEF SameClaims
  <2> HIDE DEF new, over
  <2> QED
    BY <1>2, <2>1, <2>2
<1> QED
  BY <1>3, <1>4, <1>5

(* A lease ends, in memory and on disk.                                    *)
LEMMA LeaseExpiresSound ==
  ASSUME IInv, NEW r \in RunId, LeaseExpires(r)
  PROVE  IInv'
<1> USE DEF IInv
<1> DEFINE runs == [store.runs EXCEPT ![r].leaseOver = TRUE]
           saved == [disk.runs EXCEPT ![r].leaseOver = TRUE]
<1>1. SoundStore(store) /\ SoundDisk(disk)
  BY DEF Stored
<1>2. /\ store.runs \in [RunId -> Run] /\ store.pubClaims \in [RunId -> PublicationClaims]
      /\ store.noteClaims \in [RunId -> NoteClaims] /\ store.sequence \in 0..MaxRuns
  BY <1>1, StoreFields
<1>3. SoundStore(store')
  <2>1. store' = [runs |-> runs, pubClaims |-> store.pubClaims,
                  noteClaims |-> store.noteClaims, sequence |-> store.sequence]
    <3>1. store' = [store EXCEPT !.runs = runs]
      BY DEF LeaseExpires
    <3> HIDE DEF runs
    <3> QED
      BY <1>1, <3>1 DEF SoundStore, Store
  <2>2. /\ runs \in [RunId -> Run]
        /\ \A x \in RunId : /\ runs[x] \in Run /\ store.runs[x] \in Run
                            /\ SameClaims(runs[x], store.runs[x])
    BY <1>2, LeaseOverKeepsClaims
  <2>3. \A x \in RunId : OneSided(store.runs[x]) /\ HeldBy(store.runs[x], store.pubClaims[x])
    BY <1>1, StoreFields
  <2> HIDE DEF runs
  <2>4. \A x \in RunId : OneSided(runs[x]) /\ HeldBy(runs[x], store.pubClaims[x])
    BY <2>2, <2>3, ClaimsCarryOver
  <2> QED
    BY <1>2, <2>1, <2>2, <2>4, StoreOf
<1>4. SoundDisk(disk')
  <2>1. disk' = disk \/ disk' = [disk EXCEPT !.runs = saved]
    BY DEF LeaseExpires
  <2>2. disk.runs \in [RunId -> Run] /\ \A x \in RunId : OneSided(disk.runs[x])
    BY <1>1 DEF SoundDisk, SoundRuns, Disk
  <2>3. /\ saved \in [RunId -> Run]
        /\ \A x \in RunId : /\ saved[x] \in Run /\ disk.runs[x] \in Run
                            /\ SameClaims(saved[x], disk.runs[x])
    BY <2>2, LeaseOverKeepsClaims
  <2> HIDE DEF saved
  <2>4. \A x \in RunId : OneSided(saved[x])
    BY <2>2, <2>3, ClaimsCarryOver
  <2>5. SoundDisk([disk EXCEPT !.runs = saved])
    BY <1>1, <2>3, <2>4 DEF SoundDisk, SoundRuns, Disk
  <2> QED
    BY <1>1, <2>1, <2>5
<1>5. Stored'
  BY <1>3, <1>4 DEF Stored, LeaseExpires
<1> QED
  BY <1>5 DEF LeaseExpires, Attempting, Publishing, Notifying, Posting, Restarting

(* A restart: the file is loaded, and calls are over.                      *)
LEMMA CrashSound ==
  ASSUME IInv, Crash
  PROVE  IInv'
<1> USE DEF IInv
<1>1. Stored'
  BY LoadedSound DEF Crash, Stored
<1>2. Attempting'
  BY DEF Crash, Attempting, NoAttempt, Attempt
<1>3. Publishing'
  <2> DEFINE new(p) == IF publishers[p].pc \in {"idle", "published"} THEN publishers[p]
                       ELSE [IdlePublisher EXCEPT !.pc = "failed", !.run = publishers[p].run]
  <2>1. publishers' = [p \in PublicationClaim |-> new(p)]
    BY DEF Crash
  <2>2. ASSUME NEW p \in PublicationClaim
        PROVE  new(p) \in Publisher /\ (new(p).pc # "idle" => new(p).run \in RunId)
    <3>1. CASE publishers[p].pc \in {"idle", "published"}
      BY <3>1 DEF Publishing
    <3>2. CASE publishers[p].pc \notin {"idle", "published"}
      <4> DEFINE run == publishers[p].run
                 rec == [IdlePublisher EXCEPT !.pc = "failed", !.run = run]
      <4>1. run \in RunId /\ Summary \in Marker
        BY <3>2, PublisherFields DEF Marker
      <4>2. rec \in Publisher /\ rec.run = run
        <5> HIDE DEF run
        <5> QED
          BY <4>1 DEF Publisher, IdlePublisher
      <4>3. new(p) = rec
        BY <3>2
      <4> HIDE DEF rec, new
      <4> QED
        BY <4>1, <4>2, <4>3
    <3> QED
      BY <3>1, <3>2
  <2> HIDE DEF new
  <2> QED
    BY <2>1, <2>2 DEF Publishing
<1>4. Notifying'
  <2> DEFINE new(n) == IF notifiers[n].pc \in {"idle", "notified"} THEN notifiers[n]
                       ELSE [IdleNotifier EXCEPT !.pc = "failed", !.run = notifiers[n].run]
  <2>1. notifiers' = [n \in NoteClaim |-> new(n)]
    BY DEF Crash
  <2>2. ASSUME NEW n \in NoteClaim
        PROVE  new(n) \in Notifier /\ (new(n).pc # "idle" => new(n).run \in RunId)
    <3>1. CASE notifiers[n].pc \in {"idle", "notified"}
      BY <3>1 DEF Notifying
    <3>2. CASE notifiers[n].pc \notin {"idle", "notified"}
      <4> DEFINE run == notifiers[n].run
                 rec == [IdleNotifier EXCEPT !.pc = "failed", !.run = run]
      <4>1. run \in RunId
        BY <3>2, NotifierFields
      <4>2. rec \in Notifier /\ rec.run = run
        <5> HIDE DEF run
        <5> QED
          BY <4>1 DEF Notifier, IdleNotifier
      <4>3. new(n) = rec
        BY <3>2
      <4> HIDE DEF rec, new
      <4> QED
        BY <4>1, <4>2, <4>3
    <3> QED
      BY <3>1, <3>2
  <2> HIDE DEF new
  <2> QED
    BY <2>1, <2>2 DEF Notifying
<1>5. Posting'
  <2>1. Outstanding \subseteq Request
    BY RequestTypes DEF Outstanding
  <2> QED
    BY <2>1 DEF Crash, Posting
<1>6. Restarting'
  <2>1. crashes \in 0..MaxCrashes /\ crashes < MaxCrashes /\ crashes' = crashes + 1
    BY DEF Crash, Restarting
  <2>2. MaxCrashes \in Nat
    BY EnvironmentAssumption
  <2>3. crashes + 1 \in 0..MaxCrashes
    BY <2>1, <2>2
  <2> QED
    BY <2>1, <2>3 DEF Restarting
<1> QED
  BY <1>1, <1>2, <1>3, <1>4, <1>5, <1>6

(* GitLab takes a request that is on its way.                              *)
LEMMA TakenSound ==
  ASSUME Posting, NEW q \in Request, remote' = Taken(q), late' \subseteq late
  PROVE  Posting'
BY TakenTyped DEF Posting

(* GitLab takes a request in time or late.                                 *)
LEMMA GitLabTakesSound ==
  ASSUME IInv
  PROVE  /\ \A r \in RunId : GitLabTakesBlocked(r) => IInv'
         /\ \A p \in PublicationClaim : GitLabTakesResult(p) => IInv'
         /\ \A n \in NoteClaim : GitLabTakesNote(n) => IInv'
         /\ \A q \in late : LateArrival(q) => IInv'
<1> USE DEF IInv
<1>1. ASSUME NEW r \in RunId, GitLabTakesBlocked(r) PROVE IInv'
  <2>1. Posting'
    BY <1>1, RequestTypes, TakenSound DEF GitLabTakesBlocked
  <2>2. Attempting'
    BY <1>1 DEF GitLabTakesBlocked, Attempting, Attempt
  <2>3. Stored'
    BY <1>1, UnchangedStore DEF GitLabTakesBlocked
  <2> QED
    BY <1>1, <2>1, <2>2, <2>3 DEF GitLabTakesBlocked, Publishing, Notifying, Restarting
<1>2. ASSUME NEW p \in PublicationClaim, GitLabTakesResult(p) PROVE IInv'
  <2> DEFINE self == publishers[p]
             rec == [self EXCEPT !.landed = TRUE]
  <2>1. self.pc # "idle" /\ self \in Publisher /\ self.run \in RunId
    BY <1>2, PublisherFields DEF GitLabTakesResult
  <2>2. Posting'
    BY <1>2, <2>1, RequestTypes, TakenSound DEF GitLabTakesResult
  <2>3. Publishing'
    <3>1. rec \in Publisher /\ rec.run \in RunId
      <4> HIDE DEF self
      <4> QED
        BY <2>1 DEF Publisher
    <3>2. publishers' = [publishers EXCEPT ![p] = rec]
      BY <1>2 DEF GitLabTakesResult
    <3> HIDE DEF rec
    <3> QED
      BY <3>1, <3>2, PublisherMoves
  <2>4. Stored'
    BY <1>2, UnchangedStore DEF GitLabTakesResult
  <2> QED
    BY <1>2, <2>2, <2>3, <2>4 DEF GitLabTakesResult, Attempting, Notifying, Restarting
<1>3. ASSUME NEW n \in NoteClaim, GitLabTakesNote(n) PROVE IInv'
  <2> DEFINE self == notifiers[n]
             rec == [self EXCEPT !.landed = TRUE]
  <2>1. self.pc # "idle" /\ self \in Notifier /\ self.run \in RunId
    BY <1>3, NotifierFields DEF GitLabTakesNote
  <2>2. Posting'
    BY <1>3, <2>1, RequestTypes, TakenSound DEF GitLabTakesNote
  <2>3. Notifying'
    <3>1. rec \in Notifier /\ rec.run \in RunId
      <4> HIDE DEF self
      <4> QED
        BY <2>1 DEF Notifier
    <3>2. notifiers' = [notifiers EXCEPT ![n] = rec]
      BY <1>3 DEF GitLabTakesNote
    <3> HIDE DEF rec
    <3> QED
      BY <3>1, <3>2, NotifierMoves
  <2>4. Stored'
    BY <1>3, UnchangedStore DEF GitLabTakesNote
  <2> QED
    BY <1>3, <2>2, <2>3, <2>4 DEF GitLabTakesNote, Attempting, Publishing, Restarting
<1>4. ASSUME NEW q \in late, LateArrival(q) PROVE IInv'
  <2>1. Posting'
    BY <1>4, TakenSound DEF LateArrival, Posting
  <2>2. Stored'
    BY <1>4, UnchangedStore DEF LateArrival
  <2> QED
    BY <1>4, <2>1, <2>2 DEF LateArrival, Attempting, Publishing, Notifying, Restarting
<1> QED
  BY <1>1, <1>2, <1>3, <1>4

(***************************************************************************)
(* The inductive invariant                                                 *)
(***************************************************************************)

(* The server starts.                                                      *)
LEMMA InitSound == Init => IInv
<1> SUFFICES ASSUME Init PROVE IInv
  OBVIOUS
<1>1. Stored
  <2>1. SoundStore(EmptyStore) /\ SoundDisk(DiskOf(EmptyStore))
    BY EmptyStoreSound, DiskOfSound
  <2> QED
    BY <2>1, EnvironmentAssumption DEF Init, Stored
<1>2. Attempting
  BY DEF Init, Attempting, Attempt, NoAttempt
<1>3. Publishing
  <2>1. Summary \in Marker
    BY DEF Marker
  <2>2. IdlePublisher \in Publisher /\ IdlePublisher.pc = "idle"
    BY <2>1 DEF IdlePublisher, Publisher
  <2> HIDE DEF IdlePublisher
  <2> QED
    BY <2>2 DEF Init, Publishing
<1>4. Notifying
  <2>1. IdleNotifier \in Notifier /\ IdleNotifier.pc = "idle"
    BY DEF IdleNotifier, Notifier
  <2> QED
    BY <2>1 DEF Init, Notifying
<1>5. Posting
  BY DEF Init, Posting, NothingPosted, RemoteComments
<1>6. Restarting
  BY EnvironmentAssumption DEF Init, Restarting
<1> QED
  BY <1>1, <1>2, <1>3, <1>4, <1>5, <1>6 DEF IInv

(* Every step of GitLab, of time and of the process.                       *)
LEMMA EnvironmentSound ==
  ASSUME IInv, Environment
  PROVE  IInv'
<1>1. ASSUME NEW t \in Trigger, Deliver(t) PROVE IInv'
  BY <1>1, DeliverSound
<1>2. ASSUME NEW r \in RunId, LeaseExpires(r) PROVE IInv'
  BY <1>2, LeaseExpiresSound
<1>3. CASE Crash
  BY <1>3, CrashSound
<1> QED
  BY <1>1, <1>2, <1>3, GitLabTakesSound DEF Environment

(* Every step of the server.                                               *)
LEMMA ServerSound ==
  ASSUME IInv, Server
  PROVE  IInv'
<1>1. ASSUME NEW r \in RunId, AttemptStep(r) PROVE IInv'
  BY <1>1, AttemptStepSound
<1>2. ASSUME NEW p \in PublicationClaim, PublisherStep(p) PROVE IInv'
  BY <1>2, PublisherStepSound
<1>3. ASSUME NEW n \in NoteClaim, NotifierStep(n) PROVE IInv'
  BY <1>3, NotifierStepSound
<1> QED
  BY <1>1, <1>2, <1>3 DEF Server

(* No step leaves the inductive invariant.                                 *)
LEMMA NextSound ==
  ASSUME IInv, [Next]_vars
  PROVE  IInv'
<1>1. CASE Management
  BY <1>1, ManagementSound
<1>2. CASE Environment
  BY <1>2, EnvironmentSound
<1>3. CASE Server
  BY <1>3, ServerSound
<1>4. CASE UNCHANGED vars
  BY <1>4, UnchangedStore
     DEF vars, storeVars, IInv, Attempting, Publishing, Notifying, Posting, Restarting
<1> QED
  BY <1>1, <1>2, <1>3, <1>4 DEF Next

(* Every reachable state satisfies the inductive invariant: the store and  *)
(* its file are well formed, no record in either holds a publication and a *)
(* notification, and every call that has begun names a run.                *)
THEOREM Invariance == Spec => []IInv
<1>1. Init => IInv
  BY InitSound
<1>2. IInv /\ [Next]_vars => IInv'
  BY NextSound
<1> QED
  BY <1>1, <1>2, PTL DEF Spec

(***************************************************************************)
(* What follows from it                                                    *)
(***************************************************************************)

(* Every variable keeps its type: in particular no operation of the store  *)
(* leaves a record with an attempt number, a rank or a marker that the     *)
(* rest of the code does not expect.                                       *)
THEOREM TypeCorrect == Spec => []TypeOK
<1>1. IInv => TypeOK
  BY DEF IInv, Stored, SoundStore, SoundDisk, Attempting, Publishing, Notifying,
         Posting, RemoteComments, Restarting, TypeOK
<1> QED
  BY <1>1, Invariance, PTL

(* claimPublication and claimFailureNotification exclude each other, and   *)
(* no later write of the record brings the other one in: a record never    *)
(* holds a publication and a failure notification at once.                 *)
THEOREM OneOutcomeRecorded == Spec => []OneOutcomeInStore
<1>1. IInv => OneOutcomeInStore
  BY DEF IInv, Stored, SoundStore, SoundRuns, OneSided, OneOutcomeInStore
<1> QED
  BY <1>1, Invariance, PTL

(* A run that is being published is held by the claim its record names: no *)
(* update, retry, session change, pruning or restart takes the run away    *)
(* from its claim and leaves it "publishing" for ever.                     *)
THEOREM PublishingHeld == Spec => []PublishingIsClaimed
<1>1. IInv => PublishingIsClaimed
  BY DEF IInv, Stored, SoundStore, HeldBy, PublishingIsClaimed
<1> QED
  BY <1>1, Invariance, PTL

=============================================================================
