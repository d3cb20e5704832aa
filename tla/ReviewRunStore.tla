--------------------------- MODULE ReviewRunStore ---------------------------
(***************************************************************************)
(* The store of GitLab review runs (packages/nine1bot/src/review/          *)
(* run-store.ts).  Every operation of the store runs inside one JavaScript *)
(* tick, so the module describes the operations as functions from one      *)
(* store value to the next; the modules that extend it decide when they    *)
(* run and what happens when the file cannot be written.                   *)
(*                                                                         *)
(* A store value holds what the process keeps in memory:                   *)
(*   runs        the map from run id to record ("absent" where there is    *)
(*               none); ids are handed out in order by sequence            *)
(*   pubClaims   activePublicationClaims                                   *)
(*   noteClaims  activeFailureNotificationClaims                           *)
(*   sequence    the number of run ids handed out                          *)
(* What the process writes to disk is runs and sequence.                   *)
(*                                                                         *)
(* Two identities of the source are folded into others: the generation of  *)
(* a run is fixed when the run is created and never repeats, so the run id *)
(* stands for it; ownerId and payloadHash of a claim are fixed by claimId. *)
(* publishedAt is set and cleared together with publication.state =        *)
(* "published", failureNotifiedAt together with state = "notified", and    *)
(* the model keeps the states only.  rootRunId and retryOf are read by no  *)
(* operation modelled here and are left out.                               *)
(***************************************************************************)
EXTENDS Naturals, FiniteSets, PublicationPlan

CONSTANTS
  Trigger,          \* trigger keys: one per reviewed head of a merge request
  NoTrigger,
  Payload,          \* hashes of stage results and of failure messages
  NoPayload,
  PublicationClaim, \* claim ids of result publications
  NoteClaim,        \* claim ids of failure notifications
  NoClaim,
  MaxRuns,          \* bound: run ids ever handed out
  MaxAttempts,      \* NINE1BOT_REVIEW_RUN_ATTEMPT_LIMIT
  MaxRecords        \* NINE1BOT_REVIEW_RUN_STORE_LIMIT

ASSUME BoundsAssumption ==
  /\ MaxRuns \in Nat
  /\ MaxAttempts \in Nat \ {0}
  /\ MaxRecords \in Nat \ {0}

ASSUME NullAssumption ==
  /\ NoTrigger \notin Trigger
  /\ NoPayload \notin Payload
  /\ NoClaim \notin PublicationClaim
  /\ NoClaim \notin NoteClaim

RunId == 1..MaxRuns

ActiveStatus == {"accepted", "running"}
TerminalStatus == {"failed", "rejected", "blocked", "succeeded"}

(* The part of error, rejectionKind and recoverable that a retry looks at. *)
Reason == {"none", "load_transient", "lease_expired", "configuration",
           "policy", "other"}

Run ==
  [trigger     : Trigger \cup {NoTrigger},
   attempt     : 0..MaxAttempts,
   status      : {"absent"} \cup ActiveStatus \cup TerminalStatus,
   reason      : Reason,
   session     : BOOLEAN,                 \* sessionId is set
   context     : BOOLEAN,                 \* the loaded changes are stored
   leaseOver   : BOOLEAN,                 \* now >= activeLeaseExpiresAt
   at          : 0..MaxRuns,              \* rank of updatedAt, 1 is oldest
   pub         : {"none", "publishing", "partial", "published"},
   pubBy       : PublicationClaim \cup {NoClaim},
   payload     : Payload \cup {NoPayload},
   done        : SUBSET Marker,           \* completedMarkers
   note        : {"none", "notifying", "partial", "notified"},
   noteBy      : NoteClaim \cup {NoClaim},
   notePayload : Payload \cup {NoPayload},
   postStarted : BOOLEAN]                 \* postStartedAt is set

NoRun ==
  [trigger |-> NoTrigger, attempt |-> 0, status |-> "absent",
   reason |-> "none", session |-> FALSE, context |-> FALSE,
   leaseOver |-> FALSE, at |-> 0,
   pub |-> "none", pubBy |-> NoClaim, payload |-> NoPayload, done |-> {},
   note |-> "none", noteBy |-> NoClaim, notePayload |-> NoPayload,
   postStarted |-> FALSE]

(* allow is allowTerminalFailure: the claim resumes a failed publication.  *)
PublicationClaims == [by : PublicationClaim \cup {NoClaim}, session : BOOLEAN, allow : BOOLEAN]
NoteClaims == [by : NoteClaim \cup {NoClaim}, session : BOOLEAN]
NoPublicationClaim == [by |-> NoClaim, session |-> FALSE, allow |-> FALSE]
NoNoteClaim == [by |-> NoClaim, session |-> FALSE]

Store ==
  [runs       : [RunId -> Run],
   pubClaims  : [RunId -> PublicationClaims],
   noteClaims : [RunId -> NoteClaims],
   sequence   : 0..MaxRuns]

Disk == [runs : [RunId -> Run], sequence : 0..MaxRuns]

EmptyStore ==
  [runs       |-> [r \in RunId |-> NoRun],
   pubClaims  |-> [r \in RunId |-> NoPublicationClaim],
   noteClaims |-> [r \in RunId |-> NoNoteClaim],
   sequence   |-> 0]

DiskOf(st) == [runs |-> st.runs, sequence |-> st.sequence]

Exists(st) == {r \in RunId : st.runs[r].status # "absent"}
AttemptsOf(st, t) == {r \in Exists(st) : st.runs[r].trigger = t}

(***************************************************************************)
(* Order of attempts                                                       *)
(***************************************************************************)

(* compareLatestAttemptFirst: the attempt number, then the last update.    *)
LaterAttempt(a, b) == a.attempt > b.attempt \/ (a.attempt = b.attempt /\ a.at > b.at)

(* findLatestByTriggerKey(run.triggerKey)?.id === run.id *)
IsLatest(st, r) ==
  \A x \in AttemptsOf(st, st.runs[r].trigger) : x = r \/ LaterAttempt(st.runs[r], st.runs[x])

(* The runs with updatedAt moved to now for r: r becomes the newest.       *)
Touched(runs, r, rec) ==
  LET others == {x \in RunId \ {r} : runs[x].status # "absent"}
      rank(x) == Cardinality({y \in others : runs[y].at <= runs[x].at})
  IN  [x \in RunId |->
         IF x = r THEN [rec EXCEPT !.at = Cardinality(others) + 1]
         ELSE IF x \in others THEN [runs[x] EXCEPT !.at = rank(x)]
         ELSE runs[x]]

Put(st, r, rec) == [st EXCEPT !.runs = Touched(st.runs, r, rec)]

(***************************************************************************)
(* Claims                                                                  *)
(***************************************************************************)

PublicationClaimMatches(run, c) ==
  run.pub = "publishing" /\ run.pubBy = c.by /\ run.session = c.session

NoteClaimMatches(run, c) ==
  run.note = "notifying" /\ run.noteBy = c.by /\ run.session = c.session

(* An identity presented by a caller: the claim, and the run it is for.    *)
ActivePublicationClaimMatches(st, id) ==
  st.pubClaims[id.run] = [by |-> id.by, session |-> id.session, allow |-> id.allow]

ActiveNoteClaimMatches(st, id) ==
  st.noteClaims[id.run] = [by |-> id.by, session |-> id.session]

(* terminalReviewRunError finds nothing to object to.                      *)
NotTerminal(run, allow) ==
  run.status \in ActiveStatus \/ (run.status = "failed" /\ allow)

(* resultPublicationGuardError finds nothing to object to.                 *)
ResultPublicationAllowed(st, r, session, allow) ==
  /\ st.runs[r].session = session
  /\ IsLatest(st, r)
  /\ st.runs[r].note = "none"
  /\ st.runs[r].pub # "published"
  /\ NotTerminal(st.runs[r], allow)

(* failureNotificationGuardError finds nothing to object to.               *)
FailureNotificationAllowed(st, r, session) ==
  /\ st.runs[r].session = session
  /\ IsLatest(st, r)
  /\ st.runs[r].pub = "none"
  /\ st.runs[r].note # "notified"
  /\ st.runs[r].status = "failed"

IsPublicationClaimCurrent(st, id) ==
  /\ PublicationClaimMatches(st.runs[id.run], id)
  /\ ActivePublicationClaimMatches(st, id)
  /\ ResultPublicationAllowed(st, id.run, id.session, id.allow)

IsFailureNotificationClaimCurrent(st, id) ==
  LET run == st.runs[id.run] IN
  /\ NoteClaimMatches(run, id)
  /\ ActiveNoteClaimMatches(st, id)
  /\ run.session = id.session
  /\ IsLatest(st, id.run)
  /\ run.status = "failed"
  /\ run.pub = "none"
  /\ run.note # "notified"

(***************************************************************************)
(* Saving: prune, then write                                               *)
(***************************************************************************)

RemoveOrphanedClaims(st) ==
  [st EXCEPT
    !.pubClaims = [r \in RunId |->
       IF PublicationClaimMatches(st.runs[r], st.pubClaims[r])
       THEN st.pubClaims[r] ELSE NoPublicationClaim],
    !.noteClaims = [r \in RunId |->
       IF NoteClaimMatches(st.runs[r], st.noteClaims[r])
       THEN st.noteClaims[r] ELSE NoNoteClaim]]

(* Mutant: only the run just written protects its group.                   *)
ProtectedWritten(st, retained) == {st.runs[r].trigger : r \in {x \in Exists(st) : x = retained}}

(* Triggers whose group of attempts prune keeps before any other: that of  *)
(* the run just written, and those of the runs with an active claim.       *)
ProtectedTriggers(st, retained) ==
  {st.runs[r].trigger : r \in {x \in Exists(st) :
     \/ x = retained
     \/ st.pubClaims[x].by # NoClaim
     \/ st.noteClaims[x].by # NoClaim}}

(* The runs prune keeps when there are more than MaxRecords: the protected *)
(* groups, newest group and newest run first, up to the limit; then every  *)
(* other group that still fits as a whole, newest first.  Ranks are dense  *)
(* after every write, so the newest run of a group has a rank below n.     *)
Kept(st, retained) ==
  LET n == Cardinality(Exists(st))
      group(r) == AttemptsOf(st, st.runs[r].trigger)
      newest(r) == \A x \in group(r) : st.runs[x].at <= st.runs[r].at
      head(r) == CHOOSE x \in group(r) : newest(x)
      before(a, b) ==
        \/ st.runs[head(a)].at > st.runs[head(b)].at
        \/ head(a) = head(b) /\ st.runs[a].at > st.runs[b].at
      protected == {r \in Exists(st) : st.runs[r].trigger \in ProtectedTriggers(st, retained)}
      first == {r \in protected : Cardinality({x \in protected : before(x, r)}) < MaxRecords}
      fill[k \in 0..n] ==
        IF k = 0 THEN first
        ELSE LET g == UNION {group(r) : r \in
                        {x \in Exists(st) \ protected : newest(x) /\ st.runs[x].at = n + 1 - k}}
             IN  IF Cardinality(fill[k - 1]) + Cardinality(g) <= MaxRecords
                 THEN fill[k - 1] \cup g ELSE fill[k - 1]
  IN  fill[n]

Prune(st, retained) ==
  IF Cardinality(Exists(st)) <= MaxRecords THEN st
  ELSE [st EXCEPT !.runs = [r \in RunId |->
          IF r \in Kept(st, retained) THEN st.runs[r] ELSE NoRun]]

(* save(): the store as it stands after a mutation of the run "retained".  *)
Saved(st, retained) ==
  RemoveOrphanedClaims(Prune(RemoveOrphanedClaims(st), retained))

(***************************************************************************)
(* Creating, updating and retrying runs                                    *)
(***************************************************************************)

(* withActiveLease: the statuses with a lease get a new one.               *)
WithActiveLease(rec) == [rec EXCEPT !.leaseOver = FALSE]

IsActiveAttemptStale(run) == run.status \in ActiveStatus /\ run.leaseOver

NewRun(t, attempt, status, reason) ==
  [NoRun EXCEPT !.trigger = t, !.attempt = attempt, !.status = status, !.reason = reason]

NextRunId(st) == st.sequence + 1

Create(st, t, status, reason) ==
  LET r == NextRunId(st)
  IN  Saved([Put(st, r, NewRun(t, 1, status, reason)) EXCEPT !.sequence = r], r)

(* Mutant: a terminal status may change.                                   *)
UpdateExisting(run, rec) == run.status # "absent"

(* A terminal status never changes through update.                         *)
UpdateAllowed(run, rec) ==
  run.status # "absent" /\ (rec.status = run.status \/ run.status \notin TerminalStatus)

Update(st, r, rec) ==
  IF UpdateAllowed(st.runs[r], rec) THEN Saved(Put(st, r, WithActiveLease(rec)), r) ELSE st

UpdateIfCurrent(st, r, session, rec) ==
  IF st.runs[r].session = session /\ IsLatest(st, r) THEN Update(st, r, rec) ELSE st

AttemptLimit == IF MaxAttempts <= MaxRecords THEN MaxAttempts ELSE MaxRecords

(* Mutants: an attempt too many; a retry of an attempt that was superseded.*)
RetryAttemptOffByOne(st, r) ==
  /\ st.runs[r].status # "absent"
  /\ IsLatest(st, r)
  /\ st.runs[r].attempt <= AttemptLimit
  /\ st.runs[r].status \in ActiveStatus => st.runs[r].leaseOver

RetryAttemptOfAny(st, r) ==
  /\ st.runs[r].status # "absent"
  /\ st.runs[r].attempt < AttemptLimit
  /\ st.runs[r].status \in ActiveStatus => st.runs[r].leaseOver

(* createRetryAttemptGuarded accepts the run r for a new attempt.          *)
RetryAttemptAllowed(st, r) ==
  /\ st.runs[r].status # "absent"
  /\ IsLatest(st, r)
  /\ st.runs[r].attempt < AttemptLimit
  /\ st.runs[r].status \in ActiveStatus => st.runs[r].leaseOver

CreateRetryAttempt(st, r) ==
  LET run == st.runs[r]
      expired == [run EXCEPT !.status = "failed", !.reason = "lease_expired"]
      closed == IF run.status \in ActiveStatus THEN Put(st, r, expired) ELSE st
      new == NextRunId(st)
  IN  Saved([Put(closed, new, NewRun(run.trigger, run.attempt + 1, "accepted", "none"))
               EXCEPT !.sequence = new], new)

(***************************************************************************)
(* Publishing the result                                                   *)
(***************************************************************************)

(* Mutant: a publication is resumed with any payload.                      *)
ClaimPublicationAnyPayload(st, r, payload) ==
  /\ st.runs[r].status # "absent"
  /\ ResultPublicationAllowed(st, r, st.runs[r].session, st.runs[r].pub = "partial")
  /\ st.pubClaims[r].by = NoClaim \/ ~PublicationClaimMatches(st.runs[r], st.pubClaims[r])

ClaimPublicationAllowed(st, r, payload) ==
  LET run == st.runs[r] IN
  /\ run.status # "absent"
  /\ ResultPublicationAllowed(st, r, run.session, run.pub = "partial")
  /\ run.pub = "none" \/ run.payload = payload
  /\ st.pubClaims[r].by = NoClaim \/ ~PublicationClaimMatches(run, st.pubClaims[r])

ClaimPublication(st, r, by, payload) ==
  LET run == st.runs[r]
      claim == [by |-> by, session |-> run.session,
                allow |-> run.status = "failed" /\ run.pub = "partial"]
  IN  Saved([Put(st, r, [run EXCEPT !.pub = "publishing", !.pubBy = by, !.payload = payload])
               EXCEPT !.pubClaims[r] = claim], r)

RecordPublicationMarker(st, id, m) ==
  IF m \in st.runs[id.run].done THEN st
  ELSE Saved(Put(st, id.run, [st.runs[id.run] EXCEPT !.done = @ \cup {m}]), id.run)

ReplacePublicationMarkers(st, id, markers) ==
  Saved(Put(st, id.run, [st.runs[id.run] EXCEPT !.done = markers]), id.run)

(* The claim is gone and the publication can be resumed later.             *)
AsPartial(run) == [run EXCEPT !.pub = "partial", !.pubBy = NoClaim]

WithoutPublicationClaim(st, r, rec) ==
  [Put(st, r, rec) EXCEPT !.pubClaims[r] = NoPublicationClaim]

HoldsPublication(st, id) ==
  /\ PublicationClaimMatches(st.runs[id.run], id)
  /\ ActivePublicationClaimMatches(st, id)

(* Mutant: only a claim that is still current is given up.                 *)
FailCurrentPublication(st, id) ==
  IF IsPublicationClaimCurrent(st, id)
  THEN Saved(WithoutPublicationClaim(st, id.run,
         AsPartial([st.runs[id.run] EXCEPT !.status = "failed", !.reason = "other"])), id.run)
  ELSE st

FailPublication(st, id) ==
  LET run == st.runs[id.run]
      failed == IF NotTerminal(run, id.allow)
                THEN [run EXCEPT !.status = "failed", !.reason = "other"] ELSE run
  IN  IF HoldsPublication(st, id)
      THEN Saved(WithoutPublicationClaim(st, id.run, AsPartial(failed)), id.run) ELSE st

(* Mutant: what an earlier call posted is forgotten.                       *)
ReleaseForgettingPartial(st, id, preservePartial) ==
  IF HoldsPublication(st, id)
  THEN Saved(WithoutPublicationClaim(st, id.run,
         [st.runs[id.run] EXCEPT !.pub = "none", !.pubBy = NoClaim,
                                 !.payload = NoPayload, !.done = {}]), id.run)
  ELSE st

ReleasePublicationClaim(st, id, preservePartial) ==
  LET run == st.runs[id.run]
      cleared == [run EXCEPT !.pub = "none", !.pubBy = NoClaim, !.payload = NoPayload, !.done = {}]
  IN  IF HoldsPublication(st, id)
      THEN Saved(WithoutPublicationClaim(st, id.run,
                   IF preservePartial THEN AsPartial(run) ELSE cleared), id.run)
      ELSE st

RejectPublicationForPolicy(st, id) ==
  LET rejected == [st.runs[id.run] EXCEPT !.status = "rejected", !.reason = "policy"]
  IN  IF HoldsPublication(st, id)
      THEN Saved(WithoutPublicationClaim(st, id.run, AsPartial(rejected)), id.run) ELSE st

CompletePublication(st, id, status) ==
  Saved(WithoutPublicationClaim(st, id.run,
          [st.runs[id.run] EXCEPT !.status = status, !.reason = "none",
                                  !.pub = "published", !.pubBy = NoClaim]), id.run)

(* What completePublication leaves in memory when the save fails.          *)
ReleaseAsPartial(st, id) ==
  WithoutPublicationClaim(st, id.run,
    AsPartial([st.runs[id.run] EXCEPT !.status = "failed", !.reason = "other"]))

(***************************************************************************)
(* Notifying a failure                                                     *)
(***************************************************************************)

ClaimFailureNotificationAllowed(st, r, payload) ==
  LET run == st.runs[r] IN
  /\ run.status # "absent"
  /\ FailureNotificationAllowed(st, r, run.session)
  /\ run.note = "none" \/ run.notePayload = payload
  /\ st.noteClaims[r].by = NoClaim

ClaimFailureNotification(st, r, by, payload) ==
  LET run == st.runs[r]
  IN  Saved([Put(st, r, [run EXCEPT !.note = "notifying", !.noteBy = by, !.notePayload = payload])
               EXCEPT !.noteClaims[r] = [by |-> by, session |-> run.session]], r)

(* The only write of the store that leaves updatedAt alone.                *)
MarkFailureNotificationPostStarted(st, id) ==
  Saved([st EXCEPT !.runs[id.run].postStarted = TRUE], id.run)

(* In memory only: the record keeps the state "notifying".                 *)
ReleaseFailureNotificationClaim(st, id) ==
  IF ActiveNoteClaimMatches(st, id)
  THEN [st EXCEPT !.noteClaims[id.run] = NoNoteClaim] ELSE st

WithoutNoteClaim(st, r, rec) == [Put(st, r, rec) EXCEPT !.noteClaims[r] = NoNoteClaim]

CompleteFailureNotification(st, id) ==
  Saved(WithoutNoteClaim(st, id.run,
          [st.runs[id.run] EXCEPT !.note = "notified", !.noteBy = NoClaim]), id.run)

HoldsNotification(st, id) ==
  NoteClaimMatches(st.runs[id.run], id) /\ ActiveNoteClaimMatches(st, id)

(* Mutant: postStartedAt is cleared whatever GitLab answered.              *)
FailForgettingPost(st, id, deliveryRejected) ==
  IF HoldsNotification(st, id)
  THEN Saved(WithoutNoteClaim(st, id.run,
         [st.runs[id.run] EXCEPT !.note = "partial", !.noteBy = NoClaim,
                                 !.postStarted = FALSE]), id.run)
  ELSE st

(* deliveryRejected: GitLab answered that it did not take the note.        *)
FailFailureNotification(st, id, deliveryRejected) ==
  LET run == st.runs[id.run]
  IN  IF HoldsNotification(st, id)
      THEN Saved(WithoutNoteClaim(st, id.run,
             [run EXCEPT !.note = "partial", !.noteBy = NoClaim,
                         !.postStarted = @ /\ ~deliveryRejected]), id.run)
      ELSE st

RejectFailureNotificationForPolicy(st, id) ==
  IF IsFailureNotificationClaimCurrent(st, id)
  THEN Saved(WithoutNoteClaim(st, id.run,
         [st.runs[id.run] EXCEPT !.status = "rejected", !.reason = "policy",
                                 !.note = "partial", !.noteBy = NoClaim]), id.run)
  ELSE st

(***************************************************************************)
(* Loading the file after a restart                                        *)
(***************************************************************************)

(* Mutant: every publication is taken for an interrupted one.              *)
NormalizedAlways(run) ==
  [run EXCEPT !.pub = IF @ = "none" THEN @ ELSE "partial", !.pubBy = NoClaim,
              !.note = IF @ = "notifying" THEN "partial" ELSE @, !.noteBy = NoClaim]

(* normalizeStoredReviewRun: no claim survives the process that held it.   *)
Normalized(run) ==
  [run EXCEPT !.pub = IF @ = "publishing" THEN "partial" ELSE @, !.pubBy = NoClaim,
              !.note = IF @ = "notifying" THEN "partial" ELSE @, !.noteBy = NoClaim]

Loaded(disk) ==
  [EmptyStore EXCEPT !.runs = [r \in RunId |-> Normalized(disk.runs[r])],
                     !.sequence = disk.sequence]

=============================================================================
