------------------------- MODULE ReviewRunStoreProofs -------------------------
(***************************************************************************)
(* What every operation of the run store preserves: the type of the store, *)
(* and the two facts that keep publications and notifications apart.       *)
(***************************************************************************)
EXTENDS ReviewRunStore, FiniteSetTheorems, TLAPS

(* A run has a publication or a notification, never both.                  *)
OneSided(run) == run.pub # "none" => run.note = "none"

(* A run that is being published is held by the claim c.                   *)
HeldBy(run, c) == run.pub = "publishing" => PublicationClaimMatches(run, c)

SoundRuns(runs) == \A r \in RunId : OneSided(runs[r])

SoundStore(st) ==
  /\ st \in Store
  /\ SoundRuns(st.runs)
  /\ \A r \in RunId : HeldBy(st.runs[r], st.pubClaims[r])

SoundDisk(d) == d \in Disk /\ SoundRuns(d.runs)

(***************************************************************************)
(* Writing one run                                                         *)
(***************************************************************************)

(* An absent run is a record of the type, and claims nothing.              *)
LEMMA NoRunType == NoRun \in Run /\ OneSided(NoRun) /\ \A c : HeldBy(NoRun, c)
<1>1. 1 \in Nat /\ MaxAttempts \in Nat /\ MaxRuns \in Nat
  BY BoundsAssumption
<1> QED
  BY <1>1 DEF NoRun, Run, OneSided, HeldBy, ActiveStatus, TerminalStatus, Reason

(* The claims that a run names are those that another names.               *)
SameClaims(a, b) ==
  a.pub = b.pub /\ a.pubBy = b.pubBy /\ a.session = b.session /\ a.note = b.note

(* Two runs that differ at most in the rank of their last update.          *)
Alike(a, b) ==
  /\ a.trigger = b.trigger /\ a.attempt = b.attempt
  /\ a.status = b.status /\ a.reason = b.reason
  /\ a.session = b.session /\ a.context = b.context /\ a.leaseOver = b.leaseOver
  /\ a.pub = b.pub /\ a.pubBy = b.pubBy /\ a.payload = b.payload /\ a.done = b.done
  /\ a.note = b.note /\ a.noteBy = b.noteBy /\ a.notePayload = b.notePayload
  /\ a.postStarted = b.postStarted

(* Runs that are alike name the same claims.                               *)
LEMMA AlikeSameClaims == \A a, b : Alike(a, b) => SameClaims(a, b)
BY DEF Alike, SameClaims

(* A new rank of the last update changes nothing else of a run.            *)
LEMMA RankIsApart ==
  ASSUME NEW run \in Run, NEW k \in 0..MaxRuns
  PROVE  [run EXCEPT !.at = k] \in Run /\ Alike([run EXCEPT !.at = k], run)
BY DEF Run, Alike

(* The ranks given out by a write stay within the number of runs.          *)
LEMMA RankBound ==
  ASSUME NEW r \in RunId, NEW T \in SUBSET (RunId \ {r})
  PROVE  Cardinality(T) \in Nat /\ Cardinality(T) + 1 <= MaxRuns
<1>1. MaxRuns \in Nat
  BY BoundsAssumption
<1>2. IsFiniteSet(RunId) /\ Cardinality(RunId) = MaxRuns
  BY <1>1, FS_Interval DEF RunId
<1>3. IsFiniteSet(RunId \ {r}) /\ Cardinality(RunId \ {r}) = MaxRuns - 1
  BY <1>2, FS_RemoveElement
<1>4. IsFiniteSet(T) /\ Cardinality(T) <= MaxRuns - 1
  BY <1>3, FS_Subset
<1> QED
  BY <1>1, <1>4, FS_CardinalityType

(* Writing one run gives it the new record and the others a new rank only. *)
LEMMA TouchedRuns ==
  ASSUME NEW runs \in [RunId -> Run], NEW r \in RunId, NEW rec \in Run
  PROVE  /\ Touched(runs, r, rec) \in [RunId -> Run]
         /\ Alike(Touched(runs, r, rec)[r], rec)
         /\ \A x \in RunId \ {r} : Alike(Touched(runs, r, rec)[x], runs[x])
<1> DEFINE others == {x \in RunId \ {r} : runs[x].status # "absent"}
           rank(x) == Cardinality({y \in others : runs[y].at <= runs[x].at})
           new(x) == IF x = r THEN [rec EXCEPT !.at = Cardinality(others) + 1]
                     ELSE IF x \in others THEN [runs[x] EXCEPT !.at = rank(x)]
                     ELSE runs[x]
<1>1. Touched(runs, r, rec) = [x \in RunId |-> new(x)]
  BY DEF Touched
<1>2. Cardinality(others) + 1 \in 0..MaxRuns
  <2>1. others \in SUBSET (RunId \ {r})
    OBVIOUS
  <2>2. MaxRuns \in Nat
    BY BoundsAssumption
  <2> HIDE DEF others
  <2> QED
    BY <2>1, <2>2, RankBound
<1>3. ASSUME NEW x \in RunId PROVE rank(x) \in 0..MaxRuns
  <2>1. {y \in others : runs[y].at <= runs[x].at} \in SUBSET (RunId \ {r})
    OBVIOUS
  <2>2. MaxRuns \in Nat
    BY BoundsAssumption
  <2> DEFINE T == {y \in others : runs[y].at <= runs[x].at}
  <2>3. T \in SUBSET (RunId \ {r})
    BY <2>1
  <2> HIDE DEF T
  <2>4. Cardinality(T) \in 0..MaxRuns
    BY <2>2, <2>3, RankBound
  <2> QED
    BY <2>4 DEF T
<1>4. ASSUME NEW x \in RunId \ {r} PROVE new(x) \in Run /\ Alike(new(x), runs[x])
  <2> HIDE DEF rank
  <2>1. CASE x \in others
    <3>1. new(x) = [runs[x] EXCEPT !.at = rank(x)]
      BY <2>1
    <3> QED
      BY <1>3, <3>1, RankIsApart
  <2>2. CASE x \notin others
    <3>1. new(x) = runs[x]
      BY <2>2
    <3> QED
      BY <3>1 DEF Alike
  <2> QED
    BY <2>1, <2>2
<1>5. new(r) \in Run /\ Alike(new(r), rec)
  <2> HIDE DEF others
  <2>1. new(r) = [rec EXCEPT !.at = Cardinality(others) + 1]
    OBVIOUS
  <2> QED
    BY <1>2, <2>1, RankIsApart
<1> HIDE DEF new
<1> QED
  BY <1>1, <1>4, <1>5

(* What is required of the claims of a run holds of any run that names the *)
(* same.                                                                   *)
LEMMA ClaimsCarryOver ==
  ASSUME NEW a \in Run, NEW b \in Run, SameClaims(a, b)
  PROVE  /\ OneSided(b) => OneSided(a)
         /\ \A c : HeldBy(b, c) => HeldBy(a, c)
BY DEF SameClaims, OneSided, HeldBy, PublicationClaimMatches

(* The parts of a sound store, and what holds of each run in it.           *)
LEMMA StoreFields ==
  ASSUME NEW st, SoundStore(st), NEW r \in RunId
  PROVE  /\ st = [runs |-> st.runs, pubClaims |-> st.pubClaims,
                  noteClaims |-> st.noteClaims, sequence |-> st.sequence]
         /\ st.runs \in [RunId -> Run] /\ st.runs[r] \in Run
         /\ st.pubClaims \in [RunId -> PublicationClaims] /\ st.pubClaims[r] \in PublicationClaims
         /\ st.noteClaims \in [RunId -> NoteClaims] /\ st.noteClaims[r] \in NoteClaims
         /\ st.sequence \in 0..MaxRuns
         /\ OneSided(st.runs[r]) /\ HeldBy(st.runs[r], st.pubClaims[r])
BY DEF SoundStore, SoundRuns, Store

(* A store with other runs and claims is sound if they are.                *)
LEMMA StoreOf ==
  ASSUME NEW runs \in [RunId -> Run], NEW pubs \in [RunId -> PublicationClaims],
         NEW notes \in [RunId -> NoteClaims], NEW n \in 0..MaxRuns,
         \A r \in RunId : OneSided(runs[r]) /\ HeldBy(runs[r], pubs[r])
  PROVE  SoundStore([runs |-> runs, pubClaims |-> pubs, noteClaims |-> notes, sequence |-> n])
BY DEF SoundStore, SoundRuns, Store

(* The run r is written, and its publication claim becomes c.              *)
LEMMA PutClaimSound ==
  ASSUME NEW st, SoundStore(st), NEW r \in RunId, NEW rec \in Run, NEW c \in PublicationClaims,
         OneSided(rec), HeldBy(rec, c)
  PROVE  SoundStore([Put(st, r, rec) EXCEPT !.pubClaims[r] = c])
<1> DEFINE runs == Touched(st.runs, r, rec)
           pubs == [st.pubClaims EXCEPT ![r] = c]
<1>1. runs \in [RunId -> Run] /\ SameClaims(runs[r], rec)
      /\ \A x \in RunId \ {r} : SameClaims(runs[x], st.runs[x])
  BY StoreFields, TouchedRuns, AlikeSameClaims
<1>2. [Put(st, r, rec) EXCEPT !.pubClaims[r] = c]
        = [runs |-> runs, pubClaims |-> pubs, noteClaims |-> st.noteClaims, sequence |-> st.sequence]
  <2>1. Put(st, r, rec) = [runs |-> runs, pubClaims |-> st.pubClaims,
                           noteClaims |-> st.noteClaims, sequence |-> st.sequence]
    <3>1. Put(st, r, rec) = [st EXCEPT !.runs = runs]
      BY DEF Put
    <3> HIDE DEF runs
    <3> QED
      BY <3>1, StoreFields
  <2> HIDE DEF runs
  <2> QED
    BY <2>1
<1>3. pubs \in [RunId -> PublicationClaims]
  BY StoreFields
<1>4. ASSUME NEW x \in RunId PROVE OneSided(runs[x]) /\ HeldBy(runs[x], pubs[x])
  <2>1. CASE x = r
    <3>1. pubs[x] = c
      BY <2>1, StoreFields
    <3> HIDE DEF runs, pubs
    <3> QED
      BY <1>1, <2>1, <3>1, ClaimsCarryOver
  <2>2. CASE x # r
    <3>1. pubs[x] = st.pubClaims[x] /\ st.runs[x] \in Run
          /\ OneSided(st.runs[x]) /\ HeldBy(st.runs[x], st.pubClaims[x])
      BY <2>2, StoreFields
    <3> HIDE DEF runs, pubs
    <3> QED
      BY <1>1, <2>2, <3>1, ClaimsCarryOver
  <2> QED
    BY <2>1, <2>2
<1>5. st.noteClaims \in [RunId -> NoteClaims] /\ st.sequence \in 0..MaxRuns
  BY StoreFields
<1> HIDE DEF runs, pubs
<1> QED
  BY <1>1, <1>2, <1>3, <1>4, <1>5, StoreOf

(* The run r is written.                                                   *)
LEMMA PutSound ==
  ASSUME NEW st, SoundStore(st), NEW r \in RunId, NEW rec \in Run,
         OneSided(rec), HeldBy(rec, st.pubClaims[r])
  PROVE  SoundStore(Put(st, r, rec))
<1>1. st.pubClaims[r] \in PublicationClaims
  BY StoreFields
<1>2. SoundStore([Put(st, r, rec) EXCEPT !.pubClaims[r] = st.pubClaims[r]])
  BY <1>1, PutClaimSound
<1>3. [Put(st, r, rec) EXCEPT !.pubClaims[r] = st.pubClaims[r]] = Put(st, r, rec)
  BY StoreFields DEF Put
<1> QED
  BY <1>2, <1>3

(* The run r is written, and its notification claim becomes c.             *)
LEMMA PutNoteClaimSound ==
  ASSUME NEW st, SoundStore(st), NEW r \in RunId, NEW rec \in Run, NEW c \in NoteClaims,
         OneSided(rec), HeldBy(rec, st.pubClaims[r])
  PROVE  SoundStore([Put(st, r, rec) EXCEPT !.noteClaims[r] = c])
<1> DEFINE put == Put(st, r, rec)
           notes == [put.noteClaims EXCEPT ![r] = c]
<1>1. SoundStore(put)
  BY PutSound
<1> HIDE DEF put
<1>2. /\ put = [runs |-> put.runs, pubClaims |-> put.pubClaims,
                noteClaims |-> put.noteClaims, sequence |-> put.sequence]
      /\ put.runs \in [RunId -> Run] /\ put.pubClaims \in [RunId -> PublicationClaims]
      /\ put.noteClaims \in [RunId -> NoteClaims] /\ put.sequence \in 0..MaxRuns
  BY <1>1, StoreFields
<1>3. [put EXCEPT !.noteClaims[r] = c]
        = [runs |-> put.runs, pubClaims |-> put.pubClaims, noteClaims |-> notes,
           sequence |-> put.sequence]
  BY <1>2
<1>4. notes \in [RunId -> NoteClaims]
  BY <1>2
<1>5. \A x \in RunId : OneSided(put.runs[x]) /\ HeldBy(put.runs[x], put.pubClaims[x])
  BY <1>1, StoreFields
<1> HIDE DEF notes
<1>6. SoundStore([put EXCEPT !.noteClaims[r] = c])
  BY <1>2, <1>3, <1>4, <1>5, StoreOf
<1> QED
  BY <1>6 DEF put

(***************************************************************************)
(* Saving                                                                  *)
(***************************************************************************)

(* The absent claims have the types of claims.                             *)
LEMMA NoClaimTypes == NoPublicationClaim \in PublicationClaims /\ NoNoteClaim \in NoteClaims
BY DEF NoPublicationClaim, PublicationClaims, NoNoteClaim, NoteClaims

(* Dropping orphaned claims never drops that of a run being published.     *)
LEMMA RemoveOrphanedClaimsSound ==
  ASSUME NEW st, SoundStore(st)
  PROVE  SoundStore(RemoveOrphanedClaims(st))
<1> DEFINE pubs == [r \in RunId |-> IF PublicationClaimMatches(st.runs[r], st.pubClaims[r])
                                    THEN st.pubClaims[r] ELSE NoPublicationClaim]
           notes == [r \in RunId |-> IF NoteClaimMatches(st.runs[r], st.noteClaims[r])
                                     THEN st.noteClaims[r] ELSE NoNoteClaim]
<1>1. RemoveOrphanedClaims(st)
        = [runs |-> st.runs, pubClaims |-> pubs, noteClaims |-> notes, sequence |-> st.sequence]
  <2>1. RemoveOrphanedClaims(st) = [st EXCEPT !.pubClaims = pubs, !.noteClaims = notes]
    BY DEF RemoveOrphanedClaims
  <2> HIDE DEF pubs, notes
  <2> QED
    BY <2>1 DEF SoundStore, Store
<1>2. pubs \in [RunId -> PublicationClaims] /\ notes \in [RunId -> NoteClaims]
  BY StoreFields, NoClaimTypes
<1>3. \A r \in RunId : OneSided(st.runs[r]) /\ HeldBy(st.runs[r], pubs[r])
  BY StoreFields DEF HeldBy
<1>4. st.runs \in [RunId -> Run] /\ st.sequence \in 0..MaxRuns
  BY DEF SoundStore, Store
<1> HIDE DEF pubs, notes
<1> QED
  BY <1>1, <1>2, <1>3, <1>4, StoreOf

(* Pruning removes whole runs, whichever it keeps.                         *)
LEMMA PruneSound ==
  ASSUME NEW st, SoundStore(st), NEW retained
  PROVE  SoundStore(Prune(st, retained))
<1> DEFINE runs == [r \in RunId |-> IF r \in Kept(st, retained) THEN st.runs[r] ELSE NoRun]
           pruned == [runs |-> runs, pubClaims |-> st.pubClaims,
                      noteClaims |-> st.noteClaims, sequence |-> st.sequence]
<1>1. Prune(st, retained) \in {st, pruned}
  BY DEF Prune, SoundStore, Store
<1>2. runs \in [RunId -> Run]
  BY StoreFields, NoRunType
<1>3. \A r \in RunId : OneSided(runs[r]) /\ HeldBy(runs[r], st.pubClaims[r])
  BY StoreFields, NoRunType
<1>4. st.pubClaims \in [RunId -> PublicationClaims] /\ st.noteClaims \in [RunId -> NoteClaims]
      /\ st.sequence \in 0..MaxRuns
  BY DEF SoundStore, Store
<1>5. SoundStore(pruned)
  <2> HIDE DEF runs
  <2> QED
    BY <1>2, <1>3, <1>4, StoreOf
<1> QED
  BY <1>1, <1>5

(* save() as a whole keeps a store sound.                                  *)
LEMMA SavedSound ==
  ASSUME NEW st, SoundStore(st), NEW retained
  PROVE  SoundStore(Saved(st, retained))
BY RemoveOrphanedClaimsSound, PruneSound DEF Saved

(***************************************************************************)
(* Creating, updating and retrying runs                                    *)
(***************************************************************************)

(* The counter of run ids is independent of the runs.                      *)
LEMMA SequenceSound ==
  ASSUME NEW st, SoundStore(st), NEW n \in 0..MaxRuns
  PROVE  SoundStore([st EXCEPT !.sequence = n])
<1>1. [st EXCEPT !.sequence = n] = [runs |-> st.runs, pubClaims |-> st.pubClaims,
                                    noteClaims |-> st.noteClaims, sequence |-> n]
  BY DEF SoundStore, Store
<1>2. /\ st.runs \in [RunId -> Run] /\ st.pubClaims \in [RunId -> PublicationClaims]
      /\ st.noteClaims \in [RunId -> NoteClaims]
  BY DEF SoundStore, Store
<1>3. \A r \in RunId : OneSided(st.runs[r]) /\ HeldBy(st.runs[r], st.pubClaims[r])
  BY StoreFields
<1> QED
  BY <1>1, <1>2, <1>3, StoreOf

(* A run that has just been created claims nothing.                        *)
LEMMA NewRunType ==
  ASSUME NEW t \in Trigger \cup {NoTrigger}, NEW k \in 0..MaxAttempts,
         NEW status \in ActiveStatus \cup TerminalStatus, NEW reason \in Reason
  PROVE  /\ NewRun(t, k, status, reason) \in Run
         /\ OneSided(NewRun(t, k, status, reason))
         /\ \A c : HeldBy(NewRun(t, k, status, reason), c)
BY NoRunType DEF NewRun, NoRun, Run, OneSided, HeldBy

(* create                                                                  *)
LEMMA CreateSound ==
  ASSUME NEW st, SoundStore(st), NEW t \in Trigger, NextRunId(st) \in RunId,
         NEW status \in ActiveStatus \cup TerminalStatus, NEW reason \in Reason
  PROVE  SoundStore(Create(st, t, status, reason))
<1> DEFINE r == NextRunId(st)
           put == Put(st, r, NewRun(t, 1, status, reason))
<1>1. 1 \in 0..MaxAttempts /\ r \in 0..MaxRuns
  BY BoundsAssumption DEF RunId
<1>2. SoundStore(put)
  BY <1>1, NewRunType, PutSound
<1> HIDE DEF put
<1>3. SoundStore([put EXCEPT !.sequence = r])
  BY <1>1, <1>2, SequenceSound
<1>4. SoundStore(Saved([put EXCEPT !.sequence = r], r))
  BY <1>3, SavedSound
<1> QED
  BY <1>4 DEF put, Create

(* An update that leaves the claims of the run alone.                      *)
LEMMA UpdateSound ==
  ASSUME NEW st, SoundStore(st), NEW r \in RunId, NEW rec \in Run,
         OneSided(rec), HeldBy(rec, st.pubClaims[r])
  PROVE  SoundStore(Update(st, r, rec))
<1>1. WithActiveLease(rec) \in Run /\ SameClaims(WithActiveLease(rec), rec)
  BY DEF WithActiveLease, Run, SameClaims
<1>2. SoundStore(Put(st, r, WithActiveLease(rec)))
  BY <1>1, ClaimsCarryOver, PutSound
<1>3. SoundStore(Saved(Put(st, r, WithActiveLease(rec)), r))
  BY <1>2, SavedSound
<1> QED
  BY <1>3 DEF Update

(* updateIfCurrent, with a record that does not disturb the claims.        *)
LEMMA UpdateIfCurrentSound ==
  ASSUME NEW st, SoundStore(st), NEW r \in RunId, NEW session, NEW rec \in Run,
         OneSided(rec), HeldBy(rec, st.pubClaims[r])
  PROVE  SoundStore(UpdateIfCurrent(st, r, session, rec))
BY UpdateSound DEF UpdateIfCurrent

(* run with a new status and reason keeps its claims.                      *)
LEMMA StatusKeepsClaims ==
  ASSUME NEW run \in Run, NEW status \in TerminalStatus, NEW reason \in Reason
  PROVE  LET new == [run EXCEPT !.status = status, !.reason = reason]
         IN  new \in Run /\ SameClaims(new, run)
BY DEF Run, SameClaims

(* createRetryAttemptGuarded: the old run is closed and the new one added. *)
LEMMA CreateRetryAttemptSound ==
  ASSUME NEW st, SoundStore(st), NEW r \in RunId, NextRunId(st) \in RunId,
         RetryAttemptAllowed(st, r)
  PROVE  SoundStore(CreateRetryAttempt(st, r))
<1> DEFINE run == st.runs[r]
           expired == [run EXCEPT !.status = "failed", !.reason = "lease_expired"]
           closed == IF run.status \in ActiveStatus THEN Put(st, r, expired) ELSE st
           new == NextRunId(st)
           rec == NewRun(run.trigger, run.attempt + 1, "accepted", "none")
           put == Put(closed, new, rec)
<1>1. run \in Run /\ OneSided(run) /\ HeldBy(run, st.pubClaims[r])
  BY StoreFields
<1>2. expired \in Run /\ SameClaims(expired, run)
  <2> HIDE DEF run
  <2> QED
    BY <1>1, StatusKeepsClaims DEF TerminalStatus, Reason
<1>3. SoundStore(closed)
  <2>1. SoundStore(Put(st, r, expired))
    <3> HIDE DEF run, expired
    <3> QED
      BY <1>1, <1>2, ClaimsCarryOver, PutSound
  <2> QED
    BY <2>1
<1>4. run.attempt + 1 \in 0..MaxAttempts /\ run.trigger \in Trigger \cup {NoTrigger}
  <2>1. run.attempt \in 0..MaxAttempts /\ run.trigger \in Trigger \cup {NoTrigger}
    BY <1>1 DEF Run
  <2>2. run.attempt < AttemptLimit
    BY DEF RetryAttemptAllowed
  <2>3. AttemptLimit <= MaxAttempts
    BY BoundsAssumption DEF AttemptLimit
  <2>4. AttemptLimit \in Nat /\ MaxAttempts \in Nat
    BY BoundsAssumption DEF AttemptLimit
  <2> HIDE DEF run
  <2> QED
    BY <2>1, <2>2, <2>3, <2>4
<1>5. rec \in Run /\ OneSided(rec) /\ HeldBy(rec, closed.pubClaims[new])
  <2> HIDE DEF run, closed, new
  <2> QED
    BY <1>4, NewRunType DEF ActiveStatus, Reason
<1>6. SoundStore(put) /\ new \in 0..MaxRuns
  <2>1. new \in 0..MaxRuns
    BY BoundsAssumption DEF RunId
  <2> HIDE DEF closed, rec
  <2> QED
    BY <1>3, <1>5, <2>1, PutSound
<1> HIDE DEF put
<1>7. SoundStore([put EXCEPT !.sequence = new])
  BY <1>6, SequenceSound
<1>8. SoundStore(Saved([put EXCEPT !.sequence = new], new))
  BY <1>7, SavedSound
<1> QED
  BY <1>8 DEF put, CreateRetryAttempt

(***************************************************************************)
(* Publishing the result                                                   *)
(***************************************************************************)

(* claimPublication: the guard that no notification was begun is what      *)
(* matters.                                                                *)
LEMMA ClaimPublicationSound ==
  ASSUME NEW st, SoundStore(st), NEW r \in RunId, NEW by \in PublicationClaim,
         NEW payload \in Payload, ClaimPublicationAllowed(st, r, payload)
  PROVE  SoundStore(ClaimPublication(st, r, by, payload))
<1> DEFINE run == st.runs[r]
           allow == run.status = "failed" /\ run.pub = "partial"
           claim == [by |-> by, session |-> run.session, allow |-> allow]
           rec == [run EXCEPT !.pub = "publishing", !.pubBy = by, !.payload = payload]
           put == [Put(st, r, rec) EXCEPT !.pubClaims[r] = claim]
<1>1. run \in Run
  BY StoreFields
<1>2. run.note = "none"
  BY DEF ClaimPublicationAllowed, ResultPublicationAllowed
<1>3. rec \in Run /\ rec.pub = "publishing" /\ rec.pubBy = by
      /\ rec.session = run.session /\ rec.note = "none"
  <2> HIDE DEF run
  <2> QED
    BY <1>1, <1>2 DEF Run
<1>4. run.session \in BOOLEAN
  <2> HIDE DEF run
  <2> QED
    BY <1>1 DEF Run
<1>5. claim \in PublicationClaims /\ claim.by = by /\ claim.session = run.session
  <2>1. allow \in BOOLEAN
    OBVIOUS
  <2> HIDE DEF run, allow
  <2> QED
    BY <1>4, <2>1 DEF PublicationClaims
<1>6. OneSided(rec) /\ HeldBy(rec, claim)
  <2> HIDE DEF rec, claim
  <2> QED
    BY <1>3, <1>5 DEF OneSided, HeldBy, PublicationClaimMatches
<1>7. SoundStore(put)
  <2> HIDE DEF rec, claim
  <2> QED
    BY <1>3, <1>5, <1>6, PutClaimSound
<1> HIDE DEF put
<1>8. SoundStore(Saved(put, r))
  BY <1>7, SavedSound
<1> QED
  BY <1>8 DEF put, ClaimPublication

(* A claim that is held names a run with a publication and no note.        *)
LEMMA HolderIsPublishing ==
  ASSUME NEW st, SoundStore(st), NEW id, id.run \in RunId,
         HoldsPublication(st, id) \/ IsPublicationClaimCurrent(st, id)
  PROVE  /\ st.runs[id.run] \in Run
         /\ st.runs[id.run].pub = "publishing"
         /\ st.runs[id.run].note = "none"
<1>1. st.runs[id.run] \in Run /\ OneSided(st.runs[id.run])
  BY StoreFields
<1>2. PublicationClaimMatches(st.runs[id.run], id)
  BY DEF HoldsPublication, IsPublicationClaimCurrent
<1> QED
  BY <1>1, <1>2 DEF PublicationClaimMatches, OneSided

(* Markers are independent of the claims.                                  *)
LEMMA MarkersKeepClaims ==
  ASSUME NEW run \in Run, NEW markers \in SUBSET Marker
  PROVE  LET new == [run EXCEPT !.done = markers] IN new \in Run /\ SameClaims(new, run)
BY DEF Run, SameClaims

(* replacePublicationMarkers                                               *)
LEMMA ReplacePublicationMarkersSound ==
  ASSUME NEW st, SoundStore(st), NEW id, id.run \in RunId, NEW markers \in SUBSET Marker
  PROVE  SoundStore(ReplacePublicationMarkers(st, id, markers))
<1> DEFINE run == st.runs[id.run]
           new == [run EXCEPT !.done = markers]
<1>1. run \in Run /\ OneSided(run) /\ HeldBy(run, st.pubClaims[id.run])
  BY StoreFields
<1>2. new \in Run /\ SameClaims(new, run)
  <2> HIDE DEF run
  <2> QED
    BY <1>1, MarkersKeepClaims
<1>3. SoundStore(Put(st, id.run, new))
  <2> HIDE DEF run, new
  <2> QED
    BY <1>1, <1>2, ClaimsCarryOver, PutSound
<1>4. SoundStore(Saved(Put(st, id.run, new), id.run))
  <2> HIDE DEF new
  <2> QED
    BY <1>3, SavedSound
<1> QED
  BY <1>4 DEF ReplacePublicationMarkers

(* recordPublicationMarker                                                 *)
LEMMA RecordPublicationMarkerSound ==
  ASSUME NEW st, SoundStore(st), NEW id, id.run \in RunId, NEW m \in Marker
  PROVE  SoundStore(RecordPublicationMarker(st, id, m))
<1> DEFINE run == st.runs[id.run]
           markers == run.done \cup {m}
<1>1. run \in Run
  BY StoreFields
<1>2. markers \in SUBSET Marker
  BY <1>1 DEF Run
<1>3. SoundStore(ReplacePublicationMarkers(st, id, markers))
  <2> HIDE DEF markers
  <2> QED
    BY <1>2, ReplacePublicationMarkersSound
<1> QED
  BY <1>3 DEF RecordPublicationMarker, ReplacePublicationMarkers

(* A run whose publication is interrupted needs no claim.                  *)
LEMMA AsPartialSound ==
  ASSUME NEW run \in Run, run.note = "none"
  PROVE  AsPartial(run) \in Run /\ AsPartial(run).pub = "partial" /\ OneSided(AsPartial(run))
BY DEF AsPartial, Run, OneSided

(* The run r is written, and is no longer being published.                 *)
LEMMA WithoutPublicationClaimSound ==
  ASSUME NEW st, SoundStore(st), NEW r \in RunId, NEW rec \in Run,
         OneSided(rec), rec.pub # "publishing"
  PROVE  SoundStore(WithoutPublicationClaim(st, r, rec))
BY NoClaimTypes, PutClaimSound DEF WithoutPublicationClaim, HeldBy

(* The publication is given up, and the run gets another status or keeps   *)
(* its own.                                                                *)
LEMMA GiveUpSound ==
  ASSUME NEW st, SoundStore(st), NEW r \in RunId, NEW run \in Run, run.note = "none"
  PROVE  /\ SoundStore(WithoutPublicationClaim(st, r, AsPartial(run)))
         /\ SoundStore(Saved(WithoutPublicationClaim(st, r, AsPartial(run)), r))
BY AsPartialSound, WithoutPublicationClaimSound, SavedSound

(* failPublication                                                         *)
LEMMA FailPublicationSound ==
  ASSUME NEW st, SoundStore(st), NEW id, id.run \in RunId
  PROVE  SoundStore(FailPublication(st, id))
<1> SUFFICES ASSUME HoldsPublication(st, id) PROVE SoundStore(FailPublication(st, id))
  BY DEF FailPublication
<1> DEFINE run == st.runs[id.run]
           other == [run EXCEPT !.status = "failed", !.reason = "other"]
           failed == IF NotTerminal(run, id.allow) THEN other ELSE run
<1>1. run \in Run /\ run.note = "none"
  BY HolderIsPublishing
<1>2. other \in Run /\ other.note = "none"
  <2> HIDE DEF run
  <2> QED
    BY <1>1, StatusKeepsClaims DEF TerminalStatus, Reason, SameClaims
<1>3. failed \in Run /\ failed.note = "none"
  BY <1>1, <1>2
<1>4. SoundStore(Saved(WithoutPublicationClaim(st, id.run, AsPartial(failed)), id.run))
  <2> HIDE DEF failed
  <2> QED
    BY <1>3, GiveUpSound
<1> QED
  BY <1>4 DEF FailPublication

(* releasePublicationClaim, whether or not comments were posted before.    *)
LEMMA ReleasePublicationClaimSound ==
  ASSUME NEW st, SoundStore(st), NEW id, id.run \in RunId, NEW preservePartial
  PROVE  SoundStore(ReleasePublicationClaim(st, id, preservePartial))
<1> SUFFICES ASSUME HoldsPublication(st, id)
             PROVE  SoundStore(ReleasePublicationClaim(st, id, preservePartial))
  BY DEF ReleasePublicationClaim
<1> DEFINE run == st.runs[id.run]
           cleared == [run EXCEPT !.pub = "none", !.pubBy = NoClaim, !.payload = NoPayload, !.done = {}]
           rec == IF preservePartial THEN AsPartial(run) ELSE cleared
<1>1. run \in Run /\ run.note = "none"
  BY HolderIsPublishing
<1>2. cleared \in Run /\ OneSided(cleared) /\ cleared.pub # "publishing"
  <2> HIDE DEF run
  <2> QED
    BY <1>1 DEF Run, OneSided
<1>3. rec \in Run /\ OneSided(rec) /\ rec.pub # "publishing"
  <2> HIDE DEF run, cleared
  <2> QED
    BY <1>1, <1>2, AsPartialSound
<1>4. SoundStore(Saved(WithoutPublicationClaim(st, id.run, rec), id.run))
  <2> HIDE DEF rec
  <2> QED
    BY <1>3, WithoutPublicationClaimSound, SavedSound
<1> QED
  BY <1>4 DEF ReleasePublicationClaim

(* rejectPublicationForPolicy                                              *)
LEMMA RejectPublicationForPolicySound ==
  ASSUME NEW st, SoundStore(st), NEW id, id.run \in RunId
  PROVE  SoundStore(RejectPublicationForPolicy(st, id))
<1> SUFFICES ASSUME HoldsPublication(st, id) PROVE SoundStore(RejectPublicationForPolicy(st, id))
  BY DEF RejectPublicationForPolicy
<1> DEFINE run == st.runs[id.run]
           rejected == [run EXCEPT !.status = "rejected", !.reason = "policy"]
<1>1. run \in Run /\ run.note = "none"
  BY HolderIsPublishing
<1>2. rejected \in Run /\ rejected.note = "none"
  <2> HIDE DEF run
  <2> QED
    BY <1>1, StatusKeepsClaims DEF TerminalStatus, Reason, SameClaims
<1>3. SoundStore(Saved(WithoutPublicationClaim(st, id.run, AsPartial(rejected)), id.run))
  <2> HIDE DEF rejected
  <2> QED
    BY <1>2, GiveUpSound
<1> QED
  BY <1>3 DEF RejectPublicationForPolicy

(* completePublication when its save succeeds.                             *)
LEMMA CompletePublicationSound ==
  ASSUME NEW st, SoundStore(st), NEW id, id.run \in RunId, IsPublicationClaimCurrent(st, id),
         NEW status \in TerminalStatus
  PROVE  SoundStore(CompletePublication(st, id, status))
<1> DEFINE run == st.runs[id.run]
           rec == [run EXCEPT !.status = status, !.reason = "none",
                              !.pub = "published", !.pubBy = NoClaim]
<1>1. run \in Run /\ run.note = "none"
  BY HolderIsPublishing
<1>2. rec \in Run /\ OneSided(rec) /\ rec.pub # "publishing"
  <2>1. status \in {"absent"} \cup ActiveStatus \cup TerminalStatus /\ "none" \in Reason
    BY DEF Reason
  <2> HIDE DEF run
  <2>2. rec \in Run
    BY <1>1, <2>1 DEF Run
  <2>3. rec.note = "none" /\ rec.pub = "published"
    BY <1>1 DEF Run
  <2> QED
    BY <2>2, <2>3 DEF OneSided
<1>3. SoundStore(Saved(WithoutPublicationClaim(st, id.run, rec), id.run))
  <2> HIDE DEF rec
  <2> QED
    BY <1>2, WithoutPublicationClaimSound, SavedSound
<1> QED
  BY <1>3 DEF CompletePublication

(* completePublication when its save fails.                                *)
LEMMA ReleaseAsPartialSound ==
  ASSUME NEW st, SoundStore(st), NEW id, id.run \in RunId, IsPublicationClaimCurrent(st, id)
  PROVE  SoundStore(ReleaseAsPartial(st, id))
<1> DEFINE run == st.runs[id.run]
           failed == [run EXCEPT !.status = "failed", !.reason = "other"]
<1>1. run \in Run /\ run.note = "none"
  BY HolderIsPublishing
<1>2. failed \in Run /\ failed.note = "none"
  <2> HIDE DEF run
  <2> QED
    BY <1>1, StatusKeepsClaims DEF TerminalStatus, Reason, SameClaims
<1>3. SoundStore(WithoutPublicationClaim(st, id.run, AsPartial(failed)))
  <2> HIDE DEF failed
  <2> QED
    BY <1>2, GiveUpSound
<1> QED
  BY <1>3 DEF ReleaseAsPartial

(***************************************************************************)
(* Notifying a failure                                                     *)
(***************************************************************************)

(* claimFailureNotification: the guard that nothing was published matters. *)
LEMMA ClaimFailureNotificationSound ==
  ASSUME NEW st, SoundStore(st), NEW r \in RunId, NEW by \in NoteClaim,
         NEW payload \in Payload \cup {NoPayload}, ClaimFailureNotificationAllowed(st, r, payload)
  PROVE  SoundStore(ClaimFailureNotification(st, r, by, payload))
<1> DEFINE run == st.runs[r]
           claim == [by |-> by, session |-> run.session]
           rec == [run EXCEPT !.note = "notifying", !.noteBy = by, !.notePayload = payload]
           put == [Put(st, r, rec) EXCEPT !.noteClaims[r] = claim]
<1>1. run \in Run /\ run.pub = "none"
  BY StoreFields DEF ClaimFailureNotificationAllowed, FailureNotificationAllowed
<1>2. rec \in Run /\ rec.pub = "none"
  <2> HIDE DEF run
  <2>1. rec \in Run
    BY <1>1 DEF Run
  <2>2. rec.pub = "none"
    BY <1>1 DEF Run
  <2> QED
    BY <2>1, <2>2
<1>3. claim \in NoteClaims
  <2> HIDE DEF run
  <2> QED
    BY <1>1 DEF Run, NoteClaims
<1>4. OneSided(rec) /\ HeldBy(rec, st.pubClaims[r])
  <2> HIDE DEF rec
  <2> QED
    BY <1>2 DEF OneSided, HeldBy
<1>5. SoundStore(put)
  <2> HIDE DEF rec, claim
  <2> QED
    BY <1>2, <1>3, <1>4, PutNoteClaimSound
<1> HIDE DEF put
<1>6. SoundStore(Saved(put, r))
  BY <1>5, SavedSound
<1> QED
  BY <1>6 DEF put, ClaimFailureNotification

(* markFailureNotificationPostStarted                                      *)
LEMMA MarkFailureNotificationPostStartedSound ==
  ASSUME NEW st, SoundStore(st), NEW id, id.run \in RunId
  PROVE  SoundStore(MarkFailureNotificationPostStarted(st, id))
<1> DEFINE runs == [st.runs EXCEPT ![id.run].postStarted = TRUE]
           marked == [st EXCEPT !.runs[id.run].postStarted = TRUE]
<1>1. marked = [runs |-> runs, pubClaims |-> st.pubClaims,
                noteClaims |-> st.noteClaims, sequence |-> st.sequence]
  BY DEF SoundStore, Store
<1>2. ASSUME NEW x \in RunId PROVE runs[x] \in Run /\ SameClaims(runs[x], st.runs[x])
  <2>1. st.runs \in [RunId -> Run] /\ st.runs[x] \in Run
    BY StoreFields
  <2>2. runs[x] = IF x = id.run THEN [st.runs[x] EXCEPT !.postStarted = TRUE] ELSE st.runs[x]
    BY <2>1
  <2>3. ASSUME NEW run \in Run
        PROVE  [run EXCEPT !.postStarted = TRUE] \in Run
               /\ SameClaims([run EXCEPT !.postStarted = TRUE], run)
    BY DEF Run, SameClaims
  <2>4. SameClaims(st.runs[x], st.runs[x])
    BY DEF SameClaims
  <2> HIDE DEF runs
  <2> QED
    BY <2>1, <2>2, <2>3, <2>4
<1>3. runs \in [RunId -> Run]
  <2>1. runs = [x \in RunId |-> runs[x]]
    BY StoreFields
  <2> HIDE DEF runs
  <2> QED
    BY <1>2, <2>1
<1>4. \A x \in RunId : OneSided(runs[x]) /\ HeldBy(runs[x], st.pubClaims[x])
  <2> HIDE DEF runs
  <2> QED
    BY <1>2, StoreFields, ClaimsCarryOver
<1>5. /\ st.pubClaims \in [RunId -> PublicationClaims]
      /\ st.noteClaims \in [RunId -> NoteClaims] /\ st.sequence \in 0..MaxRuns
  BY StoreFields
<1>6. SoundStore(marked)
  <2> HIDE DEF runs, marked
  <2> QED
    BY <1>1, <1>3, <1>4, <1>5, StoreOf
<1> HIDE DEF marked
<1>7. SoundStore(Saved(marked, id.run))
  BY <1>6, SavedSound
<1> QED
  BY <1>7 DEF marked, MarkFailureNotificationPostStarted

(* releaseFailureNotificationClaim                                         *)
LEMMA ReleaseFailureNotificationClaimSound ==
  ASSUME NEW st, SoundStore(st), NEW id, id.run \in RunId
  PROVE  SoundStore(ReleaseFailureNotificationClaim(st, id))
<1> DEFINE notes == [st.noteClaims EXCEPT ![id.run] = NoNoteClaim]
           released == [st EXCEPT !.noteClaims[id.run] = NoNoteClaim]
<1>1. released = [runs |-> st.runs, pubClaims |-> st.pubClaims,
                  noteClaims |-> notes, sequence |-> st.sequence]
  BY DEF SoundStore, Store
<1>2. notes \in [RunId -> NoteClaims]
  BY StoreFields, NoClaimTypes
<1>3. /\ st.runs \in [RunId -> Run] /\ st.pubClaims \in [RunId -> PublicationClaims]
      /\ st.sequence \in 0..MaxRuns
      /\ \A r \in RunId : OneSided(st.runs[r]) /\ HeldBy(st.runs[r], st.pubClaims[r])
  BY StoreFields
<1>4. SoundStore(released)
  <2> HIDE DEF notes, released
  <2> QED
    BY <1>1, <1>2, <1>3, StoreOf
<1> QED
  BY <1>4 DEF ReleaseFailureNotificationClaim

(* A notification that is held names a run without a publication.          *)
LEMMA NotifierIsNotPublishing ==
  ASSUME NEW st, SoundStore(st), NEW id, id.run \in RunId,
         HoldsNotification(st, id) \/ IsFailureNotificationClaimCurrent(st, id)
  PROVE  st.runs[id.run] \in Run /\ st.runs[id.run].pub = "none"
<1>1. st.runs[id.run] \in Run /\ OneSided(st.runs[id.run])
  BY StoreFields
<1>2. NoteClaimMatches(st.runs[id.run], id)
  BY DEF HoldsNotification, IsFailureNotificationClaimCurrent
<1> QED
  BY <1>1, <1>2 DEF NoteClaimMatches, OneSided

(* A write of a run with no publication that drops the claim of its note.  *)
LEMMA WithoutNoteClaimSound ==
  ASSUME NEW st, SoundStore(st), NEW r \in RunId, NEW rec \in Run, rec.pub = "none"
  PROVE  SoundStore(Saved(WithoutNoteClaim(st, r, rec), r))
BY NoClaimTypes, PutNoteClaimSound, SavedSound DEF WithoutNoteClaim, OneSided, HeldBy

(* completeFailureNotification                                             *)
LEMMA CompleteFailureNotificationSound ==
  ASSUME NEW st, SoundStore(st), NEW id, id.run \in RunId, IsFailureNotificationClaimCurrent(st, id)
  PROVE  SoundStore(CompleteFailureNotification(st, id))
<1> DEFINE run == st.runs[id.run]
           rec == [run EXCEPT !.note = "notified", !.noteBy = NoClaim]
<1>1. run \in Run /\ run.pub = "none"
  BY NotifierIsNotPublishing
<1>2. rec \in Run /\ rec.pub = "none"
  <2> HIDE DEF run
  <2> QED
    BY <1>1 DEF Run
<1>3. SoundStore(Saved(WithoutNoteClaim(st, id.run, rec), id.run))
  <2> HIDE DEF rec
  <2> QED
    BY <1>2, WithoutNoteClaimSound
<1> QED
  BY <1>3 DEF CompleteFailureNotification

(* failFailureNotification, whatever GitLab answered.                      *)
LEMMA FailFailureNotificationSound ==
  ASSUME NEW st, SoundStore(st), NEW id, id.run \in RunId, NEW rejected \in BOOLEAN
  PROVE  SoundStore(FailFailureNotification(st, id, rejected))
<1> SUFFICES ASSUME HoldsNotification(st, id)
             PROVE  SoundStore(FailFailureNotification(st, id, rejected))
  BY DEF FailFailureNotification
<1> DEFINE run == st.runs[id.run]
           posted == run.postStarted /\ ~rejected
           rec == [run EXCEPT !.note = "partial", !.noteBy = NoClaim, !.postStarted = posted]
<1>1. run \in Run /\ run.pub = "none"
  BY NotifierIsNotPublishing
<1>2. rec \in Run /\ rec.pub = "none"
  <2>1. posted \in BOOLEAN
    OBVIOUS
  <2> HIDE DEF run, posted
  <2>2. rec \in Run
    BY <1>1, <2>1 DEF Run
  <2>3. rec.pub = "none"
    BY <1>1 DEF Run
  <2> QED
    BY <2>2, <2>3
<1>3. SoundStore(Saved(WithoutNoteClaim(st, id.run, rec), id.run))
  <2> HIDE DEF rec
  <2> QED
    BY <1>2, WithoutNoteClaimSound
<1> QED
  BY <1>3 DEF FailFailureNotification

(* rejectFailureNotificationForPolicy                                      *)
LEMMA RejectFailureNotificationForPolicySound ==
  ASSUME NEW st, SoundStore(st), NEW id, id.run \in RunId
  PROVE  SoundStore(RejectFailureNotificationForPolicy(st, id))
<1> SUFFICES ASSUME IsFailureNotificationClaimCurrent(st, id)
             PROVE  SoundStore(RejectFailureNotificationForPolicy(st, id))
  BY DEF RejectFailureNotificationForPolicy
<1> DEFINE run == st.runs[id.run]
           rec == [run EXCEPT !.status = "rejected", !.reason = "policy",
                              !.note = "partial", !.noteBy = NoClaim]
<1>1. run \in Run /\ run.pub = "none"
  BY NotifierIsNotPublishing
<1>2. rec \in Run /\ rec.pub = "none"
  <2> HIDE DEF run
  <2> QED
    <3>1. "rejected" \in {"absent"} \cup ActiveStatus \cup TerminalStatus /\ "policy" \in Reason
      BY DEF TerminalStatus, Reason
    <3>2. rec \in Run
      BY <1>1, <3>1 DEF Run
    <3>3. rec.pub = "none"
      BY <1>1 DEF Run
    <3> QED
      BY <3>2, <3>3
<1>3. SoundStore(Saved(WithoutNoteClaim(st, id.run, rec), id.run))
  <2> HIDE DEF rec
  <2> QED
    BY <1>2, WithoutNoteClaimSound
<1> QED
  BY <1>3 DEF RejectFailureNotificationForPolicy

(***************************************************************************)
(* The file                                                                *)
(***************************************************************************)

(* What a sound store writes is a sound file.                              *)
LEMMA DiskOfSound ==
  ASSUME NEW st, SoundStore(st)
  PROVE  SoundDisk(DiskOf(st))
BY DEF SoundStore, Store, SoundDisk, Disk, DiskOf

(* normalizeStoredReviewRun leaves no run being published.                 *)
LEMMA NormalizedSound ==
  ASSUME NEW run \in Run, OneSided(run)
  PROVE  /\ Normalized(run) \in Run
         /\ OneSided(Normalized(run))
         /\ \A c : HeldBy(Normalized(run), c)
<1>1. Normalized(run) \in Run
  <2> DEFINE pub == IF run.pub = "publishing" THEN "partial" ELSE run.pub
             note == IF run.note = "notifying" THEN "partial" ELSE run.note
  <2>1. pub \in {"none", "publishing", "partial", "published"}
    BY DEF Run
  <2>2. note \in {"none", "notifying", "partial", "notified"}
    BY DEF Run
  <2>3. Normalized(run) = [run EXCEPT !.pub = pub, !.pubBy = NoClaim,
                                      !.note = note, !.noteBy = NoClaim]
    BY DEF Normalized
  <2> HIDE DEF pub, note
  <2> QED
    BY <2>1, <2>2, <2>3 DEF Run
<1>2. /\ Normalized(run).pub = IF run.pub = "publishing" THEN "partial" ELSE run.pub
      /\ Normalized(run).note = IF run.note = "notifying" THEN "partial" ELSE run.note
  BY DEF Normalized, Run
<1> QED
  BY <1>1, <1>2 DEF OneSided, HeldBy

(* A restart turns a sound file into a sound store.                        *)
LEMMA LoadedSound ==
  ASSUME NEW d, SoundDisk(d)
  PROVE  SoundStore(Loaded(d))
<1> DEFINE runs == [r \in RunId |-> Normalized(d.runs[r])]
           pubs == [r \in RunId |-> NoPublicationClaim]
           notes == [r \in RunId |-> NoNoteClaim]
<1>1. Loaded(d) = [runs |-> runs, pubClaims |-> pubs, noteClaims |-> notes, sequence |-> d.sequence]
  <2>1. Loaded(d) = [EmptyStore EXCEPT !.runs = runs, !.sequence = d.sequence]
    BY DEF Loaded
  <2>2. EmptyStore = [runs |-> [r \in RunId |-> NoRun], pubClaims |-> pubs,
                      noteClaims |-> notes, sequence |-> 0]
    BY DEF EmptyStore
  <2> HIDE DEF runs, pubs, notes
  <2> QED
    BY <2>1, <2>2
<1>2. \A r \in RunId : d.runs[r] \in Run /\ OneSided(d.runs[r])
  BY DEF SoundDisk, SoundRuns, Disk
<1>3. \A r \in RunId : runs[r] \in Run /\ OneSided(runs[r]) /\ HeldBy(runs[r], pubs[r])
  BY <1>2, NormalizedSound
<1>4. runs \in [RunId -> Run]
  BY <1>2, NormalizedSound
<1>5. pubs \in [RunId -> PublicationClaims] /\ notes \in [RunId -> NoteClaims]
  BY NoClaimTypes
<1>6. d.sequence \in 0..MaxRuns
  BY DEF SoundDisk, Disk
<1> HIDE DEF runs, pubs, notes
<1> QED
  BY <1>1, <1>3, <1>4, <1>5, <1>6, StoreOf

(* The store of a server that starts for the first time.                   *)
LEMMA EmptyStoreSound == SoundStore(EmptyStore)
<1> DEFINE runs == [r \in RunId |-> NoRun]
           pubs == [r \in RunId |-> NoPublicationClaim]
           notes == [r \in RunId |-> NoNoteClaim]
<1>1. runs \in [RunId -> Run] /\ pubs \in [RunId -> PublicationClaims] /\ notes \in [RunId -> NoteClaims]
  BY NoRunType, NoClaimTypes
<1>2. \A r \in RunId : OneSided(runs[r]) /\ HeldBy(runs[r], pubs[r])
  BY NoRunType
<1>3. 0 \in 0..MaxRuns
  BY BoundsAssumption
<1>4. EmptyStore = [runs |-> runs, pubClaims |-> pubs, noteClaims |-> notes, sequence |-> 0]
  BY DEF EmptyStore
<1> HIDE DEF runs, pubs, notes
<1> QED
  BY <1>1, <1>2, <1>3, <1>4, StoreOf

(***************************************************************************)
(* What a write changes                                                    *)
(***************************************************************************)

(* A run that was pruned, or never was.                                    *)
Gone(run) == run.status = "absent" /\ run.pub = "none" /\ run.note = "none" /\ run.done = {}

(* The run b is the run a with its publication and its notification as     *)
(* they were.  A terminal status stays, and a session comes only to a run  *)
(* without either.                                                         *)
Keeps(a, b) ==
  /\ b.trigger = a.trigger /\ b.attempt = a.attempt
  /\ b.status = "absent" <=> a.status = "absent"
  /\ a.status \in TerminalStatus => b.status = a.status
  /\ b.pub = a.pub /\ b.pubBy = a.pubBy /\ b.payload = a.payload /\ b.done = a.done
  /\ b.note = a.note /\ b.noteBy = a.noteBy /\ b.postStarted = a.postStarted
  /\ b.session = a.session \/ (a.pub = "none" /\ a.note = "none")

(* From the store st to the store new the run x is kept or pruned, and its *)
(* claims go only with it.                                                 *)
RunCalm(st, new, x) ==
  /\ Gone(new.runs[x]) \/ Keeps(st.runs[x], new.runs[x])
  /\ new.pubClaims[x] \in {st.pubClaims[x], NoPublicationClaim}
  /\ PublicationClaimMatches(new.runs[x], st.pubClaims[x]) => new.pubClaims[x] = st.pubClaims[x]
  /\ new.noteClaims[x] \in {st.noteClaims[x], NoNoteClaim}
  /\ NoteClaimMatches(new.runs[x], st.noteClaims[x]) => new.noteClaims[x] = st.noteClaims[x]

(* The store put is the store st with the run r, its claims and the        *)
(* sequence written.                                                       *)
PutOf(st, put, r, rec, c, d, n) ==
  /\ put \in Store
  /\ put.sequence = n
  /\ \A x \in RunId :
       /\ Alike(put.runs[x], IF x = r THEN rec ELSE st.runs[x])
       /\ put.pubClaims[x] = IF x = r THEN c ELSE st.pubClaims[x]
       /\ put.noteClaims[x] = IF x = r THEN d ELSE st.noteClaims[x]

(* The claim c if the run still names it.                                  *)
KeptClaim(run, c) == IF PublicationClaimMatches(run, c) THEN c ELSE NoPublicationClaim
KeptNoteClaim(run, d) == IF NoteClaimMatches(run, d) THEN d ELSE NoNoteClaim

(* The store new is put, saved: some runs may be gone, and every claim     *)
(* that is left is one its run names.                                      *)
SavedOf(put, new) ==
  /\ new \in Store
  /\ new.sequence = put.sequence
  /\ \A x \in RunId :
       /\ Gone(new.runs[x]) \/ new.runs[x] = put.runs[x]
       /\ new.pubClaims[x] = KeptClaim(new.runs[x], put.pubClaims[x])
       /\ new.noteClaims[x] = KeptNoteClaim(new.runs[x], put.noteClaims[x])

(* Dropping the orphaned claims.                                           *)
LEMMA RemoveOrphanedClaimsKeeps ==
  ASSUME NEW st \in Store
  PROVE  LET new == RemoveOrphanedClaims(st)
         IN  /\ new \in Store /\ new.runs = st.runs /\ new.sequence = st.sequence
             /\ \A x \in RunId : /\ new.pubClaims[x] = KeptClaim(st.runs[x], st.pubClaims[x])
                                 /\ new.noteClaims[x] = KeptNoteClaim(st.runs[x], st.noteClaims[x])
<1> DEFINE pubs == [r \in RunId |-> KeptClaim(st.runs[r], st.pubClaims[r])]
           notes == [r \in RunId |-> KeptNoteClaim(st.runs[r], st.noteClaims[r])]
<1>1. RemoveOrphanedClaims(st) = [st EXCEPT !.pubClaims = pubs, !.noteClaims = notes]
  BY DEF RemoveOrphanedClaims, KeptClaim, KeptNoteClaim
<1>2. RemoveOrphanedClaims(st)
        = [runs |-> st.runs, pubClaims |-> pubs, noteClaims |-> notes, sequence |-> st.sequence]
  <2> HIDE DEF pubs, notes
  <2> QED
    BY <1>1 DEF Store
<1>3. pubs \in [RunId -> PublicationClaims] /\ notes \in [RunId -> NoteClaims]
  BY NoClaimTypes DEF Store, KeptClaim, KeptNoteClaim
<1>4. st.runs \in [RunId -> Run] /\ st.sequence \in 0..MaxRuns
  BY DEF Store
<1>5. \A x \in RunId : /\ pubs[x] = KeptClaim(st.runs[x], st.pubClaims[x])
                       /\ notes[x] = KeptNoteClaim(st.runs[x], st.noteClaims[x])
  OBVIOUS
<1> HIDE DEF pubs, notes
<1> QED
  BY <1>2, <1>3, <1>4, <1>5 DEF Store

(* Pruning.                                                                *)
LEMMA PruneKeeps ==
  ASSUME NEW st \in Store, NEW retained
  PROVE  LET new == Prune(st, retained)
         IN  /\ new \in Store /\ new.sequence = st.sequence
             /\ new.pubClaims = st.pubClaims /\ new.noteClaims = st.noteClaims
             /\ \A x \in RunId : new.runs[x] = NoRun \/ new.runs[x] = st.runs[x]
<1> DEFINE runs == [r \in RunId |-> IF r \in Kept(st, retained) THEN st.runs[r] ELSE NoRun]
           pruned == [runs |-> runs, pubClaims |-> st.pubClaims,
                      noteClaims |-> st.noteClaims, sequence |-> st.sequence]
<1>1. Prune(st, retained) \in {st, pruned}
  BY DEF Prune, Store
<1>2. runs \in [RunId -> Run]
  BY NoRunType DEF Store
<1>3. \A x \in RunId : runs[x] = NoRun \/ runs[x] = st.runs[x]
  OBVIOUS
<1> HIDE DEF runs
<1>4. pruned \in Store
  BY <1>2 DEF Store
<1> QED
  BY <1>1, <1>3, <1>4

(* An absent run is gone, and names no claim.                              *)
LEMMA GoneNamesNothing ==
  /\ Gone(NoRun)
  /\ \A run : Gone(run) => (\A c : ~PublicationClaimMatches(run, c) /\ ~NoteClaimMatches(run, c))
BY DEF Gone, NoRun, PublicationClaimMatches, NoteClaimMatches

(* save() as a whole.                                                      *)
LEMMA SavedKeeps ==
  ASSUME NEW put \in Store, NEW retained
  PROVE  SavedOf(put, Saved(put, retained))
<1> DEFINE one == RemoveOrphanedClaims(put)
           two == Prune(one, retained)
           new == RemoveOrphanedClaims(two)
<1>1. one \in Store /\ one.runs = put.runs /\ one.sequence = put.sequence
      /\ \A x \in RunId : /\ one.pubClaims[x] = KeptClaim(put.runs[x], put.pubClaims[x])
                          /\ one.noteClaims[x] = KeptNoteClaim(put.runs[x], put.noteClaims[x])
  BY RemoveOrphanedClaimsKeeps
<1> HIDE DEF one
<1>2. two \in Store /\ two.sequence = one.sequence
      /\ two.pubClaims = one.pubClaims /\ two.noteClaims = one.noteClaims
      /\ \A x \in RunId : two.runs[x] = NoRun \/ two.runs[x] = one.runs[x]
  BY <1>1, PruneKeeps
<1> HIDE DEF two
<1>3. new \in Store /\ new.runs = two.runs /\ new.sequence = two.sequence
      /\ \A x \in RunId : /\ new.pubClaims[x] = KeptClaim(two.runs[x], two.pubClaims[x])
                          /\ new.noteClaims[x] = KeptNoteClaim(two.runs[x], two.noteClaims[x])
  BY <1>2, RemoveOrphanedClaimsKeeps
<1> HIDE DEF new
<1>4. ASSUME NEW x \in RunId
      PROVE  /\ Gone(new.runs[x]) \/ new.runs[x] = put.runs[x]
             /\ new.pubClaims[x] = KeptClaim(new.runs[x], put.pubClaims[x])
             /\ new.noteClaims[x] = KeptNoteClaim(new.runs[x], put.noteClaims[x])
  <2>1. new.runs[x] = two.runs[x] /\ (two.runs[x] = NoRun \/ two.runs[x] = put.runs[x])
    BY <1>1, <1>2, <1>3
  <2>2. /\ new.pubClaims[x] = KeptClaim(two.runs[x], KeptClaim(put.runs[x], put.pubClaims[x]))
        /\ new.noteClaims[x] = KeptNoteClaim(two.runs[x], KeptNoteClaim(put.runs[x], put.noteClaims[x]))
    BY <1>1, <1>2, <1>3
  <2>3. CASE two.runs[x] = NoRun
    BY <2>1, <2>2, <2>3, GoneNamesNothing DEF KeptClaim, KeptNoteClaim
  <2>4. CASE two.runs[x] = put.runs[x]
    BY <2>1, <2>2, <2>4 DEF KeptClaim, KeptNoteClaim
  <2> QED
    BY <2>1, <2>3, <2>4
<1>5. new.sequence = put.sequence
  BY <1>1, <1>2, <1>3
<1>6. Saved(put, retained) = new
  BY DEF Saved, new, two, one
<1> QED
  BY <1>3, <1>4, <1>5, <1>6 DEF SavedOf

(* One run, its claims and the sequence are written.                       *)
LEMMA PutWrites ==
  ASSUME NEW st \in Store, NEW r \in RunId, NEW rec \in Run, NEW c \in PublicationClaims,
         NEW d \in NoteClaims, NEW n \in 0..MaxRuns
  PROVE  PutOf(st, [runs |-> Touched(st.runs, r, rec), pubClaims |-> [st.pubClaims EXCEPT ![r] = c],
                    noteClaims |-> [st.noteClaims EXCEPT ![r] = d], sequence |-> n], r, rec, c, d, n)
<1> DEFINE runs == Touched(st.runs, r, rec)
           pubs == [st.pubClaims EXCEPT ![r] = c]
           notes == [st.noteClaims EXCEPT ![r] = d]
<1>1. st.runs \in [RunId -> Run] /\ st.pubClaims \in [RunId -> PublicationClaims]
      /\ st.noteClaims \in [RunId -> NoteClaims]
  BY DEF Store
<1>2. /\ runs \in [RunId -> Run] /\ Alike(runs[r], rec)
      /\ \A x \in RunId \ {r} : Alike(runs[x], st.runs[x])
  BY <1>1, TouchedRuns
<1>3. pubs \in [RunId -> PublicationClaims] /\ notes \in [RunId -> NoteClaims]
  BY <1>1
<1>4. \A x \in RunId : /\ pubs[x] = IF x = r THEN c ELSE st.pubClaims[x]
                       /\ notes[x] = IF x = r THEN d ELSE st.noteClaims[x]
  BY <1>1
<1> DEFINE put == [runs |-> runs, pubClaims |-> pubs, noteClaims |-> notes, sequence |-> n]
<1> HIDE DEF runs, pubs, notes
<1>5. /\ put \in Store /\ put.runs = runs /\ put.pubClaims = pubs
      /\ put.noteClaims = notes /\ put.sequence = n
  BY <1>2, <1>3 DEF Store
<1>6. \A x \in RunId : Alike(runs[x], IF x = r THEN rec ELSE st.runs[x])
  BY <1>2
<1> HIDE DEF put
<1>7. PutOf(st, put, r, rec, c, d, n)
  BY <1>4, <1>5, <1>6 DEF PutOf
<1> QED
  BY <1>7 DEF put, runs, pubs, notes

(* The forms in which the operations of the store write a run.             *)
LEMMA PutForms ==
  ASSUME NEW st \in Store, NEW r \in RunId, NEW rec \in Run
  PROVE  /\ PutOf(st, Put(st, r, rec), r, rec, st.pubClaims[r], st.noteClaims[r], st.sequence)
         /\ \A c \in PublicationClaims :
              PutOf(st, [Put(st, r, rec) EXCEPT !.pubClaims[r] = c], r, rec, c, st.noteClaims[r], st.sequence)
         /\ \A d \in NoteClaims :
              PutOf(st, [Put(st, r, rec) EXCEPT !.noteClaims[r] = d], r, rec, st.pubClaims[r], d, st.sequence)
         /\ \A n \in 0..MaxRuns :
              PutOf(st, [Put(st, r, rec) EXCEPT !.sequence = n], r, rec, st.pubClaims[r], st.noteClaims[r], n)
<1> DEFINE runs == Touched(st.runs, r, rec)
           whole(pubs, notes, n) == [runs |-> runs, pubClaims |-> pubs, noteClaims |-> notes, sequence |-> n]
<1>1. Put(st, r, rec) = [st EXCEPT !.runs = runs]
  BY DEF Put
<1>2. /\ st.pubClaims \in [RunId -> PublicationClaims] /\ st.noteClaims \in [RunId -> NoteClaims]
      /\ st.sequence \in 0..MaxRuns
      /\ st.pubClaims[r] \in PublicationClaims /\ st.noteClaims[r] \in NoteClaims
  BY DEF Store
<1>3. /\ st.pubClaims = [st.pubClaims EXCEPT ![r] = st.pubClaims[r]]
      /\ st.noteClaims = [st.noteClaims EXCEPT ![r] = st.noteClaims[r]]
  BY <1>2
<1>4. ASSUME NEW c \in PublicationClaims, NEW d \in NoteClaims, NEW n \in 0..MaxRuns
      PROVE  PutOf(st, whole([st.pubClaims EXCEPT ![r] = c], [st.noteClaims EXCEPT ![r] = d], n), r, rec, c, d, n)
  BY PutWrites
<1>5. Put(st, r, rec) = whole(st.pubClaims, st.noteClaims, st.sequence)
  <2> HIDE DEF runs
  <2> QED
    BY <1>1 DEF Store
<1> HIDE DEF runs
<1>6. /\ \A c : [Put(st, r, rec) EXCEPT !.pubClaims[r] = c]
                  = whole([st.pubClaims EXCEPT ![r] = c], st.noteClaims, st.sequence)
      /\ \A d : [Put(st, r, rec) EXCEPT !.noteClaims[r] = d]
                  = whole(st.pubClaims, [st.noteClaims EXCEPT ![r] = d], st.sequence)
      /\ \A n : [Put(st, r, rec) EXCEPT !.sequence = n] = whole(st.pubClaims, st.noteClaims, n)
  BY <1>5
<1> HIDE DEF whole
<1>7. PutOf(st, Put(st, r, rec), r, rec, st.pubClaims[r], st.noteClaims[r], st.sequence)
  <2>1. Put(st, r, rec) = whole([st.pubClaims EXCEPT ![r] = st.pubClaims[r]],
                                [st.noteClaims EXCEPT ![r] = st.noteClaims[r]], st.sequence)
    BY <1>3, <1>5
  <2> QED
    BY <1>2, <1>4, <2>1
<1>8. ASSUME NEW c \in PublicationClaims
      PROVE  PutOf(st, [Put(st, r, rec) EXCEPT !.pubClaims[r] = c], r, rec, c, st.noteClaims[r], st.sequence)
  <2>1. [Put(st, r, rec) EXCEPT !.pubClaims[r] = c]
          = whole([st.pubClaims EXCEPT ![r] = c], [st.noteClaims EXCEPT ![r] = st.noteClaims[r]], st.sequence)
    BY <1>3, <1>6
  <2> QED
    BY <1>2, <1>4, <2>1
<1>9. ASSUME NEW d \in NoteClaims
      PROVE  PutOf(st, [Put(st, r, rec) EXCEPT !.noteClaims[r] = d], r, rec, st.pubClaims[r], d, st.sequence)
  <2>1. [Put(st, r, rec) EXCEPT !.noteClaims[r] = d]
          = whole([st.pubClaims EXCEPT ![r] = st.pubClaims[r]], [st.noteClaims EXCEPT ![r] = d], st.sequence)
    BY <1>3, <1>6
  <2> QED
    BY <1>2, <1>4, <2>1
<1>10. ASSUME NEW n \in 0..MaxRuns
       PROVE  PutOf(st, [Put(st, r, rec) EXCEPT !.sequence = n], r, rec, st.pubClaims[r], st.noteClaims[r], n)
  <2>1. [Put(st, r, rec) EXCEPT !.sequence = n]
          = whole([st.pubClaims EXCEPT ![r] = st.pubClaims[r]],
                  [st.noteClaims EXCEPT ![r] = st.noteClaims[r]], n)
    BY <1>3, <1>6
  <2> QED
    BY <1>2, <1>4, <2>1
<1> QED
  BY <1>7, <1>8, <1>9, <1>10

(* The start of a post is noted without a new rank.                        *)
LEMMA MarkWrites ==
  ASSUME NEW st \in Store, NEW r \in RunId
  PROVE  PutOf(st, [st EXCEPT !.runs[r].postStarted = TRUE], r, [st.runs[r] EXCEPT !.postStarted = TRUE],
               st.pubClaims[r], st.noteClaims[r], st.sequence)
<1> DEFINE rec == [st.runs[r] EXCEPT !.postStarted = TRUE]
           runs == [st.runs EXCEPT ![r] = rec]
           put == [st EXCEPT !.runs[r].postStarted = TRUE]
<1>1. st.runs \in [RunId -> Run] /\ st.runs[r] \in Run
  BY DEF Store
<1>2. rec \in Run
  BY <1>1 DEF Run
<1>3. put = [runs |-> runs, pubClaims |-> st.pubClaims, noteClaims |-> st.noteClaims, sequence |-> st.sequence]
  <2>1. put = [st EXCEPT !.runs = runs]
    OBVIOUS
  <2> HIDE DEF runs, put
  <2> QED
    BY <2>1 DEF Store
<1> HIDE DEF rec
<1>4. runs \in [RunId -> Run] /\ \A x \in RunId : runs[x] = IF x = r THEN rec ELSE st.runs[x]
  BY <1>1, <1>2
<1>5. \A run : Alike(run, run)
  BY DEF Alike
<1> HIDE DEF runs, put
<1>6. put \in Store
  BY <1>3, <1>4 DEF Store
<1>7. \A x \in RunId : Alike(put.runs[x], IF x = r THEN rec ELSE st.runs[x])
  BY <1>3, <1>4, <1>5
<1>8. PutOf(st, put, r, rec, st.pubClaims[r], st.noteClaims[r], st.sequence)
  BY <1>3, <1>6, <1>7 DEF PutOf
<1> QED
  BY <1>8 DEF put, rec

(* The store new is the store st with the run r written, whose claims were *)
(* to be c and d, and some runs pruned.                                    *)
Writes(st, new, r, rec, c, d) ==
  /\ new \in Store
  /\ \A x \in RunId \ {r} : RunCalm(st, new, x)
  /\ Gone(new.runs[r]) \/ Alike(new.runs[r], rec)
  /\ new.pubClaims[r] \in {c, NoPublicationClaim}
  /\ PublicationClaimMatches(new.runs[r], c) => new.pubClaims[r] = c
  /\ new.noteClaims[r] \in {d, NoNoteClaim}
  /\ NoteClaimMatches(new.runs[r], d) => new.noteClaims[r] = d

(* What is alike is kept.                                                  *)
LEMMA AlikeKeeps == \A a, b : Alike(b, a) => Keeps(a, b)
BY DEF Alike, Keeps

(* Saved or not, a write of one run leaves the others calm.                *)
LEMMA PutIsWrite ==
  ASSUME NEW st \in Store, NEW put, NEW r \in RunId, NEW rec, NEW c, NEW d, NEW n,
         PutOf(st, put, r, rec, c, d, n)
  PROVE  /\ Writes(st, put, r, rec, c, d)
         /\ \A new : SavedOf(put, new) => Writes(st, new, r, rec, c, d) /\ new.sequence = n
<1>1. ASSUME NEW x \in RunId \ {r} PROVE RunCalm(st, put, x)
  BY AlikeKeeps DEF PutOf, RunCalm
<1>2. Writes(st, put, r, rec, c, d)
  BY <1>1 DEF PutOf, Writes
<1>3. ASSUME NEW new, SavedOf(put, new) PROVE Writes(st, new, r, rec, c, d) /\ new.sequence = n
  <2>1. ASSUME NEW x \in RunId \ {r} PROVE RunCalm(st, new, x)
    <3>1. Gone(new.runs[x]) \/ Keeps(st.runs[x], new.runs[x])
      BY <1>3, AlikeKeeps DEF PutOf, SavedOf
    <3>2. /\ new.pubClaims[x] = KeptClaim(new.runs[x], st.pubClaims[x])
          /\ new.noteClaims[x] = KeptNoteClaim(new.runs[x], st.noteClaims[x])
      BY <1>3 DEF PutOf, SavedOf
    <3> QED
      BY <3>1, <3>2 DEF RunCalm, KeptClaim, KeptNoteClaim
  <2>2. Gone(new.runs[r]) \/ Alike(new.runs[r], rec)
    BY <1>3 DEF PutOf, SavedOf
  <2>3. /\ new.pubClaims[r] = KeptClaim(new.runs[r], c)
        /\ new.noteClaims[r] = KeptNoteClaim(new.runs[r], d)
    BY <1>3 DEF PutOf, SavedOf
  <2>4. new \in Store /\ new.sequence = n
    BY <1>3 DEF PutOf, SavedOf
  <2> QED
    BY <2>1, <2>2, <2>3, <2>4 DEF Writes, KeptClaim, KeptNoteClaim
<1> QED
  BY <1>2, <1>3

(* A write that keeps the run it writes is calm throughout.                *)
LEMMA WriteIsCalm ==
  ASSUME NEW st, NEW new, NEW r \in RunId, NEW rec, Keeps(st.runs[r], rec),
         Writes(st, new, r, rec, st.pubClaims[r], st.noteClaims[r])
  PROVE  \A x \in RunId : RunCalm(st, new, x)
<1>1. Gone(new.runs[r]) \/ Keeps(st.runs[r], new.runs[r])
  BY DEF Writes, Alike, Keeps
<1> QED
  BY <1>1 DEF Writes, RunCalm

(* Two calm changes are one.                                               *)
LEMMA CalmTwice ==
  ASSUME NEW a, NEW b, NEW c, NEW x, RunCalm(a, b, x), RunCalm(b, c, x)
  PROVE  RunCalm(a, c, x)
<1>1. Gone(c.runs[x]) \/ Keeps(a.runs[x], c.runs[x])
  BY DEF RunCalm, Gone, Keeps
<1>2. PublicationClaimMatches(c.runs[x], a.pubClaims[x]) => c.pubClaims[x] = a.pubClaims[x]
  <2> SUFFICES ASSUME PublicationClaimMatches(c.runs[x], a.pubClaims[x])
               PROVE  c.pubClaims[x] = a.pubClaims[x]
    OBVIOUS
  <2>1. ~Gone(c.runs[x]) /\ c.runs[x].pub = "publishing"
    BY GoneNamesNothing DEF PublicationClaimMatches
  <2>2. PublicationClaimMatches(b.runs[x], a.pubClaims[x])
    BY <2>1 DEF RunCalm, Keeps, PublicationClaimMatches
  <2> QED
    BY <2>2 DEF RunCalm
<1>3. NoteClaimMatches(c.runs[x], a.noteClaims[x]) => c.noteClaims[x] = a.noteClaims[x]
  <2> SUFFICES ASSUME NoteClaimMatches(c.runs[x], a.noteClaims[x])
               PROVE  c.noteClaims[x] = a.noteClaims[x]
    OBVIOUS
  <2>1. ~Gone(c.runs[x]) /\ c.runs[x].note = "notifying"
    BY GoneNamesNothing DEF NoteClaimMatches
  <2>2. NoteClaimMatches(b.runs[x], a.noteClaims[x])
    BY <2>1 DEF RunCalm, Keeps, NoteClaimMatches
  <2> QED
    BY <2>2 DEF RunCalm
<1>4. /\ c.pubClaims[x] \in {a.pubClaims[x], NoPublicationClaim}
      /\ c.noteClaims[x] \in {a.noteClaims[x], NoNoteClaim}
  BY DEF RunCalm
<1> QED
  BY <1>1, <1>2, <1>3, <1>4 DEF RunCalm

(* A store that stays as it is is calm.                                    *)
LEMMA SameIsCalm == \A st, x : RunCalm(st, st, x)
BY DEF RunCalm, Keeps

(* A new lease keeps the run.                                              *)
LEMMA LeaseKeeps ==
  ASSUME NEW a, NEW rec \in Run, Keeps(a, rec)
  PROVE  WithActiveLease(rec) \in Run /\ Keeps(a, WithActiveLease(rec))
<1>1. [rec EXCEPT !.leaseOver = FALSE] \in Run
  BY DEF Run
<1>2. Keeps(a, [rec EXCEPT !.leaseOver = FALSE])
  BY DEF Run, Keeps
<1> QED
  BY <1>1, <1>2 DEF WithActiveLease

(* update: calm, if what it lets through keeps the run.                    *)
LEMMA UpdateCalm ==
  ASSUME NEW st, SoundStore(st), NEW r \in RunId, NEW rec \in Run,
         UpdateAllowed(st.runs[r], rec) => Keeps(st.runs[r], rec)
  PROVE  /\ Update(st, r, rec).sequence = st.sequence
         /\ \A x \in RunId : RunCalm(st, Update(st, r, rec), x)
<1>1. CASE ~UpdateAllowed(st.runs[r], rec)
  BY <1>1, SameIsCalm DEF Update
<1>2. CASE UpdateAllowed(st.runs[r], rec)
  <2> DEFINE new == WithActiveLease(rec)
             put == Put(st, r, new)
  <2>1. new \in Run /\ Keeps(st.runs[r], new)
    BY <1>2, LeaseKeeps
  <2>2. st \in Store
    BY DEF SoundStore
  <2>3. Update(st, r, rec) = Saved(put, r)
    BY <1>2 DEF Update
  <2> HIDE DEF new
  <2>4. PutOf(st, put, r, new, st.pubClaims[r], st.noteClaims[r], st.sequence)
    BY <2>1, <2>2, PutForms
  <2> HIDE DEF put
  <2>5. SavedOf(put, Saved(put, r))
    BY <2>4, SavedKeeps DEF PutOf
  <2>6. /\ Writes(st, Saved(put, r), r, new, st.pubClaims[r], st.noteClaims[r])
        /\ Saved(put, r).sequence = st.sequence
    BY <2>2, <2>1, <2>4, <2>5, PutIsWrite
  <2> QED
    BY <2>1, <2>3, <2>6, WriteIsCalm
<1> QED
  BY <1>1, <1>2

(* updateIfCurrent                                                         *)
LEMMA UpdateIfCurrentCalm ==
  ASSUME NEW st, SoundStore(st), NEW r \in RunId, NEW session, NEW rec \in Run,
         UpdateAllowed(st.runs[r], rec) => Keeps(st.runs[r], rec)
  PROVE  /\ UpdateIfCurrent(st, r, session, rec).sequence = st.sequence
         /\ \A x \in RunId : RunCalm(st, UpdateIfCurrent(st, r, session, rec), x)
BY UpdateCalm, SameIsCalm DEF UpdateIfCurrent

(* A status that an update may set keeps the run.                          *)
LEMMA StatusKeeps ==
  ASSUME NEW run \in Run, NEW status \in ActiveStatus \cup TerminalStatus, NEW reason
  PROVE  LET rec == [run EXCEPT !.status = status, !.reason = reason]
         IN  UpdateAllowed(run, rec) => Keeps(run, rec)
BY DEF Run, UpdateAllowed, Keeps, ActiveStatus, TerminalStatus

(* create: one run more.                                                   *)
LEMMA CreateWrites ==
  ASSUME NEW st, SoundStore(st), NEW t \in Trigger, NextRunId(st) \in RunId,
         NEW status \in ActiveStatus \cup TerminalStatus, NEW reason \in Reason
  PROVE  LET r == NextRunId(st)
             new == Create(st, t, status, reason)
         IN  /\ Writes(st, new, r, NewRun(t, 1, status, reason), st.pubClaims[r], st.noteClaims[r])
             /\ new.sequence = r
<1> DEFINE r == NextRunId(st)
           rec == NewRun(t, 1, status, reason)
           put == [Put(st, r, rec) EXCEPT !.sequence = r]
<1>1. rec \in Run /\ r \in 0..MaxRuns /\ st \in Store
  BY NewRunType, BoundsAssumption DEF RunId, SoundStore
<1>2. PutOf(st, put, r, rec, st.pubClaims[r], st.noteClaims[r], r)
  <2> HIDE DEF rec
  <2> QED
    BY <1>1, PutForms
<1>3. Create(st, t, status, reason) = Saved(put, r)
  BY DEF Create
<1> HIDE DEF put, rec
<1>4. SavedOf(put, Saved(put, r))
  BY <1>2, SavedKeeps DEF PutOf
<1>5. Writes(st, Saved(put, r), r, rec, st.pubClaims[r], st.noteClaims[r]) /\ Saved(put, r).sequence = r
  BY <1>1, <1>2, <1>4, PutIsWrite
<1> QED
  BY <1>3, <1>5 DEF rec

(* createRetryAttemptGuarded: an active run is closed, and one run more.   *)
LEMMA CreateRetryAttemptWrites ==
  ASSUME NEW st, SoundStore(st), NEW r \in RunId, NextRunId(st) \in RunId,
         RetryAttemptAllowed(st, r)
  PROVE  LET x == NextRunId(st)
             new == CreateRetryAttempt(st, r)
         IN  /\ Writes(st, new, x, NewRun(st.runs[r].trigger, st.runs[r].attempt + 1, "accepted", "none"),
                       st.pubClaims[x], st.noteClaims[x])
             /\ new.sequence = x
<1> DEFINE run == st.runs[r]
           expired == [run EXCEPT !.status = "failed", !.reason = "lease_expired"]
           closed == IF run.status \in ActiveStatus THEN Put(st, r, expired) ELSE st
           x == NextRunId(st)
           rec == NewRun(run.trigger, run.attempt + 1, "accepted", "none")
           put == [Put(closed, x, rec) EXCEPT !.sequence = x]
<1>1. st \in Store /\ run \in Run /\ x \in 0..MaxRuns
  BY StoreFields, BoundsAssumption DEF RunId, SoundStore
<1>2. rec \in Run
  <2>1. run.attempt \in Nat /\ run.attempt < MaxAttempts
    BY <1>1, BoundsAssumption DEF RetryAttemptAllowed, AttemptLimit, Run
  <2>2. run.attempt + 1 \in 0..MaxAttempts /\ run.trigger \in Trigger \cup {NoTrigger}
    BY <1>1, <2>1, BoundsAssumption DEF Run
  <2>3. "accepted" \in ActiveStatus /\ "none" \in Reason
    BY DEF ActiveStatus, Reason
  <2> QED
    BY <2>2, <2>3, NewRunType
<1>3. /\ closed \in Store
      /\ \A y \in RunId : RunCalm(st, closed, y)
      /\ closed.pubClaims = st.pubClaims /\ closed.noteClaims = st.noteClaims
  <2>1. CASE run.status \in ActiveStatus
    <3>1. expired \in Run /\ Keeps(run, expired)
      <4>1. "failed" \in TerminalStatus /\ "lease_expired" \in Reason
        BY DEF TerminalStatus, Reason
      <4>2. UpdateAllowed(run, expired)
        BY <1>1, <2>1 DEF UpdateAllowed, ActiveStatus, TerminalStatus
      <4> HIDE DEF run
      <4> QED
        BY <1>1, <4>1, <4>2, StatusKeepsClaims, StatusKeeps
    <3> HIDE DEF expired
    <3>2. closed = Put(st, r, expired)
      BY <2>1
    <3>3. PutOf(st, Put(st, r, expired), r, expired, st.pubClaims[r], st.noteClaims[r], st.sequence)
      BY <1>1, <3>1, PutForms
    <3>4. Writes(st, Put(st, r, expired), r, expired, st.pubClaims[r], st.noteClaims[r])
      BY <1>1, <3>1, <3>3, PutIsWrite
    <3>5. \A y \in RunId : RunCalm(st, Put(st, r, expired), y)
      BY <3>1, <3>4, WriteIsCalm
    <3>6. Put(st, r, expired).pubClaims = st.pubClaims /\ Put(st, r, expired).noteClaims = st.noteClaims
      BY <1>1 DEF Put, Store
    <3> QED
      BY <3>2, <3>3, <3>5, <3>6 DEF PutOf
  <2>2. CASE run.status \notin ActiveStatus
    BY <1>1, <2>2, SameIsCalm
  <2> QED
    BY <2>1, <2>2
<1>4. CreateRetryAttempt(st, r) = Saved(put, x)
  BY DEF CreateRetryAttempt
<1> HIDE DEF closed, rec
<1>5. PutOf(closed, put, x, rec, closed.pubClaims[x], closed.noteClaims[x], x)
  BY <1>1, <1>2, <1>3, PutForms
<1> HIDE DEF put
<1>6. SavedOf(put, Saved(put, x))
  BY <1>5, SavedKeeps DEF PutOf
<1>7. /\ Writes(closed, Saved(put, x), x, rec, closed.pubClaims[x], closed.noteClaims[x])
      /\ Saved(put, x).sequence = x
  BY <1>2, <1>3, <1>5, <1>6, PutIsWrite
<1>8. \A y \in RunId \ {x} : RunCalm(st, Saved(put, x), y)
  BY <1>3, <1>7, CalmTwice DEF Writes
<1>9. Writes(st, Saved(put, x), x, rec, st.pubClaims[x], st.noteClaims[x])
  BY <1>3, <1>7, <1>8 DEF Writes
<1> QED
  BY <1>4, <1>7, <1>9 DEF rec

(***************************************************************************)
(* What a publication writes                                               *)
(***************************************************************************)

(* The notification of b is that of a.                                     *)
SameNote(a, b) == b.note = a.note /\ b.noteBy = a.noteBy /\ b.postStarted = a.postStarted

(* The publication of b is that of a.                                      *)
SamePublication(a, b) ==
  b.pub = a.pub /\ b.pubBy = a.pubBy /\ b.payload = a.payload /\ b.done = a.done

(* A terminal status stays, but for a failed run that is rejected because  *)
(* its merge request has moved on.                                         *)
StatusFinal(a, b) ==
  a.status \in TerminalStatus =>
    b.status = a.status \/ (a.status = "failed" /\ b.status = "rejected" /\ b.reason = "policy")

SameRun(a, b) ==
  /\ b.trigger = a.trigger /\ b.attempt = a.attempt /\ b.session = a.session
  /\ a.status # "absent" => b.status # "absent"

(* The publication of a was given up, and may be resumed.                  *)
PartialOf(a, b) ==
  /\ SameRun(a, b) /\ StatusFinal(a, b) /\ SameNote(a, b)
  /\ b.pub = "partial" /\ b.payload = a.payload /\ b.done = a.done

(* The publication of a was given up, and nothing is left of it.           *)
ClearedOf(a, b) ==
  /\ SameRun(a, b) /\ b.status = a.status /\ SameNote(a, b)
  /\ b.pub = "none" /\ b.payload = NoPayload /\ b.done = {}

(* The publication of a is complete.                                       *)
PublishedOf(a, b) ==
  /\ SameRun(a, b) /\ b.status \in TerminalStatus /\ SameNote(a, b)
  /\ b.pub = "published" /\ b.payload = a.payload /\ b.done = a.done

(* The markers of the publication of a are replaced.                       *)
MarkedOf(a, b, markers) ==
  /\ SameRun(a, b) /\ b.status = a.status /\ SameNote(a, b)
  /\ b.pub = a.pub /\ b.pubBy = a.pubBy /\ b.payload = a.payload /\ b.done = markers

(* Every run but r is calm.                                                *)
Apart(st, new, r) ==
  /\ new \in Store /\ new.sequence = st.sequence
  /\ \A x \in RunId \ {r} : RunCalm(st, new, x)

(* And the publication claim of r is gone.                                 *)
PublicationDropped(st, new, r) ==
  /\ Apart(st, new, r)
  /\ new.pubClaims[r] = NoPublicationClaim
  /\ new.noteClaims[r] \in {st.noteClaims[r], NoNoteClaim}

(* The run r is written and its publication claim dropped, saved or not.   *)
LEMMA DropPublicationClaim ==
  ASSUME NEW st, SoundStore(st), NEW r \in RunId, NEW rec \in Run
  PROVE  LET put == WithoutPublicationClaim(st, r, rec)
         IN  /\ PublicationDropped(st, put, r)
             /\ Gone(put.runs[r]) \/ Alike(put.runs[r], rec)
             /\ PublicationDropped(st, Saved(put, r), r)
             /\ Gone(Saved(put, r).runs[r]) \/ Alike(Saved(put, r).runs[r], rec)
<1> DEFINE put == WithoutPublicationClaim(st, r, rec)
<1>1. st \in Store
  BY DEF SoundStore
<1>2. PutOf(st, put, r, rec, NoPublicationClaim, st.noteClaims[r], st.sequence)
  BY <1>1, NoClaimTypes, PutForms DEF WithoutPublicationClaim
<1> HIDE DEF put
<1>3. SavedOf(put, Saved(put, r))
  BY <1>2, SavedKeeps DEF PutOf
<1>4. /\ Writes(st, put, r, rec, NoPublicationClaim, st.noteClaims[r]) /\ put.sequence = st.sequence
      /\ Writes(st, Saved(put, r), r, rec, NoPublicationClaim, st.noteClaims[r])
      /\ Saved(put, r).sequence = st.sequence
  BY <1>1, <1>2, <1>3, PutIsWrite DEF PutOf
<1>5. /\ PublicationDropped(st, put, r)
      /\ Gone(put.runs[r]) \/ Alike(put.runs[r], rec)
      /\ PublicationDropped(st, Saved(put, r), r)
      /\ Gone(Saved(put, r).runs[r]) \/ Alike(Saved(put, r).runs[r], rec)
  BY <1>4 DEF Writes, PublicationDropped, Apart
<1> QED
  BY <1>5 DEF put

(* Giving the claim up leaves the rest of the run.                         *)
LEMMA AsPartialRun ==
  ASSUME NEW a \in Run
  PROVE  AsPartial(a) \in Run
<1>1. /\ AsPartial(a) = [a EXCEPT !.pub = "partial", !.pubBy = NoClaim]
      /\ "partial" \in {"none", "publishing", "partial", "published"}
      /\ NoClaim \in PublicationClaim \cup {NoClaim}
  BY DEF AsPartial
<1> QED
  BY <1>1 DEF Run

(* A run whose status may change becomes partial.                          *)
LEMMA BecomesPartial ==
  ASSUME NEW run \in Run, NEW status \in {"failed", "rejected"}, NEW reason \in Reason
  PROVE  /\ LET rec == AsPartial([run EXCEPT !.status = status, !.reason = reason])
            IN  /\ rec \in Run
                /\ StatusFinal(run, [run EXCEPT !.status = status, !.reason = reason])
                     => \A b : Alike(b, rec) => PartialOf(run, b)
         /\ AsPartial(run) \in Run
         /\ \A b : Alike(b, AsPartial(run)) => PartialOf(run, b)
<1> DEFINE rec == [run EXCEPT !.status = status, !.reason = reason]
<1>1. rec \in Run
  BY DEF Run, TerminalStatus
<1>2. ASSUME NEW a \in Run
      PROVE  AsPartial(a) \in Run /\ \A b : Alike(b, AsPartial(a)) => PartialOf(a, b)
  <2>1. AsPartial(a) \in Run
    BY <1>2, AsPartialRun
  <2>2. /\ AsPartial(a).trigger = a.trigger /\ AsPartial(a).attempt = a.attempt
        /\ AsPartial(a).session = a.session /\ AsPartial(a).status = a.status
        /\ AsPartial(a).pub = "partial" /\ AsPartial(a).payload = a.payload
        /\ AsPartial(a).done = a.done /\ SameNote(a, AsPartial(a))
    BY <1>2 DEF Run, AsPartial, SameNote
  <2> QED
    BY <2>1, <2>2 DEF Alike, PartialOf, SameRun, StatusFinal, SameNote
<1>3. /\ rec.trigger = run.trigger /\ rec.attempt = run.attempt /\ rec.session = run.session
      /\ rec.status = status /\ rec.reason = reason /\ SameNote(run, rec)
      /\ rec.payload = run.payload /\ rec.done = run.done
  BY DEF Run, SameNote
<1>4. AsPartial(rec) \in Run
  BY <1>1, <1>2
<1>5. ASSUME StatusFinal(run, rec), NEW b, Alike(b, AsPartial(rec))
      PROVE  PartialOf(run, b)
  <2>1. PartialOf(rec, b)
    BY <1>1, <1>2, <1>5
  <2>2. b.status = status /\ b.reason = reason
    <3> HIDE DEF rec
    <3> QED
      BY <1>1, <1>3, <1>5 DEF Alike, AsPartial, Run
  <2> HIDE DEF rec
  <2> QED
    BY <1>3, <1>5, <2>1, <2>2 DEF PartialOf, SameRun, StatusFinal, SameNote
<1> QED
  BY <1>2, <1>4, <1>5

(* failPublication                                                         *)
LEMMA FailPublicationEffect ==
  ASSUME NEW st, SoundStore(st), NEW id, id.run \in RunId, HoldsPublication(st, id)
  PROVE  LET new == FailPublication(st, id)
         IN  /\ PublicationDropped(st, new, id.run)
             /\ Gone(new.runs[id.run]) \/ PartialOf(st.runs[id.run], new.runs[id.run])
<1> DEFINE run == st.runs[id.run]
           other == [run EXCEPT !.status = "failed", !.reason = "other"]
           failed == IF NotTerminal(run, id.allow) THEN other ELSE run
           new == FailPublication(st, id)
<1>1. run \in Run
  BY StoreFields
<1>2. "other" \in Reason
  BY DEF Reason
<1>3. NotTerminal(run, id.allow) => StatusFinal(run, other)
  <2> HIDE DEF run
  <2> QED
    BY <1>1 DEF NotTerminal, StatusFinal, ActiveStatus, TerminalStatus, Run
<1>4. AsPartial(failed) \in Run /\ \A b : Alike(b, AsPartial(failed)) => PartialOf(run, b)
  <2>1. CASE NotTerminal(run, id.allow)
    <3> HIDE DEF run
    <3> QED
      BY <1>1, <1>2, <1>3, <2>1, BecomesPartial
  <2>2. CASE ~NotTerminal(run, id.allow)
    <3> HIDE DEF run
    <3> QED
      BY <1>1, <1>2, <2>2, BecomesPartial
  <2> QED
    BY <2>1, <2>2
<1>5. new = Saved(WithoutPublicationClaim(st, id.run, AsPartial(failed)), id.run)
  BY DEF FailPublication
<1> HIDE DEF failed, new
<1> QED
  BY <1>4, <1>5, DropPublicationClaim DEF new

(* releasePublicationClaim                                                 *)
LEMMA ReleasePublicationClaimEffect ==
  ASSUME NEW st, SoundStore(st), NEW id, id.run \in RunId, HoldsPublication(st, id),
         NEW preservePartial \in BOOLEAN
  PROVE  LET new == ReleasePublicationClaim(st, id, preservePartial)
         IN  /\ PublicationDropped(st, new, id.run)
             /\ \/ Gone(new.runs[id.run])
                \/ preservePartial /\ PartialOf(st.runs[id.run], new.runs[id.run])
                     /\ new.runs[id.run].status = st.runs[id.run].status
                \/ ~preservePartial /\ ClearedOf(st.runs[id.run], new.runs[id.run])
<1> DEFINE run == st.runs[id.run]
           cleared == [run EXCEPT !.pub = "none", !.pubBy = NoClaim, !.payload = NoPayload, !.done = {}]
           new == ReleasePublicationClaim(st, id, preservePartial)
<1>1. run \in Run
  BY StoreFields
<1>2. cleared \in Run /\ \A b : Alike(b, cleared) => ClearedOf(run, b)
  <2> HIDE DEF run
  <2> QED
    BY <1>1 DEF Run, Alike, ClearedOf, SameRun, SameNote
<1>3. /\ AsPartial(run) \in Run
      /\ \A b : Alike(b, AsPartial(run)) => PartialOf(run, b) /\ b.status = run.status
  <2>1. "other" \in Reason
    BY DEF Reason
  <2>2. \A b : Alike(b, AsPartial(run)) => b.status = run.status
    <3> HIDE DEF run
    <3> QED
      BY <1>1 DEF Run, Alike, AsPartial
  <2> HIDE DEF run
  <2> QED
    BY <1>1, <2>1, <2>2, BecomesPartial
<1>4. CASE preservePartial
  <2>1. new = Saved(WithoutPublicationClaim(st, id.run, AsPartial(run)), id.run)
    BY <1>4 DEF ReleasePublicationClaim
  <2> HIDE DEF new
  <2> QED
    BY <1>3, <1>4, <2>1, DropPublicationClaim DEF new
<1>5. CASE ~preservePartial
  <2>1. new = Saved(WithoutPublicationClaim(st, id.run, cleared), id.run)
    BY <1>5 DEF ReleasePublicationClaim
  <2> HIDE DEF new, cleared
  <2> QED
    BY <1>2, <1>5, <2>1, DropPublicationClaim DEF new
<1> QED
  BY <1>4, <1>5

(* rejectPublicationForPolicy, while the claim is current.                 *)
LEMMA RejectPublicationEffect ==
  ASSUME NEW st, SoundStore(st), NEW id, id.run \in RunId, IsPublicationClaimCurrent(st, id)
  PROVE  LET new == RejectPublicationForPolicy(st, id)
         IN  /\ PublicationDropped(st, new, id.run)
             /\ Gone(new.runs[id.run]) \/ PartialOf(st.runs[id.run], new.runs[id.run])
<1> DEFINE run == st.runs[id.run]
           rejected == [run EXCEPT !.status = "rejected", !.reason = "policy"]
           new == RejectPublicationForPolicy(st, id)
<1>1. run \in Run
  BY StoreFields
<1>2. "policy" \in Reason
  BY DEF Reason
<1>3. NotTerminal(run, id.allow)
  BY DEF IsPublicationClaimCurrent, ResultPublicationAllowed
<1>4. StatusFinal(run, rejected)
  <2> HIDE DEF run
  <2> QED
    BY <1>1, <1>3 DEF NotTerminal, StatusFinal, ActiveStatus, TerminalStatus, Run
<1>5. AsPartial(rejected) \in Run /\ \A b : Alike(b, AsPartial(rejected)) => PartialOf(run, b)
  <2> HIDE DEF run
  <2> QED
    BY <1>1, <1>2, <1>4, BecomesPartial
<1>6. new = Saved(WithoutPublicationClaim(st, id.run, AsPartial(rejected)), id.run)
  BY DEF RejectPublicationForPolicy, HoldsPublication, IsPublicationClaimCurrent
<1> HIDE DEF rejected, new
<1> QED
  BY <1>5, <1>6, DropPublicationClaim DEF new

(* completePublication, when its save succeeds.                            *)
LEMMA CompletePublicationEffect ==
  ASSUME NEW st, SoundStore(st), NEW id, id.run \in RunId, NEW status \in TerminalStatus
  PROVE  LET new == CompletePublication(st, id, status)
         IN  /\ PublicationDropped(st, new, id.run)
             /\ \/ Gone(new.runs[id.run])
                \/ PublishedOf(st.runs[id.run], new.runs[id.run])
<1> DEFINE run == st.runs[id.run]
           rec == [run EXCEPT !.status = status, !.reason = "none",
                              !.pub = "published", !.pubBy = NoClaim]
           new == CompletePublication(st, id, status)
<1>1. run \in Run
  BY StoreFields
<1>2. rec \in Run /\ \A b : Alike(b, rec) => PublishedOf(run, b)
  <2>1. "none" \in Reason /\ status \in {"absent"} \cup ActiveStatus \cup TerminalStatus /\ status # "absent"
    BY DEF Reason, TerminalStatus
  <2> HIDE DEF run
  <2>2. rec \in Run
    BY <1>1, <2>1 DEF Run
  <2>3. \A b : Alike(b, rec) => PublishedOf(run, b)
    BY <1>1, <2>1 DEF Run, Alike, PublishedOf, SameRun, SameNote
  <2> QED
    BY <2>2, <2>3
<1>3. new = Saved(WithoutPublicationClaim(st, id.run, rec), id.run)
  BY DEF CompletePublication
<1> HIDE DEF rec, new
<1> QED
  BY <1>2, <1>3, DropPublicationClaim DEF new

(* completePublication, when its save fails: in memory, and saved again.   *)
LEMMA ReleaseAsPartialEffect ==
  ASSUME NEW st, SoundStore(st), NEW id, id.run \in RunId, IsPublicationClaimCurrent(st, id)
  PROVE  LET put == ReleaseAsPartial(st, id)
             new == Saved(put, id.run)
         IN  /\ PublicationDropped(st, put, id.run)
             /\ Gone(put.runs[id.run]) \/ PartialOf(st.runs[id.run], put.runs[id.run])
             /\ PublicationDropped(st, new, id.run)
             /\ Gone(new.runs[id.run]) \/ PartialOf(st.runs[id.run], new.runs[id.run])
<1> DEFINE run == st.runs[id.run]
           failed == [run EXCEPT !.status = "failed", !.reason = "other"]
           put == ReleaseAsPartial(st, id)
<1>1. run \in Run
  BY StoreFields
<1>2. "other" \in Reason
  BY DEF Reason
<1>3. NotTerminal(run, id.allow)
  BY DEF IsPublicationClaimCurrent, ResultPublicationAllowed
<1>4. StatusFinal(run, failed)
  <2> HIDE DEF run
  <2> QED
    BY <1>1, <1>3 DEF NotTerminal, StatusFinal, ActiveStatus, TerminalStatus, Run
<1>5. AsPartial(failed) \in Run /\ \A b : Alike(b, AsPartial(failed)) => PartialOf(run, b)
  <2> HIDE DEF run
  <2> QED
    BY <1>1, <1>2, <1>4, BecomesPartial
<1>6. put = WithoutPublicationClaim(st, id.run, AsPartial(failed))
  BY DEF ReleaseAsPartial
<1> HIDE DEF failed, put
<1>7. /\ PublicationDropped(st, put, id.run)
      /\ Gone(put.runs[id.run]) \/ Alike(put.runs[id.run], AsPartial(failed))
      /\ PublicationDropped(st, Saved(put, id.run), id.run)
      /\ Gone(Saved(put, id.run).runs[id.run]) \/ Alike(Saved(put, id.run).runs[id.run], AsPartial(failed))
  BY <1>5, <1>6, DropPublicationClaim
<1>8. /\ PublicationDropped(st, put, id.run)
      /\ Gone(put.runs[id.run]) \/ PartialOf(run, put.runs[id.run])
      /\ PublicationDropped(st, Saved(put, id.run), id.run)
      /\ Gone(Saved(put, id.run).runs[id.run]) \/ PartialOf(run, Saved(put, id.run).runs[id.run])
  BY <1>5, <1>7
<1> QED
  BY <1>8 DEF put

(* What a claim of r, or an update of its markers, does to the claims.     *)
ClaimsKept(new, r, c, d) ==
  /\ new.pubClaims[r] \in {c, NoPublicationClaim}
  /\ PublicationClaimMatches(new.runs[r], c) => new.pubClaims[r] = c
  /\ new.noteClaims[r] \in {d, NoNoteClaim}
  /\ NoteClaimMatches(new.runs[r], d) => new.noteClaims[r] = d

(* replacePublicationMarkers and recordPublicationMarker.                  *)
LEMMA MarkersEffect ==
  ASSUME NEW st, SoundStore(st), NEW id, id.run \in RunId, NEW markers \in SUBSET Marker
  PROVE  LET new == ReplacePublicationMarkers(st, id, markers)
             r == id.run
         IN  /\ Apart(st, new, r)
             /\ Gone(new.runs[r]) \/ MarkedOf(st.runs[r], new.runs[r], markers)
             /\ ClaimsKept(new, r, st.pubClaims[r], st.noteClaims[r])
<1> DEFINE r == id.run
           run == st.runs[r]
           rec == [run EXCEPT !.done = markers]
           put == Put(st, r, rec)
           new == ReplacePublicationMarkers(st, id, markers)
<1>1. run \in Run /\ st \in Store
  BY StoreFields DEF SoundStore
<1>2. rec \in Run /\ \A b : Alike(b, rec) => MarkedOf(run, b, markers)
  <2> HIDE DEF run
  <2> QED
    BY <1>1 DEF Run, Alike, MarkedOf, SameRun, SameNote
<1>3. new = Saved(put, r)
  BY DEF ReplacePublicationMarkers
<1> HIDE DEF rec
<1>4. PutOf(st, put, r, rec, st.pubClaims[r], st.noteClaims[r], st.sequence)
  BY <1>1, <1>2, PutForms
<1> HIDE DEF put
<1>5. SavedOf(put, Saved(put, r))
  BY <1>4, SavedKeeps DEF PutOf
<1>6. /\ Writes(st, Saved(put, r), r, rec, st.pubClaims[r], st.noteClaims[r])
      /\ Saved(put, r).sequence = st.sequence
  BY <1>1, <1>4, <1>5, PutIsWrite
<1> HIDE DEF new
<1>7. Writes(st, new, r, rec, st.pubClaims[r], st.noteClaims[r]) /\ new.sequence = st.sequence
  BY <1>3, <1>6
<1>8. /\ Apart(st, new, r)
      /\ Gone(new.runs[r]) \/ MarkedOf(run, new.runs[r], markers)
      /\ ClaimsKept(new, r, st.pubClaims[r], st.noteClaims[r])
  BY <1>2, <1>7 DEF Writes, Apart, ClaimsKept
<1> QED
  BY <1>8 DEF new

LEMMA RecordMarkerEffect ==
  ASSUME NEW st, SoundStore(st), NEW id, id.run \in RunId, NEW m \in Marker
  PROVE  LET new == RecordPublicationMarker(st, id, m)
             r == id.run
         IN  /\ Apart(st, new, r)
             /\ Gone(new.runs[r]) \/ MarkedOf(st.runs[r], new.runs[r], st.runs[r].done \cup {m})
             /\ ClaimsKept(new, r, st.pubClaims[r], st.noteClaims[r])
<1> DEFINE run == st.runs[id.run]
<1>1. run \in Run /\ run.done \cup {m} \in SUBSET Marker /\ st \in Store
  BY StoreFields DEF Run, SoundStore
<1>2. CASE m \in run.done
  <2>1. RecordPublicationMarker(st, id, m) = st /\ run.done \cup {m} = run.done
    BY <1>2 DEF RecordPublicationMarker
  <2>2. MarkedOf(run, run, run.done)
    BY DEF MarkedOf, SameRun, SameNote
  <2> QED
    BY <1>1, <2>1, <2>2, SameIsCalm DEF Apart, ClaimsKept
<1>3. CASE m \notin run.done
  <2>1. RecordPublicationMarker(st, id, m) = ReplacePublicationMarkers(st, id, run.done \cup {m})
    BY <1>1, <1>3 DEF RecordPublicationMarker, ReplacePublicationMarkers, Run
  <2> QED
    BY <1>1, <2>1, MarkersEffect
<1> QED
  BY <1>2, <1>3

(* What a publication makes of the run it claims.                          *)
ClaimedOf(a, b, by, payload) ==
  /\ SameRun(a, b) /\ b.status = a.status /\ SameNote(a, b)
  /\ b.pub = "publishing" /\ b.pubBy = by /\ b.payload = payload /\ b.done = a.done

(* claimPublication                                                        *)
LEMMA ClaimPublicationEffect ==
  ASSUME NEW st, SoundStore(st), NEW r \in RunId, NEW by \in PublicationClaim,
         NEW payload \in Payload
  PROVE  LET new == ClaimPublication(st, r, by, payload)
             run == st.runs[r]
             claim == [by |-> by, session |-> run.session,
                       allow |-> run.status = "failed" /\ run.pub = "partial"]
         IN  /\ Apart(st, new, r)
             /\ Gone(new.runs[r]) \/ ClaimedOf(run, new.runs[r], by, payload)
             /\ ClaimsKept(new, r, claim, st.noteClaims[r])
<1> DEFINE run == st.runs[r]
           allow == run.status = "failed" /\ run.pub = "partial"
           claim == [by |-> by, session |-> run.session, allow |-> allow]
           rec == [run EXCEPT !.pub = "publishing", !.pubBy = by, !.payload = payload]
           put == [Put(st, r, rec) EXCEPT !.pubClaims[r] = claim]
           new == ClaimPublication(st, r, by, payload)
<1>1. run \in Run /\ st \in Store
  BY StoreFields DEF SoundStore
<1>2. rec \in Run /\ \A b : Alike(b, rec) => ClaimedOf(run, b, by, payload)
  <2> HIDE DEF run
  <2> QED
    BY <1>1 DEF Run, Alike, ClaimedOf, SameRun, SameNote
<1>3. claim \in PublicationClaims
  <2>1. allow \in BOOLEAN
    OBVIOUS
  <2> HIDE DEF run, allow
  <2> QED
    BY <1>1, <2>1 DEF Run, PublicationClaims
<1>4. new = Saved(put, r)
  BY DEF ClaimPublication
<1> HIDE DEF rec, claim
<1>5. PutOf(st, put, r, rec, claim, st.noteClaims[r], st.sequence)
  BY <1>1, <1>2, <1>3, PutForms
<1> HIDE DEF put
<1>6. SavedOf(put, Saved(put, r))
  BY <1>5, SavedKeeps DEF PutOf
<1>7. /\ Writes(st, Saved(put, r), r, rec, claim, st.noteClaims[r])
      /\ Saved(put, r).sequence = st.sequence
  BY <1>1, <1>5, <1>6, PutIsWrite
<1> HIDE DEF new
<1>8. Writes(st, new, r, rec, claim, st.noteClaims[r]) /\ new.sequence = st.sequence
  BY <1>4, <1>7
<1>9. /\ Apart(st, new, r)
      /\ Gone(new.runs[r]) \/ ClaimedOf(run, new.runs[r], by, payload)
      /\ ClaimsKept(new, r, claim, st.noteClaims[r])
  BY <1>2, <1>8 DEF Writes, Apart, ClaimsKept
<1> QED
  BY <1>9 DEF new, claim

(***************************************************************************)
(* What a notification writes                                              *)
(***************************************************************************)

(* The notification of a ended as note says; post tells whether a post     *)
(* may have been taken.                                                    *)
NotifiedOf(a, b, note, post) ==
  /\ SameRun(a, b) /\ StatusFinal(a, b) /\ SamePublication(a, b)
  /\ b.note = note /\ b.postStarted = post

(* What a notification makes of the run it claims.                         *)
NotingOf(a, b, by) ==
  /\ SameRun(a, b) /\ b.status = a.status /\ SamePublication(a, b)
  /\ b.note = "notifying" /\ b.noteBy = by /\ b.postStarted = a.postStarted

(* A post is about to go out.                                              *)
PostingOf(a, b) ==
  /\ SameRun(a, b) /\ b.status = a.status /\ SamePublication(a, b)
  /\ b.note = a.note /\ b.noteBy = a.noteBy /\ b.postStarted

(* The notification claim of r is gone, and every other run is calm.       *)
NoteDropped(st, new, r) ==
  /\ Apart(st, new, r)
  /\ new.noteClaims[r] = NoNoteClaim
  /\ new.pubClaims[r] \in {st.pubClaims[r], NoPublicationClaim}

(* The run r is written, its notification claim dropped, and saved.        *)
LEMMA DropNoteClaim ==
  ASSUME NEW st, SoundStore(st), NEW r \in RunId, NEW rec \in Run
  PROVE  LET new == Saved(WithoutNoteClaim(st, r, rec), r)
         IN  /\ NoteDropped(st, new, r)
             /\ Gone(new.runs[r]) \/ Alike(new.runs[r], rec)
<1> DEFINE put == WithoutNoteClaim(st, r, rec)
<1>1. st \in Store
  BY DEF SoundStore
<1>2. PutOf(st, put, r, rec, st.pubClaims[r], NoNoteClaim, st.sequence)
  BY <1>1, NoClaimTypes, PutForms DEF WithoutNoteClaim
<1> HIDE DEF put
<1>3. SavedOf(put, Saved(put, r))
  BY <1>2, SavedKeeps DEF PutOf
<1>4. /\ Writes(st, Saved(put, r), r, rec, st.pubClaims[r], NoNoteClaim)
      /\ Saved(put, r).sequence = st.sequence
  BY <1>1, <1>2, <1>3, PutIsWrite DEF PutOf
<1>5. /\ NoteDropped(st, Saved(put, r), r)
      /\ Gone(Saved(put, r).runs[r]) \/ Alike(Saved(put, r).runs[r], rec)
  BY <1>4 DEF Writes, NoteDropped, Apart
<1> QED
  BY <1>5 DEF put

(* failFailureNotification                                                 *)
LEMMA FailNotificationEffect ==
  ASSUME NEW st, SoundStore(st), NEW id, id.run \in RunId, NEW rejected \in BOOLEAN,
         HoldsNotification(st, id)
  PROVE  LET new == FailFailureNotification(st, id, rejected)
             run == st.runs[id.run]
         IN  /\ NoteDropped(st, new, id.run)
             /\ \/ Gone(new.runs[id.run])
                \/ NotifiedOf(run, new.runs[id.run], "partial", run.postStarted /\ ~rejected)
<1> DEFINE run == st.runs[id.run]
           post == run.postStarted /\ ~rejected
           rec == [run EXCEPT !.note = "partial", !.noteBy = NoClaim, !.postStarted = post]
           new == FailFailureNotification(st, id, rejected)
<1>1. run \in Run
  BY StoreFields
<1>2. rec \in Run /\ \A b : Alike(b, rec) => NotifiedOf(run, b, "partial", post)
  <2>1. post \in BOOLEAN
    OBVIOUS
  <2> HIDE DEF run, post
  <2>2. rec \in Run
    BY <1>1, <2>1 DEF Run
  <2>3. \A b : Alike(b, rec) => NotifiedOf(run, b, "partial", post)
    BY <1>1 DEF Run, Alike, NotifiedOf, SameRun, StatusFinal, SamePublication
  <2> QED
    BY <2>2, <2>3
<1>3. new = Saved(WithoutNoteClaim(st, id.run, rec), id.run)
  BY DEF FailFailureNotification
<1> HIDE DEF rec, new
<1>4. /\ NoteDropped(st, new, id.run)
      /\ Gone(new.runs[id.run]) \/ NotifiedOf(run, new.runs[id.run], "partial", post)
  BY <1>2, <1>3, DropNoteClaim
<1> QED
  BY <1>4 DEF new

(* completeFailureNotification                                             *)
LEMMA CompleteNotificationEffect ==
  ASSUME NEW st, SoundStore(st), NEW id, id.run \in RunId
  PROVE  LET new == CompleteFailureNotification(st, id)
             run == st.runs[id.run]
         IN  /\ NoteDropped(st, new, id.run)
             /\ Gone(new.runs[id.run]) \/ NotifiedOf(run, new.runs[id.run], "notified", run.postStarted)
<1> DEFINE run == st.runs[id.run]
           rec == [run EXCEPT !.note = "notified", !.noteBy = NoClaim]
           new == CompleteFailureNotification(st, id)
<1>1. run \in Run
  BY StoreFields
<1>2. rec \in Run /\ \A b : Alike(b, rec) => NotifiedOf(run, b, "notified", run.postStarted)
  <2> HIDE DEF run
  <2>2. rec \in Run
    BY <1>1 DEF Run
  <2>3. \A b : Alike(b, rec) => NotifiedOf(run, b, "notified", run.postStarted)
    BY <1>1 DEF Run, Alike, NotifiedOf, SameRun, StatusFinal, SamePublication
  <2> QED
    BY <2>2, <2>3
<1>3. new = Saved(WithoutNoteClaim(st, id.run, rec), id.run)
  BY DEF CompleteFailureNotification
<1> HIDE DEF rec, new
<1>4. /\ NoteDropped(st, new, id.run)
      /\ Gone(new.runs[id.run]) \/ NotifiedOf(run, new.runs[id.run], "notified", run.postStarted)
  BY <1>2, <1>3, DropNoteClaim
<1> QED
  BY <1>4 DEF new

(* rejectFailureNotificationForPolicy, while the claim is current.         *)
LEMMA RejectNotificationEffect ==
  ASSUME NEW st, SoundStore(st), NEW id, id.run \in RunId, IsFailureNotificationClaimCurrent(st, id)
  PROVE  LET new == RejectFailureNotificationForPolicy(st, id)
             run == st.runs[id.run]
         IN  /\ NoteDropped(st, new, id.run)
             /\ Gone(new.runs[id.run]) \/ NotifiedOf(run, new.runs[id.run], "partial", run.postStarted)
<1> DEFINE run == st.runs[id.run]
           rec == [run EXCEPT !.status = "rejected", !.reason = "policy",
                              !.note = "partial", !.noteBy = NoClaim]
           new == RejectFailureNotificationForPolicy(st, id)
<1>1. run \in Run /\ run.status = "failed"
  BY StoreFields DEF IsFailureNotificationClaimCurrent
<1>2. rec \in Run /\ \A b : Alike(b, rec) => NotifiedOf(run, b, "partial", run.postStarted)
  <2> HIDE DEF run
  <2>1. "rejected" \in TerminalStatus /\ "policy" \in Reason
    BY DEF TerminalStatus, Reason
  <2>2. rec \in Run
    BY <1>1, <2>1 DEF Run
  <2>3. \A b : Alike(b, rec) => NotifiedOf(run, b, "partial", run.postStarted)
    BY <1>1 DEF Run, Alike, NotifiedOf, SameRun, StatusFinal, SamePublication
  <2> QED
    BY <2>2, <2>3
<1>3. new = Saved(WithoutNoteClaim(st, id.run, rec), id.run)
  BY DEF RejectFailureNotificationForPolicy
<1> HIDE DEF rec, new
<1>4. /\ NoteDropped(st, new, id.run)
      /\ Gone(new.runs[id.run]) \/ NotifiedOf(run, new.runs[id.run], "partial", run.postStarted)
  BY <1>2, <1>3, DropNoteClaim
<1> QED
  BY <1>4 DEF new

(* releaseFailureNotificationClaim, in memory only.                        *)
LEMMA ReleaseNoteClaimEffect ==
  ASSUME NEW st, SoundStore(st), NEW id, id.run \in RunId
  PROVE  LET new == ReleaseFailureNotificationClaim(st, id)
         IN  /\ new \in Store /\ new.runs = st.runs /\ new.sequence = st.sequence
             /\ new.pubClaims = st.pubClaims
             /\ \A x \in RunId \ {id.run} : new.noteClaims[x] = st.noteClaims[x]
             /\ IF ActiveNoteClaimMatches(st, id) THEN new.noteClaims[id.run] = NoNoteClaim ELSE new = st
<1> DEFINE new == ReleaseFailureNotificationClaim(st, id)
           notes == [st.noteClaims EXCEPT ![id.run] = NoNoteClaim]
<1>1. st \in Store
  BY DEF SoundStore
<1>2. CASE ActiveNoteClaimMatches(st, id)
  <2>1. new = [st EXCEPT !.noteClaims = notes]
    BY <1>2 DEF ReleaseFailureNotificationClaim
  <2>2. /\ notes \in [RunId -> NoteClaims] /\ notes[id.run] = NoNoteClaim
        /\ \A x \in RunId \ {id.run} : notes[x] = st.noteClaims[x]
    BY <1>1, NoClaimTypes DEF Store
  <2> HIDE DEF new, notes
  <2>3. new \in Store /\ new.runs = st.runs /\ new.sequence = st.sequence
        /\ new.pubClaims = st.pubClaims /\ new.noteClaims = notes
    BY <1>1, <2>1, <2>2 DEF Store
  <2> QED
    BY <1>2, <2>2, <2>3 DEF new
<1>3. CASE ~ActiveNoteClaimMatches(st, id)
  BY <1>1, <1>3 DEF ReleaseFailureNotificationClaim
<1> QED
  BY <1>2, <1>3

(* claimFailureNotification                                                *)
LEMMA ClaimNotificationEffect ==
  ASSUME NEW st, SoundStore(st), NEW r \in RunId, NEW by \in NoteClaim,
         NEW payload \in Payload \cup {NoPayload}
  PROVE  LET new == ClaimFailureNotification(st, r, by, payload)
             run == st.runs[r]
         IN  /\ Apart(st, new, r)
             /\ Gone(new.runs[r]) \/ NotingOf(run, new.runs[r], by)
             /\ ClaimsKept(new, r, st.pubClaims[r], [by |-> by, session |-> run.session])
<1> DEFINE run == st.runs[r]
           claim == [by |-> by, session |-> run.session]
           rec == [run EXCEPT !.note = "notifying", !.noteBy = by, !.notePayload = payload]
           put == [Put(st, r, rec) EXCEPT !.noteClaims[r] = claim]
           new == ClaimFailureNotification(st, r, by, payload)
<1>1. run \in Run /\ st \in Store
  BY StoreFields DEF SoundStore
<1>2. rec \in Run /\ \A b : Alike(b, rec) => NotingOf(run, b, by)
  <2> HIDE DEF run
  <2>1. rec \in Run
    BY <1>1 DEF Run
  <2>2. \A b : Alike(b, rec) => NotingOf(run, b, by)
    BY <1>1 DEF Run, Alike, NotingOf, SameRun, SamePublication
  <2> QED
    BY <2>1, <2>2
<1>3. claim \in NoteClaims
  <2> HIDE DEF run
  <2> QED
    BY <1>1 DEF Run, NoteClaims
<1>4. new = Saved(put, r)
  BY DEF ClaimFailureNotification
<1> HIDE DEF rec, claim
<1>5. PutOf(st, put, r, rec, st.pubClaims[r], claim, st.sequence)
  BY <1>1, <1>2, <1>3, PutForms
<1> HIDE DEF put
<1>6. SavedOf(put, Saved(put, r))
  BY <1>5, SavedKeeps DEF PutOf
<1>7. /\ Writes(st, Saved(put, r), r, rec, st.pubClaims[r], claim)
      /\ Saved(put, r).sequence = st.sequence
  BY <1>1, <1>5, <1>6, PutIsWrite
<1> HIDE DEF new
<1>8. Writes(st, new, r, rec, st.pubClaims[r], claim) /\ new.sequence = st.sequence
  BY <1>4, <1>7
<1>9. /\ Apart(st, new, r)
      /\ Gone(new.runs[r]) \/ NotingOf(run, new.runs[r], by)
      /\ ClaimsKept(new, r, st.pubClaims[r], claim)
  BY <1>2, <1>8 DEF Writes, Apart, ClaimsKept
<1> QED
  BY <1>9 DEF new, claim

(* markFailureNotificationPostStarted                                      *)
LEMMA MarkPostEffect ==
  ASSUME NEW st, SoundStore(st), NEW id, id.run \in RunId
  PROVE  LET new == MarkFailureNotificationPostStarted(st, id)
             r == id.run
         IN  /\ Apart(st, new, r)
             /\ Gone(new.runs[r]) \/ PostingOf(st.runs[r], new.runs[r])
             /\ ClaimsKept(new, r, st.pubClaims[r], st.noteClaims[r])
<1> DEFINE r == id.run
           run == st.runs[r]
           rec == [run EXCEPT !.postStarted = TRUE]
           put == [st EXCEPT !.runs[r].postStarted = TRUE]
           new == MarkFailureNotificationPostStarted(st, id)
<1>1. run \in Run /\ st \in Store
  BY StoreFields DEF SoundStore
<1>2. rec \in Run /\ \A b : Alike(b, rec) => PostingOf(run, b)
  <2> HIDE DEF run
  <2> QED
    BY <1>1 DEF Run, Alike, PostingOf, SameRun, SamePublication
<1>3. new = Saved(put, r)
  BY DEF MarkFailureNotificationPostStarted
<1>4. PutOf(st, put, r, rec, st.pubClaims[r], st.noteClaims[r], st.sequence)
  BY <1>1, MarkWrites
<1> HIDE DEF put, rec
<1>5. SavedOf(put, Saved(put, r))
  BY <1>4, SavedKeeps DEF PutOf
<1>6. /\ Writes(st, Saved(put, r), r, rec, st.pubClaims[r], st.noteClaims[r])
      /\ Saved(put, r).sequence = st.sequence
  BY <1>1, <1>2, <1>4, <1>5, PutIsWrite
<1> HIDE DEF new
<1>7. Writes(st, new, r, rec, st.pubClaims[r], st.noteClaims[r]) /\ new.sequence = st.sequence
  BY <1>3, <1>6
<1>8. /\ Apart(st, new, r)
      /\ Gone(new.runs[r]) \/ PostingOf(run, new.runs[r])
      /\ ClaimsKept(new, r, st.pubClaims[r], st.noteClaims[r])
  BY <1>2, <1>7 DEF Writes, Apart, ClaimsKept
<1> QED
  BY <1>8 DEF new

(***************************************************************************)
(* Memory and file                                                         *)
(***************************************************************************)

(* The runs a and b speak alike: of the same head, to publish or to notify *)
(* or not at all, and concluded or not.                                    *)
SameVoice(a, b) ==
  /\ a.status = "absent" <=> b.status = "absent"
  /\ a.trigger = b.trigger
  /\ a.pub = "none" <=> b.pub = "none"
  /\ a.pub = "published" <=> b.pub = "published"
  /\ a.note = "none" <=> b.note = "none"
  /\ a.note = "notified" <=> b.note = "notified"

(* The runs a and b tell the same of what was begun, posted and published. *)
Agree(a, b) ==
  /\ SameVoice(a, b)
  /\ a.postStarted = b.postStarted
  /\ a.payload = b.payload /\ a.done = b.done
  /\ a.pub = "published" \/ a.note # "none" => a.status = b.status

LEMMA AgreeIsEquivalence ==
  /\ \A a : Agree(a, a)
  /\ \A a, b : Agree(a, b) => Agree(b, a)
  /\ \A a, b, c : Agree(a, b) /\ Agree(b, c) => Agree(a, c)
BY DEF Agree, SameVoice

(* What a restart loads agrees with what was saved.                        *)
LEMMA NormalizedAgrees ==
  ASSUME NEW run \in Run
  PROVE  /\ Agree(run, Normalized(run))
         /\ Normalized(run).status = run.status
         /\ Normalized(run).pub # "publishing" /\ Normalized(run).note # "notifying"
<1>1. /\ Normalized(run).pub = IF run.pub = "publishing" THEN "partial" ELSE run.pub
      /\ Normalized(run).note = IF run.note = "notifying" THEN "partial" ELSE run.note
      /\ Normalized(run).status = run.status /\ Normalized(run).postStarted = run.postStarted
      /\ Normalized(run).payload = run.payload /\ Normalized(run).done = run.done
      /\ Normalized(run).trigger = run.trigger
  BY DEF Normalized, Run
<1> QED
  BY <1>1 DEF Agree, SameVoice

=============================================================================
