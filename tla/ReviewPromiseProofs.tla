------------------------- MODULE ReviewPromiseProofs -------------------------
(***************************************************************************)
(* What the readers of a merge request may rely on, over all attempts at   *)
(* it, proved from what ReviewOutcomeProofs shows of a single run.         *)
(*                                                                         *)
(* The order of the attempts at one head (LatestInv) holds without a       *)
(* condition: only what has said nothing is replaced by a retry.  Two      *)
(* invariants hold under a condition each: that no comment is there twice, *)
(* when no request arrives late (OnceInv), and that claims are held by     *)
(* calls under way, while every save succeeds (HeldInv).  Together with    *)
(* the first of these conditions, and while no run is pruned, LatestInv    *)
(* makes the subsystem an implementation of ReviewOutcome.                 *)
(***************************************************************************)
EXTENDS ReviewOutcomeProofs

(***************************************************************************)
(* Each comment once                                                       *)
(***************************************************************************)

(* The markers that may be seen at a time: the summary comes with the      *)
(* first, and a finding is in a discussion or in a note.                   *)
Orderly(seen) ==
  /\ seen # {} => Carried(Summary) \subseteq seen
  /\ \A f \in Finding : InlineMarker(f) \in seen => f \in Inline /\ FallbackMarker(f) \notin seen

(* A comment that is due, or the note in the place of a discussion that    *)
(* was refused.                                                            *)
Fresh(op, done) ==
  \/ op \in NextOperations(done)
  \/ \E f \in Inline : InlineMarker(f) \in NextOperations(done) /\ op = FallbackMarker(f)

(* The call p knows all that is to be seen of its run.                     *)
Knows(p) ==
  LET self == publishers[p]
      seen == Visible(self.run)
  IN  /\ self.pc = "check" \/ (self.pc = "sent" /\ ~self.landed) => self.done = seen /\ Fresh(self.op, seen)
      /\ self.pc = "finish" => self.done = seen
      /\ self.pc = "sent" /\ self.landed => self.done \cup Carried(self.op) = seen
      /\ self.pc = "record" => self.done \cup self.pending = seen

Once(r) == \A m \in Marker : remote[r].count[m] <= 1

(* One call at a time is at work on a run, though the run may be pruned.   *)
Alone ==
  \A p, q \in PublicationClaim :
    Publishes(p) /\ Publishes(q) /\ publishers[p].run = publishers[q].run => p = q

OnceInv ==
  /\ late = {}
  /\ Alone
  /\ \A p \in PublicationClaim : Publishes(p) => Knows(p)
  /\ \A r \in RunId : Once(r) /\ Orderly(Visible(r))

(* A comment that is due carries nothing that is there.                    *)
LEMMA FreshComment ==
  ASSUME NEW seen \in SUBSET Marker, Orderly(seen), NEW op \in Marker, Fresh(op, seen)
  PROVE  Carried(op) \cap seen = {} /\ Orderly(seen \cup Carried(op))
<1>1. NoFinding \notin Finding /\ Inline \subseteq Finding
  BY FindingAssumption
<1>2. /\ \A f : InlineMarker(f) # Summary /\ FallbackMarker(f) # Summary
      /\ \A f, g : InlineMarker(f) # FallbackMarker(g)
      /\ \A f, g : InlineMarker(f) = InlineMarker(g) => f = g
      /\ \A f, g : FallbackMarker(f) = FallbackMarker(g) => f = g
  BY DEF InlineMarker, FallbackMarker, Summary
<1>3. Carried(Summary) = {Summary} \cup {FallbackMarker(f) : f \in Deferred}
  BY DEF Carried
<1>4. CASE Summary \notin seen
  <2>1. NextOperations(seen) = {Summary} /\ seen = {}
    BY <1>3, <1>4 DEF NextOperations, Orderly
  <2>2. op = Summary
    BY <2>1, <1>2 DEF Fresh
  <2> QED BY <2>1, <2>2, <1>2, <1>3 DEF Orderly
<1>5. CASE Summary \in seen
  <2>1. \A f \in Deferred : FallbackMarker(f) \in seen
    BY <1>3, <1>5 DEF Orderly
  <2>2. NextOperations(seen) = {InlineMarker(f) : f \in {x \in Inline : ~Reported(seen, x)}}
    BY <2>1, <1>5 DEF NextOperations
  <2>3. PICK f \in Inline : ~Reported(seen, f) /\ op \in {InlineMarker(f), FallbackMarker(f)}
    BY <2>2, <1>2 DEF Fresh
  <2>4. Carried(op) = {op} /\ op \notin seen
    BY <2>3, <1>2 DEF Carried, Reported
  <2>5. f \notin Deferred
    BY DEF Deferred
  <2> QED BY <2>3, <2>4, <1>1, <1>2, <1>5 DEF Orderly, Reported
<1> QED BY <1>4, <1>5

LEMMA VisibleMarkers == \A r : Visible(r) \subseteq Marker
BY DEF Visible

(* GitLab takes what is not a result.                                      *)
LEMMA OtherTaken ==
  ASSUME Posting, NEW q \in Request, q.op \notin Marker, remote' = Taken(q), NEW r \in RunId
  PROVE  Visible(r)' = Visible(r) /\ (Once(r) => Once(r)')
<1>1. q.op \in {FailureNote, BlockedNote} /\ Contents(q.op) = {q.op}
  BY CommentsDiffer DEF Contents, Request, Comment
<1>2. \A m \in Marker : m \in Comment /\ m \notin Contents(q.op)
  BY <1>1, CommentsDiffer
<1>3. \A m \in Marker : remote'[r].count[m] = remote[r].count[m]
  BY <1>2, TakenShows
<1> QED BY <1>3 DEF Visible, Once

(* GitLab takes a result of which nothing is there yet.                    *)
LEMMA FreshTaken ==
  ASSUME Posting, NEW q \in Request, q.op \in Marker, remote' = Taken(q), NEW r \in RunId,
         Once(r), Orderly(Visible(r)), q.run = r => Fresh(q.op, Visible(r))
  PROVE  /\ Once(r)' /\ Orderly(Visible(r)')
         /\ Visible(r)' = Visible(r) \cup IF q.run = r THEN Carried(q.op) ELSE {}
<1>1. Visible(r)' = Visible(r) \cup IF q.run = r THEN Carried(q.op) ELSE {}
  BY TakenOutcome DEF ResultLate
<1>2. CASE q.run # r
  <2>1. remote'[r] = remote[r]
    BY <1>2, TakenShows
  <2> QED BY <1>1, <1>2, <2>1 DEF Once, Visible
<1>3. CASE q.run = r
  <2>1. Carried(q.op) \cap Visible(r) = {} /\ Orderly(Visible(r) \cup Carried(q.op))
    BY <1>3, FreshComment, VisibleMarkers
  <2>2. ASSUME NEW m \in Marker PROVE remote'[r].count[m] <= 1
    <3>1. m \in Comment /\ remote[r].count[m] \in Nat /\ remote[r].count[m] <= 1
      BY TakenShows, CommentsDiffer DEF Once
    <3>2. remote'[r].count[m] = IF m \in Carried(q.op) THEN remote[r].count[m] + 1 ELSE remote[r].count[m]
      <4>1. Contents(q.op) = Carried(q.op)
        BY DEF Contents
      <4>2. remote'[r].count[m] = IF m \in Contents(q.op) THEN remote[r].count[m] + 1 ELSE remote[r].count[m]
        BY <1>3, <3>1, TakenShows
      <4> QED BY <4>1, <4>2
    <3>3. CASE m \in Carried(q.op)
      <4>1. m \notin Visible(r)
        BY <3>3, <2>1
      <4>2. remote[r].count[m] = 0
        BY <4>1, <3>1 DEF Visible
      <4> QED BY <4>2, <3>2, <3>3
    <3> QED BY <3>1, <3>2, <3>3
  <2> QED BY <1>1, <1>3, <2>1, <2>2 DEF Once
<1> QED BY <1>2, <1>3

(* A record of a call moves on without its run.                            *)
CallMoves(p) ==
  /\ \A y \in PublicationClaim \ {p} : publishers'[y] = publishers[y]
  /\ UNCHANGED remote
  /\ late' \subseteq late
  /\ Publishes(p)' => Publishes(p) /\ publishers'[p].run = publishers[p].run /\ Knows(p)'

LEMMA CallMovesOnce ==
  ASSUME OnceInv, NEW p \in PublicationClaim, CallMoves(p)
  PROVE  OnceInv'
<1>1. late' = {}
  BY DEF OnceInv, CallMoves
<1>2. \A r \in RunId : Once(r)' = Once(r) /\ Visible(r)' = Visible(r)
  BY DEF CallMoves, Once, Visible
<1>3. ASSUME NEW y \in PublicationClaim \ {p} PROVE Knows(y)' = Knows(y) /\ Publishes(y)' = Publishes(y)
  BY DEF CallMoves, Knows, Visible, Publishes
<1>4. Alone'
  <2> SUFFICES ASSUME NEW x \in PublicationClaim, NEW y \in PublicationClaim,
                      Publishes(x)', Publishes(y)', publishers'[x].run = publishers'[y].run
               PROVE  x = y
    BY DEF Alone
  <2>1. /\ Publishes(x) /\ publishers'[x].run = publishers[x].run
        /\ Publishes(y) /\ publishers'[y].run = publishers[y].run
    BY DEF CallMoves, Publishes
  <2> QED BY <2>1 DEF OnceInv, Alone
<1>5. ASSUME NEW y \in PublicationClaim, Publishes(y)' PROVE Knows(y)'
  BY <1>3, <1>5 DEF CallMoves, OnceInv
<1>6. \A r \in RunId : Once(r)' /\ Orderly(Visible(r)')
  BY <1>2 DEF OnceInv
<1> QED BY <1>1, <1>4, <1>5, <1>6 DEF OnceInv

LEMMA GivenUpNone ==
  ASSUME ~LateWrites, NEW q, NEW landed
  PROVE  GivenUp(q, landed) = late
BY DEF GivenUp

(* A call that goes on with all that is to be seen.                        *)
LEMMA ContinuesKnowing ==
  ASSUME Publishing, NEW p \in PublicationClaim, Publishes(p), UNCHANGED <<remote, late>>,
         NEW done, done = Visible(publishers[p].run), PublisherContinues(p, done)
  PROVE  CallMoves(p)
<1> DEFINE self == publishers[p]
           finish == [self EXCEPT !.pc = "finish", !.done = done, !.pending = {}]
           next(m) == [self EXCEPT !.pc = "check", !.done = done, !.pending = {}, !.op = m]
<1>1. self \in Publisher
  BY DEF Publishing
<1>2. CASE NextOperations(done) = {}
  <2>1. publishers' = [publishers EXCEPT ![p] = finish]
    BY <1>2 DEF PublisherContinues
  <2>2. finish.run = self.run /\ finish.pc = "finish" /\ finish.done = done
    <3> HIDE DEF self
    <3> QED BY <1>1 DEF Publisher
  <2> HIDE DEF finish
  <2>3. publishers'[p] = finish /\ \A y \in PublicationClaim \ {p} : publishers'[y] = publishers[y]
    BY <2>1 DEF Publishing
  <2>4. Visible(self.run)' = Visible(self.run)
    BY <2>2, <2>3 DEF Visible
  <2>5. Knows(p)'
    BY <2>2, <2>3 DEF Knows, Visible
  <2> QED BY <2>2, <2>3, <2>5 DEF CallMoves
<1>3. CASE NextOperations(done) # {}
  <2>1. PICK m \in NextOperations(done) : publishers' = [publishers EXCEPT ![p] = next(m)]
    BY ONLY <1>3, PublisherContinues(p, done) DEF PublisherContinues
  <2> DEFINE rec == next(m)
  <2>2. rec.run = self.run /\ rec.pc = "check" /\ rec.done = done /\ rec.op = m
    <3> HIDE DEF self
    <3> QED BY <1>1 DEF Publisher
  <2> HIDE DEF rec
  <2>3. publishers'[p] = rec /\ \A y \in PublicationClaim \ {p} : publishers'[y] = publishers[y]
    BY <2>1 DEF Publishing, rec
  <2>4. Fresh(m, done)
    BY DEF Fresh
  <2>5. Knows(p)'
    BY <2>2, <2>3, <2>4 DEF Knows, Visible
  <2> QED BY <2>2, <2>3, <2>5 DEF CallMoves
<1> QED BY <1>2, <1>3

LEMMA EndsKnowing ==
  ASSUME Publishing, NEW p \in PublicationClaim, NEW outcome \in {"published", "failed"},
         PublisherEnds(p, outcome), UNCHANGED remote, late' = late
  PROVE  CallMoves(p)
<1> DEFINE rec == [IdlePublisher EXCEPT !.pc = outcome, !.run = publishers[p].run, !.caller = publishers[p].caller]
<1>1. rec.pc = outcome
  BY DEF IdlePublisher
<1>2. publishers'[p] = rec /\ \A y \in PublicationClaim \ {p} : publishers'[y] = publishers[y]
  BY DEF PublisherEnds, Publishing
<1> HIDE DEF rec
<1>3. ~Publishes(p)'
  BY <1>1, <1>2 DEF Publishes
<1> QED BY <1>2, <1>3 DEF CallMoves

LEMMA PreparesKnowing ==
  ASSUME Publishing, NEW p \in PublicationClaim, Publishes(p), NEW pc \in {"head", "list"},
         PublisherWaits(p, pc), UNCHANGED <<remote, late>>
  PROVE  CallMoves(p)
<1> DEFINE self == publishers[p]
           rec == [self EXCEPT !.pc = pc]
<1>1. self \in Publisher
  BY DEF Publishing
<1>2. rec.pc = pc /\ rec.run = self.run
  <2> HIDE DEF self
  <2> QED BY <1>1 DEF Publisher
<1>3. publishers'[p] = rec /\ \A y \in PublicationClaim \ {p} : publishers'[y] = publishers[y]
  BY DEF PublisherWaits, Publishing
<1> HIDE DEF rec
<1>4. Knows(p)'
  BY <1>2, <1>3 DEF Knows
<1> QED BY <1>2, <1>3, <1>4 DEF CallMoves

(* A first publication begins with nothing there, a resumed one lists.     *)
LEMMA HeadVerifiedOnce ==
  ASSUME OInv, OnceInv, NEW p \in PublicationClaim, PublisherHeadVerified(p)
  PROVE  CallMoves(p)
<1> DEFINE self == publishers[p]
<1>1. PICK r \in RunId : self.run = r
  BY PublisherFields DEF OInv, IInv, PublisherHeadVerified
<1>2. Publishing /\ PubFits(p, r) /\ RunFits(r) /\ self.pc = "head" /\ Publishes(p) /\ UNCHANGED <<remote, late>>
      /\ PublisherCurrent(p) /\ PublisherId(p).run = r
  BY <1>1 DEF OInv, IInv, OutcomeFits, PublisherHeadVerified, Publishes, PublisherId
<1>3. CASE self.resume
  BY <1>2, <1>3, PreparesKnowing DEF PublisherHeadVerified
<1>4. CASE ~self.resume
  <2>1. store.runs[r].pub = "publishing"
    BY <1>2 DEF PublisherCurrent, IsPublicationClaimCurrent, PublicationClaimMatches
  <2>2. Present(store, r)
    BY <1>2, <2>1 DEF Present, RunFits, Gone
  <2>3. Results(r) = {}
    BY <1>1, <1>2, <1>4, <2>2 DEF PubFits
  <2>4. remote[r].payloads = {}
    BY <2>3 DEF Results
  <2>5. Visible(r) = {}
    BY <1>2, <2>4 DEF RunFits
  <2>6. PublisherContinues(p, {})
    BY <1>4 DEF PublisherHeadVerified
  <2> QED BY <1>1, <1>2, <2>5, <2>6, ContinuesKnowing
<1> QED BY <1>3, <1>4

LEMMA SendsOnce ==
  ASSUME OInv, OnceInv, NEW p \in PublicationClaim,
         PublisherSends(p) \/ PublisherConfirmed(p) \/ PublisherPositionRefused(p)
  PROVE  CallMoves(p)
<1> DEFINE self == publishers[p]
           sent == [self EXCEPT !.pc = "sent", !.landed = FALSE]
           record == [self EXCEPT !.pc = "record", !.pending = Carried(self.op)]
           again == [self EXCEPT !.pc = "check", !.op = FallbackMarker(self.op.finding)]
<1>1. Publishing /\ self \in Publisher /\ Publishes(p) /\ Knows(p) /\ UNCHANGED <<remote, late>>
  BY DEF OInv, IInv, OnceInv, Publishing, Publishes, PublisherSends, PublisherConfirmed, PublisherPositionRefused
<1>2. CASE PublisherSends(p)
  <2>1. self.pc = "check" /\ publishers'[p] = sent /\ \A y \in PublicationClaim \ {p} : publishers'[y] = publishers[y]
    BY <1>1, <1>2 DEF PublisherSends, Publishing
  <2>2. sent.run = self.run /\ sent.pc = "sent" /\ ~sent.landed /\ sent.done = self.done /\ sent.op = self.op
    <3> HIDE DEF self
    <3> QED BY <1>1 DEF Publisher
  <2> HIDE DEF sent
  <2>3. Knows(p)'
    BY <1>1, <2>1, <2>2 DEF Knows, Visible
  <2> QED BY <1>1, <2>1, <2>2, <2>3 DEF CallMoves
<1>3. CASE PublisherConfirmed(p)
  <2>1. /\ self.pc = "sent" /\ self.landed /\ publishers'[p] = record
        /\ \A y \in PublicationClaim \ {p} : publishers'[y] = publishers[y]
    BY <1>1, <1>3 DEF PublisherConfirmed, Publishing
  <2>2. record.run = self.run /\ record.pc = "record" /\ record.done = self.done /\ record.pending = Carried(self.op)
    <3> HIDE DEF self
    <3> QED BY <1>1 DEF Publisher
  <2> HIDE DEF record
  <2>3. Knows(p)'
    BY <1>1, <2>1, <2>2 DEF Knows, Visible
  <2> QED BY <1>1, <2>1, <2>2, <2>3 DEF CallMoves
<1>4. CASE PublisherPositionRefused(p)
  <2>1. /\ self.pc = "sent" /\ ~self.landed /\ self.op.kind = "inline" /\ publishers'[p] = again
        /\ \A y \in PublicationClaim \ {p} : publishers'[y] = publishers[y]
    BY <1>1, <1>4 DEF PublisherPositionRefused, Publishing
  <2>2. again.run = self.run /\ again.pc = "check" /\ again.done = self.done /\ again.op = FallbackMarker(self.op.finding)
    <3> HIDE DEF self
    <3> QED BY <1>1 DEF Publisher
  <2>3. self.done = Visible(self.run) /\ Fresh(self.op, self.done)
    BY <1>1, <2>1 DEF Knows
  <2>4. Fresh(again.op, self.done)
    <3>1. self.op \in NextOperations(self.done)
      <4> DEFINE op == self.op
      <4>1. \A f : FallbackMarker(f).kind # "inline"
        BY DEF FallbackMarker
      <4>2. op.kind = "inline"
        BY <2>1
      <4> HIDE DEF op
      <4>3. \A f : op # FallbackMarker(f)
        BY <4>1, <4>2
      <4> QED BY <2>3, <4>3 DEF Fresh, op
    <3> DEFINE done == self.done
               op == self.op
    <3>2. op \in NextOperations(done) /\ op.kind = "inline"
      BY <2>1, <3>1
    <3>3. PICK f \in Inline : op = InlineMarker(f)
      <4> HIDE DEF done, op
      <4>1. Summary.kind # "inline" /\ \A f : FallbackMarker(f).kind # "inline"
        BY DEF Summary, FallbackMarker
      <4>2. op # Summary /\ \A f : op # FallbackMarker(f)
        BY <3>2, <4>1
      <4> QED BY <3>2, <4>2 DEF NextOperations
    <3>4. self.op.finding = f
      BY <3>3 DEF InlineMarker
    <3> QED BY <2>2, <3>1, <3>3, <3>4 DEF Fresh
  <2> HIDE DEF again
  <2>5. Knows(p)'
    BY <1>1, <2>1, <2>2, <2>3, <2>4 DEF Knows, Visible
  <2> QED BY <1>1, <2>1, <2>2, <2>5 DEF CallMoves
<1> QED BY <1>2, <1>3, <1>4

LEMMA RecordsOnce ==
  ASSUME OInv, OnceInv, NEW p \in PublicationClaim, PublisherRecords(p)
  PROVE  CallMoves(p)
<1> DEFINE self == publishers[p]
<1>1. /\ Publishing /\ self \in Publisher /\ Publishes(p) /\ UNCHANGED <<remote, late>> /\ self.pc = "record"
      /\ self.done \cup self.pending = Visible(self.run)
  BY DEF OInv, IInv, OnceInv, Publishing, Publishes, PublisherRecords, Knows
<1>2. PICK m \in self.pending :
        IF self.pending = {m}
        THEN PublisherContinues(p, self.done \cup {m})
        ELSE publishers' = [publishers EXCEPT ![p].done = @ \cup {m}, ![p].pending = @ \ {m}]
  BY DEF PublisherRecords
<1>3. CASE self.pending = {m}
  BY <1>1, <1>2, <1>3, ContinuesKnowing
<1>4. CASE self.pending # {m}
  <2> DEFINE rec == [self EXCEPT !.done = self.done \cup {m}, !.pending = self.pending \ {m}]
  <2>1. publishers'[p] = rec /\ \A y \in PublicationClaim \ {p} : publishers'[y] = publishers[y]
    BY <1>1, <1>2, <1>4 DEF Publishing
  <2>2. rec.run = self.run /\ rec.pc = "record" /\ rec.done = self.done \cup {m} /\ rec.pending = self.pending \ {m}
    <3> HIDE DEF self
    <3> QED BY <1>1 DEF Publisher
  <2> HIDE DEF rec
  <2>3. rec.done \cup rec.pending = Visible(self.run)
    BY <1>1, <2>2
  <2>4. Knows(p)'
    BY <1>1, <2>1, <2>2, <2>3 DEF Knows, Visible
  <2> QED BY <1>1, <2>1, <2>2, <2>4 DEF CallMoves
<1> QED BY <1>3, <1>4

LEMMA PublisherStepOnce ==
  ASSUME ~LateWrites, OInv, OnceInv, NEW p \in PublicationClaim, PublisherStep(p)
  PROVE  OnceInv'
<1> SUFFICES CallMoves(p)
  BY CallMovesOnce
<1>1. Publishing
  BY DEF OInv, IInv
<1>2. CASE PublisherHasToken(p)
  BY <1>1, <1>2, PreparesKnowing DEF PublisherHasToken, Publishes
<1>3. CASE PublisherHeadVerified(p)
  BY <1>3, HeadVerifiedOnce
<1>4. CASE PublisherReconciles(p)
  BY <1>1, <1>4, ContinuesKnowing DEF PublisherReconciles, PublisherId, Publishes
<1>5. CASE PublisherSends(p) \/ PublisherConfirmed(p) \/ PublisherPositionRefused(p)
  BY <1>5, SendsOnce
<1>6. CASE PublisherRecords(p)
  BY <1>6, RecordsOnce
<1>7. CASE \/ PublisherUnprepared(p) \/ PublisherHeadChanged(p) \/ PublisherReconcileFails(p) \/ PublisherCheckFails(p)
           \/ PublisherCheckRejects(p) \/ PublisherUnconfirmed(p) \/ PublisherRecordFails(p) \/ PublisherFinishFails(p)
           \/ \E status \in {"blocked", "succeeded", "failed"} : PublisherFinishes(p, status)
  <2>1. \E outcome \in {"published", "failed"} : PublisherEnds(p, outcome)
    BY <1>7 DEF PublisherUnprepared, PreparationFails, PublisherHeadChanged, PublisherReconcileFails, PublisherCheckFails,
                PublisherCheckRejects, PublisherUnconfirmed, PublisherRecordFails, PublisherFinishFails, PublisherFinishes,
                PublisherFails
  <2>2. UNCHANGED remote /\ late' = late
    BY <1>7, GivenUpNone DEF PublisherUnprepared, PublisherHeadChanged, PublisherReconcileFails, PublisherCheckFails,
                PublisherCheckRejects, PublisherUnconfirmed, PublisherRecordFails, PublisherFinishFails, PublisherFinishes
  <2> QED BY <1>1, <2>1, <2>2, EndsKnowing
<1> QED BY <1>2, <1>3, <1>4, <1>5, <1>6, <1>7 DEF PublisherStep

(* No call moves, and nothing is posted.                                   *)
LEMMA CallsStayOnce ==
  ASSUME OnceInv, UNCHANGED <<publishers, remote>>, late' = late
  PROVE  OnceInv'
<1>1. Alone' = Alone /\ \A p \in PublicationClaim : Publishes(p)' = Publishes(p) /\ Knows(p)' = Knows(p)
  BY DEF Alone, Publishes, Knows, Visible
<1>2. \A r \in RunId : Once(r)' = Once(r) /\ Visible(r)' = Visible(r)
  BY DEF Once, Visible
<1>3. \A r \in RunId : Orderly(Visible(r)') = Orderly(Visible(r))
  BY <1>2
<1> QED BY <1>1, <1>2, <1>3 DEF OnceInv

(* The run of a call that begins is claimed by no other call.              *)
LEMMA ClaimsOnce ==
  ASSUME OInv, OnceInv, NEW p \in PublicationClaim, NEW caller, NEW r \in RunId, NEW payload,
         PublisherClaims(p, caller, r, payload), UNCHANGED <<remote, late>>
  PROVE  OnceInv'
<1> DEFINE run == store.runs[r]
           rec == [IdlePublisher EXCEPT
              !.pc = "secret", !.caller = caller, !.run = r, !.payload = payload,
              !.session = run.session, !.resume = run.pub # "none",
              !.allow = run.pub # "none" /\ run.status = "failed"]
<1>1. /\ publishers[p].pc = "idle" /\ ClaimPublicationAllowed(store, r, payload)
      /\ publishers' = [publishers EXCEPT ![p] = rec]
  BY DEF PublisherClaims, PublicationAccepted
<1>2. publishers'[p] = rec /\ \A y \in PublicationClaim \ {p} : publishers'[y] = publishers[y]
  BY <1>1 DEF OInv, IInv, Publishing
<1>3. rec.pc = "secret" /\ rec.run = r
  BY DEF IdlePublisher
<1>4. Present(store, r) /\ (store.pubClaims[r].by = NoClaim \/ ~PublicationClaimMatches(run, store.pubClaims[r]))
  BY <1>1 DEF ClaimPublicationAllowed, Present
<1>5. ASSUME NEW y \in PublicationClaim PROVE ~(Publishes(y) /\ publishers[y].run = r)
  <2> SUFFICES ASSUME Publishes(y), publishers[y].run = r PROVE FALSE
    OBVIOUS
  <2>1. PubFits(y, r)
    BY DEF OInv, OutcomeFits
  <2>2. /\ run.pub = "publishing" /\ run.pubBy = y /\ run.session = publishers[y].session
        /\ store.pubClaims[r] = [by |-> y, session |-> publishers[y].session, allow |-> publishers[y].allow]
    BY <2>1, <1>4, PubHolds
  <2>3. store.pubClaims[r].by = y /\ store.pubClaims[r].session = run.session
    BY <2>2
  <2>4. y # NoClaim
    BY NullAssumption
  <2> QED BY <1>4, <2>2, <2>3, <2>4 DEF PublicationClaimMatches
<1> HIDE DEF rec
<1>6. Alone'
  <2> SUFFICES ASSUME NEW x \in PublicationClaim, NEW y \in PublicationClaim,
                      Publishes(x)', Publishes(y)', publishers'[x].run = publishers'[y].run
               PROVE  x = y
    BY DEF Alone
  <2>1. CASE x # p /\ y # p
    BY <1>2, <2>1 DEF OnceInv, Alone, Publishes
  <2>2. CASE x = p /\ y # p
    BY <1>2, <1>3, <1>5, <2>2 DEF Publishes
  <2>3. CASE x # p /\ y = p
    BY <1>2, <1>3, <1>5, <2>3 DEF Publishes
  <2> QED BY <2>1, <2>2, <2>3
<1>7. ASSUME NEW y \in PublicationClaim, Publishes(y)' PROVE Knows(y)'
  <2>1. CASE y = p
    BY <2>1, <1>2, <1>3 DEF Knows
  <2>2. CASE y # p
    BY <2>2, <1>2, <1>7 DEF OnceInv, Knows, Publishes, Visible
  <2> QED BY <2>1, <2>2
<1>8. \A x \in RunId : Once(x)' /\ Visible(x)' = Visible(x)
  BY DEF OnceInv, Once, Visible
<1>9. \A x \in RunId : Orderly(Visible(x)')
  BY <1>8 DEF OnceInv
<1> QED BY <1>6, <1>7, <1>8, <1>9 DEF OnceInv

LEMMA TakesResultOnce ==
  ASSUME OInv, OnceInv, NEW p \in PublicationClaim, GitLabTakesResult(p)
  PROVE  OnceInv'
<1> DEFINE self == publishers[p]
           q == PublisherRequest(p)
           rec == [self EXCEPT !.landed = TRUE]
<1>1. PICK r \in RunId : self.run = r
  BY PublisherFields DEF OInv, IInv, GitLabTakesResult
<1>2. /\ Posting /\ Publishing /\ self \in Publisher /\ self.pc = "sent" /\ ~self.landed /\ Publishes(p)
      /\ remote' = Taken(q) /\ late' = late /\ publishers'[p] = rec
      /\ \A y \in PublicationClaim \ {p} : publishers'[y] = publishers[y]
  BY DEF OInv, IInv, Publishing, Publishes, GitLabTakesResult
<1>3. q \in Request /\ q.op = self.op /\ q.run = r /\ self.op \in Marker
  BY <1>1, <1>2, RequestTypes DEF OInv, IInv, PublisherRequest, Publisher
<1>4. self.done = Visible(r) /\ Fresh(self.op, Visible(r))
  BY <1>1, <1>2 DEF OnceInv, Knows
<1>5. rec.run = r /\ rec.pc = "sent" /\ rec.landed /\ rec.done = self.done /\ rec.op = self.op
  <2> HIDE DEF self
  <2> QED BY <1>1, <1>2 DEF Publisher
<1> HIDE DEF rec, q
<1>6. \A x \in RunId : /\ Once(x)' /\ Orderly(Visible(x)')
                       /\ Visible(x)' = Visible(x) \cup IF r = x THEN Carried(self.op) ELSE {}
  <2> TAKE x \in RunId
  <2>1. Once(x) /\ Orderly(Visible(x))
    BY DEF OnceInv
  <2>2. q.run = x => Fresh(q.op, Visible(x))
    BY <1>3, <1>4
  <2>3. q.op \in Marker
    BY <1>3
  <2> QED BY <1>2, <1>3, <2>1, <2>2, <2>3, FreshTaken
<1>7. \A y \in PublicationClaim : Publishes(y)' = Publishes(y) /\ publishers'[y].run = publishers[y].run
  BY <1>1, <1>2, <1>5 DEF Publishes
<1>8. Alone'
  BY <1>7 DEF OnceInv, Alone
<1>9. ASSUME NEW y \in PublicationClaim, Publishes(y)' PROVE Knows(y)'
  <2>1. CASE y = p
    <3>1. Visible(r)' = self.done \cup Carried(self.op)
      BY <1>4, <1>6
    <3>2. Visible(publishers[p].run)' = Visible(r)'
      BY <1>1, <1>2, <1>5 DEF Visible
    <3> QED BY <2>1, <1>2, <1>5, <3>1, <3>2 DEF Knows
  <2>2. CASE y # p
    <3>1. publishers[y].run # r /\ publishers'[y] = publishers[y] /\ Publishes(y)
      BY <1>1, <1>2, <1>7, <1>9, <2>2 DEF OnceInv, Alone
    <3>2. publishers[y].run \in RunId
      BY <1>2, <3>1, PublisherFields DEF Publishes
    <3>3. PICK x \in RunId : publishers[y].run = x
      BY <3>2
    <3>4. Visible(x)' = Visible(x)
      BY <1>6, <3>1, <3>3
    <3>5. Visible(publishers[y].run)' = Visible(publishers[y].run)
      BY <3>1, <3>3, <3>4 DEF Visible
    <3> QED BY <3>1, <3>5 DEF OnceInv, Knows
  <2> QED BY <2>1, <2>2
<1> QED BY <1>2, <1>6, <1>8, <1>9 DEF OnceInv

LEMMA TakesOtherOnce ==
  ASSUME OInv, OnceInv, NEW q \in Request, q.op \notin Marker, remote' = Taken(q),
         UNCHANGED <<publishers, late>>
  PROVE  OnceInv'
<1>1. \A r \in RunId : Visible(r)' = Visible(r) /\ Once(r)'
  BY OtherTaken DEF OInv, IInv, OnceInv
<1>2. \A r \in RunId : Orderly(Visible(r)')
  BY <1>1 DEF OnceInv
<1>3. Alone'
  BY DEF OnceInv, Alone, Publishes
<1>4. ASSUME NEW p \in PublicationClaim, Publishes(p)' PROVE Knows(p)'
  <2>1. Publishes(p) /\ Knows(p)
    BY <1>4 DEF OnceInv, Publishes
  <2>2. PICK r \in RunId : publishers[p].run = r
    BY <2>1, PublisherFields DEF OInv, IInv, Publishes
  <2>3. Visible(publishers[p].run)' = Visible(publishers[p].run)
    BY <1>1, <2>2 DEF Visible
  <2> QED BY <2>1, <2>3 DEF Knows
<1> QED BY <1>1, <1>2, <1>3, <1>4 DEF OnceInv

LEMMA CrashOnce ==
  ASSUME ~LateWrites, OInv, OnceInv, Crash
  PROVE  OnceInv'
<1>1. ASSUME NEW p \in PublicationClaim PROVE ~Publishes(p)'
  <2> DEFINE self == publishers[p]
             dead == [IdlePublisher EXCEPT !.pc = "failed", !.run = self.run]
  <2>1. publishers'[p] = IF self.pc \in {"idle", "published"} THEN self ELSE dead
    BY DEF Crash
  <2>2. dead.pc = "failed"
    BY DEF IdlePublisher
  <2> HIDE DEF dead
  <2> QED BY <2>1, <2>2 DEF Publishes
<1>2. late' = {} /\ UNCHANGED remote
  BY DEF Crash, OnceInv
<1>3. \A r \in RunId : Once(r)' = Once(r) /\ Visible(r)' = Visible(r)
  BY <1>2 DEF Once, Visible
<1>4. \A r \in RunId : Orderly(Visible(r)')
  BY <1>3 DEF OnceInv
<1> QED BY <1>1, <1>2, <1>3, <1>4 DEF OnceInv, Alone

LEMMA AttemptLate ==
  ASSUME ~LateWrites, NEW r \in RunId, AttemptStep(r)
  PROVE  late' = late
<1>1. CASE BlockedEnds(r)
  BY <1>1, GivenUpNone DEF BlockedEnds
<1>2. CASE \/ LoadMisconfigured(r) \/ LoadFails(r) \/ LoadHeadChanged(r) \/ LoadSucceeds(r) \/ LoadBlocked(r)
           \/ BlockedProceeds(r) \/ BlockedHeadChanged(r) \/ DirectoryMissing(r) \/ SessionCreated(r) \/ StartFails(r)
           \/ ResponseAccepted(r) \/ SessionFails(r) \/ RuntimeOutputInvalid(r) \/ PublicationEnds(r)
  BY <1>2 DEF LoadMisconfigured, LoadFails, LoadHeadChanged, LoadSucceeds, LoadBlocked, BlockedProceeds, BlockedHeadChanged,
              DirectoryMissing, SessionCreated, StartFails, ResponseAccepted, SessionFails, RuntimeOutputInvalid, PublicationEnds
<1>3. CASE \E payload \in Payload :
             \/ RuntimeOutputRefused(r, payload)
             \/ ReportRefused(r, payload)
             \/ \E p \in PublicationClaim : RuntimeOutput(p, r, payload)
             \/ \E n \in NoteClaim : ReportFailure(n, r, payload)
  BY <1>3 DEF RuntimeOutputRefused, ReportRefused, RuntimeOutput, ReportFailure
<1> QED BY <1>1, <1>2, <1>3 DEF AttemptStep

LEMMA NotifierStepOnce ==
  ASSUME ~LateWrites, OnceInv, NEW n \in NoteClaim, NotifierStep(n)
  PROVE  OnceInv'
<1>1. UNCHANGED <<publishers, remote>> /\ late' = late
  BY GivenUpNone DEF NotifierStep, NotifierHasToken, NotifierHeadVerified, NotifierFindsNote, NotifierFindsNone, NotifierBlocked,
     NotifierHeadChanged, NotifierSends, NotifierConfirmed, NotifierRefused, NotifierUnconfirmed
<1> QED BY <1>1, CallsStayOnce

LEMMA AttemptStepOnce ==
  ASSUME ~LateWrites, OInv, OnceInv, NEW r \in RunId, AttemptStep(r)
  PROVE  OnceInv'
<1>1. late' = late
  BY AttemptLate
<1>2. CASE CalmEnd /\ CallsKept
  BY <1>1, <1>2, CallsStayOnce DEF CallsKept
<1>3. ASSUME NEW payload \in Payload, NEW p \in PublicationClaim, RuntimeOutput(p, r, payload) PROVE OnceInv'
  BY <1>3, ClaimsOnce DEF RuntimeOutput
<1>4. ASSUME NEW payload \in Payload, NEW n \in NoteClaim, ReportFailure(n, r, payload) PROVE OnceInv'
  BY <1>4, CallsStayOnce DEF ReportFailure
<1> QED BY <1>2, <1>3, <1>4, AttemptStepCalm

LEMMA NextOnce ==
  ASSUME ~LateWrites, OInv, OnceInv, [Next]_vars
  PROVE  OnceInv'
<1>1. CASE UNCHANGED vars
  BY <1>1, CallsStayOnce DEF vars
<1>2. ASSUME NEW r \in RunId, AttemptStep(r) PROVE OnceInv'
  BY <1>2, AttemptStepOnce
<1>3. ASSUME NEW p \in PublicationClaim, PublisherStep(p) PROVE OnceInv'
  BY <1>3, PublisherStepOnce
<1>4. ASSUME NEW n \in NoteClaim, NotifierStep(n) PROVE OnceInv'
  BY <1>4, NotifierStepOnce
<1>5. ASSUME NEW r \in RunId, Retry(r) \/ ManagementPublishInvalid(r) \/ LeaseExpires(r) PROVE OnceInv'
  BY <1>5, CallsStayOnce DEF Retry, ManagementPublishInvalid, LeaseExpires
<1>6. ASSUME NEW r \in RunId, NEW p \in PublicationClaim, NEW payload \in Payload, ManagementPublish(p, r, payload)
      PROVE OnceInv'
  BY <1>6, ClaimsOnce DEF ManagementPublish
<1>7. ASSUME NEW r \in RunId, NEW n \in NoteClaim, RecoverNotification(n, r) PROVE OnceInv'
  BY <1>7, CallsStayOnce DEF RecoverNotification
<1>8. ASSUME NEW t \in Trigger, Deliver(t) PROVE OnceInv'
  BY <1>8, CallsStayOnce DEF Deliver
<1>9. ASSUME NEW r \in RunId, GitLabTakesBlocked(r) PROVE OnceInv'
  <2>1. BlockedRequest(r) \in Request
    BY RequestTypes DEF OInv, IInv
  <2>2. BlockedRequest(r).op \notin Marker
    BY CommentsDiffer DEF BlockedRequest
  <2> QED BY <1>9, <2>1, <2>2, TakesOtherOnce DEF GitLabTakesBlocked
<1>10. ASSUME NEW n \in NoteClaim, GitLabTakesNote(n) PROVE OnceInv'
  <2>1. NotifierRequest(n) \in Request
    BY <1>10, RequestTypes DEF OInv, IInv, GitLabTakesNote
  <2>2. NotifierRequest(n).op \notin Marker
    BY CommentsDiffer DEF NotifierRequest
  <2> QED BY <1>10, <2>1, <2>2, TakesOtherOnce DEF GitLabTakesNote
<1>11. ASSUME NEW p \in PublicationClaim, GitLabTakesResult(p) PROVE OnceInv'
  BY <1>11, TakesResultOnce
<1>12. ~\E q \in late : LateArrival(q)
  BY DEF OnceInv
<1>13. CASE Crash
  BY <1>13, CrashOnce
<1> QED BY <1>1, <1>2, <1>3, <1>4, <1>5, <1>6, <1>7, <1>8, <1>9, <1>10, <1>11, <1>12, <1>13
           DEF Next, Management, Environment, Server

LEMMA InitOnce == Init => OnceInv
<1> SUFFICES ASSUME Init PROVE OnceInv
  OBVIOUS
<1>1. \A p \in PublicationClaim : ~Publishes(p)
  BY DEF Init, IdlePublisher, Publishes
<1>2. \A r \in RunId, m \in Marker : remote[r].count[m] = 0
  BY CommentsDiffer DEF Init, NothingPosted
<1>3. \A r \in RunId : Visible(r) = {} /\ Once(r)
  BY <1>2 DEF Visible, Once
<1>4. \A r \in RunId : Orderly(Visible(r))
  BY <1>3 DEF Orderly
<1> QED BY <1>1, <1>3, <1>4 DEF Init, OnceInv, Alone

(* If a request that was given up on never arrives: the calls know what    *)
(* is on GitLab, one call at a time is at work on a run, and each of its   *)
(* comments is there once.                                                 *)
THEOREM OnceInvariance == ~LateWrites /\ Spec => []OnceInv
<1> SUFFICES ASSUME ~LateWrites PROVE Spec => []OnceInv
  OBVIOUS
<1>1. Init => OnceInv
  BY InitOnce
<1>2. OInv /\ OnceInv /\ [Next]_vars => OnceInv'
  BY NextOnce
<1> QED BY <1>1, <1>2, OutcomeInvariance, PTL DEF Spec

(* Nothing of a result is shown twice, for any number of calls, findings   *)
(* and restarts: a first publication begins with nothing there, a resumed  *)
(* one lists what is (reconcileGitLabReviewPublication), and both go on    *)
(* only with what is missing.                                              *)
THEOREM NothingPostedTwice == ~LateWrites /\ Spec => []NothingTwice
<1> SUFFICES ASSUME ~LateWrites PROVE Spec => []NothingTwice
  OBVIOUS
<1>1. OnceInv => NothingTwice
  BY DEF OnceInv, NothingTwice, NoDuplicateComment, NoFindingTwice, Once, Orderly
<1>2. Spec => []OnceInv
  BY OnceInvariance
<1> QED BY <1>1, <1>2, PTL

(***************************************************************************)
(* Claims and the calls that hold them                                     *)
(***************************************************************************)

Shaped(st) == {"runs", "pubClaims", "noteClaims"} \subseteq DOMAIN st

(* Every claim is one that its run names: a save drops the others.         *)
Tidy(st) ==
  /\ Shaped(st)
  /\ \A x \in RunId :
       /\ st.pubClaims[x] = NoPublicationClaim \/ PublicationClaimMatches(st.runs[x], st.pubClaims[x])
       /\ st.noteClaims[x] = NoNoteClaim \/ NoteClaimMatches(st.runs[x], st.noteClaims[x])

LEMMA RemoveOrphanedClaimsTidies ==
  ASSUME NEW st, Shaped(st)
  PROVE  Tidy(RemoveOrphanedClaims(st))
<1> DEFINE pubs == [r \in RunId |->
             IF PublicationClaimMatches(st.runs[r], st.pubClaims[r]) THEN st.pubClaims[r] ELSE NoPublicationClaim]
           notes == [r \in RunId |->
             IF NoteClaimMatches(st.runs[r], st.noteClaims[r]) THEN st.noteClaims[r] ELSE NoNoteClaim]
           new == [st EXCEPT !.pubClaims = pubs, !.noteClaims = notes]
<1>1. RemoveOrphanedClaims(st) = new
  BY DEF RemoveOrphanedClaims
<1>2. /\ \A x \in RunId : pubs[x] = NoPublicationClaim \/ PublicationClaimMatches(st.runs[x], pubs[x])
      /\ \A x \in RunId : notes[x] = NoNoteClaim \/ NoteClaimMatches(st.runs[x], notes[x])
  OBVIOUS
<1> HIDE DEF pubs, notes
<1>3. Shaped(new) /\ new.runs = st.runs /\ new.pubClaims = pubs /\ new.noteClaims = notes
  BY DEF Shaped
<1> HIDE DEF new
<1> QED BY <1>1, <1>2, <1>3 DEF Tidy

LEMMA SavedTidy ==
  ASSUME NEW put, Shaped(put), NEW retained
  PROVE  Tidy(Saved(put, retained))
<1> DEFINE a == RemoveOrphanedClaims(put)
           b == Prune(a, retained)
<1>1. Shaped(a)
  BY RemoveOrphanedClaimsTidies DEF Tidy
<1> HIDE DEF a
<1>2. Shaped(b)
  BY <1>1 DEF Prune, Shaped
<1> HIDE DEF b
<1>3. Tidy(RemoveOrphanedClaims(b))
  BY <1>2, RemoveOrphanedClaimsTidies
<1> QED BY <1>3 DEF Saved, a, b

LEMMA PutShaped ==
  ASSUME NEW st, Shaped(st), NEW r, NEW rec
  PROVE  /\ Shaped(Put(st, r, rec))
         /\ \A c : Shaped([Put(st, r, rec) EXCEPT !.pubClaims[r] = c])
         /\ \A c : Shaped([Put(st, r, rec) EXCEPT !.noteClaims[r] = c])
         /\ \A n : Shaped([Put(st, r, rec) EXCEPT !.sequence = n])
<1> DEFINE put == Put(st, r, rec)
<1>1. Shaped(put)
  BY DEF Put, Shaped
<1> HIDE DEF put
<1>2. /\ \A c : Shaped([put EXCEPT !.pubClaims[r] = c])
      /\ \A c : Shaped([put EXCEPT !.noteClaims[r] = c])
      /\ \A n : Shaped([put EXCEPT !.sequence = n])
  BY <1>1 DEF Shaped
<1> QED BY <1>1, <1>2 DEF put

(* Each operation that saves leaves a tidy store.                          *)
LEMMA WritesTidy ==
  ASSUME NEW st, Tidy(st)
  PROVE  /\ \A r, rec : Tidy(Update(st, r, rec))
         /\ \A r, session, rec : Tidy(UpdateIfCurrent(st, r, session, rec))
         /\ \A r : Tidy(RejectConfiguration(st, r))
         /\ \A t, status, reason : Tidy(Create(st, t, status, reason))
         /\ \A r : Tidy(CreateRetryAttempt(st, r))
<1>1. Shaped(st)
  BY DEF Tidy
<1>2. \A r, rec : Tidy(Update(st, r, rec))
  BY <1>1, PutShaped, SavedTidy DEF Update
<1>3. \A r, session, rec : Tidy(UpdateIfCurrent(st, r, session, rec))
  BY <1>2 DEF UpdateIfCurrent
<1>4. \A r : Tidy(RejectConfiguration(st, r))
  BY <1>3 DEF RejectConfiguration
<1>5. \A t, status, reason : Tidy(Create(st, t, status, reason))
  BY <1>1, PutShaped, SavedTidy DEF Create
<1>6. ASSUME NEW r PROVE Tidy(CreateRetryAttempt(st, r))
  <2> DEFINE run == st.runs[r]
             expired == [run EXCEPT !.status = "failed", !.reason = "lease_expired"]
             closed == IF run.status \in ActiveStatus THEN Put(st, r, expired) ELSE st
             new == NextRunId(st)
             rec == NewRun(run.trigger, run.attempt + 1, "accepted", "none")
             put == [Put(closed, new, rec) EXCEPT !.sequence = new]
  <2>1. CreateRetryAttempt(st, r) = Saved(put, new)
    BY DEF CreateRetryAttempt
  <2>2. Shaped(closed)
    BY <1>1, PutShaped
  <2> HIDE DEF closed, new, rec
  <2>3. Shaped(put)
    BY <2>2, PutShaped
  <2> HIDE DEF put
  <2> QED BY <2>1, <2>3, SavedTidy
<1> QED BY <1>2, <1>3, <1>4, <1>5, <1>6

LEMMA PublicationWritesTidy ==
  ASSUME NEW st, Tidy(st)
  PROVE  /\ \A r, by, payload : Tidy(ClaimPublication(st, r, by, payload))
         /\ \A id, m : Tidy(RecordPublicationMarker(st, id, m))
         /\ \A id, markers : Tidy(ReplacePublicationMarkers(st, id, markers))
         /\ \A id : Tidy(FailPublication(st, id))
         /\ \A id, preservePartial : Tidy(ReleasePublicationClaim(st, id, preservePartial))
         /\ \A id : Tidy(RejectPublicationForPolicy(st, id))
         /\ \A id, status : Tidy(CompletePublication(st, id, status))
<1>1. Shaped(st)
  BY DEF Tidy
<1>2. \A r, rec : Tidy(Saved(WithoutPublicationClaim(st, r, rec), r))
  BY <1>1, PutShaped, SavedTidy DEF WithoutPublicationClaim
<1>3. \A r, by, payload : Tidy(ClaimPublication(st, r, by, payload))
  BY <1>1, PutShaped, SavedTidy DEF ClaimPublication
<1>4. \A id, m : Tidy(RecordPublicationMarker(st, id, m))
  BY <1>1, PutShaped, SavedTidy DEF RecordPublicationMarker
<1>5. \A id, markers : Tidy(ReplacePublicationMarkers(st, id, markers))
  BY <1>1, PutShaped, SavedTidy DEF ReplacePublicationMarkers
<1>6. \A id : Tidy(FailPublication(st, id))
  BY <1>2 DEF FailPublication
<1>7. \A id, preservePartial : Tidy(ReleasePublicationClaim(st, id, preservePartial))
  BY <1>2 DEF ReleasePublicationClaim
<1>8. \A id : Tidy(RejectPublicationForPolicy(st, id))
  BY <1>2 DEF RejectPublicationForPolicy
<1>9. \A id, status : Tidy(CompletePublication(st, id, status))
  BY <1>2 DEF CompletePublication
<1> QED BY <1>3, <1>4, <1>5, <1>6, <1>7, <1>8, <1>9

LEMMA NotificationWritesTidy ==
  ASSUME NEW st, Tidy(st)
  PROVE  /\ \A r, by, payload : Tidy(ClaimFailureNotification(st, r, by, payload))
         /\ \A id : Tidy(MarkFailureNotificationPostStarted(st, id))
         /\ \A id : Tidy(ReleaseFailureNotificationClaim(st, id))
         /\ \A id : Tidy(CompleteFailureNotification(st, id))
         /\ \A id, rejected : Tidy(FailFailureNotification(st, id, rejected))
         /\ \A id : Tidy(RejectFailureNotificationForPolicy(st, id))
<1>1. Shaped(st)
  BY DEF Tidy
<1>2. \A r, rec : Tidy(Saved(WithoutNoteClaim(st, r, rec), r))
  BY <1>1, PutShaped, SavedTidy DEF WithoutNoteClaim
<1>3. \A r, by, payload : Tidy(ClaimFailureNotification(st, r, by, payload))
  BY <1>1, PutShaped, SavedTidy DEF ClaimFailureNotification
<1>4. ASSUME NEW id PROVE Tidy(MarkFailureNotificationPostStarted(st, id))
  <2>1. Shaped([st EXCEPT !.runs[id.run].postStarted = TRUE])
    BY <1>1 DEF Shaped
  <2> QED BY <2>1, SavedTidy DEF MarkFailureNotificationPostStarted
<1>5. ASSUME NEW id PROVE Tidy(ReleaseFailureNotificationClaim(st, id))
  <2> DEFINE new == [st EXCEPT !.noteClaims[id.run] = NoNoteClaim]
  <2>1. /\ Shaped(new) /\ new.runs = st.runs /\ new.pubClaims = st.pubClaims
        /\ \A x \in RunId : new.noteClaims[x] \in {st.noteClaims[x], NoNoteClaim}
    BY <1>1 DEF Shaped
  <2> HIDE DEF new
  <2>2. Tidy(new)
    BY <2>1 DEF Tidy
  <2> QED BY <2>2 DEF ReleaseFailureNotificationClaim, new
<1>6. \A id : Tidy(CompleteFailureNotification(st, id))
  BY <1>2 DEF CompleteFailureNotification
<1>7. \A id, rejected : Tidy(FailFailureNotification(st, id, rejected))
  BY <1>2 DEF FailFailureNotification
<1>8. \A id : Tidy(RejectFailureNotificationForPolicy(st, id))
  BY <1>2 DEF RejectFailureNotificationForPolicy
<1> QED BY <1>3, <1>4, <1>5, <1>6, <1>7, <1>8

(* Every claim of the store new was one of the store st.                   *)
Fewer(st, new) ==
  \A x \in RunId :
    /\ new.pubClaims[x].by \in {st.pubClaims[x].by, NoClaim}
    /\ new.noteClaims[x].by \in {st.noteClaims[x].by, NoClaim}

LEMMA NoClaimNames == NoPublicationClaim.by = NoClaim /\ NoNoteClaim.by = NoClaim
BY DEF NoPublicationClaim, NoNoteClaim

LEMMA FewerClaims ==
  /\ \A st : Fewer(st, st)
  /\ \A a, b, c : Fewer(a, b) /\ Fewer(b, c) => Fewer(a, c)
  /\ \A a, b : CalmTo(a, b) => Fewer(a, b)
  /\ \A a, b, r : PublicationDropped(a, b, r) /\ r \in RunId => Fewer(a, b) /\ b.pubClaims[r].by = NoClaim
  /\ \A a, b, r : NoteDropped(a, b, r) /\ r \in RunId => Fewer(a, b) /\ b.noteClaims[r].by = NoClaim
  /\ \A a, b, r : Apart(a, b, r) /\ ClaimsKept(b, r, a.pubClaims[r], a.noteClaims[r]) => Fewer(a, b)
<1>1. \A st : Fewer(st, st)
  BY DEF Fewer
<1>2. \A a, b, c : Fewer(a, b) /\ Fewer(b, c) => Fewer(a, c)
  BY DEF Fewer
<1>3. \A a, b : CalmTo(a, b) => Fewer(a, b)
  BY NoClaimNames DEF Fewer, CalmTo, RunCalm
<1>4. ASSUME NEW a, NEW b, NEW r, Apart(a, b, r),
             b.pubClaims[r] \in {a.pubClaims[r], NoPublicationClaim},
             b.noteClaims[r] \in {a.noteClaims[r], NoNoteClaim}
      PROVE  Fewer(a, b)
  BY <1>4, NoClaimNames DEF Fewer, Apart, RunCalm
<1>5. \A a, b, r : PublicationDropped(a, b, r) /\ r \in RunId => Fewer(a, b) /\ b.pubClaims[r].by = NoClaim
  BY <1>4, NoClaimNames DEF PublicationDropped
<1>6. \A a, b, r : NoteDropped(a, b, r) /\ r \in RunId => Fewer(a, b) /\ b.noteClaims[r].by = NoClaim
  BY <1>4, NoClaimNames DEF NoteDropped
<1>7. \A a, b, r : Apart(a, b, r) /\ ClaimsKept(b, r, a.pubClaims[r], a.noteClaims[r]) => Fewer(a, b)
  BY <1>4 DEF ClaimsKept
<1> QED BY <1>1, <1>2, <1>3, <1>5, <1>6, <1>7

(* A run that has just been created has no claim.                          *)
LEMMA CreatedFewer ==
  ASSUME NEW st, NEW new, NEW r \in RunId, NEW rec,
         Writes(st, new, r, rec, st.pubClaims[r], st.noteClaims[r])
  PROVE  Fewer(st, new)
BY NoClaimNames DEF Fewer, Writes, RunCalm

(* Every claim names a call that is under way for the run it claims.       *)
PubClaimsHeld ==
  \A x \in RunId, p \in PublicationClaim :
    store.pubClaims[x].by = p => Publishes(p) /\ publishers[p].run = x

NoteClaimsHeld ==
  \A x \in RunId, n \in NoteClaim :
    store.noteClaims[x].by = n => Notifies(n) /\ notifiers[n].run = x

Held == Tidy(store) /\ PubClaimsHeld /\ NoteClaimsHeld

(* So far every save has succeeded.                                        *)
HeldInv == diskFaults = 0 => Held

(* A claim by p is the claim of p: the call holds its run.                 *)
LEMMA OwnPublicationClaim ==
  ASSUME OInv, Held, NEW p \in PublicationClaim, NEW r \in RunId, store.pubClaims[r].by = p
  PROVE  Publishes(p) /\ publishers[p].run = r /\ HoldsPublication(store, PublisherId(p))
<1>1. Publishes(p) /\ publishers[p].run = r
  BY DEF Held, PubClaimsHeld
<1>2. store.pubClaims[r] # NoPublicationClaim
  BY NoClaimNames, NullAssumption
<1>3. store.runs[r].pub = "publishing"
  BY <1>2 DEF Held, Tidy, PublicationClaimMatches
<1>4. Present(store, r) /\ PubFits(p, r)
  BY <1>3 DEF OInv, OutcomeFits, RunFits, Gone, Present
<1> QED BY <1>1, <1>4, PubHolds

LEMMA OwnNoteClaim ==
  ASSUME OInv, Held, NEW n \in NoteClaim, NEW r \in RunId, store.noteClaims[r].by = n
  PROVE  Notifies(n) /\ notifiers[n].run = r /\ HoldsNotification(store, NotifierId(n))
<1>1. Notifies(n) /\ notifiers[n].run = r
  BY DEF Held, NoteClaimsHeld
<1>2. store.noteClaims[r] # NoNoteClaim
  BY NoClaimNames, NullAssumption
<1>3. store.runs[r].note = "notifying"
  BY <1>2 DEF Held, Tidy, NoteClaimMatches
<1>4. Present(store, r) /\ NoteFits(n, r)
  BY <1>3 DEF OInv, OutcomeFits, RunFits, Gone, Present
<1> QED BY <1>1, <1>4, NoteHolds

(* A step that makes no claim, and in which each call stays under way, or  *)
(* leaves none behind.                                                     *)
LEMMA StaysHeld ==
  ASSUME Held, Tidy(store'), Fewer(store, store'),
         \A p \in PublicationClaim :
           \/ publishers'[p] = publishers[p]
           \/ publishers'[p].run = publishers[p].run /\ Publishes(p)'
           \/ \A x \in RunId : store'.pubClaims[x].by # p,
         \A n \in NoteClaim :
           \/ notifiers'[n] = notifiers[n]
           \/ notifiers'[n].run = notifiers[n].run /\ Notifies(n)'
           \/ \A x \in RunId : store'.noteClaims[x].by # n
  PROVE  Held'
<1>1. \A x \in RunId, p \in PublicationClaim : store'.pubClaims[x].by = p => store.pubClaims[x].by = p
  BY NullAssumption DEF Fewer
<1>2. \A x \in RunId, n \in NoteClaim : store'.noteClaims[x].by = n => store.noteClaims[x].by = n
  BY NullAssumption DEF Fewer
<1>3. PubClaimsHeld'
  BY <1>1 DEF Held, PubClaimsHeld, Publishes
<1>4. NoteClaimsHeld'
  BY <1>2 DEF Held, NoteClaimsHeld, Notifies
<1> QED BY <1>3, <1>4 DEF Held

LEMMA CallsStayHeld ==
  ASSUME Held, UNCHANGED <<publishers, notifiers>>, Tidy(store'), Fewer(store, store')
  PROVE  Held'
BY StaysHeld

LEMMA StoreStaysHeld ==
  ASSUME Held, UNCHANGED storeVars
  PROVE  store' = store /\ Tidy(store') /\ Fewer(store, store')
BY FewerClaims DEF Held, storeVars

(* The call p moves, and still has its run.                                *)
LEMMA PublisherStaysHeld ==
  ASSUME OInv, Held, NEW p \in PublicationClaim, NEW rec, publishers' = [publishers EXCEPT ![p] = rec],
         rec.run = publishers[p].run, rec.pc \notin {"idle", "published", "failed"},
         UNCHANGED notifiers, Tidy(store'), Fewer(store, store')
  PROVE  Held'
<1>1. publishers'[p] = rec /\ \A y \in PublicationClaim \ {p} : publishers'[y] = publishers[y]
  BY DEF OInv, IInv, Publishing
<1>2. publishers'[p].run = publishers[p].run /\ Publishes(p)'
  BY <1>1 DEF Publishes
<1>3. \A y \in PublicationClaim :
        publishers'[y] = publishers[y] \/ (publishers'[y].run = publishers[y].run /\ Publishes(y)')
  BY <1>1, <1>2
<1> QED BY <1>3, StaysHeld

LEMMA NotifierStaysHeld ==
  ASSUME OInv, Held, NEW n \in NoteClaim, NEW rec, notifiers' = [notifiers EXCEPT ![n] = rec],
         rec.run = notifiers[n].run, rec.pc \notin {"idle", "notified", "failed"},
         UNCHANGED publishers, Tidy(store'), Fewer(store, store')
  PROVE  Held'
<1>1. notifiers'[n] = rec /\ \A y \in NoteClaim \ {n} : notifiers'[y] = notifiers[y]
  BY DEF OInv, IInv, Notifying
<1>2. notifiers'[n].run = notifiers[n].run /\ Notifies(n)'
  BY <1>1 DEF Notifies
<1>3. \A y \in NoteClaim :
        notifiers'[y] = notifiers[y] \/ (notifiers'[y].run = notifiers[y].run /\ Notifies(y)')
  BY <1>1, <1>2
<1> QED BY <1>3, StaysHeld

(* The call p ends, and its claim is gone.                                 *)
LEMMA PublisherEndHeld ==
  ASSUME OInv, Held, NEW p \in PublicationClaim, NEW outcome, PublisherEnds(p, outcome), UNCHANGED notifiers,
         NEW r \in RunId, publishers[p].run = r,
         Tidy(store'), Fewer(store, store'), store'.pubClaims[r].by # p
  PROVE  Held'
<1>1. \A y \in PublicationClaim \ {p} : publishers'[y] = publishers[y]
  BY DEF OInv, IInv, Publishing, PublisherEnds
<1>2. \A x \in RunId : store'.pubClaims[x].by # p
  BY NullAssumption DEF Held, PubClaimsHeld, Fewer
<1> QED BY <1>1, <1>2, StaysHeld

LEMMA NotifierEndHeld ==
  ASSUME OInv, Held, NEW n \in NoteClaim, NEW outcome, NotifierEnds(n, outcome), UNCHANGED publishers,
         NEW r \in RunId, notifiers[n].run = r,
         Tidy(store'), Fewer(store, store'), store'.noteClaims[r].by # n
  PROVE  Held'
<1>1. \A y \in NoteClaim \ {n} : notifiers'[y] = notifiers[y]
  BY DEF OInv, IInv, Notifying, NotifierEnds
<1>2. \A x \in RunId : store'.noteClaims[x].by # n
  BY NullAssumption DEF Held, NoteClaimsHeld, Fewer
<1> QED BY <1>1, <1>2, StaysHeld

(***************************************************************************)
(* Publications while every save succeeds                                  *)
(***************************************************************************)

Faultless == diskFaults = 0 /\ diskFaults' = 0

LEMMA NoFault ==
  ASSUME Faultless, NEW k \in Nat, NEW st, Persist(st, k) \/ InMemory(st, k)
  PROVE  k = 0
BY DEF Faultless, Persist, InMemory, FaultsAllow

(* failPublication drops the claim of the call, which it holds.            *)
LEMMA PublisherFailsHeld ==
  ASSUME OInv, Held, Faultless, NEW p \in PublicationClaim, publishers[p].pc # "idle",
         NEW k \in Nat, PublisherFails(p, k), UNCHANGED notifiers
  PROVE  Held'
<1> DEFINE id == PublisherId(p)
           r == publishers[p].run
           st == FailPublication(store, id)
<1>1. /\ SoundStore(store) /\ r \in RunId /\ id.run = r /\ Tidy(store)
  BY PublisherFields DEF OInv, IInv, Stored, Held
<1>2. store' = st /\ PublisherEnds(p, "failed")
  <2>1. PublisherEnds(p, "failed") /\ (Persist(st, k) \/ InMemory(store, k + 1))
    BY DEF PublisherFails
  <2>2. ~InMemory(store, k + 1)
    BY NoFault
  <2> QED BY <2>1, <2>2 DEF Persist
<1>3. Tidy(st)
  BY <1>1, PublicationWritesTidy
<1>4. Fewer(store, st) /\ st.pubClaims[r].by # p
  <2>1. CASE HoldsPublication(store, id)
    <3>1. PublicationDropped(store, st, r)
      BY <1>1, <2>1, FailPublicationEffect
    <3> HIDE DEF st
    <3> QED BY <1>1, <3>1, FewerClaims, NullAssumption
  <2>2. CASE ~HoldsPublication(store, id)
    <3>1. st = store
      BY <2>2 DEF FailPublication
    <3>2. store.pubClaims[r].by # p
      BY <1>1, <2>2, OwnPublicationClaim
    <3> HIDE DEF st
    <3> QED BY <3>1, <3>2, FewerClaims
  <2> QED BY <2>1, <2>2
<1> HIDE DEF st
<1> QED BY <1>1, <1>2, <1>3, <1>4, PublisherEndHeld

(* releasePublicationClaim, then the run fails.                            *)
LEMMA UnpreparedHeld ==
  ASSUME OInv, Held, Faultless, NEW p \in PublicationClaim, PublisherUnprepared(p)
  PROVE  Held'
<1> DEFINE self == publishers[p]
           r == self.run
           id == PublisherId(p)
           released == ReleasePublicationClaim(store, id, self.resume)
           run == released.runs[r]
           failed == IF IdentityCurrent(released, r, self.session)
                     THEN UpdateIfCurrent(released, r, self.session, WithStatus(run, "failed", "other"))
                     ELSE released
<1>1. /\ SoundStore(store) /\ r \in RunId /\ id.run = r /\ Tidy(store) /\ self.resume \in BOOLEAN
      /\ PublisherEnds(p, "failed") /\ UNCHANGED notifiers
  BY PublisherFields DEF OInv, IInv, Stored, Held, PublisherUnprepared, PreparationFails, Publishing, Publisher
<1>2. store' = failed
  <2>1. Persist(failed, 0) \/ InMemory(store, 1) \/ Persist(released, 1)
    BY DEF PublisherUnprepared, PreparationFails
  <2>2. ~InMemory(store, 1) /\ ~Persist(released, 1)
    BY NoFault
  <2> QED BY <2>1, <2>2 DEF Persist
<1>3. SoundStore(released) /\ Tidy(released)
  BY <1>1, ReleasePublicationClaimSound, PublicationWritesTidy
<1>4. Fewer(store, released) /\ released.pubClaims[r].by # p
  <2>1. CASE HoldsPublication(store, id)
    <3>1. PublicationDropped(store, released, r)
      BY <1>1, <2>1, ReleasePublicationClaimEffect
    <3> HIDE DEF released
    <3> QED BY <1>1, <3>1, FewerClaims, NullAssumption
  <2>2. CASE ~HoldsPublication(store, id)
    <3>1. released = store
      BY <2>2 DEF ReleasePublicationClaim
    <3>2. store.pubClaims[r].by # p
      BY <1>1, <2>2, OwnPublicationClaim
    <3> HIDE DEF released
    <3> QED BY <3>1, <3>2, FewerClaims
  <2> QED BY <2>1, <2>2
<1> HIDE DEF released
<1>5. Tidy(failed) /\ CalmTo(released, failed)
  <2>1. "failed" \in TerminalStatus /\ "other" \in Reason
    BY DEF TerminalStatus, Reason
  <2>2. CalmTo(released, failed)
    BY <1>1, <1>3, <2>1, UpdateStatusCalm, CalmToTransitive
  <2>3. Tidy(failed)
    BY <1>3, WritesTidy
  <2> QED BY <2>2, <2>3
<1> HIDE DEF failed
<1>6. Fewer(store, failed) /\ Fewer(released, failed)
  BY <1>4, <1>5, FewerClaims
<1>7. failed.pubClaims[r].by # p
  BY <1>1, <1>4, <1>6, NullAssumption DEF Fewer
<1> QED BY <1>1, <1>2, <1>5, <1>6, <1>7, PublisherEndHeld

(* The run is rejected, then the claim released.                           *)
LEMMA HeadChangedHeld ==
  ASSUME OInv, Held, Faultless, NEW p \in PublicationClaim, PublisherHeadChanged(p)
  PROVE  Held'
<1> DEFINE self == publishers[p]
           r == self.run
           id == PublisherId(p)
           rejected == UpdateIfCurrent(store, r, self.session, WithStatus(store.runs[r], "rejected", "policy"))
           released(st) == ReleasePublicationClaim(st, id, self.resume)
<1>1. /\ SoundStore(store) /\ r \in RunId /\ id.run = r /\ id.by = p /\ Tidy(store) /\ self.resume \in BOOLEAN
      /\ PublisherEnds(p, "failed") /\ UNCHANGED notifiers /\ PublisherCurrent(p)
  BY PublisherFields DEF OInv, IInv, Stored, Held, PublisherHeadChanged, Publishing, Publisher, PublisherId
<1>2. PICK st : /\ SoundStore(st) /\ Tidy(st) /\ CalmTo(store, st)
                /\ store' = released(st)
  <2>1. "rejected" \in TerminalStatus /\ "policy" \in Reason
    BY DEF TerminalStatus, Reason
  <2>2. Persist(released(rejected), 0) \/ Persist(rejected, 1)
    BY DEF PublisherHeadChanged
  <2>3. ~Persist(rejected, 1)
    BY NoFault
  <2>4. SoundStore(rejected) /\ Tidy(rejected) /\ CalmTo(store, rejected)
    BY <1>1, <2>1, UpdateStatusSound, UpdateStatusCalm, WritesTidy
  <2> HIDE DEF rejected, released
  <2> QED BY <1>1, <2>2, <2>3, <2>4 DEF Persist
<1>3. /\ Tidy(released(st)) /\ Fewer(store, st)
  BY <1>2, PublicationWritesTidy, FewerClaims
<1>4. Fewer(st, released(st)) /\ released(st).pubClaims[r].by # p
  <2>1. CASE HoldsPublication(st, id)
    <3>1. PublicationDropped(st, released(st), r)
      BY <1>1, <1>2, <2>1, ReleasePublicationClaimEffect
    <3> HIDE DEF released
    <3> QED BY <1>1, <3>1, FewerClaims, NullAssumption
  <2>2. CASE ~HoldsPublication(st, id)
    <3>1. released(st) = st
      BY <2>2 DEF ReleasePublicationClaim
    <3>2. ASSUME st.pubClaims[r].by = p PROVE FALSE
      <4>1. st.pubClaims[r] = store.pubClaims[r]
        BY <1>1, <1>2, <3>2, NoClaimNames, NullAssumption DEF CalmTo, RunCalm
      <4>2. ActivePublicationClaimMatches(store, id)
        BY <1>1 DEF PublisherCurrent, IsPublicationClaimCurrent
      <4>3. ActivePublicationClaimMatches(st, id)
        BY <1>1, <4>1, <4>2 DEF ActivePublicationClaimMatches
      <4>4. st.pubClaims[r] # NoPublicationClaim
        BY <3>2, NoClaimNames, NullAssumption
      <4>5. PublicationClaimMatches(st.runs[r], st.pubClaims[r])
        BY <1>1, <1>2, <4>4 DEF Tidy
      <4>6. st.pubClaims[r].by = id.by /\ st.pubClaims[r].session = id.session
        BY <1>1, <4>3 DEF ActivePublicationClaimMatches
      <4> QED BY <1>1, <2>2, <4>3, <4>5, <4>6 DEF HoldsPublication, PublicationClaimMatches
    <3> HIDE DEF released
    <3> QED BY <3>1, <3>2, FewerClaims
  <2> QED BY <2>1, <2>2
<1> HIDE DEF released
<1>5. Fewer(store, released(st))
  BY <1>3, <1>4, FewerClaims
<1> QED BY <1>1, <1>2, <1>3, <1>4, <1>5, PublisherEndHeld

(* rejectPublicationForPolicy and completePublication drop the claim.      *)
LEMMA DropsHeld ==
  ASSUME OInv, Held, Faultless, NEW p \in PublicationClaim,
         PublisherCheckRejects(p) \/ \E status \in {"blocked", "succeeded", "failed"} : PublisherFinishes(p, status)
  PROVE  Held'
<1> DEFINE r == publishers[p].run
           id == PublisherId(p)
<1>1. /\ SoundStore(store) /\ r \in RunId /\ id.run = r /\ Tidy(store) /\ UNCHANGED notifiers
      /\ IsPublicationClaimCurrent(store, id)
  BY PublisherFields DEF OInv, IInv, Stored, Held, PublisherCheckRejects, PublisherFinishes, PublisherCurrent
<1>2. PICK outcome, st :
        /\ PublisherEnds(p, outcome) /\ store' = st
        /\ Tidy(st) /\ PublicationDropped(store, st, r)
  <2>1. CASE PublisherCheckRejects(p)
    <3> DEFINE st == RejectPublicationForPolicy(store, id)
    <3>1. ~InMemory(store, 1)
      BY NoFault
    <3>2. PublisherEnds(p, "failed") /\ store' = st
      BY <2>1, <3>1 DEF PublisherCheckRejects, Persist
    <3>3. Tidy(st) /\ PublicationDropped(store, st, r)
      BY <1>1, PublicationWritesTidy, RejectPublicationEffect
    <3> HIDE DEF st
    <3> QED BY <3>2, <3>3
  <2>2. ASSUME NEW status \in {"blocked", "succeeded", "failed"}, PublisherFinishes(p, status)
        PROVE  \E outcome, st : /\ PublisherEnds(p, outcome) /\ store' = st
                                /\ Tidy(st) /\ PublicationDropped(store, st, r)
    <3> DEFINE st == CompletePublication(store, id, status)
               put == ReleaseAsPartial(store, id)
    <3>1. ~InMemory(put, 2) /\ ~Persist(Saved(put, r), 1)
      <4> HIDE DEF put
      <4> QED BY NoFault
    <3>2. PublisherEnds(p, "published") /\ store' = st
      BY <1>1, <2>2, <3>1 DEF PublisherFinishes, Persist
    <3>3. status \in TerminalStatus
      BY DEF TerminalStatus
    <3>4. Tidy(st) /\ PublicationDropped(store, st, r)
      BY <1>1, <3>3, PublicationWritesTidy, CompletePublicationEffect
    <3> HIDE DEF st
    <3> QED BY <3>2, <3>4
  <2> QED BY <2>1, <2>2
<1>3. Fewer(store, st) /\ st.pubClaims[r].by # p
  BY <1>1, <1>2, FewerClaims, NullAssumption
<1> QED BY <1>1, <1>2, <1>3, PublisherEndHeld

(* The call moves to a record of the same run, and is still under way.     *)
MovesOn(p) ==
  \E rec : /\ publishers' = [publishers EXCEPT ![p] = rec]
           /\ rec.run = publishers[p].run /\ rec.pc \notin {"idle", "published", "failed"}

LEMMA PublisherMovesOn ==
  ASSUME Publishing, NEW p \in PublicationClaim
  PROVE  /\ \A pc \in {"head", "list"} : PublisherWaits(p, pc) => MovesOn(p)
         /\ \A done : PublisherContinues(p, done) => MovesOn(p)
         /\ publishers' = [publishers EXCEPT ![p].pc = "sent", ![p].landed = FALSE] => MovesOn(p)
         /\ publishers' = [publishers EXCEPT ![p].landed = TRUE] /\ publishers[p].pc = "sent" => MovesOn(p)
         /\ \A pending : publishers' = [publishers EXCEPT ![p].pc = "record", ![p].pending = pending] => MovesOn(p)
         /\ \A op : publishers' = [publishers EXCEPT ![p].pc = "check", ![p].op = op] => MovesOn(p)
         /\ \A m : publishers' = [publishers EXCEPT ![p].done = @ \cup {m}, ![p].pending = @ \ {m}]
                   /\ publishers[p].pc = "record" => MovesOn(p)
<1> DEFINE self == publishers[p]
           waits(pc) == [self EXCEPT !.pc = pc]
           finish(done) == [self EXCEPT !.pc = "finish", !.done = done, !.pending = {}]
           next(done, m) == [self EXCEPT !.pc = "check", !.done = done, !.pending = {}, !.op = m]
           sent == [self EXCEPT !.pc = "sent", !.landed = FALSE]
           landed == [self EXCEPT !.landed = TRUE]
           posted(pending) == [self EXCEPT !.pc = "record", !.pending = pending]
           refused(op) == [self EXCEPT !.pc = "check", !.op = op]
           marked(m) == [self EXCEPT !.done = self.done \cup {m}, !.pending = self.pending \ {m}]
<1>1. self \in Publisher
  BY DEF Publishing
<1>2. /\ \A pc : waits(pc).run = self.run /\ waits(pc).pc = pc
      /\ \A done : finish(done).run = self.run /\ finish(done).pc = "finish"
      /\ \A done, m : next(done, m).run = self.run /\ next(done, m).pc = "check"
      /\ sent.run = self.run /\ sent.pc = "sent"
      /\ landed.run = self.run /\ landed.pc = self.pc
      /\ \A pending : posted(pending).run = self.run /\ posted(pending).pc = "record"
      /\ \A op : refused(op).run = self.run /\ refused(op).pc = "check"
      /\ \A m : marked(m).run = self.run /\ marked(m).pc = self.pc
  <2> HIDE DEF self
  <2> QED BY <1>1 DEF Publisher
<1>3. /\ \A pc : PublisherWaits(p, pc) => publishers' = [publishers EXCEPT ![p] = waits(pc)]
      /\ \A done : PublisherContinues(p, done) =>
           \/ publishers' = [publishers EXCEPT ![p] = finish(done)]
           \/ \E m : publishers' = [publishers EXCEPT ![p] = next(done, m)]
  BY DEF PublisherWaits, PublisherContinues
<1>4. /\ [publishers EXCEPT ![p].pc = "sent", ![p].landed = FALSE] = [publishers EXCEPT ![p] = sent]
      /\ [publishers EXCEPT ![p].landed = TRUE] = [publishers EXCEPT ![p] = landed]
      /\ \A pending : [publishers EXCEPT ![p].pc = "record", ![p].pending = pending]
                      = [publishers EXCEPT ![p] = posted(pending)]
      /\ \A op : [publishers EXCEPT ![p].pc = "check", ![p].op = op] = [publishers EXCEPT ![p] = refused(op)]
  OBVIOUS
<1>5. \A m : [publishers EXCEPT ![p].done = @ \cup {m}, ![p].pending = @ \ {m}] = [publishers EXCEPT ![p] = marked(m)]
  BY <1>1 DEF Publishing
<1> HIDE DEF waits, finish, next, sent, landed, posted, refused, marked
<1>6. \A pc \in {"head", "list"} : PublisherWaits(p, pc) => MovesOn(p)
  BY <1>2, <1>3 DEF MovesOn
<1>7. ASSUME NEW done, PublisherContinues(p, done) PROVE MovesOn(p)
  <2>1. CASE publishers' = [publishers EXCEPT ![p] = finish(done)]
    <3>1. finish(done).run = self.run /\ finish(done).pc = "finish"
      BY <1>2
    <3> QED BY <2>1, <3>1 DEF MovesOn
  <2>2. ASSUME NEW m, publishers' = [publishers EXCEPT ![p] = next(done, m)] PROVE MovesOn(p)
    <3>1. next(done, m).run = self.run /\ next(done, m).pc = "check"
      BY <1>2
    <3> QED BY <2>2, <3>1 DEF MovesOn
  <2> QED BY <1>3, <1>7, <2>1, <2>2
<1>8. publishers' = [publishers EXCEPT ![p].pc = "sent", ![p].landed = FALSE] => MovesOn(p)
  BY <1>2, <1>4 DEF MovesOn
<1>9. publishers' = [publishers EXCEPT ![p].landed = TRUE] /\ publishers[p].pc = "sent" => MovesOn(p)
  BY <1>2, <1>4 DEF MovesOn
<1>10. ASSUME NEW pending, publishers' = [publishers EXCEPT ![p].pc = "record", ![p].pending = pending]
       PROVE  MovesOn(p)
  <2>1. publishers' = [publishers EXCEPT ![p] = posted(pending)]
    BY <1>4, <1>10
  <2>2. posted(pending).run = self.run /\ posted(pending).pc = "record"
    BY <1>2
  <2> QED BY <2>1, <2>2 DEF MovesOn
<1>11. ASSUME NEW op, publishers' = [publishers EXCEPT ![p].pc = "check", ![p].op = op]
       PROVE  MovesOn(p)
  <2>1. publishers' = [publishers EXCEPT ![p] = refused(op)]
    BY <1>4, <1>11
  <2>2. refused(op).run = self.run /\ refused(op).pc = "check"
    BY <1>2
  <2> QED BY <2>1, <2>2 DEF MovesOn
<1>12. ASSUME NEW m, publishers' = [publishers EXCEPT ![p].done = @ \cup {m}, ![p].pending = @ \ {m}],
              publishers[p].pc = "record"
       PROVE  MovesOn(p)
  <2>1. publishers' = [publishers EXCEPT ![p] = marked(m)]
    BY <1>5, <1>12
  <2>2. marked(m).run = self.run /\ marked(m).pc = self.pc
    BY <1>2
  <2> QED BY <1>12, <2>1, <2>2 DEF MovesOn
<1> QED BY <1>6, <1>7, <1>8, <1>9, <1>10, <1>11, <1>12

LEMMA MovesOnHeld ==
  ASSUME OInv, Held, NEW p \in PublicationClaim, MovesOn(p), UNCHANGED notifiers,
         Tidy(store'), Fewer(store, store')
  PROVE  Held'
<1>1. PICK rec : /\ publishers' = [publishers EXCEPT ![p] = rec]
                 /\ rec.run = publishers[p].run /\ rec.pc \notin {"idle", "published", "failed"}
  BY DEF MovesOn
<1> QED BY <1>1, PublisherStaysHeld

(* The steps that save what is on GitLab.                                  *)
LEMMA MarkersHeld ==
  ASSUME OInv, Held, NEW p \in PublicationClaim, PublisherReconciles(p) \/ PublisherRecords(p)
  PROVE  Held'
<1> DEFINE r == publishers[p].run
           id == PublisherId(p)
<1>1. /\ Publishing /\ SoundStore(store) /\ r \in RunId /\ id.run = r /\ Tidy(store) /\ UNCHANGED notifiers
      /\ publishers[p] \in Publisher
  BY PublisherFields DEF OInv, IInv, Stored, Held, PublisherReconciles, PublisherRecords
<1>2. CASE PublisherReconciles(p)
  <2> DEFINE st == ReplacePublicationMarkers(store, id, Visible(r))
  <2>1. store' = st /\ MovesOn(p)
    BY <1>1, <1>2, PublisherMovesOn DEF PublisherReconciles, Persist
  <2>2. Visible(r) \in SUBSET Marker
    BY DEF Visible
  <2>3. Tidy(st) /\ Apart(store, st, r) /\ ClaimsKept(st, r, store.pubClaims[r], store.noteClaims[r])
    BY <1>1, <2>2, MarkersEffect, PublicationWritesTidy
  <2> HIDE DEF st
  <2>4. Fewer(store, st)
    BY <2>3, FewerClaims
  <2> QED BY <1>1, <2>1, <2>3, <2>4, MovesOnHeld
<1>3. CASE PublisherRecords(p)
  <2>1. PICK m \in publishers[p].pending :
          /\ Persist(RecordPublicationMarker(store, id, m), 0)
          /\ \/ PublisherContinues(p, publishers[p].done \cup {m})
             \/ publishers' = [publishers EXCEPT ![p].done = @ \cup {m}, ![p].pending = @ \ {m}]
    BY <1>3 DEF PublisherRecords
  <2> DEFINE st == RecordPublicationMarker(store, id, m)
  <2>2. m \in Marker /\ publishers[p].pc = "record"
    BY <1>1, <1>3 DEF Publisher, PublisherRecords
  <2>3. store' = st /\ MovesOn(p)
    BY <1>1, <2>1, <2>2, PublisherMovesOn DEF Persist
  <2>4. Tidy(st) /\ Apart(store, st, r) /\ ClaimsKept(st, r, store.pubClaims[r], store.noteClaims[r])
    BY <1>1, <2>2, RecordMarkerEffect, PublicationWritesTidy
  <2> HIDE DEF st
  <2>5. Fewer(store, st)
    BY <2>4, FewerClaims
  <2> QED BY <1>1, <2>3, <2>4, <2>5, MovesOnHeld
<1> QED BY <1>2, <1>3

LEMMA PublisherStepHeld ==
  ASSUME OInv, Held, Faultless, NEW p \in PublicationClaim, PublisherStep(p)
  PROVE  Held'
<1>1. Publishing
  BY DEF OInv, IInv
<1>2. CASE \/ PublisherHasToken(p) \/ PublisherHeadVerified(p) \/ PublisherSends(p) \/ PublisherConfirmed(p)
           \/ PublisherPositionRefused(p)
  <2>1. UNCHANGED storeVars /\ UNCHANGED notifiers
    BY <1>2 DEF PublisherHasToken, PublisherHeadVerified, PublisherSends, PublisherConfirmed, PublisherPositionRefused
  <2>2. MovesOn(p)
    BY <1>1, <1>2, PublisherMovesOn
       DEF PublisherHasToken, PublisherHeadVerified, PublisherSends, PublisherConfirmed, PublisherPositionRefused
  <2> QED BY <2>1, <2>2, StoreStaysHeld, MovesOnHeld
<1>3. CASE \E k \in {0, 1} : PublisherFails(p, k) /\ UNCHANGED notifiers /\ publishers[p].pc # "idle"
  BY <1>3, PublisherFailsHeld
<1>4. \/ PublisherReconcileFails(p) \/ PublisherCheckFails(p) \/ PublisherUnconfirmed(p) \/ PublisherRecordFails(p)
      \/ PublisherFinishFails(p)
      => \E k \in {0, 1} : PublisherFails(p, k) /\ UNCHANGED notifiers /\ publishers[p].pc # "idle"
  BY DEF PublisherReconcileFails, PublisherCheckFails, PublisherUnconfirmed, PublisherRecordFails, PublisherFinishFails
<1> QED BY <1>2, <1>3, <1>4, MarkersHeld, UnpreparedHeld, HeadChangedHeld, DropsHeld DEF PublisherStep

(* A call claims a run that no call holds.                                 *)
LEMMA PublisherClaimsHeld ==
  ASSUME OInv, Held, NEW p \in PublicationClaim, NEW caller, NEW r \in RunId, NEW payload \in Payload,
         PublisherClaims(p, caller, r, payload), UNCHANGED notifiers
  PROVE  Held'
<1> DEFINE run == store.runs[r]
           st == ClaimPublication(store, r, p, payload)
           claim == [by |-> p, session |-> run.session, allow |-> run.status = "failed" /\ run.pub = "partial"]
           rec == [IdlePublisher EXCEPT
              !.pc = "secret", !.caller = caller, !.run = r, !.payload = payload,
              !.session = run.session, !.resume = run.pub # "none",
              !.allow = run.pub # "none" /\ run.status = "failed"]
<1>1. /\ SoundStore(store) /\ Tidy(store) /\ publishers[p].pc = "idle" /\ store' = st
      /\ publishers' = [publishers EXCEPT ![p] = rec]
  BY DEF OInv, IInv, Stored, Held, PublisherClaims, Persist
<1>2. rec.pc = "secret" /\ rec.run = r
  BY DEF IdlePublisher
<1>3. Apart(store, st, r) /\ ClaimsKept(st, r, claim, store.noteClaims[r]) /\ Tidy(st)
  BY <1>1, ClaimPublicationEffect, PublicationWritesTidy
<1>4. claim.by = p
  OBVIOUS
<1> HIDE DEF st, rec, claim
<1>5. publishers'[p] = rec /\ \A y \in PublicationClaim \ {p} : publishers'[y] = publishers[y]
  BY <1>1 DEF OInv, IInv, Publishing
<1>6. /\ \A x \in RunId \ {r} : /\ st.pubClaims[x].by \in {store.pubClaims[x].by, NoClaim}
                                /\ st.noteClaims[x].by \in {store.noteClaims[x].by, NoClaim}
      /\ st.pubClaims[r].by \in {p, NoClaim} /\ st.noteClaims[r].by \in {store.noteClaims[r].by, NoClaim}
  BY <1>3, <1>4, NoClaimNames DEF Apart, RunCalm, ClaimsKept
<1>7. \A x \in RunId : store.pubClaims[x].by # p
  BY <1>1 DEF Held, PubClaimsHeld, Publishes
<1>8. PubClaimsHeld'
  <2> SUFFICES ASSUME NEW x \in RunId, NEW y \in PublicationClaim, st.pubClaims[x].by = y
               PROVE  Publishes(y)' /\ publishers'[y].run = x
    BY <1>1 DEF PubClaimsHeld
  <2>1. CASE x = r
    BY <2>1, <1>2, <1>5, <1>6, NullAssumption DEF Publishes
  <2>2. CASE x # r
    <3>1. store.pubClaims[x].by = y
      BY <2>2, <1>6, NullAssumption
    <3> QED BY <3>1, <1>5, <1>7 DEF Held, PubClaimsHeld, Publishes
  <2> QED BY <2>1, <2>2
<1>9. NoteClaimsHeld'
  <2> SUFFICES ASSUME NEW x \in RunId, NEW n \in NoteClaim, st.noteClaims[x].by = n
               PROVE  Notifies(n)' /\ notifiers'[n].run = x
    BY <1>1 DEF NoteClaimsHeld
  <2>1. store.noteClaims[x].by = n
    BY <1>6, NullAssumption
  <2> QED BY <2>1 DEF Held, NoteClaimsHeld, Notifies
<1> QED BY <1>1, <1>3, <1>8, <1>9 DEF Held

(***************************************************************************)
(* Notifications while every save succeeds                                 *)
(***************************************************************************)

NoteMovesOn(n) ==
  \E rec : /\ notifiers' = [notifiers EXCEPT ![n] = rec]
           /\ rec.run = notifiers[n].run /\ rec.pc \notin {"idle", "notified", "failed"}

LEMMA NotifierMovesOn ==
  ASSUME Notifying, NEW n \in NoteClaim
  PROVE  /\ \A pc \in {"find", "head", "check"} : NotifierWaits(n, pc) => NoteMovesOn(n)
         /\ notifiers' = [notifiers EXCEPT ![n].pc = "sent", ![n].landed = FALSE] => NoteMovesOn(n)
         /\ notifiers' = [notifiers EXCEPT ![n].landed = TRUE] /\ notifiers[n].pc = "sent" => NoteMovesOn(n)
<1> DEFINE self == notifiers[n]
           waits(pc) == [self EXCEPT !.pc = pc]
           sent == [self EXCEPT !.pc = "sent", !.landed = FALSE]
           landed == [self EXCEPT !.landed = TRUE]
<1>1. self \in Notifier
  BY DEF Notifying
<1>2. /\ \A pc : waits(pc).run = self.run /\ waits(pc).pc = pc
      /\ sent.run = self.run /\ sent.pc = "sent"
      /\ landed.run = self.run /\ landed.pc = self.pc
  <2> HIDE DEF self
  <2> QED BY <1>1 DEF Notifier
<1>3. /\ \A pc : NotifierWaits(n, pc) => notifiers' = [notifiers EXCEPT ![n] = waits(pc)]
      /\ [notifiers EXCEPT ![n].pc = "sent", ![n].landed = FALSE] = [notifiers EXCEPT ![n] = sent]
      /\ [notifiers EXCEPT ![n].landed = TRUE] = [notifiers EXCEPT ![n] = landed]
  BY DEF NotifierWaits
<1> HIDE DEF waits, sent, landed
<1>4. ASSUME NEW pc \in {"find", "head", "check"}, NotifierWaits(n, pc) PROVE NoteMovesOn(n)
  <2>1. notifiers' = [notifiers EXCEPT ![n] = waits(pc)] /\ waits(pc).run = self.run /\ waits(pc).pc = pc
    BY <1>2, <1>3, <1>4
  <2> QED BY <2>1 DEF NoteMovesOn
<1>5. notifiers' = [notifiers EXCEPT ![n].pc = "sent", ![n].landed = FALSE] => NoteMovesOn(n)
  BY <1>2, <1>3 DEF NoteMovesOn
<1>6. notifiers' = [notifiers EXCEPT ![n].landed = TRUE] /\ notifiers[n].pc = "sent" => NoteMovesOn(n)
  BY <1>2, <1>3 DEF NoteMovesOn
<1> QED BY <1>4, <1>5, <1>6

LEMMA NoteMovesOnHeld ==
  ASSUME OInv, Held, NEW n \in NoteClaim, NoteMovesOn(n), UNCHANGED publishers,
         Tidy(store'), Fewer(store, store')
  PROVE  Held'
<1>1. PICK rec : /\ notifiers' = [notifiers EXCEPT ![n] = rec]
                 /\ rec.run = notifiers[n].run /\ rec.pc \notin {"idle", "notified", "failed"}
  BY DEF NoteMovesOn
<1> QED BY <1>1, NotifierStaysHeld

(* releaseFailureNotificationClaim touches one claim.                      *)
LEMMA ReleaseNoteFewer ==
  ASSUME NEW st, SoundStore(st), NEW id, id.run \in RunId
  PROVE  Fewer(st, ReleaseFailureNotificationClaim(st, id))
<1> DEFINE new == ReleaseFailureNotificationClaim(st, id)
<1>1. /\ new.pubClaims = st.pubClaims
      /\ \A x \in RunId \ {id.run} : new.noteClaims[x] = st.noteClaims[x]
      /\ IF ActiveNoteClaimMatches(st, id) THEN new.noteClaims[id.run] = NoNoteClaim ELSE new = st
  BY ReleaseNoteClaimEffect
<1> HIDE DEF new
<1>2. Fewer(st, new)
  BY <1>1, NoClaimNames DEF Fewer
<1> QED BY <1>2 DEF new

LEMMA ReleaseNoteTidy ==
  ASSUME NEW st, Tidy(st), NEW id
  PROVE  Tidy(ReleaseFailureNotificationClaim(st, id))
BY NotificationWritesTidy

(* The claim of a call that ends is gone.                                  *)
LEMMA ReleaseOwnNote ==
  ASSUME OInv, Held, NEW n \in NoteClaim, notifiers[n].pc # "idle"
  PROVE  LET new == ReleaseFailureNotificationClaim(store, NotifierId(n))
         IN  new.noteClaims[notifiers[n].run].by # n
<1> DEFINE id == NotifierId(n)
           r == notifiers[n].run
           new == ReleaseFailureNotificationClaim(store, id)
<1>1. SoundStore(store) /\ r \in RunId /\ id.run = r
  BY NotifierFields DEF OInv, IInv, Stored
<1>2. IF ActiveNoteClaimMatches(store, id) THEN new.noteClaims[r] = NoNoteClaim ELSE new = store
  BY <1>1, ReleaseNoteClaimEffect
<1>3. CASE ActiveNoteClaimMatches(store, id)
  <2> HIDE DEF new
  <2>1. new.noteClaims[r].by # n
    BY <1>2, <1>3, NoClaimNames, NullAssumption
  <2> QED BY <2>1 DEF new
<1>4. CASE ~ActiveNoteClaimMatches(store, id)
  <2>1. new = store
    BY <1>2, <1>4
  <2>2. store.noteClaims[r].by # n
    BY <1>1, <1>4, OwnNoteClaim DEF HoldsNotification
  <2> HIDE DEF new
  <2>3. new.noteClaims[r].by # n
    BY <2>1, <2>2
  <2> QED BY <2>3 DEF new
<1> QED BY <1>3, <1>4

(* What a call that ends without a failing save leaves of the store.       *)
NoteLeft(n, st) ==
  LET r == notifiers[n].run
  IN  Tidy(st) /\ Fewer(store, st) /\ st.noteClaims[r].by # n

LEMMA DroppedLeft ==
  ASSUME OInv, NEW n \in NoteClaim, notifiers[n].pc # "idle", NEW st, Tidy(st),
         NoteDropped(store, st, notifiers[n].run)
  PROVE  NoteLeft(n, st)
<1> DEFINE r == notifiers[n].run
<1>1. r \in RunId
  BY NotifierFields DEF OInv, IInv
<1>2. Fewer(store, st) /\ st.noteClaims[r].by = NoClaim
  BY <1>1, FewerClaims
<1> QED BY <1>2, NullAssumption DEF NoteLeft

LEMMA FailedLeft ==
  ASSUME OInv, Held, NEW n \in NoteClaim, notifiers[n].pc # "idle", NEW refused \in BOOLEAN
  PROVE  NoteLeft(n, NotificationFailed(n, refused))
<1> DEFINE id == NotifierId(n)
           r == notifiers[n].run
           failed == FailFailureNotification(store, id, refused)
<1>1. SoundStore(store) /\ Tidy(store) /\ r \in RunId /\ id.run = r
  BY NotifierFields DEF OInv, IInv, Stored, Held
<1>2. CASE HoldsNotification(store, id)
  <2>1. NoteDropped(store, failed, r) /\ Tidy(failed)
    BY <1>1, <1>2, FailNotificationEffect, NotificationWritesTidy
  <2> HIDE DEF failed
  <2>2. NotificationFailed(n, refused) = failed
    BY <2>1, ReleasedAlready DEF NotificationFailed, NoteDropped, failed
  <2> QED BY <2>1, <2>2, DroppedLeft
<1>3. CASE ~HoldsNotification(store, id)
  <2>1. NotificationFailed(n, refused) = ReleaseFailureNotificationClaim(store, id)
    BY <1>3 DEF NotificationFailed, FailFailureNotification
  <2>2. /\ Tidy(ReleaseFailureNotificationClaim(store, id))
        /\ Fewer(store, ReleaseFailureNotificationClaim(store, id))
        /\ ReleaseFailureNotificationClaim(store, id).noteClaims[r].by # n
    BY <1>1, ReleaseNoteTidy, ReleaseNoteFewer, ReleaseOwnNote
  <2> QED BY <2>1, <2>2 DEF NoteLeft
<1> QED BY <1>2, <1>3

LEMMA NoteLeftHeld ==
  ASSUME OInv, Held, NEW n \in NoteClaim, notifiers[n].pc # "idle",
         NEW outcome, NotifierEnds(n, outcome), UNCHANGED publishers, NoteLeft(n, store')
  PROVE  Held'
<1>1. notifiers[n].run \in RunId
  BY NotifierFields DEF OInv, IInv
<1> QED BY <1>1, NotifierEndHeld DEF NoteLeft

LEMMA NoAbort ==
  ASSUME Faultless, NEW n, NotifierAborts(n, 1)
  PROVE  FALSE
<1> DEFINE a == NotificationFailed(n, FALSE)
           b == ReleaseFailureNotificationClaim(store, NotifierId(n))
<1>1. Persist(a, 1) \/ InMemory(b, 1 + 1)
  BY DEF NotifierAborts
<1> HIDE DEF a, b
<1>2. ~Persist(a, 1) /\ ~InMemory(b, 1 + 1)
  BY NoFault
<1> QED BY <1>1, <1>2

LEMMA NotifierGivesUpHeld ==
  ASSUME OInv, Held, Faultless, NEW n \in NoteClaim, notifiers[n].pc # "idle", NEW refused \in BOOLEAN,
         NotifierGivesUp(n, refused), UNCHANGED publishers
  PROVE  Held'
<1>1. NotifierEnds(n, "failed") /\ store' = NotificationFailed(n, refused)
  BY NoAbort DEF NotifierGivesUp, Persist
<1>2. NoteLeft(n, store')
  BY <1>1, FailedLeft
<1> QED BY <1>1, <1>2, NoteLeftHeld

LEMMA NotifierRejectsHeld ==
  ASSUME OInv, Held, Faultless, NEW n \in NoteClaim, NotifierHeadChanged(n)
  PROVE  Held'
<1> DEFINE id == NotifierId(n)
           r == notifiers[n].run
           st == RejectFailureNotificationForPolicy(store, id)
           end == ReleaseFailureNotificationClaim(FailFailureNotification(st, id, FALSE), id)
<1>1. /\ SoundStore(store) /\ Tidy(store) /\ notifiers[n].pc # "idle" /\ r \in RunId /\ id.run = r
      /\ UNCHANGED publishers /\ IsFailureNotificationClaimCurrent(store, id)
  BY NotifierFields DEF OInv, IInv, Stored, Held, NotifierHeadChanged, NotifierCurrent
<1>2. NotifierEnds(n, "failed") /\ store' = end
  BY NoAbort DEF NotifierHeadChanged, NotifierRejects, Persist
<1>3. NoteDropped(store, st, r) /\ Tidy(st)
  BY <1>1, RejectNotificationEffect, NotificationWritesTidy
<1> HIDE DEF st
<1>4. end = st
  BY <1>3, ReleasedAlready DEF NoteDropped
<1> HIDE DEF end
<1>5. NoteLeft(n, store')
  BY <1>1, <1>2, <1>3, <1>4, DroppedLeft
<1> QED BY <1>1, <1>2, <1>5, NoteLeftHeld

LEMMA NotifierSucceedsHeld ==
  ASSUME OInv, Held, Faultless, NEW n \in NoteClaim, notifiers[n].pc # "idle",
         NotifierSucceeds(n), UNCHANGED publishers
  PROVE  Held'
<1> DEFINE id == NotifierId(n)
           r == notifiers[n].run
           st == CompleteFailureNotification(store, id)
           released == ReleaseFailureNotificationClaim(store, id)
<1>1. SoundStore(store) /\ Tidy(store) /\ r \in RunId /\ id.run = r
  BY NotifierFields DEF OInv, IInv, Stored, Held
<1>2. \/ NotifierEnds(n, "notified") /\ store' = st
      \/ NotifierEnds(n, "failed") /\ store' = released
  BY NoAbort DEF NotifierSucceeds, Persist, InMemory
<1>3. NoteDropped(store, st, r) /\ Tidy(st)
  BY <1>1, CompleteNotificationEffect, NotificationWritesTidy
<1>4. NoteLeft(n, released)
  BY <1>1, ReleaseNoteTidy, ReleaseNoteFewer, ReleaseOwnNote DEF NoteLeft
<1> HIDE DEF st, released
<1>5. NoteLeft(n, st)
  BY <1>3, DroppedLeft
<1> QED BY <1>2, <1>4, <1>5, NoteLeftHeld

LEMMA NotifierSendsHeld ==
  ASSUME OInv, Held, Faultless, NEW n \in NoteClaim, NotifierSends(n)
  PROVE  Held'
<1> DEFINE id == NotifierId(n)
           r == notifiers[n].run
           st == MarkFailureNotificationPostStarted(store, id)
<1>1. /\ SoundStore(store) /\ Tidy(store) /\ r \in RunId /\ id.run = r /\ UNCHANGED publishers /\ Notifying
  BY NotifierFields DEF OInv, IInv, Stored, Held, NotifierSends
<1>2. store' = st /\ NoteMovesOn(n)
  BY <1>1, NoAbort, NotifierMovesOn DEF NotifierSends, Persist
<1>3. Apart(store, st, r) /\ ClaimsKept(st, r, store.pubClaims[r], store.noteClaims[r]) /\ Tidy(st)
  BY <1>1, MarkPostEffect, NotificationWritesTidy
<1> HIDE DEF st
<1>4. Fewer(store, st)
  BY <1>3, FewerClaims
<1> QED BY <1>1, <1>2, <1>3, <1>4, NoteMovesOnHeld

LEMMA NotifierStepHeld ==
  ASSUME OInv, Held, Faultless, NEW n \in NoteClaim, NotifierStep(n)
  PROVE  Held'
<1>1. Notifying
  BY DEF OInv, IInv
<1>2. CASE UNCHANGED storeVars /\ UNCHANGED publishers /\ \E pc \in {"find", "head", "check"} : NotifierWaits(n, pc)
  BY <1>1, <1>2, NotifierMovesOn, StoreStaysHeld, NoteMovesOnHeld
<1>3. CASE UNCHANGED publishers /\ notifiers[n].pc # "idle" /\ \E refused \in BOOLEAN : NotifierGivesUp(n, refused)
  BY <1>3, NotifierGivesUpHeld
<1>4. CASE UNCHANGED publishers /\ notifiers[n].pc # "idle" /\ NotifierSucceeds(n)
  BY <1>4, NotifierSucceedsHeld
<1>5. CASE NotifierHasToken(n) \/ NotifierHeadVerified(n)
  BY <1>2, <1>5 DEF NotifierHasToken, NotifierHeadVerified
<1>6. CASE NotifierFindsNone(n)
  BY <1>2, <1>3, <1>6 DEF NotifierFindsNone
<1>7. CASE NotifierBlocked(n) \/ NotifierRefused(n) \/ NotifierUnconfirmed(n)
  BY <1>3, <1>7 DEF NotifierBlocked, NotifierRefused, NotifierUnconfirmed
<1>8. CASE NotifierFindsNote(n) \/ NotifierConfirmed(n)
  BY <1>4, <1>8 DEF NotifierFindsNote, NotifierConfirmed
<1> QED BY <1>5, <1>6, <1>7, <1>8, NotifierRejectsHeld, NotifierSendsHeld DEF NotifierStep

(* A call claims a notification that no call holds.                        *)
LEMMA NotifierClaimsHeld ==
  ASSUME OInv, Held, NEW n \in NoteClaim, NEW r \in RunId, NEW payload \in Payload \cup {NoPayload},
         NotifierClaims(n, r, payload), UNCHANGED publishers
  PROVE  Held'
<1> DEFINE run == store.runs[r]
           st == ClaimFailureNotification(store, r, n, payload)
           claim == [by |-> n, session |-> run.session]
           rec == [IdleNotifier EXCEPT
              !.pc = "secret", !.run = r, !.payload = payload, !.session = run.session,
              !.resume = run.note # "none", !.posted = run.postStarted]
<1>1. /\ SoundStore(store) /\ Tidy(store) /\ notifiers[n].pc = "idle" /\ store' = st
      /\ notifiers' = [notifiers EXCEPT ![n] = rec]
  BY DEF OInv, IInv, Stored, Held, NotifierClaims, Persist
<1>2. rec.pc = "secret" /\ rec.run = r
  BY DEF IdleNotifier
<1>3. Apart(store, st, r) /\ ClaimsKept(st, r, store.pubClaims[r], claim) /\ Tidy(st)
  BY <1>1, ClaimNotificationEffect, NotificationWritesTidy
<1>4. claim.by = n
  OBVIOUS
<1> HIDE DEF st, rec, claim
<1>5. notifiers'[n] = rec /\ \A y \in NoteClaim \ {n} : notifiers'[y] = notifiers[y]
  BY <1>1 DEF OInv, IInv, Notifying
<1>6. /\ \A x \in RunId \ {r} : /\ st.pubClaims[x].by \in {store.pubClaims[x].by, NoClaim}
                                /\ st.noteClaims[x].by \in {store.noteClaims[x].by, NoClaim}
      /\ st.noteClaims[r].by \in {n, NoClaim} /\ st.pubClaims[r].by \in {store.pubClaims[r].by, NoClaim}
  BY <1>3, <1>4, NoClaimNames DEF Apart, RunCalm, ClaimsKept
<1>7. \A x \in RunId : store.noteClaims[x].by # n
  BY <1>1 DEF Held, NoteClaimsHeld, Notifies
<1>8. NoteClaimsHeld'
  <2> SUFFICES ASSUME NEW x \in RunId, NEW y \in NoteClaim, st.noteClaims[x].by = y
               PROVE  Notifies(y)' /\ notifiers'[y].run = x
    BY <1>1 DEF NoteClaimsHeld
  <2>1. CASE x = r
    BY <2>1, <1>2, <1>5, <1>6, NullAssumption DEF Notifies
  <2>2. CASE x # r
    <3>1. store.noteClaims[x].by = y
      BY <2>2, <1>6, NullAssumption
    <3> QED BY <3>1, <1>5, <1>7 DEF Held, NoteClaimsHeld, Notifies
  <2> QED BY <2>1, <2>2
<1>9. PubClaimsHeld'
  <2> SUFFICES ASSUME NEW x \in RunId, NEW p \in PublicationClaim, st.pubClaims[x].by = p
               PROVE  Publishes(p)' /\ publishers'[p].run = x
    BY <1>1 DEF PubClaimsHeld
  <2>1. store.pubClaims[x].by = p
    BY <1>6, NullAssumption
  <2> QED BY <2>1 DEF Held, PubClaimsHeld, Publishes
<1> QED BY <1>1, <1>3, <1>8, <1>9 DEF Held

(***************************************************************************)
(* Attempts and the rest                                                   *)
(***************************************************************************)

LEMMA FailsRunTidy ==
  /\ \A st, r, k : Tidy(st) /\ (RunFailed(st, r, k) \/ RunFailureLost(st, r, k) \/ RunFailureRefused(st, r, k))
                   => Tidy(store')
  /\ \A r, k : Tidy(store) /\ FailsRun(r, k) => Tidy(store')
  /\ \A st, r : Tidy(st) /\ FailsPublishedRun(st, r) => Tidy(store')
<1>1. ASSUME NEW st, NEW r, NEW k, Tidy(st), RunFailed(st, r, k) \/ RunFailureLost(st, r, k) \/ RunFailureRefused(st, r, k)
      PROVE  Tidy(store')
  <2>1. CASE RunFailed(st, r, k)
    BY <1>1, <2>1, WritesTidy DEF RunFailed, Persist
  <2>2. CASE RunFailureLost(st, r, k) \/ RunFailureRefused(st, r, k)
    BY <1>1, <2>2 DEF RunFailureLost, RunFailureRefused, Persist
  <2> QED BY <1>1, <2>1, <2>2
<1>2. \A r, k : Tidy(store) /\ FailsRun(r, k) => Tidy(store')
  BY <1>1 DEF FailsRun
<1>3. \A st, r : Tidy(st) /\ FailsPublishedRun(st, r) => Tidy(store')
  BY <1>1 DEF FailsPublishedRun
<1> QED BY <1>1, <1>2, <1>3

LEMMA AttemptSavesTidy ==
  ASSUME Tidy(store), NEW r, NEW st, Tidy(st), NEW pc, AttemptSaves(r, st, pc)
  PROVE  Tidy(store')
BY DEF AttemptSaves, Persist, InMemory

(* Claims apart, an attempt leaves a tidy store.                           *)
LEMMA AttemptStepTidy ==
  ASSUME Tidy(store), NEW r \in RunId, AttemptStep(r)
  PROVE  \/ Tidy(store')
         \/ \E payload \in Payload, p \in PublicationClaim : RuntimeOutput(p, r, payload)
         \/ \E payload \in Payload, n \in NoteClaim : ReportFailure(n, r, payload)
<1>1. \A rec : Tidy(Update(store, r, rec))
  BY WritesTidy
<1>2. \A session, rec : Tidy(UpdateIfCurrent(store, r, session, rec))
  BY WritesTidy
<1>3. Tidy(RejectConfiguration(store, r)) /\ Tidy(Blocked(r))
  BY <1>1, WritesTidy DEF Blocked
<1>4. UNCHANGED storeVars => Tidy(store')
  BY DEF storeVars
<1>5. CASE LoadMisconfigured(r) \/ DirectoryMissing(r)
  BY <1>3, <1>5, AttemptSavesTidy DEF LoadMisconfigured, DirectoryMissing
<1>6. CASE LoadFails(r) \/ LoadHeadChanged(r) \/ LoadSucceeds(r)
  BY <1>1, <1>6, AttemptSavesTidy DEF LoadFails, LoadHeadChanged, LoadSucceeds
<1>7. CASE LoadBlocked(r) \/ BlockedEnds(r)
  BY <1>3, <1>4, <1>7, AttemptSavesTidy DEF LoadBlocked, BlockedEnds
<1>8. CASE BlockedProceeds(r) \/ BlockedHeadChanged(r)
  BY <1>2, <1>4, <1>8, AttemptSavesTidy DEF BlockedProceeds, BlockedHeadChanged
<1>9. CASE SessionCreated(r)
  <2> DEFINE run == store.runs[r]
             created == Update(store, r, [run EXCEPT !.status = "running", !.session = TRUE, !.reason = "none"])
             patched == IF RuntimePatchAllowed(run) THEN created ELSE store
  <2>1. Tidy(patched)
    BY <1>1
  <2>2. Persist(patched, 0) \/ FailsRun(r, 1)
    BY <1>9 DEF SessionCreated
  <2> HIDE DEF patched
  <2> QED BY <2>1, <2>2, FailsRunTidy DEF Persist
<1>10. CASE ResponseAccepted(r)
  <2> DEFINE run == store.runs[r]
             patched == IF ResponsePatchAllowed(run)
                        THEN Update(store, r, [run EXCEPT !.status = "running"]) ELSE store
  <2>1. Tidy(patched)
    BY <1>1
  <2>2. Persist(patched, 0) \/ FailsRun(r, 1)
    BY <1>10 DEF ResponseAccepted
  <2> HIDE DEF patched
  <2> QED BY <2>1, <2>2, FailsRunTidy DEF Persist
<1>11. CASE StartFails(r) \/ SessionFails(r)
  BY <1>11, FailsRunTidy DEF StartFails, SessionFails
<1>12. CASE RuntimeOutputInvalid(r)
  <2> DEFINE run == store.runs[r]
             considered == IF PublicationConsidered(run)
                           THEN UpdateIfCurrent(store, r, run.session, WithStatus(run, "failed", "other"))
                           ELSE store
  <2>1. Tidy(considered)
    BY <1>2
  <2>2. FailsPublishedRun(considered, r) \/ FailsRun(r, 1)
    BY <1>12 DEF RuntimeOutputInvalid
  <2> HIDE DEF considered
  <2> QED BY <2>1, <2>2, FailsRunTidy
<1>13. CASE PublicationEnds(r)
  BY <1>4, <1>13, FailsRunTidy DEF PublicationEnds
<1>14. ASSUME NEW payload \in Payload, RuntimeOutputRefused(r, payload) \/ ReportRefused(r, payload)
       PROVE  Tidy(store')
  BY <1>14, FailsRunTidy DEF RuntimeOutputRefused, ReportRefused, InMemory
<1> QED BY <1>5, <1>6, <1>7, <1>8, <1>9, <1>10, <1>11, <1>12, <1>13, <1>14 DEF AttemptStep

LEMMA CalmEndFewer ==
  ASSUME CalmEnd
  PROVE  Fewer(store, store')
BY FewerClaims DEF CalmEnd, EndsWith

LEMMA AttemptStepHeld ==
  ASSUME OInv, Held, NEW r \in RunId, AttemptStep(r)
  PROVE  Held'
<1>1. ASSUME NEW payload \in Payload, NEW p \in PublicationClaim, RuntimeOutput(p, r, payload) PROVE Held'
  BY <1>1, PublisherClaimsHeld DEF RuntimeOutput
<1>2. ASSUME NEW payload \in Payload, NEW n \in NoteClaim, ReportFailure(n, r, payload) PROVE Held'
  BY <1>2, NotifierClaimsHeld DEF ReportFailure
<1>3. CASE Tidy(store') /\ CalmEnd /\ CallsKept
  BY <1>3, CalmEndFewer, CallsStayHeld DEF CallsKept
<1> QED BY <1>1, <1>2, <1>3, AttemptStepTidy, AttemptStepCalm DEF Held

(* A new run has no claim.                                                 *)
LEMMA CreationsHeld ==
  ASSUME OInv, Held, (\E t \in Trigger : Deliver(t)) \/ (\E r \in RunId : Retry(r))
  PROVE  Held'
<1>1. SoundStore(store) /\ Tidy(store)
  BY DEF OInv, IInv, Stored, Held
<1>2. ASSUME NEW t \in Trigger, Deliver(t) PROVE Held'
  <2>1. /\ {"accepted", "rejected"} \subseteq ActiveStatus \cup TerminalStatus
        /\ {"none", "configuration", "policy"} \subseteq Reason
    BY DEF ActiveStatus, TerminalStatus, Reason
  <2>2. PICK status \in ActiveStatus \cup TerminalStatus, reason \in Reason :
          store' = Create(store, t, status, reason)
    BY <1>2, <2>1 DEF Deliver, Persist
  <2> DEFINE r == NextRunId(store)
             st == Create(store, t, status, reason)
  <2>3. r \in RunId /\ UNCHANGED <<publishers, notifiers>>
    BY <1>2 DEF Deliver
  <2>4. Writes(store, st, r, NewRun(t, 1, status, reason), store.pubClaims[r], store.noteClaims[r]) /\ Tidy(st)
    BY <1>1, <2>3, CreateWrites, WritesTidy
  <2> HIDE DEF st
  <2>5. Fewer(store, st)
    BY <2>3, <2>4, CreatedFewer
  <2> QED BY <2>2, <2>3, <2>4, <2>5, CallsStayHeld DEF st
<1>3. ASSUME NEW r \in RunId, Retry(r) PROVE Held'
  <2> DEFINE x == NextRunId(store)
             st == CreateRetryAttempt(store, r)
  <2>1. /\ x \in RunId /\ RetryAttemptAllowed(store, r) /\ store' = st
        /\ UNCHANGED <<publishers, notifiers>>
    BY <1>3 DEF Retry, Persist
  <2>2. /\ Writes(store, st, x, NewRun(store.runs[r].trigger, store.runs[r].attempt + 1, "accepted", "none"),
                  store.pubClaims[x], store.noteClaims[x])
        /\ Tidy(st)
    BY <1>1, <2>1, CreateRetryAttemptWrites, WritesTidy
  <2> HIDE DEF st
  <2>3. Fewer(store, st)
    BY <2>1, <2>2, CreatedFewer
  <2> QED BY <2>1, <2>2, <2>3, CallsStayHeld
<1> QED BY <1>2, <1>3

LEMMA PublishInvalidHeld ==
  ASSUME OInv, Held, NEW r \in RunId, ManagementPublishInvalid(r)
  PROVE  Held'
<1> DEFINE st == UpdateIfCurrent(store, r, store.runs[r].session, WithStatus(store.runs[r], "failed", "other"))
<1>1. /\ SoundStore(store) /\ Tidy(store) /\ "failed" \in TerminalStatus /\ "other" \in Reason
      /\ store' = st /\ UNCHANGED <<publishers, notifiers>>
  BY DEF OInv, IInv, Stored, Held, TerminalStatus, Reason, ManagementPublishInvalid, ResultInvalid, Persist
<1>2. CalmTo(store, st) /\ Tidy(st)
  BY <1>1, UpdateStatusCalm, WritesTidy
<1> HIDE DEF st
<1>3. Fewer(store, st)
  BY <1>2, FewerClaims
<1> QED BY <1>1, <1>2, <1>3, CallsStayHeld

LEMMA LeaseExpiresHeld ==
  ASSUME OInv, Held, NEW r \in RunId, LeaseExpires(r)
  PROVE  Held'
<1> DEFINE runs == [store.runs EXCEPT ![r].leaseOver = TRUE]
<1>1. /\ store.runs \in [RunId -> Run] /\ Tidy(store) /\ UNCHANGED <<publishers, notifiers>>
      /\ store' = [store EXCEPT !.runs = runs] /\ store \in Store
  BY DEF OInv, IInv, Stored, SoundStore, Store, Held, LeaseExpires
<1>2. \A x \in RunId : SameClaims(runs[x], store.runs[x]) /\ runs[x].noteBy = store.runs[x].noteBy
  <2>1. \A x \in RunId : SameClaims(runs[x], store.runs[x])
    BY <1>1, LeaseOverKeepsClaims
  <2>2. \A run \in Run : [run EXCEPT !.leaseOver = TRUE].noteBy = run.noteBy
    BY DEF Run
  <2>3. \A x \in RunId : store.runs[x] \in Run
                     /\ runs[x] = IF x = r THEN [store.runs[x] EXCEPT !.leaseOver = TRUE] ELSE store.runs[x]
    BY <1>1
  <2> HIDE DEF runs
  <2> QED BY <2>1, <2>2, <2>3
<1> HIDE DEF runs
<1>3. /\ store'.runs = runs /\ store'.pubClaims = store.pubClaims /\ store'.noteClaims = store.noteClaims
      /\ Shaped(store')
  BY <1>1 DEF Store, Tidy, Shaped
<1>4. Tidy(store')
  BY <1>1, <1>2, <1>3 DEF Tidy, SameClaims, PublicationClaimMatches, NoteClaimMatches
<1>5. Fewer(store, store')
  BY <1>3 DEF Fewer
<1> QED BY <1>1, <1>4, <1>5, CallsStayHeld

(* The file has no claims.                                                 *)
LEMMA LoadedTidy ==
  ASSUME NEW d
  PROVE  Tidy(Loaded(d)) /\ \A x \in RunId : Loaded(d).pubClaims[x].by = NoClaim /\ Loaded(d).noteClaims[x].by = NoClaim
<1> DEFINE runs == [r \in RunId |-> Normalized(d.runs[r])]
           new == [EmptyStore EXCEPT !.runs = runs, !.sequence = d.sequence]
<1>1. Loaded(d) = new
  BY DEF Loaded
<1> HIDE DEF runs
<1>2. /\ Shaped(new) /\ \A x \in RunId : new.pubClaims[x] = NoPublicationClaim /\ new.noteClaims[x] = NoNoteClaim
  BY DEF EmptyStore, Shaped
<1> HIDE DEF new
<1> QED BY <1>1, <1>2, NoClaimNames DEF Tidy

LEMMA CrashHeld ==
  ASSUME Crash
  PROVE  Held'
<1>1. /\ Tidy(store') /\ \A x \in RunId : store'.pubClaims[x].by = NoClaim /\ store'.noteClaims[x].by = NoClaim
  BY LoadedTidy DEF Crash
<1> QED BY <1>1, NullAssumption DEF Held, PubClaimsHeld, NoteClaimsHeld

(* GitLab takes a comment: the store and the calls stay.                   *)
LEMMA GitLabHeld ==
  ASSUME OInv, Held,
         \/ \E p \in PublicationClaim : GitLabTakesResult(p)
         \/ \E n \in NoteClaim : GitLabTakesNote(n)
         \/ \E r \in RunId : GitLabTakesBlocked(r)
         \/ \E q \in late : LateArrival(q)
  PROVE  Held'
<1>1. Publishing /\ Notifying
  BY DEF OInv, IInv
<1>2. ASSUME NEW p \in PublicationClaim, GitLabTakesResult(p) PROVE Held'
  <2>1. MovesOn(p) /\ UNCHANGED storeVars /\ UNCHANGED notifiers
    BY <1>1, <1>2, PublisherMovesOn DEF GitLabTakesResult
  <2> QED BY <2>1, StoreStaysHeld, MovesOnHeld
<1>3. ASSUME NEW n \in NoteClaim, GitLabTakesNote(n) PROVE Held'
  <2>1. NoteMovesOn(n) /\ UNCHANGED storeVars /\ UNCHANGED publishers
    BY <1>1, <1>3, NotifierMovesOn DEF GitLabTakesNote
  <2> QED BY <2>1, StoreStaysHeld, NoteMovesOnHeld
<1>4. CASE (\E r \in RunId : GitLabTakesBlocked(r)) \/ (\E q \in late : LateArrival(q))
  BY <1>4, StoreStaysHeld, CallsStayHeld DEF GitLabTakesBlocked, LateArrival
<1> QED BY <1>2, <1>3, <1>4

LEMMA NextHeld ==
  ASSUME OInv, Held, Faultless, [Next]_vars
  PROVE  Held'
<1>1. CASE UNCHANGED vars
  BY <1>1, StoreStaysHeld, CallsStayHeld DEF vars, storeVars
<1>2. ASSUME NEW r \in RunId, NEW p \in PublicationClaim, NEW payload \in Payload, ManagementPublish(p, r, payload)
      PROVE Held'
  BY <1>2, PublisherClaimsHeld DEF ManagementPublish
<1>3. ASSUME NEW r \in RunId, NEW n \in NoteClaim, RecoverNotification(n, r) PROVE Held'
  <2>1. store.runs[r].notePayload \in Payload \cup {NoPayload}
    BY StoreFields DEF OInv, IInv, Stored, SoundStore, Store, Run
  <2> QED BY <1>3, <2>1, NotifierClaimsHeld DEF RecoverNotification
<1> QED BY <1>1, <1>2, <1>3, AttemptStepHeld, PublisherStepHeld, NotifierStepHeld, CreationsHeld, PublishInvalidHeld,
           LeaseExpiresHeld, GitLabHeld, CrashHeld DEF Next, Management, Environment, Server

(* Saves that failed are never forgotten.                                  *)
FaultsGrew == diskFaults' >= diskFaults

LEMMA AllowedFaultsGrow ==
  ASSUME diskFaults \in Nat
  PROVE  \A n \in Nat : FaultsAllow(n) => FaultsGrew
BY DEF FaultsAllow, FaultsGrew

LEMMA SavesGrow ==
  ASSUME diskFaults \in Nat
  PROVE  \A st, n : n \in Nat /\ (Persist(st, n) \/ InMemory(st, n)) => FaultsGrew
BY AllowedFaultsGrow DEF Persist, InMemory

LEMMA NoSaveNoFault ==
  ASSUME diskFaults \in Nat
  PROVE  UNCHANGED storeVars \/ UNCHANGED diskFaults => FaultsGrew
BY DEF storeVars, FaultsGrew

LEMMA FailureGrows ==
  ASSUME diskFaults \in Nat, NEW st, NEW r \in RunId, NEW n \in Nat,
         \/ RunFailed(st, r, n) \/ RunFailureLost(st, r, n) \/ RunFailureRefused(st, r, n)
         \/ FailsRun(r, n) \/ FailsPublishedRun(st, r)
  PROVE  FaultsGrew
<1>1. n + 1 \in Nat /\ {0, 1, 2} \subseteq Nat
  OBVIOUS
<1>2. \A s, k : k \in Nat /\ (RunFailed(s, r, k) \/ RunFailureLost(s, r, k) \/ RunFailureRefused(s, r, k)) => FaultsGrew
  BY SavesGrow DEF RunFailed, RunFailureLost, RunFailureRefused
<1> QED BY <1>1, <1>2 DEF FailsRun, FailsPublishedRun

LEMMA AttemptFaultsGrow ==
  ASSUME diskFaults \in Nat, NEW r \in RunId, AttemptStep(r)
  PROVE  FaultsGrew
<1>1. {0, 1} \subseteq Nat
  OBVIOUS
<1>2. \A st, pc : AttemptSaves(r, st, pc) => FaultsGrew
  BY <1>1, SavesGrow DEF AttemptSaves
<1>3. \A n \in Nat : FailsRun(r, n) => FaultsGrew
  BY FailureGrows
<1>4. \A st : FailsPublishedRun(st, r) => FaultsGrew
  BY <1>1, FailureGrows
<1>5. CASE LoadMisconfigured(r) \/ LoadFails(r) \/ LoadHeadChanged(r) \/ LoadSucceeds(r) \/ LoadBlocked(r)
  BY <1>2, <1>5, NoSaveNoFault DEF LoadMisconfigured, LoadFails, LoadHeadChanged, LoadSucceeds, LoadBlocked
<1>6. CASE BlockedProceeds(r) \/ BlockedHeadChanged(r) \/ BlockedEnds(r) \/ DirectoryMissing(r)
  BY <1>2, <1>6, NoSaveNoFault DEF BlockedProceeds, BlockedHeadChanged, BlockedEnds, DirectoryMissing
<1>7. CASE SessionCreated(r) \/ StartFails(r) \/ ResponseAccepted(r) \/ SessionFails(r)
  BY <1>1, <1>3, <1>7, SavesGrow DEF SessionCreated, StartFails, ResponseAccepted, SessionFails
<1>8. CASE RuntimeOutputInvalid(r) \/ PublicationEnds(r)
  BY <1>1, <1>3, <1>4, <1>8, NoSaveNoFault DEF RuntimeOutputInvalid, PublicationEnds
<1>9. ASSUME NEW payload \in Payload, RuntimeOutputRefused(r, payload) \/ ReportRefused(r, payload) PROVE FaultsGrew
  BY <1>1, <1>3, <1>4, <1>9, SavesGrow DEF RuntimeOutputRefused, ReportRefused
<1>10. ASSUME NEW payload \in Payload, NEW p \in PublicationClaim, RuntimeOutput(p, r, payload) PROVE FaultsGrew
  BY <1>1, <1>10, SavesGrow DEF RuntimeOutput, PublisherClaims
<1>11. ASSUME NEW payload \in Payload, NEW n \in NoteClaim, ReportFailure(n, r, payload) PROVE FaultsGrew
  BY <1>1, <1>11, SavesGrow DEF ReportFailure, NotifierClaims
<1> QED BY <1>5, <1>6, <1>7, <1>8, <1>9, <1>10, <1>11 DEF AttemptStep

LEMMA PublisherFaultsGrow ==
  ASSUME diskFaults \in Nat, NEW p \in PublicationClaim, PublisherStep(p)
  PROVE  FaultsGrew
<1>1. {0, 1, 2} \subseteq Nat /\ 0 + 1 = 1 /\ 1 + 1 = 2
  OBVIOUS
<1>2. \A n \in Nat : PublisherFails(p, n) => FaultsGrew
  <2>1. \A n \in Nat : n + 1 \in Nat
    OBVIOUS
  <2> QED BY <2>1, SavesGrow DEF PublisherFails
<1>3. CASE \/ PublisherHasToken(p) \/ PublisherHeadVerified(p) \/ PublisherSends(p)
           \/ PublisherConfirmed(p) \/ PublisherPositionRefused(p)
  BY <1>3, NoSaveNoFault DEF PublisherHasToken, PublisherHeadVerified, PublisherSends, PublisherConfirmed,
     PublisherPositionRefused
<1>4. CASE PublisherUnprepared(p) \/ PublisherHeadChanged(p) \/ PublisherReconciles(p) \/ PublisherCheckRejects(p)
  BY <1>1, <1>4, SavesGrow DEF PublisherUnprepared, PreparationFails, PublisherHeadChanged, PublisherReconciles,
     PublisherCheckRejects
<1>5. CASE \/ PublisherReconcileFails(p) \/ PublisherCheckFails(p) \/ PublisherUnconfirmed(p)
           \/ PublisherRecordFails(p) \/ PublisherFinishFails(p)
  BY <1>1, <1>2, <1>5 DEF PublisherReconcileFails, PublisherCheckFails, PublisherUnconfirmed, PublisherRecordFails,
     PublisherFinishFails
<1>6. CASE PublisherRecords(p)
  BY <1>1, <1>6, SavesGrow DEF PublisherRecords
<1>7. ASSUME NEW status \in {"blocked", "succeeded", "failed"}, PublisherFinishes(p, status) PROVE FaultsGrew
  BY <1>1, <1>7, SavesGrow DEF PublisherFinishes
<1> QED BY <1>3, <1>4, <1>5, <1>6, <1>7 DEF PublisherStep

LEMMA NotifierFaultsGrow ==
  ASSUME diskFaults \in Nat, NEW n \in NoteClaim, NotifierStep(n)
  PROVE  FaultsGrew
<1>1. {0, 1} \subseteq Nat
  OBVIOUS
<1>2. \A k \in Nat : NotifierAborts(n, k) => FaultsGrew
  <2>1. \A k \in Nat : k + 1 \in Nat
    OBVIOUS
  <2> QED BY <2>1, SavesGrow DEF NotifierAborts
<1>3. \A b : NotifierGivesUp(n, b) => FaultsGrew
  BY <1>1, <1>2, SavesGrow DEF NotifierGivesUp
<1>4. NotifierRejects(n) \/ NotifierSucceeds(n) => FaultsGrew
  BY <1>1, <1>2, SavesGrow DEF NotifierRejects, NotifierSucceeds
<1>5. CASE NotifierHasToken(n) \/ NotifierHeadVerified(n) \/ NotifierSends(n)
  BY <1>1, <1>2, <1>5, SavesGrow, NoSaveNoFault DEF NotifierHasToken, NotifierHeadVerified, NotifierSends
<1>6. CASE \/ NotifierFindsNote(n) \/ NotifierFindsNone(n) \/ NotifierBlocked(n) \/ NotifierHeadChanged(n)
           \/ NotifierConfirmed(n) \/ NotifierRefused(n) \/ NotifierUnconfirmed(n)
  BY <1>3, <1>4, <1>6, NoSaveNoFault DEF NotifierFindsNote, NotifierFindsNone, NotifierBlocked, NotifierHeadChanged,
     NotifierConfirmed, NotifierRefused, NotifierUnconfirmed
<1> QED BY <1>5, <1>6 DEF NotifierStep

LEMMA FaultsGrow ==
  ASSUME diskFaults \in Nat, [Next]_vars
  PROVE  FaultsGrew
<1>1. {0, 1} \subseteq Nat
  OBVIOUS
<1>2. CASE UNCHANGED vars
  BY <1>2, NoSaveNoFault DEF vars
<1>3. CASE Management
  BY <1>1, <1>3, SavesGrow DEF Management, Retry, ManagementPublishInvalid, ResultInvalid, ManagementPublish,
     PublisherClaims, RecoverNotification, NotifierClaims
<1>4. CASE Environment
  BY <1>1, <1>4, SavesGrow, NoSaveNoFault DEF Environment, Deliver, LeaseExpires, GitLabTakesBlocked, GitLabTakesResult,
     GitLabTakesNote, LateArrival, Crash
<1>5. CASE Server
  BY <1>5, AttemptFaultsGrow, PublisherFaultsGrow, NotifierFaultsGrow DEF Server
<1> QED BY <1>2, <1>3, <1>4, <1>5 DEF Next

(* There are no claims to begin with.                                      *)
LEMMA InitHeld ==
  ASSUME Init
  PROVE  Held
<1>1. /\ Shaped(store)
      /\ \A x \in RunId : store.pubClaims[x] = NoPublicationClaim /\ store.noteClaims[x] = NoNoteClaim
  BY DEF Init, EmptyStore, Shaped
<1> QED BY <1>1, NoClaimNames, NullAssumption DEF Held, Tidy, PubClaimsHeld, NoteClaimsHeld

(* For all values of the constants: as long as no save has failed, every   *)
(* claim in the store is named by its run and held by a call that is under *)
(* way, through lost answers, retries, pruning and crashes.                *)
THEOREM HeldInvariance == Spec => []HeldInv
<1>1. Init => HeldInv
  BY InitHeld DEF HeldInv
<1>2. OInv /\ HeldInv /\ [Next]_vars => HeldInv'
  <2> SUFFICES ASSUME OInv, HeldInv, [Next]_vars, diskFaults' = 0
               PROVE  Held'
    BY DEF HeldInv
  <2>1. diskFaults \in Nat
    BY EnvironmentAssumption DEF OInv, IInv, Stored
  <2>2. diskFaults = 0
    BY <2>1, FaultsGrow DEF FaultsGrew
  <2> QED BY <2>2, NextHeld DEF HeldInv, Faultless
<1> QED BY <1>1, <1>2, OutcomeInvariance, PTL DEF Spec

(* As long as no save has failed, an active claim belongs to a call that   *)
(* is still under way: no path through a publication or a notification     *)
(* ends the call and leaves its claim to block the run for ever.  A save   *)
(* that fails while a call gives up does leave one, until the restart.     *)
THEOREM ClaimsAreHeld == Spec => [](diskFaults = 0 => ClaimIsHeld)
<1>1. HeldInv => (diskFaults = 0 => ClaimIsHeld)
  BY DEF HeldInv, Held, PubClaimsHeld, NoteClaimsHeld, Publishes, Notifies, ClaimIsHeld
<1> QED BY <1>1, HeldInvariance, PTL

(***************************************************************************)
(* Only the latest attempt speaks                                          *)
(***************************************************************************)

(* A later run of the trigger of r is there.                               *)
Superseded(runs, r) ==
  \E x \in RunId : r < x /\ runs[x].status # "absent" /\ runs[x].trigger = runs[r].trigger

(* The run is over and has said nothing.                                   *)
Silent(run) == run.status \in TerminalStatus /\ Mute(run)

(* The changes could not be loaded for now.                                *)
Transient(run) == run.status = "failed" /\ run.reason = "load_transient"

(* A run that is over and may be tried again.                              *)
Replaceable(run) == Transient(run) \/ (run.status = "rejected" /\ run.reason = "configuration")

LoadingPc == {"loading", "blockedSecret", "blockedHead", "blockedCheck", "blockedSent"}

(* While its changes are loaded a run cannot be published, and nobody is   *)
(* at work on a run whose changes could not be loaded for now.             *)
LoadFits(run, pc) ==
  /\ pc \in LoadingPc => Mute(run) /\ (run.status = "absent" \/ ~run.context)
  /\ Transient(run) => pc \in {"none", "done"}

(* Later runs of a trigger have higher attempt numbers.                    *)
Ordered(runs) ==
  \A a, b \in RunId :
    /\ a < b /\ runs[a].status # "absent" /\ runs[b].status # "absent"
    /\ runs[a].trigger = runs[b].trigger
    => runs[a].attempt < runs[b].attempt

LastSpeaks(runs) ==
  /\ Ordered(runs)
  /\ \A r \in RunId : runs[r].status # "absent" /\ Superseded(runs, r) => Silent(runs[r])
  /\ \A r \in RunId : Replaceable(runs[r]) \/ runs[r].status = "absent" => Mute(runs[r])

InOrder(runs, att) == LastSpeaks(runs) /\ \A r \in RunId : LoadFits(runs[r], att[r].pc)

LatestInv == InOrder(store.runs, attempts) /\ LastSpeaks(disk.runs)

(* The runs of new are those of st but for r, which is rec: ranks of the   *)
(* last update aside, and unless they were pruned.                         *)
Rewrites(st, new, r, rec) ==
  \A x \in RunId : Gone(new.runs[x]) \/ Alike(new.runs[x], IF x = r THEN rec ELSE st.runs[x])

LEMMA PutRewrites ==
  ASSUME NEW st, NEW put, NEW r, NEW rec, NEW c, NEW d, NEW n, PutOf(st, put, r, rec, c, d, n)
  PROVE  Rewrites(st, put, r, rec) /\ \A x : Rewrites(st, Saved(put, x), r, rec)
<1>1. put \in Store
  BY DEF PutOf
<1>2. \A x : SavedOf(put, Saved(put, x))
  BY <1>1, SavedKeeps
<1>3. Rewrites(st, put, r, rec)
  BY DEF PutOf, Rewrites
<1>4. ASSUME NEW new, SavedOf(put, new) PROVE Rewrites(st, new, r, rec)
  BY <1>4 DEF PutOf, SavedOf, Rewrites
<1> QED BY <1>2, <1>3, <1>4

(* What this part of the invariant sees of a run.                          *)
AlikeHere(a, b) ==
  /\ a.trigger = b.trigger /\ a.attempt = b.attempt /\ a.status = b.status /\ a.reason = b.reason
  /\ a.context = b.context
  /\ a.pub = "none" <=> b.pub = "none"
  /\ a.note = "none" <=> b.note = "none"

LEMMA AlikeIsHere == \A a, b : Alike(a, b) => AlikeHere(a, b)
BY DEF Alike, AlikeHere

LEMMA AlikeHereSame ==
  ASSUME NEW a, NEW b, AlikeHere(a, b)
  PROVE  /\ Silent(a) <=> Silent(b)
         /\ Replaceable(a) <=> Replaceable(b)
         /\ \A pc : LoadFits(a, pc) <=> LoadFits(b, pc)
BY DEF AlikeHere, Silent, Mute, Replaceable, Transient, LoadFits

LEMMA GoneFits ==
  ASSUME NEW a, Gone(a)
  PROVE  ~Replaceable(a) /\ Mute(a) /\ \A pc : LoadFits(a, pc)
BY DEF Gone, Mute, Replaceable, Transient, LoadFits

(* Runs that are seen as they were, or are gone, stay in order.            *)
LEMMA AlikeInOrder ==
  ASSUME NEW runs, NEW new, LastSpeaks(runs),
         \A x \in RunId : Gone(new[x]) \/ AlikeHere(new[x], runs[x])
  PROVE  /\ LastSpeaks(new)
         /\ \A att : InOrder(runs, att) => InOrder(new, att)
<1>1. ASSUME NEW x \in RunId, new[x].status # "absent"
      PROVE  AlikeHere(new[x], runs[x])
  BY <1>1 DEF Gone
<1>2. Ordered(new)
  BY <1>1 DEF Ordered, LastSpeaks, AlikeHere
<1>3. ASSUME NEW x \in RunId, new[x].status # "absent", Superseded(new, x) PROVE Silent(new[x])
  <2>1. Superseded(runs, x) /\ runs[x].status # "absent"
    BY <1>1, <1>3 DEF Superseded, AlikeHere
  <2> QED BY <1>1, <1>3, <2>1, AlikeHereSame DEF LastSpeaks
<1>4. ASSUME NEW x \in RunId, Replaceable(new[x]) \/ new[x].status = "absent" PROVE Mute(new[x])
  <2> SUFFICES ASSUME AlikeHere(new[x], runs[x]) PROVE Mute(new[x])
    BY GoneFits
  <2> QED BY <1>4, AlikeHereSame DEF LastSpeaks, AlikeHere, Mute
<1>5. LastSpeaks(new)
  BY <1>2, <1>3, <1>4 DEF LastSpeaks
<1>6. ASSUME NEW att, InOrder(runs, att), NEW x \in RunId PROVE LoadFits(new[x], att[x].pc)
  BY <1>6, GoneFits, AlikeHereSame DEF InOrder
<1> QED BY <1>5, <1>6 DEF InOrder

(* What may be written of the run r.                                       *)
Fitting(runs, att, r, rec) ==
  /\ rec.trigger = runs[r].trigger /\ rec.attempt = runs[r].attempt
  /\ rec.status = "absent" <=> runs[r].status = "absent"
  /\ runs[r].status # "absent" /\ Superseded(runs, r) => Silent(rec)
  /\ Replaceable(rec) \/ rec.status = "absent" => Mute(rec)
  /\ LoadFits(rec, att[r].pc)

LEMMA RewritesInOrder ==
  ASSUME NEW st, NEW new, NEW att, NEW r \in RunId, NEW rec,
         InOrder(st.runs, att), Rewrites(st, new, r, rec), Fitting(st.runs, att, r, rec)
  PROVE  InOrder(new.runs, att)
<1> DEFINE old == st.runs
           runs == [x \in RunId |-> IF x = r THEN rec ELSE old[x]]
<1> HIDE DEF old
<1>1. \A x \in RunId : /\ runs[x] = IF x = r THEN rec ELSE old[x]
                       /\ runs[x].trigger = old[x].trigger /\ runs[x].attempt = old[x].attempt
                       /\ runs[x].status = "absent" <=> old[x].status = "absent"
  BY DEF Fitting, old
<1> HIDE DEF runs
<1>2. InOrder(old, att) /\ Fitting(old, att, r, rec)
  BY DEF old
<1>3. Ordered(runs)
  BY <1>1, <1>2 DEF InOrder, LastSpeaks, Ordered
<1>4. \A x \in RunId : Superseded(runs, x) <=> Superseded(old, x)
  BY <1>1 DEF Superseded
<1>5. LastSpeaks(runs)
  BY <1>1, <1>2, <1>3, <1>4 DEF InOrder, LastSpeaks, Fitting
<1>6. InOrder(runs, att)
  BY <1>1, <1>2, <1>5 DEF InOrder, Fitting
<1>7. \A x \in RunId : Gone(new.runs[x]) \/ AlikeHere(new.runs[x], runs[x])
  BY <1>1, AlikeIsHere DEF Rewrites, old
<1> QED BY <1>5, <1>6, <1>7, AlikeInOrder

(* A run that says something is the last of its trigger.                   *)
LEMMA SpeakerIsLast ==
  ASSUME NEW runs, LastSpeaks(runs), NEW r \in RunId, ~Mute(runs[r])
  PROVE  runs[r].status # "absent" /\ ~Superseded(runs, r) /\ ~Replaceable(runs[r])
BY DEF LastSpeaks, Silent

LEMMA LatestIsLast ==
  ASSUME NEW st \in Store, LastSpeaks(st.runs), NEW r \in RunId, IsLatest(st, r), st.runs[r].status # "absent"
  PROVE  ~Superseded(st.runs, r)
<1> SUFFICES ASSUME NEW x \in RunId, r < x, st.runs[x].status # "absent", st.runs[x].trigger = st.runs[r].trigger
             PROVE  FALSE
  BY DEF Superseded
<1>1. LaterAttempt(st.runs[r], st.runs[x])
  BY DEF IsLatest, AttemptsOf, Exists, RunId
<1>2. st.runs[r].attempt < st.runs[x].attempt
  BY DEF LastSpeaks, Ordered
<1>3. st.runs[r].attempt \in Nat /\ st.runs[x].attempt \in Nat
  BY BoundsAssumption DEF Store, Run
<1> QED BY <1>1, <1>2, <1>3 DEF LaterAttempt

(* A run is said to be the latest by the store if no later one is there.   *)
LEMMA LastIsLatest ==
  ASSUME NEW st \in Store, LastSpeaks(st.runs), NEW r \in RunId, ~Superseded(st.runs, r), st.runs[r].status # "absent"
  PROVE  IsLatest(st, r)
<1> SUFFICES ASSUME NEW x \in RunId, x # r, st.runs[x].status # "absent", st.runs[x].trigger = st.runs[r].trigger
             PROVE  LaterAttempt(st.runs[r], st.runs[x])
  BY DEF IsLatest, AttemptsOf, Exists
<1>1. x < r
  BY BoundsAssumption DEF Superseded, RunId
<1>2. st.runs[x].attempt < st.runs[r].attempt
  BY <1>1 DEF LastSpeaks, Ordered
<1>3. st.runs[r].attempt \in Nat /\ st.runs[x].attempt \in Nat
  BY BoundsAssumption DEF Store, Run
<1> QED BY <1>2, <1>3 DEF LaterAttempt

LEMMA WriteForms ==
  ASSUME NEW st, SoundStore(st), NEW r \in RunId, NEW rec \in Run
  PROVE  /\ Rewrites(st, Saved(Put(st, r, rec), r), r, rec)
         /\ Rewrites(st, WithoutPublicationClaim(st, r, rec), r, rec)
         /\ Rewrites(st, Saved(WithoutPublicationClaim(st, r, rec), r), r, rec)
         /\ Rewrites(st, Saved(WithoutNoteClaim(st, r, rec), r), r, rec)
         /\ \A c \in PublicationClaims : Rewrites(st, Saved([Put(st, r, rec) EXCEPT !.pubClaims[r] = c], r), r, rec)
         /\ \A d \in NoteClaims : Rewrites(st, Saved([Put(st, r, rec) EXCEPT !.noteClaims[r] = d], r), r, rec)
         /\ \A n \in 0..MaxRuns : Rewrites(st, Saved([Put(st, r, rec) EXCEPT !.sequence = n], r), r, rec)
<1>1. st \in Store
  BY DEF SoundStore
<1>2. PutOf(st, Put(st, r, rec), r, rec, st.pubClaims[r], st.noteClaims[r], st.sequence)
  BY <1>1, PutForms
<1>3. ASSUME NEW c \in PublicationClaims
      PROVE  LET put == [Put(st, r, rec) EXCEPT !.pubClaims[r] = c]
             IN  Rewrites(st, put, r, rec) /\ Rewrites(st, Saved(put, r), r, rec)
  <2>1. PutOf(st, [Put(st, r, rec) EXCEPT !.pubClaims[r] = c], r, rec, c, st.noteClaims[r], st.sequence)
    BY <1>1, PutForms
  <2> QED BY <2>1, PutRewrites
<1>4. ASSUME NEW d \in NoteClaims
      PROVE  Rewrites(st, Saved([Put(st, r, rec) EXCEPT !.noteClaims[r] = d], r), r, rec)
  <2>1. PutOf(st, [Put(st, r, rec) EXCEPT !.noteClaims[r] = d], r, rec, st.pubClaims[r], d, st.sequence)
    BY <1>1, PutForms
  <2> QED BY <2>1, PutRewrites
<1>5. ASSUME NEW n \in 0..MaxRuns
      PROVE  Rewrites(st, Saved([Put(st, r, rec) EXCEPT !.sequence = n], r), r, rec)
  <2>1. PutOf(st, [Put(st, r, rec) EXCEPT !.sequence = n], r, rec, st.pubClaims[r], st.noteClaims[r], n)
    BY <1>1, PutForms
  <2> QED BY <2>1, PutRewrites
<1>6. Rewrites(st, Saved(Put(st, r, rec), r), r, rec)
  BY <1>2, PutRewrites
<1> QED BY <1>3, <1>4, <1>5, <1>6, NoClaimTypes DEF WithoutPublicationClaim, WithoutNoteClaim

(* update, with a record that says no more than the run did.               *)
LEMMA UpdateInOrder ==
  ASSUME NEW st, SoundStore(st), NEW att, InOrder(st.runs, att), NEW r \in RunId, NEW rec \in Run,
         rec.trigger = st.runs[r].trigger, rec.attempt = st.runs[r].attempt,
         rec.pub = st.runs[r].pub, rec.note = st.runs[r].note, rec.status # "absent",
         UpdateAllowed(st.runs[r], rec) => (Replaceable(rec) => Mute(rec)) /\ LoadFits(rec, att[r].pc)
  PROVE  InOrder(Update(st, r, rec).runs, att)
<1> SUFFICES ASSUME UpdateAllowed(st.runs[r], rec)
             PROVE  InOrder(Update(st, r, rec).runs, att)
  BY DEF Update
<1> DEFINE new == WithActiveLease(rec)
           after == Saved(Put(st, r, new), r)
<1>1. new \in Run /\ AlikeHere(new, rec)
  <2>1. [rec EXCEPT !.leaseOver = FALSE] \in Run
    BY DEF Run
  <2>2. AlikeHere([rec EXCEPT !.leaseOver = FALSE], rec)
    BY DEF Run, AlikeHere
  <2> QED BY <2>1, <2>2 DEF WithActiveLease
<1>2. Update(st, r, rec) = after
  BY DEF Update
<1> HIDE DEF new
<1>3. Rewrites(st, after, r, new)
  BY <1>1, WriteForms
<1>4. Fitting(st.runs, att, r, new)
  <2>1. st.runs[r].status # "absent" /\ (st.runs[r].status \in TerminalStatus => rec.status = st.runs[r].status)
    BY DEF UpdateAllowed
  <2>2. Superseded(st.runs, r) => Silent(st.runs[r])
    BY <2>1 DEF InOrder, LastSpeaks
  <2>3. Superseded(st.runs, r) => Silent(rec)
    BY <2>1, <2>2 DEF Silent, Mute
  <2>4. Silent(new) <=> Silent(rec)
    BY <1>1, AlikeHereSame
  <2>5. (Replaceable(new) <=> Replaceable(rec)) /\ (LoadFits(new, att[r].pc) <=> LoadFits(rec, att[r].pc))
    BY <1>1, AlikeHereSame
  <2> QED BY <1>1, <2>1, <2>3, <2>4, <2>5 DEF Fitting, AlikeHere, Mute
<1> HIDE DEF after
<1> QED BY <1>2, <1>3, <1>4, RewritesInOrder

LEMMA UpdateIfCurrentInOrder ==
  ASSUME NEW st, SoundStore(st), NEW att, InOrder(st.runs, att), NEW r \in RunId, NEW rec \in Run, NEW session,
         rec.trigger = st.runs[r].trigger, rec.attempt = st.runs[r].attempt,
         rec.pub = st.runs[r].pub, rec.note = st.runs[r].note, rec.status # "absent",
         UpdateAllowed(st.runs[r], rec) => (Replaceable(rec) => Mute(rec)) /\ LoadFits(rec, att[r].pc)
  PROVE  InOrder(UpdateIfCurrent(st, r, session, rec).runs, att)
BY UpdateInOrder DEF UpdateIfCurrent

(* A run that fails or is rejected for good.                               *)
LEMMA StatusInOrder ==
  ASSUME NEW st, SoundStore(st), NEW att, InOrder(st.runs, att), NEW r \in RunId, NEW session,
         NEW s, <<s[1], s[2]>> \in {<<"failed", "other">>, <<"rejected", "policy">>}
  PROVE  LET rec == WithStatus(st.runs[r], s[1], s[2])
         IN  /\ InOrder(Update(st, r, rec).runs, att)
             /\ InOrder(UpdateIfCurrent(st, r, session, rec).runs, att)
<1> DEFINE run == st.runs[r]
           rec == WithStatus(run, s[1], s[2])
<1>1. run \in Run
  BY StoreFields
<1>2. s[1] \in {"failed", "rejected"} /\ s[2] \in {"other", "policy"}
  OBVIOUS
<1>3. s[1] \in TerminalStatus /\ s[2] \in Reason
  BY <1>2 DEF TerminalStatus, Reason
<1> HIDE DEF run
<1>4. rec \in Run
  BY <1>1, <1>3 DEF WithStatus, Run
<1>5. /\ rec.trigger = run.trigger /\ rec.attempt = run.attempt /\ rec.pub = run.pub /\ rec.note = run.note
      /\ rec.status = s[1] /\ rec.reason = s[2] /\ rec.context = run.context
  BY <1>1 DEF WithStatus, Run
<1> HIDE DEF rec
<1>6. ~Replaceable(rec) /\ ~Transient(rec) /\ rec.status # "absent"
  BY <1>2, <1>5 DEF Replaceable, Transient
<1>7. run.status # "absent" /\ LoadFits(run, att[r].pc) => LoadFits(rec, att[r].pc)
  BY <1>5, <1>6 DEF LoadFits, Mute
<1>8. LoadFits(run, att[r].pc) /\ (UpdateAllowed(run, rec) => run.status # "absent")
  BY DEF InOrder, run, UpdateAllowed
<1>9. InOrder(Update(st, r, rec).runs, att) /\ InOrder(UpdateIfCurrent(st, r, session, rec).runs, att)
  BY <1>4, <1>5, <1>6, <1>7, <1>8, UpdateInOrder, UpdateIfCurrentInOrder DEF run
<1> QED BY <1>9 DEF rec, run

(* What may be written of a run that has said something.                   *)
LEMMA SpokenInOrder ==
  ASSUME NEW st, NEW new, NEW att, InOrder(st.runs, att), NEW r \in RunId, ~Mute(st.runs[r]), NEW rec,
         rec.trigger = st.runs[r].trigger, rec.attempt = st.runs[r].attempt, rec.status # "absent",
         ~Replaceable(rec), Rewrites(st, new, r, rec)
  PROVE  InOrder(new.runs, att)
<1>1. st.runs[r].status # "absent" /\ ~Superseded(st.runs, r)
  BY SpeakerIsLast DEF InOrder
<1>2. LoadFits(rec, att[r].pc)
  BY DEF LoadFits, InOrder, Replaceable
<1> QED BY <1>1, <1>2, RewritesInOrder DEF Fitting

(* A run that is being published says something.                           *)
LEMMA PublishingSpeaks ==
  ASSUME NEW st, SoundStore(st), NEW att, InOrder(st.runs, att), NEW id, id.run \in RunId,
         HoldsPublication(st, id) \/ IsPublicationClaimCurrent(st, id)
  PROVE  LET run == st.runs[id.run]
         IN  run \in Run /\ ~Mute(run) /\ ~Replaceable(run) /\ run.status # "absent" /\ run.note = "none"
<1>1. st.runs[id.run] \in Run /\ st.runs[id.run].pub = "publishing" /\ st.runs[id.run].note = "none"
  BY HolderIsPublishing
<1>2. ~Mute(st.runs[id.run])
  BY <1>1 DEF Mute
<1> QED BY <1>1, <1>2, SpeakerIsLast DEF InOrder

LEMMA PartialKeepsStatus ==
  ASSUME NEW run \in Run
  PROVE  LET rec == AsPartial(run)
         IN  /\ rec \in Run
             /\ rec.trigger = run.trigger /\ rec.attempt = run.attempt
             /\ rec.status = run.status /\ rec.reason = run.reason
BY AsPartialRun DEF AsPartial, Run

(* The publication is given up, and the run may get another status.        *)
LEMMA DropInOrder ==
  ASSUME NEW st, SoundStore(st), NEW att, InOrder(st.runs, att), NEW r \in RunId, ~Mute(st.runs[r]),
         NEW run \in Run, run.trigger = st.runs[r].trigger, run.attempt = st.runs[r].attempt,
         run.status # "absent", ~Replaceable(run)
  PROVE  /\ InOrder(WithoutPublicationClaim(st, r, run).runs, att)
         /\ InOrder(Saved(WithoutPublicationClaim(st, r, run), r).runs, att)
         /\ InOrder(WithoutPublicationClaim(st, r, AsPartial(run)).runs, att)
         /\ InOrder(Saved(WithoutPublicationClaim(st, r, AsPartial(run)), r).runs, att)
<1> DEFINE rec == AsPartial(run)
<1>1. /\ rec \in Run /\ rec.trigger = run.trigger /\ rec.attempt = run.attempt
      /\ rec.status = run.status /\ rec.reason = run.reason
  BY PartialKeepsStatus
<1> HIDE DEF rec
<1>2. ~Replaceable(rec) /\ rec.status # "absent"
  BY <1>1 DEF Replaceable, Transient
<1>3. ASSUME NEW x \in {run, rec}
      PROVE  /\ InOrder(WithoutPublicationClaim(st, r, x).runs, att)
             /\ InOrder(Saved(WithoutPublicationClaim(st, r, x), r).runs, att)
  <2>1. x \in Run /\ x.trigger = st.runs[r].trigger /\ x.attempt = st.runs[r].attempt
        /\ x.status # "absent" /\ ~Replaceable(x)
    BY <1>1, <1>2
  <2>2. Rewrites(st, WithoutPublicationClaim(st, r, x), r, x) /\ Rewrites(st, Saved(WithoutPublicationClaim(st, r, x), r), r, x)
    BY <2>1, WriteForms
  <2> QED BY <2>1, <2>2, SpokenInOrder
<1> QED BY <1>3 DEF rec

(* The run with a status for which there is no retry.                      *)
LEMMA EndedRun ==
  ASSUME NEW run \in Run, NEW status \in {"failed", "rejected"}, NEW reason \in {"other", "policy"}
  PROVE  LET rec == [run EXCEPT !.status = status, !.reason = reason]
         IN  /\ rec \in Run /\ ~Replaceable(rec) /\ rec.status # "absent"
             /\ rec.trigger = run.trigger /\ rec.attempt = run.attempt
<1> DEFINE rec == [run EXCEPT !.status = status, !.reason = reason]
<1>1. status \in TerminalStatus /\ reason \in Reason
  BY DEF TerminalStatus, Reason
<1>2. rec \in Run
  BY <1>1 DEF Run
<1>3. rec.trigger = run.trigger /\ rec.attempt = run.attempt /\ rec.status = status /\ rec.reason = reason
  BY DEF Run
<1> HIDE DEF rec
<1>4. ~Replaceable(rec) /\ rec.status # "absent"
  BY <1>3 DEF Replaceable, Transient
<1> QED BY <1>2, <1>3, <1>4 DEF rec

LEMMA FailPublicationInOrder ==
  ASSUME NEW st, SoundStore(st), NEW att, InOrder(st.runs, att), NEW id, id.run \in RunId
  PROVE  InOrder(FailPublication(st, id).runs, att)
<1> SUFFICES ASSUME HoldsPublication(st, id) PROVE InOrder(FailPublication(st, id).runs, att)
  BY DEF FailPublication
<1> DEFINE run == st.runs[id.run]
           other == [run EXCEPT !.status = "failed", !.reason = "other"]
           failed == IF NotTerminal(run, id.allow) THEN other ELSE run
<1>1. run \in Run /\ ~Mute(run) /\ ~Replaceable(run) /\ run.status # "absent"
  BY PublishingSpeaks
<1>2. other \in Run /\ ~Replaceable(other) /\ other.status # "absent"
      /\ other.trigger = run.trigger /\ other.attempt = run.attempt
  <2> HIDE DEF run
  <2> QED BY <1>1, EndedRun
<1> HIDE DEF other
<1>3. failed \in {run, other}
  OBVIOUS
<1>4. FailPublication(st, id) = Saved(WithoutPublicationClaim(st, id.run, AsPartial(failed)), id.run)
  BY DEF FailPublication, other
<1> HIDE DEF failed
<1> QED BY <1>1, <1>2, <1>3, <1>4, DropInOrder

LEMMA ReleasePublicationInOrder ==
  ASSUME NEW st, SoundStore(st), NEW att, InOrder(st.runs, att), NEW id, id.run \in RunId, NEW preservePartial
  PROVE  InOrder(ReleasePublicationClaim(st, id, preservePartial).runs, att)
<1> SUFFICES ASSUME HoldsPublication(st, id) PROVE InOrder(ReleasePublicationClaim(st, id, preservePartial).runs, att)
  BY DEF ReleasePublicationClaim
<1> DEFINE run == st.runs[id.run]
           cleared == [run EXCEPT !.pub = "none", !.pubBy = NoClaim, !.payload = NoPayload, !.done = {}]
           rec == IF preservePartial THEN AsPartial(run) ELSE cleared
<1>1. run \in Run /\ ~Mute(run) /\ ~Replaceable(run) /\ run.status # "absent"
  BY PublishingSpeaks
<1>2. cleared \in Run /\ cleared.trigger = run.trigger /\ cleared.attempt = run.attempt
      /\ cleared.status = run.status /\ cleared.reason = run.reason
  <2> HIDE DEF run
  <2> QED BY <1>1 DEF Run
<1>3. ~Replaceable(cleared) /\ cleared.status # "absent"
  <2> HIDE DEF run, cleared
  <2> QED BY <1>1, <1>2 DEF Replaceable, Transient
<1>4. ReleasePublicationClaim(st, id, preservePartial) = Saved(WithoutPublicationClaim(st, id.run, rec), id.run)
  BY DEF ReleasePublicationClaim
<1> HIDE DEF cleared
<1>5. /\ InOrder(Saved(WithoutPublicationClaim(st, id.run, cleared), id.run).runs, att)
      /\ InOrder(Saved(WithoutPublicationClaim(st, id.run, AsPartial(run)), id.run).runs, att)
  BY <1>1, <1>2, <1>3, DropInOrder
<1> QED BY <1>4, <1>5

LEMMA RejectPublicationInOrder ==
  ASSUME NEW st, SoundStore(st), NEW att, InOrder(st.runs, att), NEW id, id.run \in RunId
  PROVE  InOrder(RejectPublicationForPolicy(st, id).runs, att)
<1> SUFFICES ASSUME HoldsPublication(st, id) PROVE InOrder(RejectPublicationForPolicy(st, id).runs, att)
  BY DEF RejectPublicationForPolicy
<1> DEFINE run == st.runs[id.run]
           rec == [run EXCEPT !.status = "rejected", !.reason = "policy"]
<1>1. run \in Run /\ ~Mute(run)
  BY PublishingSpeaks
<1>2. rec \in Run /\ ~Replaceable(rec) /\ rec.status # "absent"
      /\ rec.trigger = run.trigger /\ rec.attempt = run.attempt
  <2> HIDE DEF run
  <2> QED BY <1>1, EndedRun
<1>3. RejectPublicationForPolicy(st, id) = Saved(WithoutPublicationClaim(st, id.run, AsPartial(rec)), id.run)
  BY DEF RejectPublicationForPolicy
<1> HIDE DEF rec
<1> QED BY <1>1, <1>2, <1>3, DropInOrder

LEMMA ReleaseAsPartialInOrder ==
  ASSUME NEW st, SoundStore(st), NEW att, InOrder(st.runs, att), NEW id, id.run \in RunId,
         IsPublicationClaimCurrent(st, id)
  PROVE  /\ InOrder(ReleaseAsPartial(st, id).runs, att)
         /\ InOrder(Saved(ReleaseAsPartial(st, id), id.run).runs, att)
<1> DEFINE run == st.runs[id.run]
           rec == [run EXCEPT !.status = "failed", !.reason = "other"]
<1>1. run \in Run /\ ~Mute(run)
  BY PublishingSpeaks
<1>2. rec \in Run /\ ~Replaceable(rec) /\ rec.status # "absent"
      /\ rec.trigger = run.trigger /\ rec.attempt = run.attempt
  <2> HIDE DEF run
  <2> QED BY <1>1, EndedRun
<1>3. ReleaseAsPartial(st, id) = WithoutPublicationClaim(st, id.run, AsPartial(rec))
  BY DEF ReleaseAsPartial
<1> HIDE DEF rec
<1> QED BY <1>1, <1>2, <1>3, DropInOrder

LEMMA CompletePublicationInOrder ==
  ASSUME NEW st, SoundStore(st), NEW att, InOrder(st.runs, att), NEW id, id.run \in RunId,
         IsPublicationClaimCurrent(st, id), NEW status \in TerminalStatus
  PROVE  InOrder(CompletePublication(st, id, status).runs, att)
<1> DEFINE run == st.runs[id.run]
           rec == [run EXCEPT !.status = status, !.reason = "none", !.pub = "published", !.pubBy = NoClaim]
<1>1. run \in Run /\ ~Mute(run)
  BY PublishingSpeaks
<1>2. rec \in Run /\ rec.status = status /\ rec.reason = "none"
      /\ rec.trigger = run.trigger /\ rec.attempt = run.attempt
  <2>1. status \in {"absent"} \cup ActiveStatus \cup TerminalStatus /\ "none" \in Reason
    BY DEF Reason
  <2> HIDE DEF run
  <2>2. rec \in Run
    BY <1>1, <2>1 DEF Run
  <2>3. rec.status = status /\ rec.reason = "none" /\ rec.trigger = run.trigger /\ rec.attempt = run.attempt
    BY <1>1 DEF Run
  <2> QED BY <2>2, <2>3
<1>3. CompletePublication(st, id, status) = Saved(WithoutPublicationClaim(st, id.run, rec), id.run)
  BY DEF CompletePublication
<1> HIDE DEF rec
<1>4. ~Replaceable(rec) /\ rec.status # "absent"
  BY <1>2 DEF Replaceable, Transient, TerminalStatus
<1> QED BY <1>1, <1>2, <1>3, <1>4, DropInOrder

(* The markers of a run that is being published.                           *)
LEMMA MarkersInOrder ==
  ASSUME NEW st, SoundStore(st), NEW att, InOrder(st.runs, att), NEW id, id.run \in RunId,
         IsPublicationClaimCurrent(st, id)
  PROVE  /\ \A markers \in SUBSET Marker : InOrder(ReplacePublicationMarkers(st, id, markers).runs, att)
         /\ \A m \in Marker : InOrder(RecordPublicationMarker(st, id, m).runs, att)
<1> DEFINE run == st.runs[id.run]
<1>1. run \in Run /\ ~Mute(run) /\ ~Replaceable(run) /\ run.status # "absent"
  BY PublishingSpeaks
<1>2. ASSUME NEW markers \in SUBSET Marker
      PROVE  InOrder(ReplacePublicationMarkers(st, id, markers).runs, att)
  <2> DEFINE rec == [run EXCEPT !.done = markers]
  <2>1. rec \in Run /\ rec.trigger = run.trigger /\ rec.attempt = run.attempt
        /\ rec.status = run.status /\ rec.reason = run.reason
    <3> HIDE DEF run
    <3> QED BY <1>1 DEF Run
  <2>2. ReplacePublicationMarkers(st, id, markers) = Saved(Put(st, id.run, rec), id.run)
    BY DEF ReplacePublicationMarkers
  <2> HIDE DEF rec
  <2>3. ~Replaceable(rec) /\ rec.status # "absent"
    BY <1>1, <2>1 DEF Replaceable, Transient
  <2>4. Rewrites(st, Saved(Put(st, id.run, rec), id.run), id.run, rec)
    BY <2>1, WriteForms
  <2> QED BY <1>1, <2>1, <2>2, <2>3, <2>4, SpokenInOrder
<1>3. ASSUME NEW m \in Marker PROVE InOrder(RecordPublicationMarker(st, id, m).runs, att)
  <2>1. run.done \cup {m} \in SUBSET Marker
    BY <1>1 DEF Run
  <2>2. InOrder(ReplacePublicationMarkers(st, id, run.done \cup {m}).runs, att)
    BY <1>2, <2>1
  <2> QED BY <2>2 DEF RecordPublicationMarker, ReplacePublicationMarkers
<1> QED BY <1>2, <1>3

(* claimPublication: only for the latest attempt, whose changes are loaded *)
(* and that is not to be tried again.                                      *)
LEMMA ClaimPublicationInOrder ==
  ASSUME NEW st, SoundStore(st), NEW att, InOrder(st.runs, att), NEW r \in RunId, NEW by \in PublicationClaim,
         NEW payload \in Payload, ClaimPublicationAllowed(st, r, payload), st.runs[r].context
  PROVE  InOrder(ClaimPublication(st, r, by, payload).runs, att)
<1> DEFINE run == st.runs[r]
           allow == run.status = "failed" /\ run.pub = "partial"
           claim == [by |-> by, session |-> run.session, allow |-> allow]
           rec == [run EXCEPT !.pub = "publishing", !.pubBy = by, !.payload = payload]
<1>1. run \in Run /\ st \in Store
  BY StoreFields DEF SoundStore
<1>2. /\ rec \in Run /\ rec.pub = "publishing" /\ rec.status = run.status /\ rec.reason = run.reason
      /\ rec.trigger = run.trigger /\ rec.attempt = run.attempt
  <2> HIDE DEF run
  <2> QED BY <1>1 DEF Run
<1>3. claim \in PublicationClaims
  <2>1. run.session \in BOOLEAN
    <3> HIDE DEF run
    <3> QED BY <1>1 DEF Run
  <2>2. allow \in BOOLEAN
    OBVIOUS
  <2> HIDE DEF run, allow
  <2> QED BY <2>1, <2>2 DEF PublicationClaims
<1>4. ClaimPublication(st, r, by, payload) = Saved([Put(st, r, rec) EXCEPT !.pubClaims[r] = claim], r)
  BY DEF ClaimPublication
<1>5. run.status # "absent" /\ IsLatest(st, r) /\ run.context
      /\ (run.status \in ActiveStatus \/ (run.status = "failed" /\ run.pub = "partial"))
  BY DEF ClaimPublicationAllowed, ResultPublicationAllowed, NotTerminal
<1>6. ~Superseded(st.runs, r)
  BY <1>1, <1>5, LatestIsLast DEF InOrder
<1>7. Replaceable(run) => Mute(run)
  BY DEF InOrder, LastSpeaks
<1>8. LoadFits(run, att[r].pc)
  BY DEF InOrder
<1> HIDE DEF rec, claim
<1>9. ~Replaceable(rec)
  <2> HIDE DEF run
  <2> QED BY <1>2, <1>5, <1>7 DEF Replaceable, Transient, Mute, ActiveStatus
<1>10. LoadFits(rec, att[r].pc)
  <2> HIDE DEF run
  <2> QED BY <1>2, <1>5, <1>8, <1>9 DEF LoadFits, Replaceable
<1>11. Fitting(st.runs, att, r, rec)
  BY <1>2, <1>5, <1>6, <1>9, <1>10 DEF Fitting
<1>12. Rewrites(st, Saved([Put(st, r, rec) EXCEPT !.pubClaims[r] = claim], r), r, rec)
  BY <1>2, <1>3, WriteForms
<1> QED BY <1>4, <1>11, <1>12, RewritesInOrder

(* claimFailureNotification: only for the latest attempt, that is over and *)
(* not to be tried again.                                                  *)
LEMMA ClaimNotificationInOrder ==
  ASSUME NEW st, SoundStore(st), NEW att, InOrder(st.runs, att), NEW r \in RunId, NEW by \in NoteClaim,
         NEW payload \in Payload \cup {NoPayload}, ClaimFailureNotificationAllowed(st, r, payload),
         ~Transient(st.runs[r]), att[r].pc \notin LoadingPc
  PROVE  InOrder(ClaimFailureNotification(st, r, by, payload).runs, att)
<1> DEFINE run == st.runs[r]
           claim == [by |-> by, session |-> run.session]
           rec == [run EXCEPT !.note = "notifying", !.noteBy = by, !.notePayload = payload]
<1>1. run \in Run /\ st \in Store
  BY StoreFields DEF SoundStore
<1>2. /\ rec \in Run /\ rec.status = run.status /\ rec.reason = run.reason
      /\ rec.trigger = run.trigger /\ rec.attempt = run.attempt
  <2>1. rec \in Run
    <3> HIDE DEF run
    <3> QED BY <1>1 DEF Run
  <2>2. /\ rec.status = run.status /\ rec.reason = run.reason
        /\ rec.trigger = run.trigger /\ rec.attempt = run.attempt
    <3> HIDE DEF run
    <3> QED BY <1>1 DEF Run
  <2> QED BY <2>1, <2>2
<1>3. claim \in NoteClaims
  <2>1. run.session \in BOOLEAN
    <3> HIDE DEF run
    <3> QED BY <1>1 DEF Run
  <2> HIDE DEF run
  <2> QED BY <2>1 DEF NoteClaims
<1>4. ClaimFailureNotification(st, r, by, payload) = Saved([Put(st, r, rec) EXCEPT !.noteClaims[r] = claim], r)
  BY DEF ClaimFailureNotification
<1>5. run.status = "failed" /\ IsLatest(st, r) /\ run.reason # "load_transient"
  BY DEF ClaimFailureNotificationAllowed, FailureNotificationAllowed, Transient
<1>6. ~Superseded(st.runs, r)
  BY <1>1, <1>5, LatestIsLast DEF InOrder
<1> HIDE DEF rec, claim
<1>7. ~Replaceable(rec) /\ rec.status # "absent" /\ LoadFits(rec, att[r].pc)
  <2> HIDE DEF run
  <2> QED BY <1>2, <1>5 DEF Replaceable, Transient, LoadFits
<1>8. Fitting(st.runs, att, r, rec)
  BY <1>2, <1>5, <1>6, <1>7 DEF Fitting
<1>9. Rewrites(st, Saved([Put(st, r, rec) EXCEPT !.noteClaims[r] = claim], r), r, rec)
  BY <1>2, <1>3, WriteForms
<1> QED BY <1>4, <1>8, <1>9, RewritesInOrder

(* A run whose failure is being told says something.                       *)
LEMMA NotifyingSpeaks ==
  ASSUME NEW st, SoundStore(st), NEW att, InOrder(st.runs, att), NEW id, id.run \in RunId,
         HoldsNotification(st, id) \/ IsFailureNotificationClaimCurrent(st, id)
  PROVE  LET run == st.runs[id.run]
         IN  run \in Run /\ ~Mute(run) /\ ~Replaceable(run) /\ run.status # "absent"
<1>1. st.runs[id.run] \in Run
  BY NotifierIsNotPublishing
<1>2. NoteClaimMatches(st.runs[id.run], id)
  BY DEF HoldsNotification, IsFailureNotificationClaimCurrent
<1>3. ~Mute(st.runs[id.run])
  BY <1>2 DEF Mute, NoteClaimMatches
<1> QED BY <1>1, <1>3, SpeakerIsLast DEF InOrder

(* The claim of the notification is dropped, and the run may get another   *)
(* status.                                                                 *)
LEMMA DropNoteInOrder ==
  ASSUME NEW st, SoundStore(st), NEW att, InOrder(st.runs, att), NEW r \in RunId, ~Mute(st.runs[r]),
         NEW rec \in Run, rec.trigger = st.runs[r].trigger, rec.attempt = st.runs[r].attempt,
         rec.status # "absent", ~Replaceable(rec)
  PROVE  InOrder(Saved(WithoutNoteClaim(st, r, rec), r).runs, att)
<1>1. Rewrites(st, Saved(WithoutNoteClaim(st, r, rec), r), r, rec)
  BY WriteForms
<1> QED BY <1>1, SpokenInOrder

LEMMA MarkNotificationInOrder ==
  ASSUME NEW st, SoundStore(st), NEW att, InOrder(st.runs, att), NEW id, id.run \in RunId,
         IsFailureNotificationClaimCurrent(st, id)
  PROVE  InOrder(MarkFailureNotificationPostStarted(st, id).runs, att)
<1> DEFINE r == id.run
           run == st.runs[r]
           rec == [run EXCEPT !.postStarted = TRUE]
           put == [st EXCEPT !.runs[r].postStarted = TRUE]
<1>1. st \in Store /\ run \in Run /\ ~Mute(run) /\ ~Replaceable(run) /\ run.status # "absent"
  BY NotifyingSpeaks DEF SoundStore
<1>2. /\ rec.status = run.status /\ rec.reason = run.reason
      /\ rec.trigger = run.trigger /\ rec.attempt = run.attempt
  <2> HIDE DEF run
  <2> QED BY <1>1 DEF Run
<1>3. PutOf(st, put, r, rec, st.pubClaims[r], st.noteClaims[r], st.sequence)
  BY <1>1, MarkWrites
<1>4. MarkFailureNotificationPostStarted(st, id) = Saved(put, r)
  BY DEF MarkFailureNotificationPostStarted
<1> HIDE DEF put, rec
<1>5. Rewrites(st, Saved(put, r), r, rec)
  BY <1>3, PutRewrites
<1>6. ~Replaceable(rec) /\ rec.status # "absent"
  BY <1>1, <1>2 DEF Replaceable, Transient
<1> QED BY <1>1, <1>2, <1>4, <1>5, <1>6, SpokenInOrder

LEMMA CompleteNotificationInOrder ==
  ASSUME NEW st, SoundStore(st), NEW att, InOrder(st.runs, att), NEW id, id.run \in RunId,
         IsFailureNotificationClaimCurrent(st, id)
  PROVE  InOrder(CompleteFailureNotification(st, id).runs, att)
<1> DEFINE run == st.runs[id.run]
           rec == [run EXCEPT !.note = "notified", !.noteBy = NoClaim]
<1>1. run \in Run /\ ~Mute(run) /\ ~Replaceable(run) /\ run.status # "absent"
  BY NotifyingSpeaks
<1>2. /\ rec \in Run /\ rec.status = run.status /\ rec.reason = run.reason
      /\ rec.trigger = run.trigger /\ rec.attempt = run.attempt
  <2> HIDE DEF run
  <2> QED BY <1>1 DEF Run
<1>3. CompleteFailureNotification(st, id) = Saved(WithoutNoteClaim(st, id.run, rec), id.run)
  BY DEF CompleteFailureNotification
<1> HIDE DEF rec
<1>4. ~Replaceable(rec) /\ rec.status # "absent"
  BY <1>1, <1>2 DEF Replaceable, Transient
<1> QED BY <1>1, <1>2, <1>3, <1>4, DropNoteInOrder

LEMMA FailNotificationInOrder ==
  ASSUME NEW st, SoundStore(st), NEW att, InOrder(st.runs, att), NEW id, id.run \in RunId, NEW rejected \in BOOLEAN
  PROVE  InOrder(FailFailureNotification(st, id, rejected).runs, att)
<1> SUFFICES ASSUME HoldsNotification(st, id) PROVE InOrder(FailFailureNotification(st, id, rejected).runs, att)
  BY DEF FailFailureNotification
<1> DEFINE run == st.runs[id.run]
           posted == run.postStarted /\ ~rejected
           rec == [run EXCEPT !.note = "partial", !.noteBy = NoClaim, !.postStarted = posted]
<1>1. run \in Run /\ ~Mute(run) /\ ~Replaceable(run) /\ run.status # "absent"
  BY NotifyingSpeaks
<1>2. FailFailureNotification(st, id, rejected) = Saved(WithoutNoteClaim(st, id.run, rec), id.run)
  BY DEF FailFailureNotification
<1>3. posted \in BOOLEAN
  OBVIOUS
<1> HIDE DEF posted
<1>4. /\ rec \in Run /\ rec.status = run.status /\ rec.reason = run.reason
      /\ rec.trigger = run.trigger /\ rec.attempt = run.attempt
  <2> HIDE DEF run
  <2> QED BY <1>1, <1>3 DEF Run
<1> HIDE DEF rec
<1>5. ~Replaceable(rec) /\ rec.status # "absent"
  BY <1>1, <1>4 DEF Replaceable, Transient
<1> QED BY <1>1, <1>2, <1>4, <1>5, DropNoteInOrder

LEMMA RejectNotificationInOrder ==
  ASSUME NEW st, SoundStore(st), NEW att, InOrder(st.runs, att), NEW id, id.run \in RunId
  PROVE  InOrder(RejectFailureNotificationForPolicy(st, id).runs, att)
<1> SUFFICES ASSUME IsFailureNotificationClaimCurrent(st, id)
             PROVE  InOrder(RejectFailureNotificationForPolicy(st, id).runs, att)
  BY DEF RejectFailureNotificationForPolicy
<1> DEFINE run == st.runs[id.run]
           rec == [run EXCEPT !.status = "rejected", !.reason = "policy", !.note = "partial", !.noteBy = NoClaim]
<1>1. run \in Run /\ ~Mute(run)
  BY NotifyingSpeaks
<1>2. RejectFailureNotificationForPolicy(st, id) = Saved(WithoutNoteClaim(st, id.run, rec), id.run)
  BY DEF RejectFailureNotificationForPolicy
<1>3. /\ rec \in Run /\ rec.status = "rejected" /\ rec.reason = "policy"
      /\ rec.trigger = run.trigger /\ rec.attempt = run.attempt
  <2>1. "rejected" \in TerminalStatus /\ "policy" \in Reason
    BY DEF TerminalStatus, Reason
  <2> HIDE DEF run
  <2>2. rec \in Run
    BY <1>1, <2>1 DEF Run
  <2>3. rec.status = "rejected" /\ rec.reason = "policy" /\ rec.trigger = run.trigger /\ rec.attempt = run.attempt
    BY <1>1 DEF Run
  <2> QED BY <2>2, <2>3
<1> HIDE DEF rec
<1>4. ~Replaceable(rec) /\ rec.status # "absent"
  BY <1>3 DEF Replaceable, Transient
<1> QED BY <1>1, <1>2, <1>3, <1>4, DropNoteInOrder

LEMMA ReleaseNoteInOrder ==
  ASSUME NEW st, SoundStore(st), NEW att, InOrder(st.runs, att), NEW id, id.run \in RunId
  PROVE  InOrder(ReleaseFailureNotificationClaim(st, id).runs, att)
BY ReleaseNoteClaimEffect

(* The store in memory is in order, and the file is it, or as it was.      *)
Recorded(st) == store' = st /\ disk'.runs \in {disk.runs, st.runs}

LEMMA SavesRecord ==
  /\ \A st, k : Persist(st, k) => Recorded(st)
  /\ \A st, k : InMemory(st, k) => Recorded(st)
  /\ UNCHANGED storeVars => Recorded(store)
BY DEF Persist, InMemory, storeVars, Recorded, DiskOf

LEMMA RecordedInOrder ==
  ASSUME LatestInv, NEW st, Recorded(st), InOrder(st.runs, attempts')
  PROVE  LatestInv'
<1>1. disk'.runs \in {disk.runs, st.runs} /\ store'.runs = st.runs
  BY DEF Recorded
<1>2. LastSpeaks(disk'.runs)
  BY <1>1 DEF LatestInv, InOrder
<1> QED BY <1>1, <1>2 DEF LatestInv

(* A run more, the last of all, whose earlier attempts are silent.         *)
OneMore(old, new, att, att2, x, rec) ==
  /\ \A y \in RunId : y >= x => old[y].status = "absent"
  /\ \A y \in RunId : Gone(new[y]) \/ AlikeHere(new[y], IF y = x THEN rec ELSE old[y])
  /\ Mute(rec) /\ LoadFits(rec, att2[x].pc)
  /\ \A y \in RunId \ {x} : att2[y].pc = att[y].pc
  /\ \A y \in RunId : old[y].status # "absent" /\ old[y].trigger = rec.trigger =>
       old[y].attempt < rec.attempt /\ Silent(old[y])

LEMMA OneMoreInOrder ==
  ASSUME NEW old, NEW new, NEW att, NEW att2, NEW x \in RunId, NEW rec,
         InOrder(old, att), OneMore(old, new, att, att2, x, rec)
  PROVE  InOrder(new, att2)
<1> USE DEF OneMore
<1> DEFINE runs == [y \in RunId |-> IF y = x THEN rec ELSE old[y]]
<1>1. \A y \in RunId : runs[y] = IF y = x THEN rec ELSE old[y]
  OBVIOUS
<1> HIDE DEF runs
<1>2. \A y \in RunId : y > x => runs[y].status = "absent"
  BY <1>1 DEF RunId
<1>3. Ordered(runs)
  <2> SUFFICES ASSUME NEW a \in RunId, NEW b \in RunId, a < b,
                      runs[a].status # "absent", runs[b].status # "absent", runs[a].trigger = runs[b].trigger
               PROVE  runs[a].attempt < runs[b].attempt
    BY DEF Ordered
  <2>1. a # x
    BY <1>2 DEF RunId
  <2>2. CASE b = x
    BY <1>1, <2>1, <2>2
  <2>3. CASE b # x
    BY <1>1, <2>1, <2>3 DEF InOrder, LastSpeaks, Ordered
  <2> QED BY <2>2, <2>3
<1>4. ASSUME NEW y \in RunId, runs[y].status # "absent", Superseded(runs, y) PROVE Silent(runs[y])
  <2>1. PICK z \in RunId : y < z /\ runs[z].status # "absent" /\ runs[z].trigger = runs[y].trigger
    BY <1>4 DEF Superseded
  <2>2. y # x /\ runs[y] = old[y]
    BY <1>1, <1>2, <2>1 DEF RunId
  <2>3. CASE z = x
    BY <1>1, <1>4, <2>1, <2>2, <2>3
  <2>4. CASE z # x
    <3>1. Superseded(old, y)
      BY <1>1, <2>1, <2>2, <2>4 DEF Superseded
    <3> QED BY <1>4, <2>2, <3>1 DEF InOrder, LastSpeaks
  <2> QED BY <2>3, <2>4
<1>5. \A y \in RunId : Replaceable(runs[y]) \/ runs[y].status = "absent" => Mute(runs[y])
  BY <1>1 DEF InOrder, LastSpeaks
<1>6. \A y \in RunId : LoadFits(runs[y], att2[y].pc)
  BY <1>1 DEF InOrder
<1>7. LastSpeaks(runs) /\ InOrder(runs, att2)
  BY <1>3, <1>4, <1>5, <1>6 DEF InOrder, LastSpeaks
<1>8. \A y \in RunId : Gone(new[y]) \/ AlikeHere(new[y], runs[y])
  BY <1>1
<1> QED BY <1>7, <1>8, AlikeInOrder

(* No run has the next id, or a later one.                                 *)
LEMMA NextIsUnborn ==
  ASSUME OInv, NextRunId(store) \in RunId
  PROVE  \A y \in RunId : y >= NextRunId(store) => store.runs[y].status = "absent"
<1>1. store.sequence \in Nat
  BY DEF OInv, IInv, Stored, SoundStore, Store
<1>2. \A y \in RunId : y >= NextRunId(store) => Unborn(y)
  BY <1>1 DEF Unborn, NextRunId, RunId
<1> QED BY <1>2 DEF OInv, OutcomeFits, RunFits, Gone

(* A new run, whose record is known.                                       *)
LEMMA NewRunSays ==
  ASSUME NEW t, NEW k, NEW status, NEW reason
  PROVE  LET rec == NewRun(t, k, status, reason)
         IN  /\ rec.trigger = t /\ rec.attempt = k /\ rec.status = status /\ rec.reason = reason
             /\ ~rec.context /\ Mute(rec)
BY DEF NewRun, NoRun, Mute

LEMMA MovesAttempt ==
  ASSUME Attempting, NEW r \in RunId, NEW pc, AttemptMoves(r, pc)
  PROVE  attempts'[r].pc = pc /\ \A y \in RunId \ {r} : attempts'[y].pc = attempts[y].pc
BY DEF Attempting, Attempt, AttemptMoves

LEMMA DeliverInOrder ==
  ASSUME OInv, LatestInv, NEW t \in Trigger, Deliver(t)
  PROVE  LatestInv'
<1> DEFINE r == NextRunId(store)
<1>1. /\ SoundStore(store) /\ Attempting /\ r \in RunId /\ InOrder(store.runs, attempts)
      /\ {"accepted", "rejected"} \subseteq ActiveStatus \cup TerminalStatus
      /\ {"none", "configuration", "policy"} \subseteq Reason
  BY DEF OInv, IInv, Stored, Deliver, LatestInv, ActiveStatus, TerminalStatus, Reason
<1>2. PICK status \in ActiveStatus \cup TerminalStatus, reason \in Reason, pc \in {"loading", "done"} :
        /\ Persist(Create(store, t, status, reason), 0) /\ AttemptMoves(r, pc)
        /\ reason # "load_transient"
  BY <1>1 DEF Deliver
<1> DEFINE rec == NewRun(t, 1, status, reason)
           put == [Put(store, r, rec) EXCEPT !.sequence = r]
           new == Create(store, t, status, reason)
<1>3. rec \in Run /\ r \in 0..MaxRuns
  BY <1>1, NewRunType, BoundsAssumption DEF RunId
<1>4. new = Saved(put, r)
  BY DEF Create
<1>5. rec.trigger = t /\ rec.attempt = 1 /\ rec.status = status /\ rec.reason = reason /\ ~rec.context /\ Mute(rec)
  BY NewRunSays
<1>6. Rewrites(store, Saved(put, r), r, rec)
  <2> HIDE DEF rec
  <2> QED BY <1>1, <1>3, WriteForms
<1> HIDE DEF put, rec
<1>7. \A y \in RunId : Gone(new.runs[y]) \/ AlikeHere(new.runs[y], IF y = r THEN rec ELSE store.runs[y])
  BY <1>4, <1>6, AlikeIsHere DEF Rewrites
<1>8. LoadFits(rec, attempts'[r].pc)
  BY <1>1, <1>2, <1>5, MovesAttempt DEF LoadFits, Transient
<1>9. \A y \in RunId : store.runs[y].status # "absent" /\ store.runs[y].trigger = rec.trigger => FALSE
  BY <1>5 DEF Deliver, AttemptsOf, Exists
<1>10. \A y \in RunId : y >= r => store.runs[y].status = "absent"
  BY <1>1, NextIsUnborn
<1>11. \A y \in RunId \ {r} : attempts'[y].pc = attempts[y].pc
  BY <1>1, <1>2, MovesAttempt
<1>12. Recorded(new)
  BY <1>2, SavesRecord
<1> HIDE DEF new, r
<1>13. InOrder(new.runs, attempts')
  <2>1. OneMore(store.runs, new.runs, attempts, attempts', r, rec)
    BY <1>5, <1>7, <1>8, <1>9, <1>10, <1>11 DEF OneMore
  <2> QED BY <1>1, <2>1, OneMoreInOrder
<1> QED BY <1>12, <1>13, RecordedInOrder

(* A retry replaces a run that has said nothing.                           *)
LEMMA RetriedIsMute ==
  ASSUME OInv, LatestInv, NEW r \in RunId, Retry(r)
  PROVE  LET run == store.runs[r]
         IN  /\ run \in Run /\ Mute(run) /\ run.status \in ActiveStatus \cup TerminalStatus
             /\ IsLatest(store, r) /\ ~Superseded(store.runs, r)
<1>1. /\ store \in Store /\ store.runs[r] \in Run /\ LastSpeaks(store.runs)
      /\ store.runs[r].note # "none" => store.runs[r].status \in TerminalStatus
  BY StoreFields DEF OInv, IInv, Stored, SoundStore, LatestInv, InOrder, OutcomeFits, RunFits
<1>2. /\ store.runs[r].status # "absent" /\ IsLatest(store, r) /\ Retryable(store.runs[r])
      /\ store.runs[r].pub = "none"
  BY DEF Retry, RetryAttemptAllowed
<1>3. store.runs[r].status \in ActiveStatus => Mute(store.runs[r])
  BY <1>1, <1>2 DEF Mute, ActiveStatus, TerminalStatus
<1>4. store.runs[r].status \notin ActiveStatus => Replaceable(store.runs[r])
  BY <1>2 DEF Retryable, IsActiveAttemptStale, Replaceable, Transient
<1>5. Mute(store.runs[r])
  BY <1>1, <1>3, <1>4 DEF LastSpeaks
<1>6. store.runs[r].status \in ActiveStatus \cup TerminalStatus
  BY <1>1, <1>2 DEF Run
<1>7. ~Superseded(store.runs, r)
  BY <1>1, <1>2, LatestIsLast
<1> QED BY <1>1, <1>2, <1>5, <1>6, <1>7

(* And if it is still active, closes it.                                   *)
LEMMA ClosedInOrder ==
  ASSUME NEW st, SoundStore(st), NEW att, InOrder(st.runs, att), NEW r \in RunId,
         Mute(st.runs[r]), st.runs[r].status \in ActiveStatus
  PROVE  LET expired == [st.runs[r] EXCEPT !.status = "failed", !.reason = "lease_expired"]
         IN  /\ InOrder(Put(st, r, expired).runs, att) /\ Put(st, r, expired) \in Store
             /\ \A y \in RunId : AlikeHere(Put(st, r, expired).runs[y], IF y = r THEN expired ELSE st.runs[y])
             /\ expired.trigger = st.runs[r].trigger /\ expired.attempt = st.runs[r].attempt
             /\ Silent(expired)
<1> DEFINE run == st.runs[r]
           expired == [run EXCEPT !.status = "failed", !.reason = "lease_expired"]
<1>1. run \in Run /\ st \in Store
  BY StoreFields DEF SoundStore
<1>2. /\ expired \in Run
      /\ expired.trigger = run.trigger /\ expired.attempt = run.attempt /\ expired.context = run.context
      /\ expired.status = "failed" /\ expired.reason = "lease_expired"
      /\ expired.pub = run.pub /\ expired.note = run.note
  <2>1. "failed" \in TerminalStatus /\ "lease_expired" \in Reason
    BY DEF TerminalStatus, Reason
  <2> HIDE DEF run
  <2>2. expired \in Run
    BY <1>1, <2>1 DEF Run
  <2>3. /\ expired.trigger = run.trigger /\ expired.attempt = run.attempt /\ expired.context = run.context
        /\ expired.status = "failed" /\ expired.reason = "lease_expired"
        /\ expired.pub = run.pub /\ expired.note = run.note
    BY <1>1 DEF Run
  <2> QED BY <2>2, <2>3
<1> HIDE DEF expired
<1>3. Silent(expired) /\ ~Replaceable(expired) /\ Mute(expired) /\ ~Transient(expired)
  BY <1>2 DEF Silent, Mute, Replaceable, Transient, TerminalStatus
<1>4. run.status # "absent" /\ LoadFits(run, att[r].pc)
  BY DEF InOrder, ActiveStatus
<1>5. LoadFits(expired, att[r].pc)
  BY <1>2, <1>3, <1>4 DEF LoadFits
<1>6. Fitting(st.runs, att, r, expired)
  BY <1>2, <1>3, <1>4, <1>5 DEF Fitting
<1>7. PutOf(st, Put(st, r, expired), r, expired, st.pubClaims[r], st.noteClaims[r], st.sequence)
  BY <1>1, <1>2, PutForms
<1>8. InOrder(Put(st, r, expired).runs, att)
  <2>1. Rewrites(st, Put(st, r, expired), r, expired)
    BY <1>7, PutRewrites
  <2> QED BY <1>6, <2>1, RewritesInOrder
<1>9. /\ Put(st, r, expired) \in Store
      /\ \A y \in RunId : AlikeHere(Put(st, r, expired).runs[y], IF y = r THEN expired ELSE st.runs[y])
  BY <1>7, AlikeIsHere DEF PutOf
<1> QED BY <1>2, <1>3, <1>8, <1>9 DEF expired

LEMMA RetryInOrder ==
  ASSUME OInv, LatestInv, NEW r \in RunId, Retry(r)
  PROVE  LatestInv'
<1> DEFINE run == store.runs[r]
           expired == [run EXCEPT !.status = "failed", !.reason = "lease_expired"]
           closed == IF run.status \in ActiveStatus THEN Put(store, r, expired) ELSE store
           x == NextRunId(store)
           rec == NewRun(run.trigger, run.attempt + 1, "accepted", "none")
           put == [Put(closed, x, rec) EXCEPT !.sequence = x]
           new == CreateRetryAttempt(store, r)
<1>1. /\ SoundStore(store) /\ store \in Store /\ Attempting /\ x \in RunId
      /\ LastSpeaks(store.runs) /\ InOrder(store.runs, attempts)
      /\ Persist(new, 0) /\ AttemptMoves(x, "loading") /\ run.attempt < AttemptLimit
  BY DEF OInv, IInv, Stored, SoundStore, Retry, LatestInv, InOrder, RetryAttemptAllowed
<1>2. /\ run \in Run /\ Mute(run) /\ run.status \in ActiveStatus \cup TerminalStatus
      /\ IsLatest(store, r) /\ ~Superseded(store.runs, r)
  BY RetriedIsMute
<1>3. run.attempt \in Nat /\ run.attempt + 1 \in 0..MaxAttempts /\ run.trigger \in Trigger \cup {NoTrigger}
  <2>1. run.attempt \in Nat /\ run.attempt < MaxAttempts
    BY <1>1, <1>2, BoundsAssumption DEF AttemptLimit, Run
  <2> QED BY <1>2, <2>1, BoundsAssumption DEF Run
<1>4. /\ closed \in Store /\ InOrder(closed.runs, attempts)
      /\ \A y \in RunId \ {r} : AlikeHere(closed.runs[y], store.runs[y])
      /\ closed.runs[r].trigger = run.trigger /\ closed.runs[r].attempt = run.attempt /\ Silent(closed.runs[r])
  <2>1. CASE run.status \in ActiveStatus
    <3>1. closed = Put(store, r, expired)
      BY <2>1
    <3>2. /\ InOrder(Put(store, r, expired).runs, attempts) /\ Put(store, r, expired) \in Store
          /\ \A y \in RunId : AlikeHere(Put(store, r, expired).runs[y], IF y = r THEN expired ELSE store.runs[y])
          /\ expired.trigger = run.trigger /\ expired.attempt = run.attempt /\ Silent(expired)
      BY <1>1, <1>2, <2>1, ClosedInOrder
    <3> HIDE DEF expired, closed
    <3>3. AlikeHere(closed.runs[r], expired)
      BY <3>1, <3>2
    <3>4. Silent(closed.runs[r])
      BY <3>2, <3>3, AlikeHereSame
    <3> QED BY <3>1, <3>2, <3>3, <3>4 DEF AlikeHere
  <2>2. CASE run.status \notin ActiveStatus
    <3>1. closed = store /\ Silent(run)
      BY <1>2, <2>2 DEF Silent
    <3>2. \A a : AlikeHere(a, a)
      BY DEF AlikeHere
    <3> QED BY <1>1, <3>1, <3>2
  <2> QED BY <2>1, <2>2
<1>5. rec \in Run
  <2>1. "accepted" \in ActiveStatus \cup TerminalStatus /\ "none" \in Reason
    BY DEF ActiveStatus, Reason
  <2> QED BY <1>3, <2>1, NewRunType
<1>6. /\ rec.trigger = run.trigger /\ rec.attempt = run.attempt + 1 /\ rec.status = "accepted"
      /\ ~rec.context /\ Mute(rec)
  BY NewRunSays
<1>7. new = Saved(put, x)
  BY DEF CreateRetryAttempt
<1> HIDE DEF rec, closed
<1>8. PutOf(closed, put, x, rec, closed.pubClaims[x], closed.noteClaims[x], x)
  <2>1. x \in 0..MaxRuns
    BY <1>1, BoundsAssumption DEF RunId
  <2> QED BY <1>1, <1>4, <1>5, <2>1, PutForms
<1> HIDE DEF put
<1>9. \A y \in RunId : Gone(new.runs[y]) \/ AlikeHere(new.runs[y], IF y = x THEN rec ELSE closed.runs[y])
  BY <1>7, <1>8, PutRewrites, AlikeIsHere DEF Rewrites
<1>10. x # r /\ \A y \in RunId : y >= x => closed.runs[y].status = "absent"
  <2>1. \A y \in RunId : y >= x => store.runs[y].status = "absent"
    BY <1>1, NextIsUnborn
  <2>2. run.status # "absent" /\ x \in Nat /\ r \in Nat
    BY <1>1, <1>2 DEF ActiveStatus, TerminalStatus, RunId
  <2> HIDE DEF x
  <2>3. ~(r >= x)
    BY <2>1, <2>2
  <2>4. \A y \in RunId : y >= x => y # r
    BY <2>3
  <2>5. \A y \in RunId : y >= x => AlikeHere(closed.runs[y], store.runs[y])
    BY <1>4, <2>4
  <2>6. x # r
    BY <2>2, <2>3
  <2>7. \A y \in RunId : y >= x => closed.runs[y].status = "absent"
    BY <2>1, <2>5 DEF AlikeHere
  <2> QED BY <2>6, <2>7
<1>11. ASSUME NEW y \in RunId, closed.runs[y].status # "absent", closed.runs[y].trigger = rec.trigger
       PROVE  closed.runs[y].attempt < rec.attempt /\ Silent(closed.runs[y])
  <2>1. CASE y = r
    BY <1>3, <1>4, <1>6, <2>1
  <2>2. CASE y # r
    <3>1. AlikeHere(closed.runs[y], store.runs[y])
      BY <1>4, <2>2
    <3>2. store.runs[y].status # "absent" /\ store.runs[y].trigger = run.trigger
      BY <1>6, <1>11, <3>1 DEF AlikeHere
    <3>3. run.status # "absent"
      BY <1>2 DEF ActiveStatus, TerminalStatus
    <3>4. y < r
      BY <1>2, <2>2, <3>2 DEF Superseded, RunId
    <3>5. store.runs[y].attempt < run.attempt /\ Superseded(store.runs, y)
      BY <1>1, <3>2, <3>3, <3>4 DEF LastSpeaks, Ordered, Superseded
    <3>6. Silent(store.runs[y])
      BY <1>1, <3>2, <3>5 DEF LastSpeaks
    <3>7. store.runs[y].attempt \in Nat
      BY <1>1, BoundsAssumption DEF Store, Run
    <3>8. store.runs[y].attempt < run.attempt + 1
      BY <1>3, <3>5, <3>7
    <3> QED BY <1>6, <3>1, <3>6, <3>8, AlikeHereSame DEF AlikeHere
  <2> QED BY <2>1, <2>2
<1>12. LoadFits(rec, attempts'[x].pc) /\ \A y \in RunId \ {x} : attempts'[y].pc = attempts[y].pc
  BY <1>1, <1>6, MovesAttempt DEF LoadFits, Transient
<1>13. Recorded(new)
  BY <1>1, SavesRecord
<1> HIDE DEF new, x
<1>14. InOrder(new.runs, attempts')
  <2>1. OneMore(closed.runs, new.runs, attempts, attempts', x, rec)
    BY <1>4, <1>6, <1>9, <1>10, <1>11, <1>12 DEF OneMore
  <2> QED BY <1>1, <1>4, <2>1, OneMoreInOrder
<1> QED BY <1>13, <1>14, RecordedInOrder

(* One attempt goes on: it does not load again, and once it is over it     *)
(* stays over.                                                             *)
Passes(att, att2, r) ==
  /\ \A y \in RunId \ {r} : att2[y].pc = att[y].pc
  /\ \/ att2[r].pc \in {att[r].pc, "done"}
     \/ att[r].pc \in LoadingPc /\ att2[r].pc \in LoadingPc
     \/ att[r].pc \notin {"none", "done"} /\ att2[r].pc \notin LoadingPc

LEMMA PassesInOrder ==
  ASSUME NEW runs, NEW att, NEW att2, NEW r \in RunId, InOrder(runs, att), Passes(att, att2, r)
  PROVE  InOrder(runs, att2)
<1>1. LoadFits(runs[r], att[r].pc)
  BY DEF InOrder
<1>2. {"none", "done"} \cap LoadingPc = {}
  BY DEF LoadingPc
<1>3. LoadFits(runs[r], att2[r].pc)
  BY <1>1, <1>2 DEF LoadFits, Passes
<1>4. \A y \in RunId : LoadFits(runs[y], att2[y].pc)
  BY <1>3 DEF Passes, InOrder
<1> QED BY <1>4 DEF InOrder

LEMMA AttemptPasses ==
  ASSUME Attempting, NEW r \in RunId, NEW pc, AttemptMoves(r, pc) \/ AttemptEnds(r, pc),
         \/ pc = "done"
         \/ attempts[r].pc \in LoadingPc /\ pc \in LoadingPc
         \/ attempts[r].pc \notin {"none", "done"} /\ pc \notin LoadingPc
  PROVE  Passes(attempts, attempts', r) /\ attempts'[r].pc = pc
<1>1. attempts'[r].pc = pc /\ \A y \in RunId \ {r} : attempts'[y].pc = attempts[y].pc
  BY DEF Attempting, Attempt, AttemptMoves, AttemptEnds
<1> QED BY <1>1 DEF Passes

(* A step after which an attempt goes on with the store st, or gives up    *)
(* because it could not be saved.                                          *)
LEMMA AttemptSavesInOrder ==
  ASSUME Attempting, LatestInv, NEW r \in RunId, NEW st, NEW pc, AttemptSaves(r, st, pc),
         AttemptMoves(r, pc) => InOrder(st.runs, attempts')
  PROVE  LatestInv'
<1>1. CASE Persist(st, 0) /\ AttemptMoves(r, pc)
  BY <1>1, SavesRecord, RecordedInOrder
<1>2. CASE InMemory(store, 1) /\ AttemptMoves(r, "done")
  <2>1. Passes(attempts, attempts', r)
    BY <1>2, AttemptPasses
  <2>2. InOrder(store.runs, attempts')
    BY <2>1, PassesInOrder DEF LatestInv
  <2> QED BY <1>2, <2>2, SavesRecord, RecordedInOrder
<1> QED BY <1>1, <1>2 DEF AttemptSaves

(* A run that goes on, or is blocked, once its changes are loaded.         *)
LEMMA GoesOnInOrder ==
  ASSUME NEW st, SoundStore(st), NEW att, InOrder(st.runs, att), NEW r \in RunId, NEW rec \in Run,
         rec.trigger = st.runs[r].trigger, rec.attempt = st.runs[r].attempt,
         rec.pub = st.runs[r].pub, rec.note = st.runs[r].note, rec.status \in {"running", "blocked"},
         att[r].pc \notin LoadingPc
  PROVE  InOrder(Update(st, r, rec).runs, att)
<1>1. ~Replaceable(rec) /\ ~Transient(rec) /\ rec.status # "absent"
  BY DEF Replaceable, Transient
<1>2. LoadFits(rec, att[r].pc)
  BY <1>1 DEF LoadFits
<1> QED BY <1>1, <1>2, UpdateInOrder

(* The records of a run that goes on.                                      *)
GoingOn(run) ==
  {[run EXCEPT !.status = "running", !.context = TRUE],
   [run EXCEPT !.status = "blocked", !.context = TRUE],
   [run EXCEPT !.status = "running", !.session = TRUE, !.reason = "none"],
   [run EXCEPT !.status = "running"]}

GoneOn(run, rec) ==
  /\ rec \in Run /\ rec.trigger = run.trigger /\ rec.attempt = run.attempt
  /\ rec.pub = run.pub /\ rec.note = run.note /\ rec.status \in {"running", "blocked"}

LEMMA GoingOnRuns ==
  ASSUME NEW run \in Run
  PROVE  \A rec \in GoingOn(run) : GoneOn(run, rec)
<1>1. /\ {"running", "blocked"} \subseteq {"absent"} \cup ActiveStatus \cup TerminalStatus
      /\ "none" \in Reason
  BY DEF ActiveStatus, TerminalStatus, Reason
<1>2. ASSUME NEW status \in {"running", "blocked"}
      PROVE  GoneOn(run, [run EXCEPT !.status = status, !.context = TRUE])
  <2> DEFINE rec == [run EXCEPT !.status = status, !.context = TRUE]
  <2>1. rec \in Run
    BY <1>1 DEF Run
  <2>2. /\ rec.trigger = run.trigger /\ rec.attempt = run.attempt
        /\ rec.pub = run.pub /\ rec.note = run.note /\ rec.status = status
    BY DEF Run
  <2> HIDE DEF rec
  <2>3. GoneOn(run, rec)
    BY <2>1, <2>2 DEF GoneOn
  <2> QED BY <2>3 DEF rec
<1>3. GoneOn(run, [run EXCEPT !.status = "running", !.session = TRUE, !.reason = "none"])
  <2> DEFINE rec == [run EXCEPT !.status = "running", !.session = TRUE, !.reason = "none"]
  <2>1. rec \in Run
    BY <1>1 DEF Run
  <2>2. /\ rec.trigger = run.trigger /\ rec.attempt = run.attempt
        /\ rec.pub = run.pub /\ rec.note = run.note /\ rec.status = "running"
    BY DEF Run
  <2> HIDE DEF rec
  <2>3. GoneOn(run, rec)
    BY <2>1, <2>2 DEF GoneOn
  <2> QED BY <2>3 DEF rec
<1>4. GoneOn(run, [run EXCEPT !.status = "running"])
  <2> DEFINE rec == [run EXCEPT !.status = "running"]
  <2>1. rec \in Run
    BY <1>1 DEF Run
  <2>2. /\ rec.trigger = run.trigger /\ rec.attempt = run.attempt
        /\ rec.pub = run.pub /\ rec.note = run.note /\ rec.status = "running"
    BY DEF Run
  <2> HIDE DEF rec
  <2>3. GoneOn(run, rec)
    BY <2>1, <2>2 DEF GoneOn
  <2> QED BY <2>3 DEF rec
<1> QED BY <1>2, <1>3, <1>4, Zenon DEF GoingOn

LEMMA GoingOnInOrder ==
  ASSUME NEW st, SoundStore(st), NEW att, InOrder(st.runs, att), NEW r \in RunId, att[r].pc \notin LoadingPc
  PROVE  \A rec \in GoingOn(st.runs[r]) : InOrder(Update(st, r, rec).runs, att)
<1>1. st.runs[r] \in Run
  BY StoreFields
<1> QED BY <1>1, GoingOnRuns, GoesOnInOrder DEF GoneOn

(* A run that could not be configured may be tried again, as long as it    *)
(* has said nothing.                                                       *)
LEMMA RejectConfigurationInOrder ==
  ASSUME NEW st, SoundStore(st), NEW att, InOrder(st.runs, att), NEW r \in RunId
  PROVE  InOrder(RejectConfiguration(st, r).runs, att)
<1> DEFINE run == st.runs[r]
           rec == WithStatus(run, "rejected", "configuration")
<1> SUFFICES ASSUME run.pub = "none", run.note = "none", run.status \in ActiveStatus
             PROVE  InOrder(UpdateIfCurrent(st, r, run.session, rec).runs, att)
  BY DEF RejectConfiguration
<1>1. run \in Run /\ LoadFits(run, att[r].pc) /\ Mute(run) /\ run.status # "absent"
  BY StoreFields DEF InOrder, Mute, ActiveStatus
<1>2. /\ rec \in Run /\ rec.trigger = run.trigger /\ rec.attempt = run.attempt /\ rec.pub = run.pub
      /\ rec.note = run.note /\ rec.status = "rejected" /\ rec.context = run.context
  <2>1. "rejected" \in TerminalStatus /\ "configuration" \in Reason
    BY DEF TerminalStatus, Reason
  <2> HIDE DEF run
  <2>2. rec \in Run
    BY <1>1, <2>1 DEF WithStatus, Run
  <2>3. /\ rec.trigger = run.trigger /\ rec.attempt = run.attempt /\ rec.pub = run.pub
        /\ rec.note = run.note /\ rec.status = "rejected" /\ rec.context = run.context
    BY <1>1 DEF WithStatus, Run
  <2> QED BY <2>2, <2>3
<1> HIDE DEF rec
<1>3. Mute(rec) /\ LoadFits(rec, att[r].pc) /\ rec.status # "absent"
  BY <1>1, <1>2 DEF Mute, LoadFits, Transient
<1> QED BY <1>2, <1>3, UpdateIfCurrentInOrder

(* The changes could not be loaded for now: the attempt is over.           *)
LEMMA TransientInOrder ==
  ASSUME NEW st, SoundStore(st), NEW att, InOrder(st.runs, att), NEW r \in RunId, Mute(st.runs[r]),
         att[r].pc = "done"
  PROVE  InOrder(Update(st, r, WithStatus(st.runs[r], "failed", "load_transient")).runs, att)
<1> DEFINE run == st.runs[r]
           rec == WithStatus(run, "failed", "load_transient")
<1>1. run \in Run
  BY StoreFields
<1>2. /\ rec \in Run /\ rec.trigger = run.trigger /\ rec.attempt = run.attempt /\ rec.pub = run.pub
      /\ rec.note = run.note /\ rec.status = "failed"
  <2>1. "failed" \in TerminalStatus /\ "load_transient" \in Reason
    BY DEF TerminalStatus, Reason
  <2> HIDE DEF run
  <2>2. rec \in Run
    BY <1>1, <2>1 DEF WithStatus, Run
  <2>3. /\ rec.trigger = run.trigger /\ rec.attempt = run.attempt /\ rec.pub = run.pub
        /\ rec.note = run.note /\ rec.status = "failed"
    BY <1>1 DEF WithStatus, Run
  <2> QED BY <2>2, <2>3
<1> HIDE DEF rec
<1>3. Mute(rec) /\ rec.status # "absent" /\ LoadFits(rec, att[r].pc)
  BY <1>2 DEF Mute, LoadFits, LoadingPc
<1> QED BY <1>2, <1>3, UpdateInOrder DEF rec

(* The part of the invariant that the proofs of single steps use.          *)
LEMMA LatestParts ==
  ASSUME OInv, LatestInv
  PROVE  /\ SoundStore(store) /\ store \in Store /\ Attempting
         /\ InOrder(store.runs, attempts) /\ LastSpeaks(store.runs)
BY DEF OInv, IInv, Stored, SoundStore, LatestInv, InOrder

(* A session that ends because its run failed, in each of its outcomes.    *)
LEMMA RunFailureInOrder ==
  ASSUME OInv, LatestInv, NEW r \in RunId, attempts[r].pc \notin {"none", "done"}, NEW st, SoundStore(st),
         \A att : InOrder(store.runs, att) => InOrder(st.runs, att), NEW k,
         RunFailed(st, r, k) \/ RunFailureLost(st, r, k) \/ RunFailureRefused(st, r, k)
  PROVE  LatestInv'
<1>1. Attempting /\ InOrder(store.runs, attempts)
  BY LatestParts
<1>2. CASE RunFailed(st, r, k)
  <2>1. Passes(attempts, attempts', r)
    BY <1>1, <1>2, AttemptPasses DEF RunFailed, LoadingPc
  <2>2. InOrder(st.runs, attempts')
    BY <1>1, <2>1, PassesInOrder
  <2>3. InOrder(Update(st, r, WithStatus(st.runs[r], "failed", "other")).runs, attempts')
    <3> DEFINE s == <<"failed", "other">>
               att == attempts'
    <3>1. s[1] = "failed" /\ s[2] = "other" /\ <<s[1], s[2]>> \in {<<"failed", "other">>, <<"rejected", "policy">>}
      OBVIOUS
    <3>2. InOrder(st.runs, att)
      BY <2>2
    <3> HIDE DEF s, att
    <3>3. InOrder(Update(st, r, WithStatus(st.runs[r], s[1], s[2])).runs, att)
      BY <3>1, <3>2, StatusInOrder
    <3> QED BY <3>1, <3>3 DEF att
  <2> QED BY <1>2, <2>3, SavesRecord, RecordedInOrder DEF RunFailed
<1>3. CASE RunFailureLost(st, r, k) \/ RunFailureRefused(st, r, k)
  <2>1. Passes(attempts, attempts', r)
    BY <1>1, <1>3, AttemptPasses DEF RunFailureLost, RunFailureRefused
  <2>2. InOrder(st.runs, attempts')
    BY <1>1, <2>1, PassesInOrder
  <2> QED BY <1>3, <2>2, SavesRecord, RecordedInOrder DEF RunFailureLost, RunFailureRefused
<1> QED BY <1>2, <1>3

LEMMA FailsRunInOrder ==
  ASSUME OInv, LatestInv, NEW r \in RunId, attempts[r].pc \notin {"none", "done"},
         (\E k : FailsRun(r, k)) \/ FailsPublishedRun(store, r)
  PROVE  LatestInv'
<1>1. SoundStore(store) /\ \A att : InOrder(store.runs, att) => InOrder(store.runs, att)
  BY LatestParts
<1>2. ASSUME NEW k, FailsRun(r, k) PROVE LatestInv'
  BY <1>1, <1>2, RunFailureInOrder DEF FailsRun
<1>3. ASSUME FailsPublishedRun(store, r) PROVE LatestInv'
  BY <1>1, <1>3, RunFailureInOrder DEF FailsPublishedRun
<1> QED BY <1>2, <1>3

(* A run that fails, or is rejected because its merge request moved on.    *)
LEMMA EndsInOrder ==
  ASSUME NEW st, SoundStore(st), NEW att, InOrder(st.runs, att), NEW r \in RunId, NEW session
  PROVE  /\ InOrder(Update(st, r, WithStatus(st.runs[r], "failed", "other")).runs, att)
         /\ InOrder(Update(st, r, WithStatus(st.runs[r], "rejected", "policy")).runs, att)
         /\ InOrder(UpdateIfCurrent(st, r, session, WithStatus(st.runs[r], "failed", "other")).runs, att)
         /\ InOrder(UpdateIfCurrent(st, r, session, WithStatus(st.runs[r], "rejected", "policy")).runs, att)
<1>1. ASSUME NEW a, NEW b, <<a, b>> \in {<<"failed", "other">>, <<"rejected", "policy">>}
      PROVE  LET rec == WithStatus(st.runs[r], a, b)
             IN  /\ InOrder(Update(st, r, rec).runs, att)
                 /\ InOrder(UpdateIfCurrent(st, r, session, rec).runs, att)
  <2> DEFINE s == <<a, b>>
  <2>1. s[1] = a /\ s[2] = b /\ <<s[1], s[2]>> \in {<<"failed", "other">>, <<"rejected", "policy">>}
    BY <1>1
  <2> HIDE DEF s
  <2>2. LET rec == WithStatus(st.runs[r], s[1], s[2])
        IN  /\ InOrder(Update(st, r, rec).runs, att)
            /\ InOrder(UpdateIfCurrent(st, r, session, rec).runs, att)
    BY <2>1, StatusInOrder
  <2> QED BY <2>1, <2>2
<1> QED BY <1>1

LEMMA LoadStepInOrder ==
  ASSUME OInv, LatestInv, NEW r \in RunId,
         LoadMisconfigured(r) \/ LoadFails(r) \/ LoadHeadChanged(r) \/ LoadSucceeds(r) \/ DirectoryMissing(r)
  PROVE  LatestInv'
<1>1. SoundStore(store) /\ Attempting /\ InOrder(store.runs, attempts)
  BY LatestParts
<1>2. attempts[r].pc \in {"loading", "starting"} /\ (attempts[r].pc = "loading" => Mute(store.runs[r]))
  BY <1>1 DEF LoadMisconfigured, LoadFails, LoadHeadChanged, LoadSucceeds, DirectoryMissing,
              InOrder, LoadFits, LoadingPc
<1>3. ASSUME NEW pc \in {"done", "reporting", "starting"}, AttemptMoves(r, pc)
      PROVE  InOrder(store.runs, attempts') /\ attempts'[r].pc = pc
  <2>1. Passes(attempts, attempts', r) /\ attempts'[r].pc = pc
    BY <1>1, <1>2, <1>3, AttemptPasses DEF LoadingPc
  <2> QED BY <1>1, <2>1, PassesInOrder
<1>4. CASE LoadMisconfigured(r) \/ DirectoryMissing(r)
  BY <1>1, <1>3, <1>4, RejectConfigurationInOrder, AttemptSavesInOrder DEF LoadMisconfigured, DirectoryMissing
<1>5. CASE LoadFails(r)
  <2>1. CASE AttemptSaves(r, Update(store, r, WithStatus(store.runs[r], "failed", "load_transient")), "done")
    <3>1. Mute(store.runs[r])
      BY <1>2, <1>5 DEF LoadFails
    <3> QED BY <1>1, <1>3, <2>1, <3>1, TransientInOrder, AttemptSavesInOrder
  <2>2. CASE AttemptSaves(r, Update(store, r, WithStatus(store.runs[r], "failed", "other")), "reporting")
    BY <1>1, <1>3, <2>2, EndsInOrder, AttemptSavesInOrder
  <2> QED BY <1>5, <2>1, <2>2 DEF LoadFails
<1>6. CASE LoadHeadChanged(r)
  BY <1>1, <1>3, <1>6, EndsInOrder, AttemptSavesInOrder DEF LoadHeadChanged
<1>7. CASE LoadSucceeds(r)
  <2> DEFINE rec == [store.runs[r] EXCEPT !.status = "running", !.context = TRUE]
  <2>1. rec \in GoingOn(store.runs[r])
    BY Zenon DEF GoingOn
  <2>2. AttemptSaves(r, Update(store, r, rec), "starting")
    BY <1>7 DEF LoadSucceeds
  <2> HIDE DEF rec
  <2>3. AttemptMoves(r, "starting") => InOrder(Update(store, r, rec).runs, attempts')
    BY <1>1, <1>3, <2>1, GoingOnInOrder DEF LoadingPc
  <2> QED BY <1>1, <2>2, <2>3, AttemptSavesInOrder
<1> QED BY <1>4, <1>5, <1>6, <1>7

LEMMA BlockedStepInOrder ==
  ASSUME OInv, LatestInv, NEW r \in RunId,
         LoadBlocked(r) \/ BlockedProceeds(r) \/ BlockedHeadChanged(r) \/ BlockedEnds(r)
  PROVE  LatestInv'
<1>1. SoundStore(store) /\ Attempting /\ InOrder(store.runs, attempts)
  BY LatestParts
<1>2. attempts[r].pc \in LoadingPc
  <2>1. BlockedProceeds(r) => attempts[r].pc \in {"blockedSecret", "blockedHead", "blockedCheck"}
    BY DEF BlockedProceeds
  <2>2. BlockedHeadChanged(r) \/ BlockedEnds(r) => attempts[r].pc \in LoadingPc
    BY DEF BlockedHeadChanged, BlockedEnds, LoadingPc
  <2> QED BY <2>1, <2>2 DEF LoadBlocked, LoadingPc
<1>3. ASSUME NEW pc \in {"done"} \cup LoadingPc, AttemptMoves(r, pc)
      PROVE  InOrder(store.runs, attempts') /\ attempts'[r].pc = pc
  <2>1. Passes(attempts, attempts', r) /\ attempts'[r].pc = pc
    BY <1>1, <1>2, <1>3, AttemptPasses
  <2> QED BY <1>1, <2>1, PassesInOrder
<1>4. ASSUME AttemptSaves(r, Blocked(r), "done") PROVE LatestInv'
  <2> DEFINE rec == [store.runs[r] EXCEPT !.status = "blocked", !.context = TRUE]
  <2>1. rec \in GoingOn(store.runs[r])
    BY Zenon DEF GoingOn
  <2>2. Blocked(r) = Update(store, r, rec)
    BY DEF Blocked
  <2> HIDE DEF rec
  <2>3. AttemptMoves(r, "done") => InOrder(Update(store, r, rec).runs, attempts')
    BY <1>1, <1>3, <2>1, GoingOnInOrder DEF LoadingPc
  <2> QED BY <1>1, <1>4, <2>2, <2>3, AttemptSavesInOrder
<1>5. ASSUME NEW pc \in LoadingPc, AttemptMoves(r, pc), UNCHANGED storeVars PROVE LatestInv'
  BY <1>3, <1>5, SavesRecord, RecordedInOrder
<1>6. CASE LoadBlocked(r) \/ BlockedProceeds(r)
  BY <1>4, <1>5, <1>6 DEF LoadBlocked, BlockedProceeds, LoadingPc
<1>7. CASE BlockedHeadChanged(r)
  BY <1>1, <1>3, <1>7, EndsInOrder, AttemptSavesInOrder DEF BlockedHeadChanged
<1>8. CASE BlockedEnds(r)
  BY <1>4, <1>8 DEF BlockedEnds
<1> QED BY <1>6, <1>7, <1>8

LEMMA SessionStepInOrder ==
  ASSUME OInv, LatestInv, NEW r \in RunId,
         \/ SessionCreated(r) \/ StartFails(r) \/ ResponseAccepted(r) \/ SessionFails(r)
         \/ RuntimeOutputInvalid(r) \/ PublicationEnds(r)
         \/ \E payload \in Payload : RuntimeOutputRefused(r, payload)
  PROVE  LatestInv'
<1>1. SoundStore(store) /\ Attempting /\ InOrder(store.runs, attempts)
  BY LatestParts
<1>2. attempts[r].pc \in {"starting", "live", "publishing"}
  BY DEF SessionCreated, StartFails, ResponseAccepted, SessionFails, RuntimeOutputInvalid, PublicationEnds,
         RuntimeOutputRefused
<1>3. attempts[r].pc \notin {"none", "done"} /\ attempts[r].pc \notin LoadingPc
  BY <1>2 DEF LoadingPc
<1>4. ASSUME NEW new \in {attempts[r].pc, "live", "done"}, NEW rec, Passes(attempts, attempts', r),
             attempts'[r].pc = new, rec \in GoingOn(store.runs[r]), Persist(Update(store, r, rec), 0)
      PROVE  LatestInv'
  <2>1. InOrder(store.runs, attempts') /\ attempts'[r].pc \notin LoadingPc
    BY <1>1, <1>3, <1>4, PassesInOrder DEF LoadingPc
  <2>2. InOrder(Update(store, r, rec).runs, attempts')
    BY <1>1, <1>4, <2>1, GoingOnInOrder
  <2> QED BY <1>4, <2>2, SavesRecord, RecordedInOrder
<1>5. ASSUME Passes(attempts, attempts', r), \E k : Persist(store, k) \/ UNCHANGED storeVars PROVE LatestInv'
  <2>1. InOrder(store.runs, attempts')
    BY <1>1, <1>5, PassesInOrder
  <2> QED BY <1>5, <2>1, SavesRecord, RecordedInOrder
<1>6. (\E k : FailsRun(r, k)) \/ FailsPublishedRun(store, r) => LatestInv'
  BY <1>3, FailsRunInOrder
<1>7. CASE SessionCreated(r)
  <2> DEFINE rec == [store.runs[r] EXCEPT !.status = "running", !.session = TRUE, !.reason = "none"]
  <2>1. rec \in GoingOn(store.runs[r])
    BY Zenon DEF GoingOn
  <2>2. \/ /\ Persist(Update(store, r, rec), 0) \/ Persist(store, 0)
           /\ attempts' = [attempts EXCEPT ![r].pc = "live", ![r].response = "waiting"]
        \/ FailsRun(r, 1)
    BY <1>7 DEF SessionCreated
  <2> HIDE DEF rec
  <2>3. ASSUME attempts' = [attempts EXCEPT ![r].pc = "live", ![r].response = "waiting"]
        PROVE  Passes(attempts, attempts', r) /\ attempts'[r].pc = "live"
    <3>1. attempts'[r].pc = "live" /\ \A y \in RunId \ {r} : attempts'[y].pc = attempts[y].pc
      BY <1>1, <2>3 DEF Attempting, Attempt
    <3> QED BY <1>3, <3>1 DEF Passes, LoadingPc
  <2> QED BY <1>4, <1>5, <1>6, <2>1, <2>2, <2>3
<1>8. CASE ResponseAccepted(r)
  <2> DEFINE rec == [store.runs[r] EXCEPT !.status = "running"]
  <2>1. rec \in GoingOn(store.runs[r])
    BY Zenon DEF GoingOn
  <2>2. \/ /\ Persist(Update(store, r, rec), 0) \/ Persist(store, 0)
           /\ attempts' = [attempts EXCEPT ![r].response = "done"]
        \/ FailsRun(r, 1)
    BY <1>8 DEF ResponseAccepted
  <2> HIDE DEF rec
  <2>3. ASSUME attempts' = [attempts EXCEPT ![r].response = "done"]
        PROVE  Passes(attempts, attempts', r) /\ attempts'[r].pc = attempts[r].pc
    <3>1. attempts'[r].pc = attempts[r].pc /\ \A y \in RunId \ {r} : attempts'[y].pc = attempts[y].pc
      BY <1>1, <2>3 DEF Attempting, Attempt
    <3> QED BY <3>1 DEF Passes
  <2> QED BY <1>4, <1>5, <1>6, <2>1, <2>2, <2>3
<1>9. CASE StartFails(r) \/ SessionFails(r) \/ \E payload \in Payload : RuntimeOutputRefused(r, payload)
  BY <1>6, <1>9 DEF StartFails, SessionFails, RuntimeOutputRefused
<1>10. CASE RuntimeOutputInvalid(r)
  <2> DEFINE run == store.runs[r]
             failed == UpdateIfCurrent(store, r, run.session, WithStatus(run, "failed", "other"))
             considered == IF PublicationConsidered(run) THEN failed ELSE store
  <2>1. SoundStore(considered)
    <3>1. "failed" \in TerminalStatus /\ "other" \in Reason
      BY DEF TerminalStatus, Reason
    <3> QED BY <1>1, <3>1, UpdateStatusSound
  <2>2. \A att : InOrder(store.runs, att) => InOrder(considered.runs, att)
    BY <1>1, EndsInOrder
  <2>3. FailsPublishedRun(considered, r) \/ FailsRun(r, 1)
    BY <1>10 DEF RuntimeOutputInvalid
  <2> HIDE DEF considered
  <2>4. FailsPublishedRun(considered, r) => LatestInv'
    BY <1>3, <2>1, <2>2, RunFailureInOrder DEF FailsPublishedRun
  <2> QED BY <1>6, <2>3, <2>4
<1>11. CASE PublicationEnds(r)
  <2>1. ASSUME attempts' = [attempts EXCEPT ![r].pc = "done", ![r].response = "done"]
        PROVE  Passes(attempts, attempts', r)
    <3>1. attempts'[r].pc = "done" /\ \A y \in RunId \ {r} : attempts'[y].pc = attempts[y].pc
      BY <1>1, <2>1 DEF Attempting, Attempt
    <3> QED BY <3>1 DEF Passes
  <2> QED BY <1>5, <1>6, <1>11, <2>1 DEF PublicationEnds
<1> QED BY <1>7, <1>8, <1>9, <1>10, <1>11

(* A step that leaves the attempts alone.                                  *)
LEMMA SavedInOrder ==
  ASSUME LatestInv, UNCHANGED attempts, NEW st, InOrder(st.runs, attempts), Recorded(st)
  PROVE  LatestInv'
BY RecordedInOrder

LEMMA StoreStaysInOrder ==
  ASSUME LatestInv, UNCHANGED attempts, UNCHANGED storeVars
  PROVE  LatestInv'
BY SavesRecord, SavedInOrder DEF LatestInv

LEMMA PublisherFailsInOrder ==
  ASSUME OInv, LatestInv, UNCHANGED attempts, NEW p \in PublicationClaim, publishers[p].pc # "idle",
         \E k : PublisherFails(p, k)
  PROVE  LatestInv'
<1>1. SoundStore(store) /\ InOrder(store.runs, attempts) /\ PublisherId(p).run \in RunId
  BY LatestParts, PublisherFields DEF OInv, IInv
<1>2. InOrder(FailPublication(store, PublisherId(p)).runs, attempts)
  BY <1>1, FailPublicationInOrder
<1> QED BY <1>1, <1>2, SavesRecord, SavedInOrder DEF PublisherFails

LEMMA UnpreparedInOrder ==
  ASSUME OInv, LatestInv, UNCHANGED attempts, NEW p \in PublicationClaim, publishers[p].pc # "idle",
         PreparationFails(p)
  PROVE  LatestInv'
<1> DEFINE self == publishers[p]
           released == ReleasePublicationClaim(store, PublisherId(p), self.resume)
           run == released.runs[self.run]
           ended == UpdateIfCurrent(released, self.run, self.session, WithStatus(run, "failed", "other"))
           failed == IF IdentityCurrent(released, self.run, self.session) THEN ended ELSE released
<1>1. SoundStore(store) /\ InOrder(store.runs, attempts) /\ PublisherId(p).run \in RunId /\ self.run \in RunId
  BY LatestParts, PublisherFields DEF OInv, IInv
<1>2. SoundStore(released) /\ InOrder(released.runs, attempts)
  BY <1>1, ReleasePublicationClaimSound, ReleasePublicationInOrder
<1>3. InOrder(ended.runs, attempts)
  <2> HIDE DEF released
  <2> QED BY <1>1, <1>2, EndsInOrder
<1>4. Persist(failed, 0) \/ InMemory(store, 1) \/ Persist(released, 1)
  BY DEF PreparationFails
<1>5. InOrder(failed.runs, attempts)
  <2> HIDE DEF ended, released
  <2> QED BY <1>2, <1>3
<1> HIDE DEF failed, released, ended
<1> QED BY <1>1, <1>2, <1>4, <1>5, SavesRecord, SavedInOrder

LEMMA HeadChangedInOrder ==
  ASSUME OInv, LatestInv, NEW p \in PublicationClaim, PublisherHeadChanged(p)
  PROVE  LatestInv'
<1> DEFINE self == publishers[p]
           rejected == UpdateIfCurrent(store, self.run, self.session,
                         WithStatus(store.runs[self.run], "rejected", "policy"))
           released == ReleasePublicationClaim(rejected, PublisherId(p), self.resume)
<1>1. SoundStore(store) /\ InOrder(store.runs, attempts) /\ PublisherId(p).run \in RunId /\ self.run \in RunId
  <2>1. self.pc # "idle"
    BY DEF PublisherHeadChanged
  <2> QED BY <2>1, LatestParts, PublisherFields DEF OInv, IInv
<1>2. SoundStore(rejected) /\ InOrder(rejected.runs, attempts)
  <2>1. "rejected" \in TerminalStatus /\ "policy" \in Reason
    BY DEF TerminalStatus, Reason
  <2> QED BY <1>1, <2>1, UpdateStatusSound, EndsInOrder
<1>3. (Persist(released, 0) \/ Persist(rejected, 1)) /\ UNCHANGED attempts
  BY DEF PublisherHeadChanged
<1> HIDE DEF rejected
<1>4. InOrder(released.runs, attempts)
  BY <1>1, <1>2, ReleasePublicationInOrder
<1> HIDE DEF released
<1> QED BY <1>2, <1>3, <1>4, SavesRecord, SavedInOrder

LEMMA PublisherStepInOrder ==
  ASSUME OInv, LatestInv, NEW p \in PublicationClaim, PublisherStep(p)
  PROVE  LatestInv'
<1> DEFINE id == PublisherId(p)
<1>1. SoundStore(store) /\ InOrder(store.runs, attempts)
  BY LatestParts
<1>2. UNCHANGED attempts /\ publishers[p].pc # "idle"
  BY DEF PublisherStep, PublisherHasToken, PublisherUnprepared, PublisherHeadChanged, PublisherHeadVerified,
         PublisherReconciles, PublisherReconcileFails, PublisherSends, PublisherCheckFails, PublisherCheckRejects,
         PublisherConfirmed, PublisherPositionRefused, PublisherUnconfirmed, PublisherRecords,
         PublisherRecordFails, PublisherFinishes, PublisherFinishFails
<1>3. id.run \in RunId /\ publishers[p] \in Publisher
  BY <1>2, PublisherFields DEF OInv, IInv
<1>4. CASE PublisherHasToken(p) \/ PublisherHeadVerified(p) \/ PublisherSends(p) \/ PublisherConfirmed(p)
           \/ PublisherPositionRefused(p)
  BY <1>4, StoreStaysInOrder DEF PublisherHasToken, PublisherHeadVerified, PublisherSends, PublisherConfirmed,
                                 PublisherPositionRefused
<1>5. CASE PublisherReconcileFails(p) \/ PublisherCheckFails(p) \/ PublisherUnconfirmed(p)
           \/ PublisherRecordFails(p) \/ PublisherFinishFails(p)
  BY <1>2, <1>5, PublisherFailsInOrder DEF PublisherReconcileFails, PublisherCheckFails, PublisherUnconfirmed,
                                     PublisherRecordFails, PublisherFinishFails
<1>6. CASE PublisherUnprepared(p)
  BY <1>2, <1>6, UnpreparedInOrder DEF PublisherUnprepared
<1>7. CASE PublisherHeadChanged(p)
  BY <1>7, HeadChangedInOrder
<1>8. CASE PublisherReconciles(p)
  <2>1. IsPublicationClaimCurrent(store, id) /\ Visible(id.run) \in SUBSET Marker
    BY <1>8 DEF PublisherReconciles, PublisherCurrent, Visible
  <2>2. InOrder(ReplacePublicationMarkers(store, id, Visible(id.run)).runs, attempts)
    BY <1>1, <1>3, <2>1, MarkersInOrder
  <2>3. Persist(ReplacePublicationMarkers(store, id, Visible(id.run)), 0)
    BY <1>8 DEF PublisherReconciles
  <2> QED BY <1>2, <2>2, <2>3, SavesRecord, SavedInOrder
<1>9. CASE PublisherCheckRejects(p)
  <2>1. InOrder(RejectPublicationForPolicy(store, id).runs, attempts)
    BY <1>1, <1>3, RejectPublicationInOrder
  <2>2. Persist(RejectPublicationForPolicy(store, id), 0) \/ InMemory(store, 1)
    BY <1>9 DEF PublisherCheckRejects
  <2> QED BY <1>1, <1>2, <2>1, <2>2, SavesRecord, SavedInOrder
<1>10. CASE PublisherRecords(p)
  <2>1. PICK m \in publishers[p].pending : Persist(RecordPublicationMarker(store, id, m), 0)
    BY <1>10 DEF PublisherRecords
  <2>2. m \in Marker /\ IsPublicationClaimCurrent(store, id)
    BY <1>3, <1>10 DEF Publisher, PublisherRecords, PublisherCurrent
  <2>3. InOrder(RecordPublicationMarker(store, id, m).runs, attempts)
    BY <1>1, <1>3, <2>2, MarkersInOrder
  <2> QED BY <1>2, <2>1, <2>3, SavesRecord, SavedInOrder
<1>11. ASSUME NEW status \in {"blocked", "succeeded", "failed"}, PublisherFinishes(p, status)
       PROVE  LatestInv'
  <2>1. IsPublicationClaimCurrent(store, id) /\ status \in TerminalStatus
    BY <1>11 DEF PublisherFinishes, PublisherCurrent, TerminalStatus
  <2>2. /\ InOrder(CompletePublication(store, id, status).runs, attempts)
        /\ InOrder(ReleaseAsPartial(store, id).runs, attempts)
        /\ InOrder(Saved(ReleaseAsPartial(store, id), id.run).runs, attempts)
    BY <1>1, <1>3, <2>1, CompletePublicationInOrder, ReleaseAsPartialInOrder
  <2>3. \/ Persist(CompletePublication(store, id, status), 0)
        \/ Persist(Saved(ReleaseAsPartial(store, id), id.run), 1)
        \/ InMemory(ReleaseAsPartial(store, id), 2)
    BY <1>11 DEF PublisherFinishes
  <2> QED BY <1>2, <2>2, <2>3, SavesRecord, SavedInOrder
<1> QED BY <1>4, <1>5, <1>6, <1>7, <1>8, <1>9, <1>10, <1>11 DEF PublisherStep

(* A publication begins.                                                   *)
LEMMA PublisherClaimsInOrder ==
  ASSUME OInv, LatestInv, NEW p \in PublicationClaim, NEW r \in RunId, NEW payload \in Payload, NEW caller,
         PublisherClaims(p, caller, r, payload),
         UNCHANGED attempts \/ (attempts[r].pc = "live" /\ AttemptMoves(r, "publishing"))
  PROVE  LatestInv'
<1>1. SoundStore(store) /\ Attempting /\ InOrder(store.runs, attempts)
  BY LatestParts
<1>2. InOrder(store.runs, attempts')
  <2>1. CASE UNCHANGED attempts
    BY <1>1, <2>1
  <2>2. CASE attempts[r].pc = "live" /\ AttemptMoves(r, "publishing")
    <3>1. Passes(attempts, attempts', r)
      BY <1>1, <2>2, AttemptPasses DEF LoadingPc
    <3> QED BY <1>1, <3>1, PassesInOrder
  <2> QED BY <2>1, <2>2
<1>3. ClaimPublicationAllowed(store, r, payload) /\ store.runs[r].context
      /\ Persist(ClaimPublication(store, r, p, payload), 0)
  BY DEF PublisherClaims, PublicationAccepted, PublicationConsidered
<1>4. InOrder(ClaimPublication(store, r, p, payload).runs, attempts')
  BY <1>1, <1>2, <1>3, ClaimPublicationInOrder
<1> QED BY <1>3, <1>4, SavesRecord, RecordedInOrder

(* A notification begins.                                                  *)
LEMMA NotifierClaimsInOrder ==
  ASSUME OInv, LatestInv, NEW n \in NoteClaim, NEW r \in RunId, NEW payload \in Payload \cup {NoPayload},
         NotifierClaims(n, r, payload),
         \/ UNCHANGED attempts /\ store.runs[r].note # "none"
         \/ attempts[r].pc = "reporting" /\ AttemptMoves(r, "done")
  PROVE  LatestInv'
<1>1. SoundStore(store) /\ Attempting /\ InOrder(store.runs, attempts) /\ LastSpeaks(store.runs)
  BY LatestParts
<1>2. InOrder(store.runs, attempts') /\ ~Transient(store.runs[r]) /\ attempts'[r].pc \notin LoadingPc
  <2>1. CASE UNCHANGED attempts /\ store.runs[r].note # "none"
    <3>1. ~Mute(store.runs[r])
      BY <2>1 DEF Mute
    <3>2. ~Transient(store.runs[r])
      BY <1>1, <3>1 DEF LastSpeaks, Replaceable
    <3>3. attempts[r].pc \notin LoadingPc
      BY <1>1, <3>1 DEF InOrder, LoadFits
    <3> QED BY <1>1, <2>1, <3>2, <3>3
  <2>2. CASE attempts[r].pc = "reporting" /\ AttemptMoves(r, "done")
    <3>1. Passes(attempts, attempts', r) /\ attempts'[r].pc = "done"
      BY <1>1, <2>2, AttemptPasses
    <3>2. ~Transient(store.runs[r])
      BY <1>1, <2>2 DEF InOrder, LoadFits
    <3> QED BY <1>1, <3>1, <3>2, PassesInOrder DEF LoadingPc
  <2> QED BY <2>1, <2>2
<1>3. ClaimFailureNotificationAllowed(store, r, payload) /\ Persist(ClaimFailureNotification(store, r, n, payload), 0)
  BY DEF NotifierClaims, NotificationAccepted
<1>4. InOrder(ClaimFailureNotification(store, r, n, payload).runs, attempts')
  BY <1>1, <1>2, <1>3, ClaimNotificationInOrder
<1> QED BY <1>3, <1>4, SavesRecord, RecordedInOrder

LEMMA AttemptStepInOrder ==
  ASSUME OInv, LatestInv, NEW r \in RunId, AttemptStep(r)
  PROVE  LatestInv'
<1>1. ASSUME NEW payload \in Payload, NEW p \in PublicationClaim, RuntimeOutput(p, r, payload) PROVE LatestInv'
  BY <1>1, PublisherClaimsInOrder DEF RuntimeOutput
<1>2. ASSUME NEW payload \in Payload, NEW n \in NoteClaim, ReportFailure(n, r, payload) PROVE LatestInv'
  BY <1>2, NotifierClaimsInOrder DEF ReportFailure
<1>3. ASSUME NEW payload \in Payload, ReportRefused(r, payload) PROVE LatestInv'
  <2>1. Attempting /\ InOrder(store.runs, attempts)
    BY LatestParts
  <2>2. AttemptMoves(r, "done") /\ \E k : InMemory(store, k)
    BY <1>3 DEF ReportRefused
  <2>3. InOrder(store.runs, attempts')
    BY <2>1, <2>2, AttemptPasses, PassesInOrder
  <2> QED BY <2>2, <2>3, SavesRecord, RecordedInOrder
<1> QED BY <1>1, <1>2, <1>3, LoadStepInOrder, BlockedStepInOrder, SessionStepInOrder DEF AttemptStep

(* A notification that gives up, ends, or finds the merge request moved on.*)
LEMMA NotificationFailedInOrder ==
  ASSUME OInv, LatestInv, NEW n \in NoteClaim, notifiers[n].pc # "idle"
  PROVE  /\ \A rejected \in BOOLEAN : InOrder(NotificationFailed(n, rejected).runs, attempts)
         /\ InOrder(ReleaseFailureNotificationClaim(store, NotifierId(n)).runs, attempts)
<1> DEFINE id == NotifierId(n)
<1>1. SoundStore(store) /\ InOrder(store.runs, attempts) /\ id.run \in RunId
  BY LatestParts, NotifierFields DEF OInv, IInv
<1>2. ASSUME NEW rejected \in BOOLEAN PROVE InOrder(NotificationFailed(n, rejected).runs, attempts)
  <2> DEFINE failed == FailFailureNotification(store, id, rejected)
  <2>1. SoundStore(failed) /\ InOrder(failed.runs, attempts)
    BY <1>1, FailFailureNotificationSound, FailNotificationInOrder
  <2> HIDE DEF failed
  <2>2. InOrder(ReleaseFailureNotificationClaim(failed, id).runs, attempts)
    BY <1>1, <2>1, ReleaseNoteInOrder
  <2> QED BY <2>2 DEF NotificationFailed, failed
<1>3. InOrder(ReleaseFailureNotificationClaim(store, id).runs, attempts)
  BY <1>1, ReleaseNoteInOrder
<1> QED BY <1>2, <1>3

LEMMA NotifierAbortsInOrder ==
  ASSUME OInv, LatestInv, UNCHANGED attempts, NEW n \in NoteClaim, notifiers[n].pc # "idle",
         NotifierAborts(n, 1) \/ (\E rejected \in BOOLEAN : NotifierGivesUp(n, rejected))
  PROVE  LatestInv'
<1>1. /\ \A rejected \in BOOLEAN : InOrder(NotificationFailed(n, rejected).runs, attempts)
      /\ InOrder(ReleaseFailureNotificationClaim(store, NotifierId(n)).runs, attempts)
  BY NotificationFailedInOrder
<1>2. ASSUME NotifierAborts(n, 1) PROVE LatestInv'
  BY <1>1, <1>2, SavesRecord, SavedInOrder DEF NotifierAborts
<1>3. ASSUME NEW rejected \in BOOLEAN, NotifierGivesUp(n, rejected) PROVE LatestInv'
  BY <1>1, <1>2, <1>3, SavesRecord, SavedInOrder DEF NotifierGivesUp
<1> QED BY <1>2, <1>3

LEMMA NotifierRejectsInOrder ==
  ASSUME OInv, LatestInv, UNCHANGED attempts, NEW n \in NoteClaim, notifiers[n].pc # "idle", NotifierRejects(n)
  PROVE  LatestInv'
<1> DEFINE id == NotifierId(n)
           rejected == RejectFailureNotificationForPolicy(store, id)
           failed == FailFailureNotification(rejected, id, FALSE)
           released == ReleaseFailureNotificationClaim(failed, id)
<1>1. SoundStore(store) /\ InOrder(store.runs, attempts) /\ id.run \in RunId
  BY LatestParts, NotifierFields DEF OInv, IInv
<1>2. Persist(released, 0) \/ NotifierAborts(n, 1)
  BY DEF NotifierRejects
<1>3. SoundStore(rejected) /\ InOrder(rejected.runs, attempts)
  BY <1>1, RejectFailureNotificationForPolicySound, RejectNotificationInOrder
<1> HIDE DEF rejected
<1>4. SoundStore(failed) /\ InOrder(failed.runs, attempts)
  BY <1>1, <1>3, FailFailureNotificationSound, FailNotificationInOrder
<1> HIDE DEF failed
<1>5. InOrder(released.runs, attempts)
  BY <1>1, <1>4, ReleaseNoteInOrder
<1> HIDE DEF released
<1> QED BY <1>2, <1>5, NotifierAbortsInOrder, SavesRecord, SavedInOrder

LEMMA NotifierSucceedsInOrder ==
  ASSUME OInv, LatestInv, UNCHANGED attempts, NEW n \in NoteClaim, notifiers[n].pc # "idle", NotifierSucceeds(n)
  PROVE  LatestInv'
<1> DEFINE id == NotifierId(n)
<1>1. SoundStore(store) /\ InOrder(store.runs, attempts) /\ id.run \in RunId
  BY LatestParts, NotifierFields DEF OInv, IInv
<1>2. CASE NotifierCurrent(n)
  <2>1. InOrder(CompleteFailureNotification(store, id).runs, attempts)
    BY <1>1, <1>2, CompleteNotificationInOrder DEF NotifierCurrent
  <2>2. Persist(CompleteFailureNotification(store, id), 0) \/ NotifierAborts(n, 1)
    BY <1>2 DEF NotifierSucceeds
  <2> QED BY <2>1, <2>2, NotifierAbortsInOrder, SavesRecord, SavedInOrder
<1>3. CASE ~NotifierCurrent(n)
  <2>1. InMemory(ReleaseFailureNotificationClaim(store, id), 0)
    BY <1>3 DEF NotifierSucceeds
  <2> QED BY <2>1, NotificationFailedInOrder, SavesRecord, SavedInOrder
<1> QED BY <1>2, <1>3

LEMMA NotifierStepInOrder ==
  ASSUME OInv, LatestInv, NEW n \in NoteClaim, NotifierStep(n)
  PROVE  LatestInv'
<1> DEFINE id == NotifierId(n)
<1>1. SoundStore(store) /\ InOrder(store.runs, attempts)
  BY LatestParts
<1>2. UNCHANGED attempts /\ notifiers[n].pc # "idle"
  BY DEF NotifierStep, NotifierHasToken, NotifierHeadVerified, NotifierFindsNote, NotifierFindsNone,
         NotifierBlocked, NotifierHeadChanged, NotifierSends, NotifierConfirmed, NotifierRefused,
         NotifierUnconfirmed
<1>3. id.run \in RunId
  BY <1>2, NotifierFields DEF OInv, IInv
<1>4. CASE NotifierHasToken(n) \/ NotifierHeadVerified(n)
  BY <1>4, StoreStaysInOrder DEF NotifierHasToken, NotifierHeadVerified
<1>5. CASE NotifierFindsNote(n) \/ NotifierConfirmed(n)
  BY <1>2, <1>5, NotifierSucceedsInOrder DEF NotifierFindsNote, NotifierConfirmed
<1>6. CASE NotifierFindsNone(n) \/ NotifierBlocked(n) \/ NotifierRefused(n) \/ NotifierUnconfirmed(n)
  <2>1. (\E rejected \in BOOLEAN : NotifierGivesUp(n, rejected)) \/ UNCHANGED storeVars
    BY <1>6 DEF NotifierFindsNone, NotifierBlocked, NotifierRefused, NotifierUnconfirmed
  <2> QED BY <1>2, <2>1, NotifierAbortsInOrder, StoreStaysInOrder
<1>7. CASE NotifierHeadChanged(n)
  BY <1>2, <1>7, NotifierRejectsInOrder DEF NotifierHeadChanged
<1>8. CASE NotifierSends(n)
  <2>1. InOrder(MarkFailureNotificationPostStarted(store, id).runs, attempts)
    BY <1>1, <1>3, <1>8, MarkNotificationInOrder DEF NotifierSends, NotifierCurrent
  <2>2. Persist(MarkFailureNotificationPostStarted(store, id), 0) \/ NotifierAborts(n, 1)
    BY <1>8 DEF NotifierSends
  <2> QED BY <1>2, <2>1, <2>2, NotifierAbortsInOrder, SavesRecord, SavedInOrder
<1> QED BY <1>4, <1>5, <1>6, <1>7, <1>8 DEF NotifierStep

(* A lease that is over is nothing that this invariant sees.               *)
LEMMA LeaseIsAlike ==
  ASSUME NEW runs \in [RunId -> Run], NEW r \in RunId
  PROVE  \A x \in RunId : AlikeHere([runs EXCEPT ![r].leaseOver = TRUE][x], runs[x])
<1>1. ASSUME NEW run \in Run PROVE AlikeHere([run EXCEPT !.leaseOver = TRUE], run)
  BY DEF Run, AlikeHere
<1>2. \A run : AlikeHere(run, run)
  BY DEF AlikeHere
<1>3. \A x \in RunId : [runs EXCEPT ![r].leaseOver = TRUE][x]
                         = IF x = r THEN [runs[x] EXCEPT !.leaseOver = TRUE] ELSE runs[x]
  OBVIOUS
<1> QED BY <1>1, <1>2, <1>3

LEMMA LeaseInOrder ==
  ASSUME OInv, LatestInv, NEW r \in RunId, LeaseExpires(r)
  PROVE  LatestInv'
<1> DEFINE runs == [store.runs EXCEPT ![r].leaseOver = TRUE]
           filed == [disk.runs EXCEPT ![r].leaseOver = TRUE]
<1>1. /\ store \in Store /\ disk \in Disk /\ store.runs \in [RunId -> Run] /\ disk.runs \in [RunId -> Run]
      /\ UNCHANGED attempts /\ store' = [store EXCEPT !.runs = runs]
      /\ disk' \in {disk, [disk EXCEPT !.runs = filed]}
  BY DEF OInv, IInv, Stored, SoundStore, SoundDisk, Store, Disk, LeaseExpires
<1>2. /\ \A x \in RunId : AlikeHere(runs[x], store.runs[x])
      /\ \A x \in RunId : AlikeHere(filed[x], disk.runs[x])
  BY <1>1, LeaseIsAlike
<1> HIDE DEF runs, filed
<1>3. store'.runs = runs /\ disk'.runs \in {disk.runs, filed}
  BY <1>1 DEF Store, Disk
<1>4. InOrder(runs, attempts)
  BY <1>2, AlikeInOrder DEF LatestInv, InOrder
<1>5. LastSpeaks(filed) /\ LastSpeaks(disk.runs)
  BY <1>2, AlikeInOrder DEF LatestInv
<1>6. InOrder(store'.runs, attempts')
  BY <1>1, <1>3, <1>4
<1>7. LastSpeaks(disk'.runs)
  BY <1>3, <1>5
<1> QED BY <1>6, <1>7 DEF LatestInv

(* After a restart nobody is at work on a run.                             *)
LEMMA CrashInOrder ==
  ASSUME OInv, LatestInv, Crash
  PROVE  LatestInv'
<1> DEFINE runs == [x \in RunId |-> Normalized(disk.runs[x])]
<1>1. /\ disk' = disk /\ store' = Loaded(disk) /\ disk.runs \in [RunId -> Run]
      /\ \A x \in RunId : attempts'[x].pc \in {"none", "done"}
  BY DEF OInv, IInv, Stored, SoundDisk, Disk, Crash, NoAttempt
<1>2. Loaded(disk).runs = runs
  <2> HIDE DEF runs
  <2>1. Loaded(disk) = [EmptyStore EXCEPT !.runs = runs, !.sequence = disk.sequence]
    BY DEF Loaded, runs
  <2> QED BY <2>1 DEF EmptyStore
<1>3. ASSUME NEW run \in Run PROVE AlikeHere(Normalized(run), run)
  BY <1>3 DEF Normalized, Run, AlikeHere
<1>4. \A x \in RunId : AlikeHere(runs[x], disk.runs[x])
  BY <1>1, <1>3
<1> HIDE DEF runs
<1>5. LastSpeaks(runs)
  BY <1>4, AlikeInOrder DEF LatestInv
<1>6. \A x \in RunId : LoadFits(runs[x], attempts'[x].pc)
  BY <1>1 DEF LoadFits, LoadingPc
<1> QED BY <1>1, <1>2, <1>5, <1>6 DEF LatestInv, InOrder

(* GitLab takes a comment: the store and the steps of the attempts stay.   *)
LEMMA GitLabInOrder ==
  ASSUME OInv, LatestInv,
         \/ \E p \in PublicationClaim : GitLabTakesResult(p)
         \/ \E n \in NoteClaim : GitLabTakesNote(n)
         \/ \E r \in RunId : GitLabTakesBlocked(r)
         \/ \E q \in late : LateArrival(q)
  PROVE  LatestInv'
<1>1. ASSUME NEW r \in RunId, GitLabTakesBlocked(r) PROVE LatestInv'
  <2>1. Attempting /\ InOrder(store.runs, attempts)
    BY LatestParts
  <2>2. attempts' = [attempts EXCEPT ![r].landed = TRUE] /\ UNCHANGED storeVars
    BY <1>1 DEF GitLabTakesBlocked
  <2>3. \A y \in RunId : attempts'[y].pc = attempts[y].pc
    BY <2>1, <2>2 DEF Attempting, Attempt
  <2>4. InOrder(store.runs, attempts')
    BY <2>1, <2>3 DEF InOrder
  <2> QED BY <2>2, <2>4, SavesRecord, RecordedInOrder
<1> QED BY <1>1, StoreStaysInOrder DEF GitLabTakesResult, GitLabTakesNote, LateArrival

LEMMA PublishInvalidInOrder ==
  ASSUME OInv, LatestInv, NEW r \in RunId, ManagementPublishInvalid(r)
  PROVE  LatestInv'
<1>1. SoundStore(store) /\ InOrder(store.runs, attempts)
  BY LatestParts
<1>2. InOrder(UpdateIfCurrent(store, r, store.runs[r].session, WithStatus(store.runs[r], "failed", "other")).runs, attempts)
  BY <1>1, EndsInOrder
<1> QED BY <1>2, SavesRecord, SavedInOrder DEF ManagementPublishInvalid, ResultInvalid

LEMMA NextInOrder ==
  ASSUME OInv, LatestInv, [Next]_vars
  PROVE  LatestInv'
<1>1. CASE UNCHANGED vars
  BY <1>1, StoreStaysInOrder DEF vars, storeVars
<1>2. ASSUME NEW r \in RunId, NEW p \in PublicationClaim, NEW payload \in Payload, ManagementPublish(p, r, payload)
      PROVE LatestInv'
  BY <1>2, PublisherClaimsInOrder DEF ManagementPublish
<1>3. ASSUME NEW r \in RunId, NEW n \in NoteClaim, RecoverNotification(n, r) PROVE LatestInv'
  <2>1. store.runs[r].notePayload \in Payload \cup {NoPayload}
    BY StoreFields DEF OInv, IInv, Stored, SoundStore, Store, Run
  <2> QED BY <1>3, <2>1, NotifierClaimsInOrder DEF RecoverNotification
<1> QED BY <1>1, <1>2, <1>3, AttemptStepInOrder, PublisherStepInOrder, NotifierStepInOrder, DeliverInOrder,
           RetryInOrder, PublishInvalidInOrder, LeaseInOrder, GitLabInOrder, CrashInOrder
           DEF Next, Management, Environment, Server

LEMMA InitInOrder == Init => LatestInv
<1> SUFFICES ASSUME Init PROVE LatestInv
  OBVIOUS
<1>1. \A x \in RunId : store.runs[x] = NoRun /\ disk.runs[x] = NoRun /\ attempts[x].pc = "none"
  BY DEF Init, EmptyStore, DiskOf, NoAttempt
<1>2. NoRun.status = "absent" /\ Mute(NoRun) /\ ~Replaceable(NoRun) /\ LoadFits(NoRun, "none")
  BY DEF NoRun, Mute, Replaceable, Transient, LoadFits, LoadingPc
<1> HIDE DEF Init
<1>3. LastSpeaks(store.runs) /\ LastSpeaks(disk.runs)
  BY <1>1, <1>2 DEF LastSpeaks, Ordered
<1> QED BY <1>1, <1>2, <1>3 DEF LatestInv, InOrder

(* The invariant that keeps the attempts at a trigger in order: a retry    *)
(* closes the attempt it replaces in the same step in which it creates the *)
(* next one, and whatever may be tried again has said nothing.             *)
THEOREM LatestInvariance == Spec => []LatestInv
<1>1. Init => LatestInv
  BY InitInOrder
<1>2. OInv /\ LatestInv /\ [Next]_vars => LatestInv'
  BY NextInOrder
<1> QED BY <1>1, <1>2, OutcomeInvariance, PTL DEF Spec

(* An attempt that was superseded by a retry has published nothing, has    *)
(* notified nothing and is over, although retries and redeliveries race    *)
(* with it; and of the attempts at one head the later has the higher       *)
(* number.                                                                 *)
THEOREM OneAttemptSpeaks == Spec => []OnlyLatestSpeaks
<1>1. OInv /\ LatestInv => OnlyLatestSpeaks
  <2> SUFFICES ASSUME OInv, LatestInv PROVE OnlyLatestSpeaks
    OBVIOUS
  <2>1. store \in Store /\ LastSpeaks(store.runs)
    BY LatestParts
  <2>2. ASSUME NEW r \in Exists(store), ~IsLatest(store, r)
        PROVE  /\ store.runs[r].status \in TerminalStatus
               /\ store.runs[r].pub = "none" /\ store.runs[r].note = "none"
               /\ Visible(r) = {} /\ ~FailurePosted(r)
    <3>1. r \in RunId /\ store.runs[r].status # "absent"
      BY DEF Exists
    <3>2. Superseded(store.runs, r)
      BY <2>1, <2>2, <3>1, LastIsLatest
    <3>3. store.runs[r].status \in TerminalStatus /\ store.runs[r].pub = "none" /\ store.runs[r].note = "none"
      BY <2>1, <3>1, <3>2 DEF LastSpeaks, Silent, Mute
    <3>4. Results(r) = {} /\ ~NoteOut(r) /\ (Visible(r) # {} => remote[r].payloads # {})
      BY <3>1, <3>3 DEF OInv, OutcomeFits, RunFits
    <3>5. remote[r].payloads = {} /\ ~FailurePosted(r)
      BY <3>4 DEF Results, NoteOut
    <3> QED BY <3>3, <3>4, <3>5
  <2>3. ASSUME NEW a \in Exists(store), NEW b \in Exists(store), a < b, store.runs[a].trigger = store.runs[b].trigger
        PROVE  store.runs[a].attempt < store.runs[b].attempt
    BY <2>1, <2>3 DEF LastSpeaks, Ordered, Exists
  <2> QED BY <2>2, <2>3 DEF OnlyLatestSpeaks
<1> QED BY <1>1, OutcomeInvariance, LatestInvariance, PTL

(***************************************************************************)
(* The outcome of a review                                                 *)
(***************************************************************************)

(* No run leaves the store in the step: prune finds it within its limit.   *)
NothingPruned == Exists(store) \subseteq Exists(store')

(* VoiceOf, PostedFor and ConcludedTriggers of the runs and the comments   *)
(* of any state.                                                           *)
Attempts(runs, t) == {r \in RunId : runs[r].status # "absent" /\ runs[r].trigger = t}
Speaking(runs, t) == {r \in Attempts(runs, t) : ~Mute(runs[r])}
KindOf(run) == IF run.pub # "none" THEN "result" ELSE "failure"

VoiceIn(runs, t) ==
  IF Speaking(runs, t) = {} THEN SilentVoice
  ELSE LET r == CHOOSE x \in Speaking(runs, t) : TRUE IN [run |-> r, kind |-> KindOf(runs[r])]

ShownIn(runs, rem, t) ==
  {x \in Attempts(runs, t) \X (Marker \cup {FailureNote}) : rem[x[1]].count[x[2]] > 0}

OverIn(runs) == {t \in Trigger : \E r \in Attempts(runs, t) : Over(runs[r])}

LEMMA OutcomeOfState ==
  /\ \A t : VoiceOf(t) = VoiceIn(store.runs, t) /\ VoiceOf(t)' = VoiceIn(store'.runs, t)
  /\ \A t : PostedFor(t) = ShownIn(store.runs, remote, t) /\ PostedFor(t)' = ShownIn(store'.runs, remote', t)
  /\ ConcludedTriggers = OverIn(store.runs) /\ ConcludedTriggers' = OverIn(store'.runs)
<1>1. ASSUME NEW t
      PROVE  /\ AttemptsOf(store, t) = Attempts(store.runs, t)
             /\ AttemptsOf(store', t) = Attempts(store'.runs, t)
  BY DEF AttemptsOf, Exists, Attempts
<1>2. ASSUME NEW t
      PROVE  Speakers(t) = Speaking(store.runs, t) /\ Speakers(t)' = Speaking(store'.runs, t)
  BY <1>1 DEF Speakers, Speaking, Mute
<1> QED
  BY <1>1, <1>2 DEF VoiceOf, VoiceIn, PostedFor, ShownIn, ConcludedTriggers, OverIn, KindOf, Over

(* Of the attempts at a trigger one speaks at most.                        *)
LEMMA OneSpeaker ==
  ASSUME NEW runs, LastSpeaks(runs), NEW t, NEW r \in Speaking(runs, t)
  PROVE  /\ Speaking(runs, t) = {r}
         /\ VoiceIn(runs, t) = [run |-> r, kind |-> KindOf(runs[r])]
<1>1. ASSUME NEW a \in Speaking(runs, t), NEW b \in Speaking(runs, t), a < b PROVE FALSE
  <2>1. Superseded(runs, a)
    BY <1>1 DEF Superseded, Speaking, Attempts
  <2> QED
    BY <2>1 DEF LastSpeaks, Silent, Speaking, Attempts
<1>2. ASSUME NEW x \in Speaking(runs, t) PROVE x = r
  <2>1. x \in RunId /\ r \in RunId
    BY DEF Speaking, Attempts
  <2>2. x \in Nat /\ r \in Nat
    BY <2>1, BoundsAssumption DEF RunId
  <2> QED
    BY <1>1, <2>2
<1>3. Speaking(runs, t) = {r}
  BY <1>2
<1>4. (CHOOSE x \in {r} : TRUE) = r
  OBVIOUS
<1> QED
  BY <1>3, <1>4 DEF VoiceIn

LEMMA SilentTrigger ==
  ASSUME NEW runs, NEW t, Speaking(runs, t) = {}
  PROVE  VoiceIn(runs, t) = SilentVoice
BY DEF VoiceIn

(* A run that has begun nothing shows nothing.                             *)
LEMMA MuteShowsNothing ==
  /\ OutcomeFits => \A r \in RunId : Present(store, r) /\ Mute(store.runs[r]) =>
       \A c \in Marker \cup {FailureNote} : ~(remote[r].count[c] > 0)
  /\ OutcomeFits' => \A r \in RunId : Present(store', r) /\ Mute(store'.runs[r]) =>
       \A c \in Marker \cup {FailureNote} : ~(remote'[r].count[c] > 0)
<1>1. ASSUME OutcomeFits, NEW r \in RunId, Present(store, r), Mute(store.runs[r])
      PROVE  \A c \in Marker \cup {FailureNote} : ~(remote[r].count[c] > 0)
  <2>1. RunFits(r)
    BY <1>1 DEF OutcomeFits
  <2>2. Results(r) = {} /\ ~NoteOut(r)
    BY <1>1, <2>1 DEF RunFits, Present, Mute
  <2>3. Visible(r) = {} /\ ~FailurePosted(r)
    BY <2>1, <2>2 DEF RunFits, Results, NoteOut
  <2> QED
    BY <2>3 DEF Visible, FailurePosted
<1>2. ASSUME OutcomeFits', NEW r \in RunId, Present(store', r), Mute(store'.runs[r])
      PROVE  \A c \in Marker \cup {FailureNote} : ~(remote'[r].count[c] > 0)
  <2>1. RunFits(r)'
    BY <1>2 DEF OutcomeFits
  <2>2. Results(r)' = {} /\ ~NoteOut(r)'
    BY <1>2, <2>1 DEF RunFits, Present, Mute
  <2>3. Visible(r)' = {} /\ ~FailurePosted(r)'
    BY <2>1, <2>2 DEF RunFits, Results, NoteOut
  <2> QED
    BY <2>3 DEF Visible, FailurePosted
<1> QED
  BY <1>1, <1>2

(* The run x speaks as before, or was created and does not speak.          *)
StaysAsItIs(x) ==
  \/ SameVoice(store.runs[x], store'.runs[x])
  \/ ~Present(store, x) /\ Mute(store.runs[x]) /\ Mute(store'.runs[x])

Elsewhere(x, t) == store.runs[x].trigger # t /\ store'.runs[x].trigger # t

LEMMA HushedStays ==
  ASSUME OutcomeFits, NothingPruned, NEW x \in RunId, Hushed(x)
  PROVE  StaysAsItIs(x)
<1>1. ~Present(store, x) => Mute(store.runs[x])
  BY DEF OutcomeFits, RunFits, Gone, Mute, Present
<1>2. Gone(store'.runs[x]) => ~Present(store, x) /\ Mute(store'.runs[x])
  BY DEF NothingPruned, Exists, Gone, Mute, Present
<1>3. Unborn(x) => ~Present(store, x)
  BY DEF OutcomeFits, RunFits, Gone, Present
<1> QED
  BY <1>1, <1>2, <1>3 DEF Hushed, StaysAsItIs

(* A trigger at which nothing is created but silent runs is as it was.     *)
LEMMA TriggerStays ==
  ASSUME OutcomeFits', UNCHANGED remote, NEW t,
         \A x \in RunId : StaysAsItIs(x) \/ Elsewhere(x, t)
  PROVE  /\ VoiceIn(store'.runs, t) = VoiceIn(store.runs, t)
         /\ ShownIn(store'.runs, remote', t) = ShownIn(store.runs, remote, t)
         /\ t \in OverIn(store'.runs) <=> t \in OverIn(store.runs)
<1> DEFINE old == store.runs
           new == store'.runs
<1>1. ASSUME NEW x \in RunId
      PROVE  /\ x \in Speaking(old, t) <=> x \in Speaking(new, t)
             /\ x \in Speaking(old, t) => KindOf(new[x]) = KindOf(old[x])
             /\ x \in Attempts(old, t) /\ Over(old[x]) <=> x \in Attempts(new, t) /\ Over(new[x])
             /\ x \in Attempts(old, t) => x \in Attempts(new, t)
             /\ x \in Attempts(new, t) => x \in Attempts(old, t) \/ Mute(new[x])
  BY DEF StaysAsItIs, Elsewhere, SameVoice, Speaking, Attempts, KindOf, Over, Mute, Present
<1>2. Speaking(old, t) = Speaking(new, t)
  BY <1>1 DEF Speaking, Attempts
<1>3. VoiceIn(new, t) = VoiceIn(old, t)
  <2>1. CASE Speaking(old, t) = {}
    BY <1>2, <2>1 DEF VoiceIn
  <2>2. CASE Speaking(old, t) # {}
    <3> DEFINE r == CHOOSE x \in Speaking(old, t) : TRUE
    <3>1. r \in Speaking(old, t)
      BY <2>2
    <3>2. r \in RunId
      BY <3>1 DEF Speaking, Attempts
    <3>3. KindOf(new[r]) = KindOf(old[r])
      BY <1>1, <3>1, <3>2
    <3> QED
      BY <1>2, <2>2, <3>3 DEF VoiceIn
  <2> QED
    BY <2>1, <2>2
<1>4. ASSUME NEW x \in RunId, NEW c \in Marker \cup {FailureNote}
      PROVE  x \in Attempts(old, t) /\ remote[x].count[c] > 0 <=> x \in Attempts(new, t) /\ remote'[x].count[c] > 0
  <2>1. x \in Attempts(new, t) /\ Mute(new[x]) => ~(remote'[x].count[c] > 0)
    BY MuteShowsNothing DEF Attempts, Present
  <2> QED
    BY <1>1, <2>1
<1>5. ShownIn(new, remote', t) = ShownIn(old, remote, t)
  <2>1. Attempts(old, t) \subseteq RunId /\ Attempts(new, t) \subseteq RunId
    BY DEF Attempts
  <2> QED
    BY <1>4, <2>1 DEF ShownIn
<1>6. t \in OverIn(new) <=> t \in OverIn(old)
  <2>1. Attempts(old, t) \subseteq RunId /\ Attempts(new, t) \subseteq RunId
    BY DEF Attempts
  <2> QED
    BY <1>1, <2>1 DEF OverIn
<1> QED
  BY <1>3, <1>5, <1>6

(* The step leaves everything about the trigger u as it was.               *)
Undisturbed(u) ==
  /\ VoiceIn(store'.runs, u) = VoiceIn(store.runs, u)
  /\ ShownIn(store'.runs, remote', u) = ShownIn(store.runs, remote, u)
  /\ u \in OverIn(store'.runs) <=> u \in OverIn(store.runs)

OutcomeStep == [Outcome!OutcomeNext]_(Outcome!outcomeVars)

(* What ReviewOutcome sees of a step that concerns the trigger t, or none. *)
LEMMA OutcomeViews ==
  ASSUME NEW t, \A u \in Trigger \ {t} : Undisturbed(u)
  PROVE  /\ t \in Trigger =>
              /\ [u \in Trigger |-> VoiceOf(u)]' = [[u \in Trigger |-> VoiceOf(u)] EXCEPT ![t] = VoiceIn(store'.runs, t)]
              /\ [u \in Trigger |-> PostedFor(u)]' =
                   [[u \in Trigger |-> PostedFor(u)] EXCEPT ![t] = ShownIn(store'.runs, remote', t)]
              /\ t \in OverIn(store'.runs) => ConcludedTriggers' = ConcludedTriggers \cup {t}
              /\ (t \in OverIn(store'.runs) <=> t \in OverIn(store.runs)) => ConcludedTriggers' = ConcludedTriggers
         /\ t \in Trigger /\ VoiceIn(store'.runs, t) = VoiceIn(store.runs, t) =>
              [u \in Trigger |-> VoiceOf(u)]' = [u \in Trigger |-> VoiceOf(u)]
         /\ t \in Trigger /\ ShownIn(store'.runs, remote', t) = ShownIn(store.runs, remote, t) =>
              [u \in Trigger |-> PostedFor(u)]' = [u \in Trigger |-> PostedFor(u)]
         /\ t \notin Trigger \/ Undisturbed(t) => UNCHANGED Outcome!outcomeVars
<1> DEFINE voice == [u \in Trigger |-> VoiceOf(u)]
           posted == [u \in Trigger |-> PostedFor(u)]
           voiceAfter == [u \in Trigger |-> VoiceIn(store'.runs, u)]
           postedAfter == [u \in Trigger |-> ShownIn(store'.runs, remote', u)]
<1>1. voice = [u \in Trigger |-> VoiceIn(store.runs, u)] /\ voice' = voiceAfter
  BY OutcomeOfState
<1>2. posted = [u \in Trigger |-> ShownIn(store.runs, remote, u)] /\ posted' = postedAfter
  BY OutcomeOfState
<1>3. ConcludedTriggers = OverIn(store.runs) /\ ConcludedTriggers' = OverIn(store'.runs)
  BY OutcomeOfState
<1>4. OverIn(store.runs) \subseteq Trigger /\ OverIn(store'.runs) \subseteq Trigger
  BY DEF OverIn
<1>5. /\ Outcome!outcomeVars = <<voice, posted, ConcludedTriggers>>
      /\ Outcome!outcomeVars' = <<voice', posted', ConcludedTriggers'>>
  BY DEF Outcome!outcomeVars
<1> HIDE DEF voice, posted
<1>6. t \in Trigger =>
        /\ voice' = [voice EXCEPT ![t] = VoiceIn(store'.runs, t)]
        /\ posted' = [posted EXCEPT ![t] = ShownIn(store'.runs, remote', t)]
  BY <1>1, <1>2 DEF Undisturbed
<1>7. /\ t \in Trigger /\ t \in OverIn(store'.runs) => ConcludedTriggers' = ConcludedTriggers \cup {t}
      /\ t \in Trigger /\ (t \in OverIn(store'.runs) <=> t \in OverIn(store.runs)) => ConcludedTriggers' = ConcludedTriggers
  BY <1>3, <1>4 DEF Undisturbed
<1>8. t \in Trigger /\ VoiceIn(store'.runs, t) = VoiceIn(store.runs, t) => voice' = voice
  BY <1>1 DEF Undisturbed
<1>9. t \in Trigger /\ ShownIn(store'.runs, remote', t) = ShownIn(store.runs, remote, t) => posted' = posted
  BY <1>2 DEF Undisturbed
<1>10. t \notin Trigger \/ Undisturbed(t) => voice' = voice /\ posted' = posted /\ ConcludedTriggers' = ConcludedTriggers
  BY <1>1, <1>2, <1>3, <1>4 DEF Undisturbed
<1>11. t \notin Trigger \/ Undisturbed(t) => UNCHANGED Outcome!outcomeVars
  BY <1>5, <1>10
<1> QED
  BY <1>6, <1>7, <1>8, <1>9, <1>11 DEF voice, posted

(* A record that turns is of the same head before and after, and no other  *)
(* head is concerned.                                                      *)
LEMMA TurningStays ==
  ASSUME OInv, OInv', UNCHANGED remote, NothingPruned,
         NEW r \in RunId, Turning(r), ~Hushed(r), \A x \in RunId \ {r} : Hushed(x)
  PROVE  /\ Present(store, r) /\ Present(store', r) /\ store'.runs[r].trigger = store.runs[r].trigger
         /\ \A x \in RunId \ {r} : StaysAsItIs(x)
         /\ \A u \in Trigger \ {store.runs[r].trigger} : Undisturbed(u)
<1>1. Present(store, r) /\ Present(store', r) /\ store'.runs[r].trigger = store.runs[r].trigger
  BY DEF Turning, Present
<1>2. \A x \in RunId \ {r} : StaysAsItIs(x)
  BY HushedStays DEF OInv
<1>3. ASSUME NEW u \in Trigger, u # store.runs[r].trigger PROVE Undisturbed(u)
  <2>1. Elsewhere(r, u)
    BY <1>1, <1>3 DEF Elsewhere
  <2> QED
    BY <1>2, <2>1, TriggerStays DEF Undisturbed, OInv
<1> QED
  BY <1>1, <1>2, <1>3

(* The comments of a trigger are those of r, when no other attempt speaks. *)
LEMMA ShownOfSpeaker ==
  ASSUME OutcomeFits, NEW t, NEW r \in RunId, Speaking(store.runs, t) \subseteq {r}, NEW y \in ShownIn(store.runs, remote, t)
  PROVE  y[1] = r
<1>1. y[1] \in Attempts(store.runs, t) /\ y[2] \in Marker \cup {FailureNote} /\ remote[y[1]].count[y[2]] > 0
  BY DEF ShownIn
<1>2. y[1] \in RunId /\ Present(store, y[1])
  BY <1>1 DEF Attempts, Present
<1>3. ~Mute(store.runs[y[1]])
  BY <1>1, <1>2, MuteShowsNothing
<1> QED
  BY <1>1, <1>3 DEF Speaking

(* What GitLab shows of an attempt is posted for its trigger.              *)
LEMMA OwnComments ==
  ASSUME NEW runs, NEW rem, NEW t, NEW r \in Attempts(runs, t), NEW c \in Marker \cup {FailureNote}
  PROVE  <<r, c>> \in ShownIn(runs, rem, t) <=> rem[r].count[c] > 0
BY DEF ShownIn

(* An attempt that begins makes its trigger speak.                         *)
LEMMA BeginsToSpeak ==
  ASSUME OInv, OInv', LatestInv', UNCHANGED remote, NothingPruned, NEW r \in RunId, ~Hushed(r),
         Turning(r), \A x \in RunId \ {r} : Hushed(x), Begins(store.runs[r], store'.runs[r])
  PROVE  OutcomeStep
<1> DEFINE t == store.runs[r].trigger
           old == store.runs
           new == store'.runs
<1>1. /\ Present(store, r) /\ Present(store', r) /\ new[r].trigger = t
      /\ \A x \in RunId \ {r} : StaysAsItIs(x)
      /\ \A u \in Trigger \ {t} : Undisturbed(u)
  BY TurningStays
<1>2. Mute(old[r]) /\ ~Mute(new[r]) /\ ~Over(new[r])
  BY DEF Begins
<1>3. CASE t \notin Trigger
  BY <1>1, <1>3, OutcomeViews DEF OutcomeStep
<1>4. CASE t \in Trigger
  <2>1. r \in Speaking(new, t)
    BY <1>1, <1>2 DEF Speaking, Attempts, Present
  <2>2. LastSpeaks(new)
    BY DEF LatestInv, InOrder
  <2>3. Speaking(new, t) = {r} /\ VoiceIn(new, t) = [run |-> r, kind |-> KindOf(new[r])]
    BY <2>1, <2>2, OneSpeaker
  <2>4. Speaking(old, t) = {}
    <3>1. ASSUME NEW x \in Speaking(old, t) PROVE FALSE
      <4>1. x \in RunId /\ x # r
        BY <1>2, <3>1 DEF Speaking, Attempts
      <4>2. x \in Speaking(new, t)
        BY <1>1, <3>1, <4>1 DEF Speaking, Attempts, StaysAsItIs, SameVoice, Mute
      <4> QED
        BY <2>3, <4>1, <4>2
    <3> QED
      BY <3>1
  <2>5. VoiceIn(old, t) = SilentVoice
    BY <2>4, SilentTrigger
  <2>6. VoiceIn(new, t) \in Outcome!Voice
    BY <2>3 DEF Outcome!Voice, Outcome!Kind, KindOf
  <2>7. ShownIn(new, remote', t) = ShownIn(old, remote, t)
    <3>1. ASSUME NEW x \in RunId, NEW c \in Marker \cup {FailureNote}
          PROVE  x \in Attempts(old, t) /\ remote[x].count[c] > 0 <=> x \in Attempts(new, t) /\ remote'[x].count[c] > 0
      <4>1. CASE x = r
        BY <1>1, <4>1 DEF Attempts, Present
      <4>2. CASE x # r
        <5>1. x \in Attempts(new, t) /\ Mute(new[x]) => ~(remote'[x].count[c] > 0)
          BY MuteShowsNothing DEF Attempts, Present, OInv
        <5> QED
          BY <1>1, <4>2, <5>1 DEF StaysAsItIs, SameVoice, Attempts, Present
      <4> QED
        BY <4>1, <4>2
    <3>2. Attempts(old, t) \subseteq RunId /\ Attempts(new, t) \subseteq RunId
      BY DEF Attempts
    <3> QED
      BY <3>1, <3>2 DEF ShownIn
  <2>8. t \in OverIn(new) <=> t \in OverIn(old)
    <3>1. ASSUME NEW x \in RunId
          PROVE  x \in Attempts(old, t) /\ Over(old[x]) <=> x \in Attempts(new, t) /\ Over(new[x])
      BY <1>1, <1>2 DEF StaysAsItIs, SameVoice, Attempts, Present, Over, Mute
    <3>2. Attempts(old, t) \subseteq RunId /\ Attempts(new, t) \subseteq RunId
      BY DEF Attempts
    <3> QED
      BY <3>1, <3>2 DEF OverIn
  <2>9. /\ [u \in Trigger |-> VoiceOf(u)]' = [[u \in Trigger |-> VoiceOf(u)] EXCEPT ![t] = VoiceIn(new, t)]
        /\ UNCHANGED <<[u \in Trigger |-> PostedFor(u)], ConcludedTriggers>>
    BY <1>1, <1>4, <2>7, <2>8, OutcomeViews
  <2>10. [u \in Trigger |-> VoiceOf(u)][t] = SilentVoice
    BY <1>4, <2>5, OutcomeOfState
  <2> HIDE DEF t, new
  <2>11. Outcome!Speak(t)
    BY <2>6, <2>9, <2>10 DEF Outcome!Speak
  <2> QED
    BY <1>4, <2>11 DEF OutcomeStep, Outcome!OutcomeNext
<1> QED
  BY <1>3, <1>4

(* An attempt that takes back what it began had nothing to be seen.        *)
LEMMA WithdrawsInSilence ==
  ASSUME OInv, OInv', LatestInv, UNCHANGED remote, NothingPruned, NEW r \in RunId, ~Hushed(r),
         Turning(r), \A x \in RunId \ {r} : Hushed(x), Withdraws(store.runs[r], store'.runs[r])
  PROVE  OutcomeStep
<1> DEFINE t == store.runs[r].trigger
           old == store.runs
           new == store'.runs
<1>1. /\ Present(store, r) /\ Present(store', r) /\ new[r].trigger = t
      /\ \A x \in RunId \ {r} : StaysAsItIs(x)
      /\ \A u \in Trigger \ {t} : Undisturbed(u)
  BY TurningStays
<1>2. ~Mute(old[r]) /\ ~Over(old[r]) /\ Mute(new[r])
  BY DEF Withdraws
<1>3. CASE t \notin Trigger
  BY <1>1, <1>3, OutcomeViews DEF OutcomeStep
<1>4. CASE t \in Trigger
  <2>1. r \in Speaking(old, t)
    BY <1>1, <1>2 DEF Speaking, Attempts, Present
  <2>2. LastSpeaks(old)
    BY DEF LatestInv, InOrder
  <2>3. Speaking(old, t) = {r} /\ VoiceIn(old, t) = [run |-> r, kind |-> KindOf(old[r])]
    BY <2>1, <2>2, OneSpeaker
  <2>4. ASSUME NEW x \in RunId, x # r, x \in Attempts(old, t) \cup Attempts(new, t)
        PROVE  Mute(old[x]) /\ Mute(new[x])
    <3>1. x \notin Speaking(old, t)
      BY <2>3, <2>4
    <3> QED
      BY <1>1, <2>4, <3>1 DEF Speaking, Attempts, StaysAsItIs, SameVoice, Mute
  <2>5. VoiceIn(new, t) = SilentVoice
    <3>1. Speaking(new, t) = {}
      BY <1>2, <2>4 DEF Speaking, Attempts
    <3> QED
      BY <3>1, SilentTrigger
  <2>6. ShownIn(old, remote, t) = {} /\ ShownIn(new, remote', t) = {}
    <3>1. ASSUME NEW x \in RunId, NEW c \in Marker \cup {FailureNote}
          PROVE  /\ x \in Attempts(old, t) => ~(remote[x].count[c] > 0)
                 /\ x \in Attempts(new, t) => ~(remote'[x].count[c] > 0)
      <4>1. CASE x = r
        BY <1>1, <1>2, <4>1, MuteShowsNothing DEF OInv
      <4>2. CASE x # r
        BY <2>4, <4>2, MuteShowsNothing DEF OInv, Attempts, Present
      <4> QED
        BY <4>1, <4>2
    <3>2. Attempts(old, t) \subseteq RunId /\ Attempts(new, t) \subseteq RunId
      BY DEF Attempts
    <3> QED
      BY <3>1, <3>2 DEF ShownIn
  <2>7. t \in OverIn(new) <=> t \in OverIn(old)
    <3>1. ASSUME NEW x \in RunId
          PROVE  ~(x \in Attempts(old, t) /\ Over(old[x])) /\ ~(x \in Attempts(new, t) /\ Over(new[x]))
      BY <1>2, <2>4 DEF Over, Mute
    <3>2. Attempts(old, t) \subseteq RunId /\ Attempts(new, t) \subseteq RunId
      BY DEF Attempts
    <3> QED
      BY <3>1, <3>2 DEF OverIn
  <2>8. /\ [u \in Trigger |-> VoiceOf(u)]' = [[u \in Trigger |-> VoiceOf(u)] EXCEPT ![t] = SilentVoice]
        /\ UNCHANGED <<[u \in Trigger |-> PostedFor(u)], ConcludedTriggers>>
    BY <1>1, <1>4, <2>5, <2>6, <2>7, OutcomeViews
  <2>9. /\ [u \in Trigger |-> VoiceOf(u)][t] # SilentVoice
        /\ [u \in Trigger |-> PostedFor(u)][t] = {}
    <3>1. VoiceIn(old, t) # SilentVoice
      BY <2>3 DEF SilentVoice, KindOf
    <3> QED
      BY <1>4, <2>6, <3>1, OutcomeOfState
  <2> HIDE DEF t
  <2>10. Outcome!FallSilent(t)
    BY <2>8, <2>9 DEF Outcome!FallSilent
  <2> QED
    BY <1>4, <2>10 DEF OutcomeStep, Outcome!OutcomeNext
<1> QED
  BY <1>3, <1>4

(* An attempt that concludes has all of it posted.                         *)
LEMMA ConcludesComplete ==
  ASSUME OInv, OInv', LatestInv, LatestInv', UNCHANGED remote, NothingPruned, NEW r \in RunId, ~Hushed(r),
         Turning(r), \A x \in RunId \ {r} : Hushed(x), Concludes(store.runs[r], store'.runs[r])
  PROVE  OutcomeStep
<1> DEFINE t == store.runs[r].trigger
           old == store.runs
           new == store'.runs
<1>1. /\ Present(store, r) /\ Present(store', r) /\ new[r].trigger = t
      /\ \A x \in RunId \ {r} : StaysAsItIs(x)
      /\ \A u \in Trigger \ {t} : Undisturbed(u)
  BY TurningStays
<1>2. /\ Over(new[r]) /\ KindOf(new[r]) = KindOf(old[r])
      /\ ~Mute(old[r]) /\ ~Mute(new[r])
  BY DEF Concludes, Over, Mute, KindOf
<1>3. CASE t \notin Trigger
  BY <1>1, <1>3, OutcomeViews DEF OutcomeStep
<1>4. CASE t \in Trigger
  <2>1. r \in Speaking(old, t) /\ r \in Speaking(new, t) /\ r \in Attempts(old, t) /\ r \in Attempts(new, t)
    BY <1>1, <1>2 DEF Speaking, Attempts, Present
  <2>2. LastSpeaks(old) /\ LastSpeaks(new)
    BY DEF LatestInv, InOrder
  <2>3. VoiceIn(old, t) = [run |-> r, kind |-> KindOf(old[r])] /\ VoiceIn(new, t) = VoiceIn(old, t)
    BY <1>2, <2>1, <2>2, OneSpeaker
  <2>4. ShownIn(new, remote', t) = ShownIn(old, remote, t)
    <3>1. ASSUME NEW x \in RunId, NEW c \in Marker \cup {FailureNote}
          PROVE  x \in Attempts(old, t) /\ remote[x].count[c] > 0 <=> x \in Attempts(new, t) /\ remote'[x].count[c] > 0
      <4>1. CASE x = r
        BY <1>1, <4>1 DEF Attempts, Present
      <4>2. CASE x # r
        <5>1. x \in Attempts(new, t) /\ Mute(new[x]) => ~(remote'[x].count[c] > 0)
          BY MuteShowsNothing DEF Attempts, Present, OInv
        <5> QED
          BY <1>1, <4>2, <5>1 DEF StaysAsItIs, SameVoice, Attempts, Present
      <4> QED
        BY <4>1, <4>2
    <3>2. Attempts(old, t) \subseteq RunId /\ Attempts(new, t) \subseteq RunId
      BY DEF Attempts
    <3> QED
      BY <3>1, <3>2 DEF ShownIn
  <2>5. t \in OverIn(new)
    BY <1>2, <1>4, <2>1 DEF OverIn
  <2>6. /\ new[r].pub = "published" => PublicationComplete(Visible(r))
        /\ new[r].note = "notified" => FailurePosted(r)
        /\ new[r].pub # "none" => new[r].note = "none"
    <3>1. RunFits(r)' /\ OneSided(new[r])
      BY DEF OInv, OutcomeFits, IInv, Stored, SoundStore, SoundRuns
    <3>2. Visible(r)' = Visible(r) /\ FailurePosted(r)' = FailurePosted(r)
      BY DEF Visible, FailurePosted
    <3> QED
      BY <3>1, <3>2 DEF RunFits, OneSided
  <2>7. Outcome!AllPosted(VoiceIn(old, t), ShownIn(old, remote, t))
    <3> DEFINE seen == ShownIn(old, remote, t)
               own == {c \in Marker \cup {FailureNote} : <<r, c>> \in seen}
    <3>1. \A c \in Marker \cup {FailureNote} : c \in own <=> remote[r].count[c] > 0
      BY <2>1, OwnComments
    <3>2. own \cap Marker = Visible(r)
      BY <3>1 DEF Visible
    <3>3. FailurePosted(r) => FailureNote \in own
      BY <3>1 DEF FailurePosted
    <3>4. Outcome!Marker = Marker /\ \A s : Outcome!PublicationComplete(s) <=> PublicationComplete(s)
      BY DEF Outcome!Marker, Marker, Outcome!Summary, Summary, Outcome!InlineMarker, InlineMarker, Outcome!FallbackMarker,
             FallbackMarker, Outcome!PublicationComplete, PublicationComplete, Outcome!Reported, Reported
    <3>5. CASE KindOf(old[r]) = "result"
      <4>1. new[r].pub = "published"
        BY <1>2, <2>6, <3>5 DEF KindOf, Over
      <4>2. PublicationComplete(own \cap Marker)
        BY <2>6, <3>2, <4>1
      <4> QED
        BY <2>3, <3>4, <3>5, <4>2 DEF Outcome!AllPosted
    <3>6. CASE KindOf(old[r]) # "result"
      <4>1. new[r].note = "notified"
        BY <1>2, <3>6 DEF KindOf, Over
      <4>2. FailureNote \in own
        BY <2>6, <3>3, <4>1
      <4> QED
        BY <2>3, <3>4, <3>6, <4>2 DEF Outcome!AllPosted
    <3> QED
      BY <3>5, <3>6
  <2>8. /\ UNCHANGED <<[u \in Trigger |-> VoiceOf(u)], [u \in Trigger |-> PostedFor(u)]>>
        /\ ConcludedTriggers' = ConcludedTriggers \cup {t}
    BY <1>1, <1>4, <2>3, <2>4, <2>5, OutcomeViews
  <2>9. /\ [u \in Trigger |-> VoiceOf(u)][t] = VoiceIn(old, t)
        /\ [u \in Trigger |-> PostedFor(u)][t] = ShownIn(old, remote, t)
        /\ VoiceIn(old, t) # SilentVoice
    BY <1>4, <2>3, OutcomeOfState DEF SilentVoice, KindOf
  <2> HIDE DEF t, old
  <2>10. Outcome!Conclude(t)
    BY <2>7, <2>8, <2>9 DEF Outcome!Conclude
  <2> QED
    BY <1>4, <2>10 DEF OutcomeStep, Outcome!OutcomeNext
<1> QED
  BY <1>3, <1>4

(* A step in which GitLab takes nothing.                                   *)
LEMMA QuietStep ==
  ASSUME OInv, OInv', LatestInv, LatestInv', UNCHANGED remote, NothingPruned,
         (\A x \in RunId : Hushed(x)) \/ \E r \in RunId : Turning(r) /\ \A x \in RunId \ {r} : Hushed(x)
  PROVE  OutcomeStep
<1>1. CASE \A x \in RunId : Hushed(x)
  <2>1. \A x \in RunId : StaysAsItIs(x)
    BY <1>1, HushedStays DEF OInv
  <2>2. \A u : Undisturbed(u)
    BY <2>1, TriggerStays DEF Undisturbed, OInv
  <2>3. UNCHANGED Outcome!outcomeVars
    BY <2>2, OutcomeViews
  <2> QED
    BY <2>3 DEF OutcomeStep
<1>2. ASSUME NEW r \in RunId, ~Hushed(r), Turning(r), \A x \in RunId \ {r} : Hushed(x)
      PROVE  OutcomeStep
  <2>1. \/ Begins(store.runs[r], store'.runs[r])
        \/ Withdraws(store.runs[r], store'.runs[r])
        \/ Concludes(store.runs[r], store'.runs[r])
    BY <1>2 DEF Turning
  <2> QED
    BY <1>2, <2>1, BeginsToSpeak, WithdrawsInSilence, ConcludesComplete
<1> QED
  BY <1>1, <1>2

(* A request is of a run that holds a claim, or tells that it is blocked.  *)
Attributed(q) ==
  Present(store, q.run) =>
    \/ q.op \in Marker /\ store.runs[q.run].pub = "publishing"
    \/ q.op = FailureNote /\ store.runs[q.run].note = "notifying"
    \/ q.op = BlockedNote

(* What a request adds to what GitLab shows of a run.                      *)
LEMMA TakenAdds ==
  ASSUME Posting, NEW q \in Request, remote' = Taken(q), NEW x \in RunId, NEW c \in Marker \cup {FailureNote}
  PROVE  remote'[x].count[c] > 0 <=> remote[x].count[c] > 0 \/ (x = q.run /\ c \in Contents(q.op))
<1>1. c \in Comment
  BY CommentsDiffer
<1>2. remote[x].count[c] \in Nat
  BY <1>1, TakenShows
<1>3. CASE x # q.run
  BY <1>3, TakenShows
<1>4. CASE x = q.run
  <2> DEFINE before(d) == remote[x].count[d]
             after(d) == remote'[x].count[d]
  <2>1. \A d \in Comment : after(d) = IF d \in Contents(q.op) THEN before(d) + 1 ELSE before(d)
    BY <1>4, TakenShows
  <2>2. before(c) \in Nat
    BY <1>2
  <2> HIDE DEF before, after
  <2>3. after(c) > 0 <=> before(c) > 0 \/ c \in Contents(q.op)
    BY <1>1, <2>1, <2>2
  <2> QED
    BY <1>4, <2>3 DEF before, after
<1> QED
  BY <1>3, <1>4

(* GitLab takes what the attempt that speaks has sent.                     *)
LEMMA TakenSpeaks ==
  ASSUME OInv, LatestInv, NEW q \in Request, remote' = Taken(q), store' = store, Attributed(q)
  PROVE  OutcomeStep
<1> DEFINE r == q.run
           run == store.runs[r]
           t == run.trigger
           runs == store.runs
           added == {<<r, c>> : c \in Contents(q.op) \cap (Marker \cup {FailureNote})}
<1>1. Posting /\ r \in RunId
  BY DEF OInv, IInv, Request
<1>2. \A x \in RunId, c \in Marker \cup {FailureNote} :
        remote'[x].count[c] > 0 <=> remote[x].count[c] > 0 \/ (x = r /\ c \in Contents(q.op))
  BY <1>1, TakenAdds
<1>3. \A u : Attempts(runs, u) \subseteq RunId
  BY DEF Attempts
<1>4. ASSUME NEW u, r \notin Attempts(runs, u) PROVE Undisturbed(u)
  <2>1. ShownIn(runs, remote', u) = ShownIn(runs, remote, u)
    BY <1>2, <1>3, <1>4 DEF ShownIn
  <2> QED
    BY <2>1 DEF Undisturbed
<1>5. \A u \in Trigger \ {t} : Undisturbed(u)
  BY <1>4 DEF Attempts
<1>6. CASE t \notin Trigger \/ ~Present(store, r)
  <2>1. t \notin Trigger \/ Undisturbed(t)
    BY <1>4, <1>6 DEF Attempts, Present
  <2> QED
    BY <1>5, <2>1, OutcomeViews DEF OutcomeStep
<1>7. CASE t \in Trigger /\ Present(store, r) /\ q.op = BlockedNote
  <2>1. Contents(q.op) = {BlockedNote}
    BY <1>7, CommentsDiffer DEF Contents
  <2>2. \A c \in Marker \cup {FailureNote} : c \notin Contents(q.op)
    BY <2>1, CommentsDiffer
  <2>3. ShownIn(runs, remote', t) = ShownIn(runs, remote, t)
    BY <1>2, <1>3, <2>2 DEF ShownIn
  <2>4. Undisturbed(t)
    BY <2>3 DEF Undisturbed
  <2> QED
    BY <1>5, <2>4, OutcomeViews DEF OutcomeStep
<1>8. CASE t \in Trigger /\ Present(store, r) /\ q.op # BlockedNote
  <2>1. OneSided(run)
    BY <1>1 DEF OInv, IInv, Stored, SoundStore, SoundRuns
  <2>2. \/ q.op \in Marker /\ run.pub = "publishing" /\ run.note = "none"
        \/ q.op = FailureNote /\ run.note = "notifying" /\ run.pub = "none"
    BY <1>8, <2>1 DEF Attributed, OneSided
  <2>3. ~Mute(run) /\ ~Over(run)
    BY <2>2 DEF Mute, Over
  <2>4. r \in Speaking(runs, t) /\ r \in Attempts(runs, t)
    BY <1>1, <1>8, <2>3 DEF Speaking, Attempts, Present
  <2>5. LastSpeaks(runs)
    BY DEF LatestInv, InOrder
  <2>6. Speaking(runs, t) = {r} /\ VoiceIn(runs, t) = [run |-> r, kind |-> KindOf(run)]
    BY <2>4, <2>5, OneSpeaker
  <2>7. t \notin OverIn(runs)
    <3>1. ASSUME NEW x \in Attempts(runs, t), Over(runs[x]) PROVE FALSE
      <4>1. x \in Speaking(runs, t)
        BY <3>1 DEF Speaking, Over, Mute
      <4> QED
        BY <2>3, <2>6, <3>1, <4>1
    <3> QED
      BY <3>1 DEF OverIn
  <2>8. ShownIn(runs, remote', t) = ShownIn(runs, remote, t) \cup added
    <3>1. ASSUME NEW x \in Attempts(runs, t), NEW c \in Marker \cup {FailureNote}
          PROVE  <<x, c>> \in ShownIn(runs, remote', t) <=> <<x, c>> \in ShownIn(runs, remote, t) \cup added
      <4>1. /\ <<x, c>> \in ShownIn(runs, remote', t) <=> remote'[x].count[c] > 0
            /\ <<x, c>> \in ShownIn(runs, remote, t) <=> remote[x].count[c] > 0
        BY OwnComments
      <4>2. <<x, c>> \in added <=> x = r /\ c \in Contents(q.op)
        OBVIOUS
      <4> QED
        BY <1>2, <1>3, <4>1, <4>2
    <3>2. /\ ShownIn(runs, remote', t) \subseteq Attempts(runs, t) \X (Marker \cup {FailureNote})
          /\ ShownIn(runs, remote, t) \cup added \subseteq Attempts(runs, t) \X (Marker \cup {FailureNote})
      BY <2>4 DEF ShownIn
    <3> HIDE DEF added
    <3>3. ASSUME NEW y \in Attempts(runs, t) \X (Marker \cup {FailureNote})
          PROVE  y \in ShownIn(runs, remote', t) <=> y \in ShownIn(runs, remote, t) \cup added
      <4>1. PICK x \in Attempts(runs, t), c \in Marker \cup {FailureNote} : y = <<x, c>>
        OBVIOUS
      <4> QED
        BY <3>1, <4>1
    <3> QED
      BY <3>2, <3>3
  <2>9. added \in SUBSET Outcome!CommentsOf(VoiceIn(runs, t))
    <3>1. Outcome!Marker = Marker
      BY DEF Outcome!Marker, Marker, Outcome!Summary, Summary, Outcome!InlineMarker, InlineMarker, Outcome!FallbackMarker,
             FallbackMarker
    <3>2. VoiceIn(runs, t) # SilentVoice
      BY <2>6 DEF SilentVoice, KindOf
    <3>3. CASE q.op \in Marker /\ run.pub = "publishing"
      <4>1. KindOf(run) = "result" /\ Contents(q.op) \subseteq Marker
        BY <3>3, CarriedMarkers DEF KindOf, Contents
      <4> QED
        BY <2>6, <3>1, <3>2, <4>1 DEF Outcome!CommentsOf
    <3>4. CASE q.op = FailureNote /\ run.pub = "none"
      <4>1. KindOf(run) = "failure" /\ Contents(q.op) = {FailureNote}
        BY <3>4, CommentsDiffer DEF KindOf, Contents
      <4> QED
        BY <2>6, <3>2, <4>1 DEF Outcome!CommentsOf
    <3> QED
      BY <2>2, <3>3, <3>4
  <2>10. /\ [u \in Trigger |-> PostedFor(u)]' = [[u \in Trigger |-> PostedFor(u)] EXCEPT ![t] = ShownIn(runs, remote', t)]
         /\ UNCHANGED <<[u \in Trigger |-> VoiceOf(u)], ConcludedTriggers>>
    BY <1>5, <1>8, OutcomeViews
  <2>11. /\ [u \in Trigger |-> VoiceOf(u)][t] = VoiceIn(runs, t)
         /\ [u \in Trigger |-> PostedFor(u)][t] = ShownIn(runs, remote, t)
         /\ t \notin ConcludedTriggers
    BY <1>8, <2>7, OutcomeOfState
  <2> DEFINE seen == [u \in Trigger |-> PostedFor(u)]
  <2>12. seen' = [seen EXCEPT ![t] = @ \cup added]
    BY <2>8, <2>10, <2>11
  <2> HIDE DEF t, added, runs
  <2>13. Outcome!Post(t)
    BY <2>9, <2>10, <2>11, <2>12 DEF Outcome!Post
  <2> QED
    BY <1>8, <2>13 DEF OutcomeStep, Outcome!OutcomeNext
<1> QED
  BY <1>6, <1>7, <1>8

(* What GitLab takes is sent by a call that holds its run.                 *)
LEMMA RequestsAttributed ==
  ASSUME ~LateWrites, OInv, late = {}, [Next]_vars
  PROVE  \/ UNCHANGED remote
         \/ store' = store /\ \E q \in Request : remote' = Taken(q) /\ Attributed(q)
<1>1. CASE UNCHANGED vars
  BY <1>1 DEF vars
<1>2. ASSUME NEW r \in RunId, AttemptStep(r) PROVE UNCHANGED remote
  BY <1>2, AttemptStepCalm DEF CallsKept, RuntimeOutput, ReportFailure
<1>3. ASSUME NEW p \in PublicationClaim, PublisherStep(p) PROVE UNCHANGED remote
  BY <1>3 DEF PublisherStep, PublisherHasToken, PublisherUnprepared, PublisherHeadChanged, PublisherHeadVerified, PublisherReconciles,
     PublisherReconcileFails, PublisherSends, PublisherCheckFails, PublisherCheckRejects, PublisherConfirmed,
     PublisherPositionRefused, PublisherUnconfirmed, PublisherRecords, PublisherRecordFails, PublisherFinishes, PublisherFinishFails
<1>4. ASSUME NEW n \in NoteClaim, NotifierStep(n) PROVE UNCHANGED remote
  BY <1>4 DEF NotifierStep, NotifierHasToken, NotifierHeadVerified, NotifierFindsNote, NotifierFindsNone, NotifierBlocked,
     NotifierHeadChanged, NotifierSends, NotifierConfirmed, NotifierRefused, NotifierUnconfirmed
<1>5. ASSUME NEW r \in RunId, Retry(r) \/ ManagementPublishInvalid(r) \/ LeaseExpires(r) PROVE UNCHANGED remote
  BY <1>5 DEF Retry, ManagementPublishInvalid, LeaseExpires
<1>6. ASSUME NEW r \in RunId, NEW p \in PublicationClaim, NEW payload \in Payload, ManagementPublish(p, r, payload)
      PROVE UNCHANGED remote
  BY <1>6 DEF ManagementPublish
<1>7. ASSUME NEW r \in RunId, NEW n \in NoteClaim, RecoverNotification(n, r) PROVE UNCHANGED remote
  BY <1>7 DEF RecoverNotification
<1>8. ASSUME NEW t \in Trigger, Deliver(t) PROVE UNCHANGED remote
  BY <1>8 DEF Deliver
<1>9. CASE Crash
  BY <1>9 DEF Crash
<1>10. Publishing /\ Notifying
  BY DEF OInv, IInv
<1>11. ASSUME NEW r \in RunId, GitLabTakesBlocked(r)
       PROVE  store' = store /\ \E q \in Request : remote' = Taken(q) /\ Attributed(q)
  <2>1. BlockedRequest(r) \in Request /\ Attributed(BlockedRequest(r))
    BY <1>10, RequestTypes DEF BlockedRequest, Attributed
  <2> QED
    BY <1>11, <2>1 DEF GitLabTakesBlocked, storeVars
<1>12. ASSUME NEW n \in NoteClaim, GitLabTakesNote(n)
       PROVE  store' = store /\ \E q \in Request : remote' = Taken(q) /\ Attributed(q)
  <2>1. NotifierRequest(n) \in Request /\ Notifies(n) /\ notifiers[n].run \in RunId
    BY <1>10, <1>12, RequestTypes, NotifierFields DEF GitLabTakesNote, Notifies
  <2>2. NoteFits(n, notifiers[n].run)
    BY <2>1 DEF OInv, OutcomeFits
  <2>3. Attributed(NotifierRequest(n))
    BY <2>1, <2>2 DEF NoteFits, Attributed, NotifierRequest, HoldsNotification, NoteClaimMatches, NotifierId
  <2> QED
    BY <1>12, <2>1, <2>3 DEF GitLabTakesNote, storeVars
<1>13. ASSUME NEW p \in PublicationClaim, GitLabTakesResult(p)
       PROVE  store' = store /\ \E q \in Request : remote' = Taken(q) /\ Attributed(q)
  <2>1. PublisherRequest(p) \in Request /\ Publishes(p) /\ publishers[p].run \in RunId
    BY <1>10, <1>13, RequestTypes, PublisherFields DEF GitLabTakesResult, Publishes
  <2>2. PubFits(p, publishers[p].run) /\ publishers[p].op \in Marker
    BY <1>10, <2>1 DEF OInv, OutcomeFits, Publishing, Publisher
  <2>3. Attributed(PublisherRequest(p))
    BY <2>1, <2>2 DEF PubFits, Attributed, PublisherRequest, HoldsPublication, PublicationClaimMatches, PublisherId
  <2> QED
    BY <1>13, <2>1, <2>3 DEF GitLabTakesResult, storeVars
<1>14. ~\E q \in late : LateArrival(q)
  OBVIOUS
<1> QED
  BY <1>1, <1>2, <1>3, <1>4, <1>5, <1>6, <1>7, <1>8, <1>9, <1>11, <1>12, <1>13, <1>14
     DEF Next, Management, Environment, Server

(* Every step keeps the promise.                                           *)
LEMMA StepKeepsPromise ==
  ASSUME ~LateWrites, OInv, OInv', LatestInv, LatestInv', late = {}, [Next]_vars, [NothingPruned]_vars
  PROVE  OutcomeStep
<1>1. NothingPruned
  BY DEF vars, NothingPruned, Exists
<1>2. CASE UNCHANGED remote
  <2>1. CASE Advances
    BY <1>1, <1>2, <2>1, QuietStep DEF Advances
  <2>2. CASE \A x \in RunId : Agree(store.runs[x], store'.runs[x])
    <3>1. \A x \in RunId : Hushed(x)
      BY <2>2 DEF Agree, Hushed
    <3> QED
      BY <1>1, <1>2, <3>1, QuietStep
  <2> QED
    BY <2>1, <2>2, NextOutcome
<1>3. CASE store' = store /\ \E q \in Request : remote' = Taken(q) /\ Attributed(q)
  BY <1>3, TakenSpeaks
<1> QED
  BY <1>2, <1>3, RequestsAttributed

LEMMA InitPromise == Init => Outcome!OutcomeInit
<1> SUFFICES ASSUME Init PROVE Outcome!OutcomeInit
  OBVIOUS
<1>1. \A r \in RunId : store.runs[r].status = "absent"
  BY DEF Init, EmptyStore, NoRun
<1>2. \A t : Attempts(store.runs, t) = {}
  BY <1>1 DEF Attempts
<1>3. /\ \A t : VoiceIn(store.runs, t) = SilentVoice /\ ShownIn(store.runs, remote, t) = {}
      /\ OverIn(store.runs) = {}
  BY <1>2 DEF VoiceIn, Speaking, ShownIn, OverIn
<1>4. (\A t : VoiceOf(t) = SilentVoice /\ PostedFor(t) = {}) /\ ConcludedTriggers = {}
  BY <1>3, OutcomeOfState
<1> QED
  BY <1>4 DEF Outcome!OutcomeInit

(* The subsystem implements ReviewOutcome, for any number of attempts,     *)
(* calls, failing saves and restarts, as long as writes are not late and   *)
(* no run is pruned: at a head one attempt speaks at a time, it falls      *)
(* silent only with nothing to be seen, every comment is its own, and the  *)
(* review is concluded with all of it posted.                              *)
THEOREM PromiseKept == ~LateWrites /\ Spec /\ [][NothingPruned]_vars => OneOutcome
<1> SUFFICES ASSUME ~LateWrites PROVE Spec /\ [][NothingPruned]_vars => OneOutcome
  OBVIOUS
<1>1. Init => Outcome!OutcomeInit
  BY InitPromise
<1>2. /\ OInv /\ OInv' /\ LatestInv /\ LatestInv' /\ OnceInv /\ [Next]_vars /\ [NothingPruned]_vars
      => [Outcome!OutcomeNext]_(Outcome!outcomeVars)
  BY StepKeepsPromise DEF OnceInv, OutcomeStep
<1>3. Spec => []OnceInv
  BY OnceInvariance
<1>4. Spec => []OInv /\ []LatestInv
  BY OutcomeInvariance, LatestInvariance
<1> QED
  BY <1>1, <1>2, <1>3, <1>4, PTL DEF Spec, OneOutcome, Outcome!OutcomeSpec

=============================================================================
