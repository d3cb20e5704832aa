------------------------- MODULE ReviewOutcomeProofs -------------------------
(***************************************************************************)
(* Proofs about what GitLab shows of a review, for any number of triggers, *)
(* runs, calls, findings, restarts, failing saves and late requests.       *)
(*                                                                         *)
(* The store decides what may still be posted, GitLab holds what was       *)
(* posted, and between the two there are requests that are on their way:   *)
(* of a call that waits for its answer, or given up on.  The inductive     *)
(* invariant counts those as posted.  It says of every run that its record *)
(* tells of all that is out (RunFits), that its failure note is out once   *)
(* (OneNote), and of every call under way that it holds the run it works   *)
(* on, unless that run was pruned (PubFits, NoteFits).  Since a restart    *)
(* loads the file, memory and file agree on all of this (DiskAgrees).      *)
(***************************************************************************)
EXTENDS GitLabReviewProofs

Present(st, r) == st.runs[r].status # "absent"

(* The request of a call is on its way.                                    *)
Sending(p, r) == publishers[p].run = r /\ publishers[p].pc = "sent" /\ ~publishers[p].landed
NoteSending(n, r) == notifiers[n].run = r /\ notifiers[n].pc = "sent" /\ ~notifiers[n].landed

ResultLate(q, r) == q.run = r /\ q.op \in Marker
NoteLate(q, r) == q.run = r /\ q.op = FailureNote

(* The payloads of the results of r that GitLab has, or may get.           *)
Results(r) ==
  remote[r].payloads
  \cup {publishers[p].payload : p \in {x \in PublicationClaim : Sending(x, r)}}
  \cup {q.payload : q \in {x \in late : ResultLate(x, r)}}

(* GitLab has the failure note of r, or may get it.                        *)
NoteOut(r) ==
  \/ FailurePosted(r)
  \/ \E n \in NoteClaim : NoteSending(n, r)
  \/ \E q \in late : NoteLate(q, r)

(* The run r was not created yet.                                          *)
Unborn(r) == r > store.sequence

(* Nothing was begun for the run, and what was begun has come to its end.  *)
Mute(run) == run.pub = "none" /\ run.note = "none"
Over(run) == run.pub = "published" \/ run.note = "notified"

RunFits(r) ==
  LET run == store.runs[r] IN
  /\ Unborn(r) => Gone(run) /\ Results(r) = {} /\ ~NoteOut(r)
  /\ run.status = "absent" => Gone(run)
  /\ \A a, b \in Results(r) : a = b
  /\ run.status # "absent" => \A a \in Results(r) : run.pub # "none" /\ run.payload = a
  /\ run.status # "absent" /\ NoteOut(r) => run.note # "none" /\ run.postStarted
  /\ Results(r) # {} => ~NoteOut(r)
  /\ run.note # "none" => run.status \in TerminalStatus
  /\ run.note = "notified" => FailurePosted(r)
  /\ run.pub = "published" => run.status \in TerminalStatus /\ PublicationComplete(Visible(r))
  /\ run.done \subseteq Visible(r)
  /\ Visible(r) # {} => remote[r].payloads # {}

OneNote(r) ==
  /\ remote[r].count[FailureNote] <= 1
  /\ FailurePosted(r) => (\A n \in NoteClaim : ~NoteSending(n, r)) /\ (\A q \in late : ~NoteLate(q, r))
  /\ \A n \in NoteClaim : NoteSending(n, r) =>
       (\A m \in NoteClaim : NoteSending(m, r) => m = n) /\ (\A q \in late : ~NoteLate(q, r))
  /\ \A q1, q2 \in late : NoteLate(q1, r) /\ NoteLate(q2, r) => q1 = q2

Publishes(p) == publishers[p].pc \notin {"idle", "published", "failed"}

PubFits(p, r) ==
  Publishes(p) /\ publishers[p].run = r =>
    LET self == publishers[p]
    IN  /\ ~Unborn(r)
        /\ Present(store, r) =>
             /\ HoldsPublication(store, PublisherId(p))
             /\ store.runs[r].payload = self.payload
             /\ self.pc \in {"secret", "head"} /\ ~self.resume => Results(r) = {}
        /\ self.done \subseteq Visible(r)
        /\ self.pc = "record" => self.pending \subseteq Visible(r)
        /\ self.pc = "sent" /\ self.landed => Carried(self.op) \subseteq Visible(r)

Notifies(n) == notifiers[n].pc \notin {"idle", "notified", "failed"}

(* The call may post the note: no earlier call may have done so.           *)
MayPost(n) == ~notifiers[n].resume \/ ~notifiers[n].posted

NoteFits(n, r) ==
  Notifies(n) /\ notifiers[n].run = r =>
    LET self == notifiers[n]
    IN  /\ ~Unborn(r)
        /\ Present(store, r) =>
             /\ HoldsNotification(store, NotifierId(n))
             /\ self.pc # "sent" /\ MayPost(n) => ~NoteOut(r)
        /\ self.pc \in {"head", "check"} => MayPost(n)
        /\ self.pc = "sent" /\ self.landed => FailurePosted(r)

DiskAgrees ==
  /\ disk.sequence = store.sequence
  /\ \A r \in RunId : Agree(store.runs[r], disk.runs[r])

OutcomeFits ==
  /\ DiskAgrees
  /\ \A r \in RunId : RunFits(r) /\ OneNote(r)
  /\ \A p \in PublicationClaim, r \in RunId : PubFits(p, r)
  /\ \A n \in NoteClaim, r \in RunId : NoteFits(n, r)

OInv == IInv /\ OutcomeFits

(***************************************************************************)
(* What is out                                                             *)
(***************************************************************************)

LEMMA CommentsDiffer ==
  /\ FailureNote \notin Marker /\ BlockedNote \notin Marker /\ FailureNote # BlockedNote
  /\ FailureNote \in Comment /\ Marker \subseteq Comment
BY DEF FailureNote, BlockedNote, Marker, Summary, InlineMarker, FallbackMarker, Comment

(* A comment of a result carries markers only, its own among them.         *)
LEMMA CarriedMarkers == \A m \in Marker : Carried(m) \subseteq Marker /\ m \in Carried(m)
BY FindingAssumption DEF Carried, Marker, Deferred

(* What GitLab shows of a run after it took the request q.                 *)
LEMMA TakenShows ==
  ASSUME Posting, NEW q \in Request, remote' = Taken(q), NEW r \in RunId
  PROVE  /\ r # q.run => remote'[r] = remote[r]
         /\ r = q.run =>
              /\ \A c \in Comment : remote'[r].count[c] =
                   IF c \in Contents(q.op) THEN remote[r].count[c] + 1 ELSE remote[r].count[c]
              /\ remote'[r].payloads =
                   IF q.op \in Marker THEN remote[r].payloads \cup {q.payload} ELSE remote[r].payloads
         /\ \A c \in Comment : remote[r].count[c] \in Nat
<1> DEFINE old == remote[q.run]
           count == [c \in Comment |-> IF c \in Contents(q.op) THEN old.count[c] + 1 ELSE old.count[c]]
           payloads == IF q.op \in Marker THEN old.payloads \cup {q.payload} ELSE old.payloads
           new == [count |-> count, payloads |-> payloads]
<1>1. remote \in [RunId -> RemoteComments] /\ q.run \in RunId
  BY DEF Posting, Request
<1>2. remote' = [remote EXCEPT ![q.run] = new]
  BY DEF Taken
<1>3. r = q.run => remote'[r] = new
  <2> HIDE DEF new
  <2> QED
    BY <1>1, <1>2
<1>4. r # q.run => remote'[r] = remote[r]
  <2> HIDE DEF new
  <2> QED
    BY <1>1, <1>2
<1>5. \A c \in Comment : remote[r].count[c] \in Nat
  BY <1>1 DEF RemoteComments
<1>6. new.count = count /\ new.payloads = payloads
  <2> HIDE DEF count, payloads
  <2> QED
    OBVIOUS
<1>7. \A c \in Comment : count[c] = IF c \in Contents(q.op) THEN old.count[c] + 1 ELSE old.count[c]
  OBVIOUS
<1> HIDE DEF count, new
<1> QED
  BY <1>3, <1>4, <1>5, <1>6, <1>7

(* The same, as far as the outcome is concerned.                           *)
LEMMA TakenOutcome ==
  ASSUME Posting, NEW q \in Request, remote' = Taken(q), NEW r \in RunId
  PROVE  /\ Visible(r)' = Visible(r) \cup IF ResultLate(q, r) THEN Carried(q.op) ELSE {}
         /\ remote'[r].payloads = remote[r].payloads \cup IF ResultLate(q, r) THEN {q.payload} ELSE {}
         /\ remote[r].count[FailureNote] \in Nat
         /\ remote'[r].count[FailureNote] =
              IF NoteLate(q, r) THEN remote[r].count[FailureNote] + 1 ELSE remote[r].count[FailureNote]
<1> DEFINE old(c) == remote[r].count[c]
           new(c) == remote'[r].count[c]
<1>1. /\ FailureNote \notin Marker /\ BlockedNote \notin Marker /\ FailureNote # BlockedNote
      /\ FailureNote \in Comment /\ Marker \subseteq Comment
  BY CommentsDiffer
<1>2. q.op \in Marker => Contents(q.op) = Carried(q.op) /\ Carried(q.op) \subseteq Marker
  BY CarriedMarkers DEF Contents
<1>3. q.op \notin Marker => Contents(q.op) = {q.op}
  BY DEF Contents
<1>4. \A c \in Comment : old(c) \in Nat
  BY TakenShows
<1>5. CASE r # q.run
  <2>1. remote'[r] = remote[r]
    BY <1>5, TakenShows
  <2> QED
    BY <1>1, <1>4, <1>5, <2>1 DEF Visible, ResultLate, NoteLate
<1>6. CASE r = q.run
  <2>1. /\ \A c \in Comment : new(c) = IF c \in Contents(q.op) THEN old(c) + 1 ELSE old(c)
        /\ remote'[r].payloads =
             IF q.op \in Marker THEN remote[r].payloads \cup {q.payload} ELSE remote[r].payloads
    BY <1>6, TakenShows
  <2>2. Visible(r) = {m \in Marker : old(m) > 0} /\ Visible(r)' = {m \in Marker : new(m) > 0}
    BY DEF Visible
  <2> HIDE DEF old, new
  <2>3. Visible(r)' = Visible(r) \cup IF q.op \in Marker THEN Carried(q.op) ELSE {}
    <3>1. CASE q.op \in Marker
      <4>1. \A m \in Marker : new(m) > 0 <=> m \in Carried(q.op) \/ old(m) > 0
        BY <1>1, <1>2, <1>4, <2>1, <3>1
      <4> QED
        BY <1>2, <2>2, <3>1, <4>1
    <3>2. CASE q.op \notin Marker
      <4>1. \A m \in Marker : new(m) > 0 <=> old(m) > 0
        BY <1>1, <1>3, <2>1, <3>2
      <4> QED
        BY <2>2, <3>2, <4>1
    <3> QED
      BY <3>1, <3>2
  <2>4. new(FailureNote) = IF q.op = FailureNote THEN old(FailureNote) + 1 ELSE old(FailureNote)
    BY <1>1, <1>2, <1>3, <2>1
  <2> QED
    BY <1>1, <1>4, <1>6, <2>1, <2>3, <2>4 DEF ResultLate, NoteLate, old, new
<1> QED
  BY <1>5, <1>6

(* Nothing more goes out: no request is sent, and what is given up was on  *)
(* its way.                                                                *)
Quiet ==
  /\ UNCHANGED remote
  /\ \A p \in PublicationClaim, r \in RunId :
       Sending(p, r)' => Sending(p, r) /\ publishers'[p].payload = publishers[p].payload
  /\ \A n \in NoteClaim, r \in RunId : NoteSending(n, r)' => NoteSending(n, r)
  /\ \A q \in late' :
       \/ q \in late
       \/ \E p \in PublicationClaim : Sending(p, q.run) /\ q = PublisherRequest(p)
       \/ \E n \in NoteClaim : NoteSending(n, q.run) /\ ~NoteSending(n, q.run)' /\ q = NotifierRequest(n)
       \/ q.op = BlockedNote

LEMMA QuietOutcome ==
  ASSUME Publishing, Quiet, NEW r \in RunId
  PROVE  /\ Results(r)' \subseteq Results(r)
         /\ NoteOut(r)' => NoteOut(r)
         /\ OneNote(r) => OneNote(r)'
         /\ Visible(r)' = Visible(r) /\ remote'[r] = remote[r]
<1>1. /\ FailureNote \notin Marker /\ BlockedNote \notin Marker /\ FailureNote # BlockedNote
  BY CommentsDiffer
<1>2. /\ \A p \in PublicationClaim : PublisherRequest(p).payload = publishers[p].payload
                                     /\ PublisherRequest(p).op = publishers[p].op
                                     /\ publishers[p].op \in Marker
      /\ \A n \in NoteClaim : NotifierRequest(n).op = FailureNote
                              /\ NotifierRequest(n).run = notifiers[n].run
  BY DEF PublisherRequest, NotifierRequest, Publishing, Publisher
<1>3. UNCHANGED remote
  BY DEF Quiet
<1>4. ASSUME NEW q \in late', ResultLate(q, r)
      PROVE  q \in late \/ \E p \in PublicationClaim : Sending(p, r) /\ q.payload = publishers[p].payload
  BY <1>1, <1>2, <1>4 DEF Quiet, ResultLate
<1>5. ASSUME NEW q \in late', NoteLate(q, r)
      PROVE  q \in late \/ \E n \in NoteClaim : NoteSending(n, r) /\ ~NoteSending(n, r)' /\ q = NotifierRequest(n)
  BY <1>1, <1>2, <1>5 DEF Quiet, NoteLate
<1>6. /\ \A p \in PublicationClaim :
           Sending(p, r)' => Sending(p, r) /\ publishers'[p].payload = publishers[p].payload
      /\ \A n \in NoteClaim : NoteSending(n, r)' => NoteSending(n, r)
  BY DEF Quiet
<1>7. Results(r)' \subseteq Results(r)
  <2>1. Results(r)' = remote'[r].payloads
          \cup {publishers'[p].payload : p \in {x \in PublicationClaim : Sending(x, r)'}}
          \cup {q.payload : q \in {x \in late' : ResultLate(x, r)}}
    BY DEF Results
  <2> QED
    BY <1>3, <1>4, <1>6, <2>1 DEF Results
<1>8. NoteOut(r)' => NoteOut(r)
  <2>1. NoteOut(r)' = (FailurePosted(r) \/ (\E n \in NoteClaim : NoteSending(n, r)')
                         \/ \E q \in late' : NoteLate(q, r))
    BY <1>3 DEF NoteOut, FailurePosted
  <2> QED
    BY <1>5, <1>6, <2>1 DEF NoteOut
<1>9. OneNote(r) => OneNote(r)'
  <2> SUFFICES ASSUME OneNote(r) PROVE OneNote(r)'
    OBVIOUS
  <2>1. remote'[r].count[FailureNote] <= 1
    BY <1>3 DEF OneNote
  <2>2. ASSUME FailurePosted(r)'
        PROVE  (\A n \in NoteClaim : ~NoteSending(n, r)') /\ (\A q \in late' : ~NoteLate(q, r))
    <3>1. FailurePosted(r)
      BY <1>3, <2>2 DEF FailurePosted
    <3> QED
      BY <1>5, <1>6, <3>1 DEF OneNote
  <2>3. ASSUME NEW n \in NoteClaim, NoteSending(n, r)'
        PROVE  /\ \A m \in NoteClaim : NoteSending(m, r)' => m = n
               /\ \A q \in late' : ~NoteLate(q, r)
    BY <1>5, <1>6, <2>3 DEF OneNote
  <2>4. ASSUME NEW q1 \in late', NEW q2 \in late', NoteLate(q1, r), NoteLate(q2, r)
        PROVE  q1 = q2
    BY <1>5, <2>4 DEF OneNote
  <2> QED
    BY <2>1, <2>2, <2>3, <2>4 DEF OneNote
<1>10. Visible(r)' = Visible(r) /\ remote'[r] = remote[r]
  BY <1>3 DEF Visible
<1> QED
  BY <1>7, <1>8, <1>9, <1>10

(***************************************************************************)
(* What a step makes of a run                                              *)
(***************************************************************************)

(* What is complete stays complete.                                        *)
LEMMA CompleteGrows ==
  \A a, b : a \subseteq b /\ PublicationComplete(a) => PublicationComplete(b)
BY DEF PublicationComplete, Reported

(* The record of r still tells of what is out.                             *)
StillFits(r) ==
  LET old == store.runs[r]
      new == store'.runs[r]
  IN  \/ Gone(new)
      \/ /\ Unborn(r) /\ ~Unborn(r)'
         /\ new.pub = "none" /\ new.note = "none" /\ new.done = {}
      \/ /\ old.status # "absent" /\ new.status # "absent"
         /\ new.payload = old.payload \/ Results(r)' = {}
         /\ old.pub # "none" => new.pub # "none" \/ Results(r)' = {}
         /\ old.note # "none" => new.note # "none" \/ ~NoteOut(r)'
         /\ old.postStarted => new.postStarted \/ ~NoteOut(r)'
         /\ new.note # "none" => new.status \in TerminalStatus
         /\ new.note = "notified" => FailurePosted(r)'
         /\ new.pub = "published" => new.status \in TerminalStatus /\ PublicationComplete(Visible(r)')
         /\ new.done \subseteq Visible(r)'

(* A step that is not a restart does not undo what is final.               *)
Final(r) ==
  LET old == store.runs[r]
      new == store'.runs[r]
  IN  /\ old.status \in TerminalStatus /\ new.status \notin {old.status, "absent"} =>
           /\ old.status = "failed"
           /\ new.pub = "published" \/ (new.status = "rejected" /\ new.reason = "policy")
      /\ old.pub = "published" =>
           \/ new.status = "absent"
           \/ new.pub = "published" /\ new.status = old.status /\ new.done = old.done

(* The run x is pruned or created, or tells the same of what was begun.    *)
Hushed(x) ==
  \/ Gone(store'.runs[x])
  \/ Unborn(x) /\ Mute(store'.runs[x])
  \/ SameVoice(store.runs[x], store'.runs[x])

Begins(a, b) == Mute(a) /\ ~Mute(b) /\ ~Over(b)
Withdraws(a, b) == ~Mute(a) /\ ~Over(a) /\ Mute(b)
Concludes(a, b) ==
  /\ ~Over(a) /\ Over(b)
  /\ a.pub = "none" <=> b.pub = "none"
  /\ a.note = "none" <=> b.note = "none"

(* At most a publication or a notification of r is begun, withdrawn or     *)
(* concluded.                                                              *)
Turning(r) ==
  LET old == store.runs[r]
      new == store'.runs[r]
  IN  \/ Hushed(r)
      \/ /\ old.status # "absent" /\ new.status # "absent" /\ new.trigger = old.trigger
         /\ Begins(old, new) \/ Withdraws(old, new) \/ Concludes(old, new)

Turns(r) == Final(r) /\ Turning(r)

(* A step that is not a restart undoes nothing final, and one run at most  *)
(* begins to speak, falls silent or concludes.                             *)
Advances ==
  /\ \A x \in RunId : Final(x)
  /\ \/ \A x \in RunId : Hushed(x)
     \/ \E r \in RunId : Turning(r) /\ \A x \in RunId \ {r} : Hushed(x)

(* What goes out of the results of r, and of its failure note, is no more  *)
(* than was out.                                                           *)
NothingNew(r) ==
  /\ Results(r)' \subseteq Results(r)
  /\ NoteOut(r)' => NoteOut(r)
  /\ Visible(r) \subseteq Visible(r)'
  /\ Visible(r)' # {} => remote'[r].payloads # {}
  /\ FailurePosted(r) => FailurePosted(r)'
  /\ Unborn(r)' => Unborn(r)

LEMMA StillFitsSound ==
  ASSUME NEW r \in RunId, RunFits(r), NothingNew(r), StillFits(r)
  PROVE  RunFits(r)'
<1> DEFINE old == store.runs[r]
           new == store'.runs[r]
<1>1. Unborn(r) => Gone(old) /\ Results(r) = {} /\ ~NoteOut(r)
  BY DEF RunFits
<1>2. Unborn(r)' => Gone(new) /\ Results(r)' = {} /\ ~NoteOut(r)'
  BY <1>1 DEF NothingNew, StillFits, Gone
<1>3. CASE Gone(new)
  BY <1>2, <1>3 DEF NothingNew, RunFits, Gone
<1>4. CASE Unborn(r) /\ ~Unborn(r)' /\ new.pub = "none" /\ new.note = "none" /\ new.done = {}
  BY <1>1, <1>4 DEF NothingNew, RunFits, Gone
<1>5. CASE ~Gone(new) /\ ~(Unborn(r) /\ ~Unborn(r)')
  BY <1>2, <1>5 DEF NothingNew, RunFits, StillFits, Gone
<1> QED
  BY <1>1, <1>3, <1>4, <1>5 DEF StillFits, Gone

(* A run that is kept still tells all, and nothing final is undone.        *)
LEMMA KeptFits ==
  ASSUME NEW r \in RunId, RunFits(r), NothingNew(r), RunCalm(store, store', r)
  PROVE  StillFits(r) /\ Final(r)
<1> DEFINE old == store.runs[r]
           new == store'.runs[r]
<1>1. CASE Gone(new)
  BY <1>1 DEF StillFits, Final, Gone
<1>2. CASE Keeps(old, new) /\ old.status = "absent"
  BY <1>2 DEF StillFits, Final, RunFits, Gone, Keeps, TerminalStatus
<1>3. CASE Keeps(old, new) /\ old.status # "absent"
  <2>1. new.pub = "published" => PublicationComplete(Visible(r)') /\ new.status = old.status
    BY <1>3, CompleteGrows DEF RunFits, Keeps, NothingNew
  <2>2. new.done \subseteq Visible(r)'
    BY <1>3 DEF RunFits, Keeps, NothingNew
  <2>3. StillFits(r)
    BY <1>3, <2>1, <2>2 DEF StillFits, RunFits, Keeps, NothingNew
  <2>4. Final(r)
    BY <1>3, <2>1 DEF Final, Keeps
  <2> QED
    BY <2>3, <2>4
<1> QED
  BY <1>1, <1>2, <1>3 DEF RunCalm

(* A run that was just created.                                            *)
LEMMA NewFits ==
  ASSUME NEW r \in RunId, RunFits(r), Unborn(r), ~Unborn(r)',
         \/ Gone(store'.runs[r])
         \/ store'.runs[r].pub = "none" /\ store'.runs[r].note = "none" /\ store'.runs[r].done = {}
  PROVE  StillFits(r) /\ Final(r)
BY DEF StillFits, Final, RunFits, Gone, TerminalStatus

(* A publication under way holds its run, unless the run was pruned.       *)
LEMMA PubHolds ==
  ASSUME NEW p \in PublicationClaim, NEW r \in RunId, PubFits(p, r), Publishes(p),
         publishers[p].run = r
  PROVE  /\ PublisherId(p).run = r
         /\ ~Unborn(r)
         /\ Present(store, r) => HoldsPublication(store, PublisherId(p))
         /\ HoldsPublication(store, PublisherId(p)) =>
              /\ store.runs[r].pub = "publishing" /\ store.runs[r].pubBy = p
              /\ store.runs[r].session = publishers[p].session
              /\ store.pubClaims[r] = [by |-> p, session |-> publishers[p].session,
                                       allow |-> publishers[p].allow]
BY DEF PubFits, PublisherId, HoldsPublication, PublicationClaimMatches, ActivePublicationClaimMatches

LEMMA NoteHolds ==
  ASSUME NEW n \in NoteClaim, NEW r \in RunId, NoteFits(n, r), Notifies(n),
         notifiers[n].run = r
  PROVE  /\ NotifierId(n).run = r
         /\ ~Unborn(r)
         /\ Present(store, r) => HoldsNotification(store, NotifierId(n))
         /\ HoldsNotification(store, NotifierId(n)) =>
              /\ store.runs[r].note = "notifying" /\ store.runs[r].noteBy = n
              /\ store.runs[r].session = notifiers[n].session
              /\ store.noteClaims[r] = [by |-> n, session |-> notifiers[n].session]
BY DEF NoteFits, NotifierId, HoldsNotification, NoteClaimMatches, ActiveNoteClaimMatches

(* While its run is kept, so is what a publication needs.                  *)
LEMMA PubKept ==
  ASSUME NEW p \in PublicationClaim, NEW r \in RunId, PubFits(p, r), publishers'[p] = publishers[p],
         Publishes(p) /\ publishers[p].run = r => RunCalm(store, store', r),
         NothingNew(r)
  PROVE  PubFits(p, r)'
<1> SUFFICES ASSUME Publishes(p), publishers[p].run = r PROVE PubFits(p, r)'
  BY DEF PubFits, Publishes
<1> DEFINE self == publishers[p]
           old == store.runs[r]
           new == store'.runs[r]
           id == [run |-> r, by |-> p, session |-> self.session, allow |-> self.allow]
           claim == [by |-> p, session |-> self.session, allow |-> self.allow]
<1>1. PublisherId(p) = id /\ PublisherId(p)' = id
  BY DEF PublisherId
<1>2. ASSUME Present(store', r)
      PROVE  /\ HoldsPublication(store', id)
             /\ new.payload = self.payload
             /\ self.pc \in {"secret", "head"} /\ ~self.resume => Results(r)' = {}
  <2>1. Keeps(old, new) /\ Present(store, r)
    BY <1>2 DEF Present, RunCalm, Gone, Keeps
  <2>2. /\ old.pub = "publishing" /\ old.pubBy = p /\ old.session = self.session
        /\ store.pubClaims[r] = claim
    BY <2>1, PubHolds
  <2>3. new.pub = "publishing" /\ new.pubBy = p /\ new.session = self.session
    BY <2>1, <2>2 DEF Keeps
  <2>4. store'.pubClaims[r] = claim
    <3>1. PublicationClaimMatches(new, claim)
      BY <2>3 DEF PublicationClaimMatches
    <3> HIDE DEF claim
    <3> QED
      BY <2>2, <3>1 DEF RunCalm
  <2>5. HoldsPublication(store', id)
    BY <2>3, <2>4 DEF HoldsPublication, PublicationClaimMatches, ActivePublicationClaimMatches
  <2>6. old.payload = self.payload /\ (self.pc \in {"secret", "head"} /\ ~self.resume => Results(r) = {})
    BY <2>1 DEF PubFits
  <2> QED
    BY <2>1, <2>5, <2>6 DEF Keeps, NothingNew
<1>3. /\ ~Unborn(r)'
      /\ self.done \subseteq Visible(r)'
      /\ self.pc = "record" => self.pending \subseteq Visible(r)'
      /\ self.pc = "sent" /\ self.landed => Carried(self.op) \subseteq Visible(r)'
  BY DEF PubFits, NothingNew
<1> HIDE DEF id
<1> QED
  BY <1>1, <1>2, <1>3 DEF PubFits, Present

(* While its run is kept, so is what a notification needs.                 *)
LEMMA NoteKept ==
  ASSUME NEW n \in NoteClaim, NEW r \in RunId, NoteFits(n, r), notifiers'[n] = notifiers[n],
         Notifies(n) /\ notifiers[n].run = r => RunCalm(store, store', r),
         NothingNew(r)
  PROVE  NoteFits(n, r)'
<1> SUFFICES ASSUME Notifies(n), notifiers[n].run = r PROVE NoteFits(n, r)'
  BY DEF NoteFits, Notifies
<1> DEFINE self == notifiers[n]
           old == store.runs[r]
           new == store'.runs[r]
           id == [run |-> r, by |-> n, session |-> self.session]
           claim == [by |-> n, session |-> self.session]
<1>1. NotifierId(n) = id /\ NotifierId(n)' = id /\ (MayPost(n)' <=> MayPost(n))
  BY DEF NotifierId, MayPost
<1>2. ASSUME Present(store', r)
      PROVE  /\ HoldsNotification(store', id)
             /\ self.pc # "sent" /\ MayPost(n) => ~NoteOut(r)'
  <2>1. Keeps(old, new) /\ Present(store, r)
    BY <1>2 DEF Present, RunCalm, Gone, Keeps
  <2>2. /\ old.note = "notifying" /\ old.noteBy = n /\ old.session = self.session
        /\ store.noteClaims[r] = claim
    BY <2>1, NoteHolds
  <2>3. new.note = "notifying" /\ new.noteBy = n /\ new.session = self.session
    BY <2>1, <2>2 DEF Keeps
  <2>4. store'.noteClaims[r] = claim
    <3>1. NoteClaimMatches(new, claim)
      BY <2>3 DEF NoteClaimMatches
    <3> HIDE DEF claim
    <3> QED
      BY <2>2, <3>1 DEF RunCalm
  <2>5. HoldsNotification(store', id)
    BY <2>3, <2>4 DEF HoldsNotification, NoteClaimMatches, ActiveNoteClaimMatches
  <2>6. self.pc # "sent" /\ MayPost(n) => ~NoteOut(r)
    BY <2>1 DEF NoteFits
  <2> QED
    BY <2>5, <2>6 DEF NothingNew
<1>3. /\ ~Unborn(r)' /\ (self.pc \in {"head", "check"} => MayPost(n)')
      /\ self.pc = "sent" /\ self.landed => FailurePosted(r)'
  BY <1>1 DEF NoteFits, NothingNew
<1> HIDE DEF id
<1> QED
  BY <1>1, <1>2, <1>3 DEF NoteFits, Present

(***************************************************************************)
(* Steps that write the store and leave the calls as they are              *)
(***************************************************************************)

(* The run x is kept or pruned, or was just created.                       *)
RunMoves(x) ==
  \/ RunCalm(store, store', x)
  \/ /\ Unborn(x) /\ ~Unborn(x)'
     /\ \/ Gone(store'.runs[x])
        \/ store'.runs[x].pub = "none" /\ store'.runs[x].note = "none" /\ store'.runs[x].done = {}

LEMMA MovesHushed ==
  /\ \A x : RunCalm(store, store', x) => Hushed(x)
  /\ \A x : RunMoves(x) => Hushed(x)
BY DEF RunMoves, RunCalm, Keeps, Hushed, SameVoice, Mute

(* A step in which no run is claimed, released or marked.                  *)
LEMMA CalmFits ==
  ASSUME OutcomeFits, DiskAgrees',
         \A x \in RunId : RunMoves(x) /\ NothingNew(x) /\ OneNote(x)',
         \A p \in PublicationClaim :
           publishers'[p] = publishers[p] \/ \A x \in RunId : PubFits(p, x)',
         \A n \in NoteClaim :
           notifiers'[n] = notifiers[n] \/ \A x \in RunId : NoteFits(n, x)'
  PROVE  OutcomeFits' /\ Advances
<1>1. ASSUME NEW x \in RunId PROVE RunFits(x)' /\ Final(x)
  <2>1. RunFits(x) /\ NothingNew(x) /\ RunMoves(x)
    BY DEF OutcomeFits
  <2>2. StillFits(x) /\ Final(x)
    BY <2>1, KeptFits, NewFits DEF RunMoves
  <2> QED
    BY <2>1, <2>2, StillFitsSound
<1>2. ASSUME NEW p \in PublicationClaim, NEW x \in RunId PROVE PubFits(p, x)'
  <2>1. PubFits(p, x) /\ NothingNew(x) /\ RunMoves(x)
    BY DEF OutcomeFits
  <2>2. CASE publishers'[p] = publishers[p]
    <3>1. Publishes(p) /\ publishers[p].run = x => RunCalm(store, store', x)
      BY <2>1 DEF RunMoves, PubFits
    <3> QED
      BY <2>1, <2>2, <3>1, PubKept
  <2> QED
    BY <2>2
<1>3. ASSUME NEW n \in NoteClaim, NEW x \in RunId PROVE NoteFits(n, x)'
  <2>1. NoteFits(n, x) /\ NothingNew(x) /\ RunMoves(x)
    BY DEF OutcomeFits
  <2>2. CASE notifiers'[n] = notifiers[n]
    <3>1. Notifies(n) /\ notifiers[n].run = x => RunCalm(store, store', x)
      BY <2>1 DEF RunMoves, NoteFits
    <3> QED
      BY <2>1, <2>2, <3>1, NoteKept
  <2> QED
    BY <2>2
<1>4. \A x \in RunId : Hushed(x)
  BY MovesHushed
<1> QED
  BY <1>1, <1>2, <1>3, <1>4 DEF OutcomeFits, Advances

(* What a step that is quiet leaves of what is out.                        *)
LEMMA QuietNothingNew ==
  ASSUME Publishing, OutcomeFits, Quiet, store'.sequence >= store.sequence, store.sequence \in Nat,
         store'.sequence \in Nat
  PROVE  \A x \in RunId : NothingNew(x) /\ OneNote(x)'
<1> SUFFICES ASSUME NEW x \in RunId PROVE NothingNew(x) /\ OneNote(x)'
  OBVIOUS
<1>1. x \in Nat
  BY DEF RunId
<1>2. Unborn(x)' => Unborn(x)
  BY <1>1 DEF Unborn
<1>3. RunFits(x) /\ OneNote(x)
  BY DEF OutcomeFits
<1> QED
  BY <1>2, <1>3, QuietOutcome DEF NothingNew, RunFits, FailurePosted

(* The step changes nothing of the calls, and what it gives up is at most  *)
(* the comment on a diff that is too large.                                *)
CallsKept ==
  /\ UNCHANGED <<publishers, notifiers, remote>>
  /\ \A q \in late' : q \in late \/ q.op = BlockedNote

LEMMA CallsKeptQuiet == CallsKept => Quiet
BY DEF CallsKept, Quiet, Sending, NoteSending

(* A step that writes calmly and leaves the calls alone.                   *)
LEMMA StoreOnly ==
  ASSUME OInv, CallsKept, DiskAgrees', store'.sequence >= store.sequence, store'.sequence \in Nat,
         \A x \in RunId : RunMoves(x)
  PROVE  OutcomeFits' /\ Advances
<1>1. store.sequence \in Nat
  BY DEF OInv, IInv, Stored, SoundStore, Store
<1>2. Publishing /\ OutcomeFits /\ Quiet
  BY CallsKeptQuiet DEF OInv, IInv
<1>3. \A x \in RunId : NothingNew(x) /\ OneNote(x)'
  BY <1>1, <1>2, QuietNothingNew
<1> QED
  BY <1>2, <1>3, CalmFits DEF CallsKept

(* The step ends with the store st, saved, or with nothing changed.        *)
EndsWith(st) ==
  /\ store' = st
  /\ disk' = DiskOf(st) \/ (st = store /\ disk' = disk)

LEMMA SavesEndWith ==
  /\ \A st, k : Persist(st, k) => EndsWith(st)
  /\ \A k : InMemory(store, k) => EndsWith(store)
  /\ UNCHANGED storeVars => EndsWith(store)
BY DEF Persist, InMemory, storeVars, EndsWith

LEMMA EndsWithAgrees ==
  ASSUME DiskAgrees, NEW st, EndsWith(st)
  PROVE  DiskAgrees'
BY AgreeIsEquivalence DEF EndsWith, DiskAgrees, DiskOf

(* No run is claimed, released, marked or created.                         *)
CalmTo(st, new) == new.sequence = st.sequence /\ \A x \in RunId : RunCalm(st, new, x)

LEMMA CalmToTransitive ==
  /\ \A st : CalmTo(st, st)
  /\ \A a, b, c : CalmTo(a, b) /\ CalmTo(b, c) => CalmTo(a, c)
BY SameIsCalm, CalmTwice DEF CalmTo

(* The step leaves a calm store.                                           *)
CalmEnd == \E st : EndsWith(st) /\ CalmTo(store, st)

(* A step that leaves a calm store and leaves the calls alone.             *)
LEMMA CalmStep ==
  ASSUME OInv, CallsKept, CalmEnd
  PROVE  OutcomeFits' /\ Advances
<1>1. PICK st : EndsWith(st) /\ CalmTo(store, st)
  BY DEF CalmEnd
<1>2. store' = st
  BY <1>1 DEF EndsWith
<1>3. store.sequence \in Nat
  BY DEF OInv, IInv, Stored, SoundStore, Store
<1>4. DiskAgrees'
  BY <1>1, EndsWithAgrees DEF OInv, OutcomeFits
<1>5. \A x \in RunId : RunMoves(x)
  BY <1>1, <1>2 DEF RunMoves, CalmTo
<1>6. store'.sequence = store.sequence
  BY <1>1, <1>2 DEF CalmTo
<1> QED
  BY <1>3, <1>4, <1>5, <1>6, StoreOnly

(***************************************************************************)
(* Attempts                                                                *)
(***************************************************************************)

(* A status set through update or updateIfCurrent.                         *)
LEMMA UpdateStatusCalm ==
  ASSUME NEW st, SoundStore(st), NEW r \in RunId, NEW status \in TerminalStatus, NEW reason \in Reason
  PROVE  /\ CalmTo(st, Update(st, r, WithStatus(st.runs[r], status, reason)))
         /\ \A session : CalmTo(st, UpdateIfCurrent(st, r, session, WithStatus(st.runs[r], status, reason)))
<1> DEFINE run == st.runs[r]
           rec == WithStatus(run, status, reason)
<1>1. run \in Run
  BY StoreFields
<1>2. rec \in Run
  BY WithStatusSound
<1>3. UpdateAllowed(run, rec) => Keeps(run, rec)
  <2> HIDE DEF run
  <2> QED
    BY <1>1, StatusKeeps DEF WithStatus
<1> HIDE DEF rec
<1>4. CalmTo(st, Update(st, r, rec))
  BY <1>2, <1>3, UpdateCalm DEF CalmTo
<1>5. ASSUME NEW session PROVE CalmTo(st, UpdateIfCurrent(st, r, session, rec))
  BY <1>2, <1>3, UpdateIfCurrentCalm DEF CalmTo
<1> QED
  BY <1>4, <1>5 DEF rec

(* rejectGitLabReviewRuntimeConfiguration                                  *)
LEMMA RejectConfigurationCalm ==
  ASSUME NEW st, SoundStore(st), NEW r \in RunId
  PROVE  CalmTo(st, RejectConfiguration(st, r))
<1>1. "rejected" \in TerminalStatus /\ "configuration" \in Reason
  BY DEF TerminalStatus, Reason
<1> QED
  BY <1>1, UpdateStatusCalm, CalmToTransitive DEF RejectConfiguration

(* Loading the changes sets the status and stores the context.             *)
LEMMA LoadedRunCalm ==
  ASSUME NEW st, SoundStore(st), NEW r \in RunId, NEW status \in {"running", "blocked"}
  PROVE  CalmTo(st, Update(st, r, [st.runs[r] EXCEPT !.status = status, !.context = TRUE]))
<1> DEFINE run == st.runs[r]
           new == [run EXCEPT !.status = status, !.context = TRUE]
<1>1. run \in Run
  BY StoreFields
<1>2. status \in ActiveStatus \cup TerminalStatus /\ status # "absent"
  BY DEF ActiveStatus, TerminalStatus
<1>3. new \in Run
  <2> HIDE DEF run
  <2> QED
    BY <1>1, <1>2 DEF Run
<1>4. UpdateAllowed(run, new) => Keeps(run, new)
  <2> HIDE DEF run
  <2>1. new = [run EXCEPT !.status = status, !.context = TRUE]
    OBVIOUS
  <2> QED
    BY <1>1, <1>2, <2>1 DEF UpdateAllowed, Keeps, Run
<1>5. CalmTo(st, Update(st, r, new))
  <2> HIDE DEF new
  <2> QED
    BY <1>3, <1>4, UpdateCalm DEF CalmTo
<1> QED
  BY <1>5

(* A run is marked as running.                                             *)
LEMMA RunningRunCalm ==
  ASSUME NEW st, SoundStore(st), NEW r \in RunId
  PROVE  CalmTo(st, Update(st, r, [st.runs[r] EXCEPT !.status = "running"]))
<1> DEFINE run == st.runs[r]
           new == [run EXCEPT !.status = "running"]
<1>1. run \in Run
  BY StoreFields
<1>2. "running" \in ActiveStatus
  BY DEF ActiveStatus
<1>3. new \in Run
  <2> HIDE DEF run
  <2> QED
    BY <1>1, <1>2 DEF Run
<1>4. UpdateAllowed(run, new) => Keeps(run, new)
  <2> HIDE DEF run
  <2> QED
    BY <1>1, <1>2 DEF UpdateAllowed, Keeps, Run
<1>5. CalmTo(st, Update(st, r, new))
  <2> HIDE DEF new
  <2> QED
    BY <1>3, <1>4, UpdateCalm DEF CalmTo
<1> QED
  BY <1>5

(* A session comes to a run that has no publication, and, since it is not  *)
(* over, no notification.                                                  *)
LEMMA SessionRunCalm ==
  ASSUME NEW st, SoundStore(st), NEW r \in RunId, RuntimePatchAllowed(st.runs[r]),
         st.runs[r].note # "none" => st.runs[r].status \in TerminalStatus
  PROVE  CalmTo(st, Update(st, r, [st.runs[r] EXCEPT !.status = "running", !.session = TRUE,
                                                     !.reason = "none"]))
<1> DEFINE run == st.runs[r]
           new == [run EXCEPT !.status = "running", !.session = TRUE, !.reason = "none"]
<1>1. run \in Run
  BY StoreFields
<1>2. /\ run.pub = "none"
      /\ run.note # "none" => run.status \in TerminalStatus
  BY DEF RuntimePatchAllowed
<1>3. "running" \in ActiveStatus /\ "running" \notin TerminalStatus /\ "none" \in Reason
  BY DEF ActiveStatus, TerminalStatus, Reason
<1>4. new \in Run
  <2> HIDE DEF run
  <2> QED
    BY <1>1, <1>3 DEF Run
<1>5. UpdateAllowed(run, new) => Keeps(run, new)
  <2> HIDE DEF run
  <2> QED
    BY <1>1, <1>2, <1>3 DEF UpdateAllowed, Keeps, Run
<1>6. CalmTo(st, Update(st, r, new))
  <2> HIDE DEF new
  <2> QED
    BY <1>4, <1>5, UpdateCalm DEF CalmTo
<1> QED
  BY <1>6

(* The attempt saves a calm store and goes on.                             *)
LEMMA AttemptSavesCalm ==
  ASSUME NEW r, NEW st, CalmTo(store, st), NEW pc, AttemptSaves(r, st, pc)
  PROVE  CalmEnd
BY SavesEndWith, CalmToTransitive DEF AttemptSaves, CalmEnd

(* failGitLabReviewRuntimeRun                                              *)
LEMMA RunFailedCalm ==
  ASSUME NEW st, SoundStore(st), CalmTo(store, st), NEW r \in RunId, NEW n,
         RunFailed(st, r, n) \/ RunFailureLost(st, r, n) \/ RunFailureRefused(st, r, n)
  PROVE  CalmEnd
<1>1. "failed" \in TerminalStatus /\ "other" \in Reason
  BY DEF TerminalStatus, Reason
<1> DEFINE new == Update(st, r, WithStatus(st.runs[r], "failed", "other"))
<1>2. CalmTo(st, new)
  BY <1>1, UpdateStatusCalm
<1>3. Persist(new, n) \/ Persist(st, n)
  BY DEF RunFailed, RunFailureLost, RunFailureRefused
<1> HIDE DEF new
<1>4. CalmTo(store, new)
  BY <1>2, CalmToTransitive
<1> QED
  BY <1>3, <1>4, SavesEndWith DEF CalmEnd

LEMMA FailsRunCalm ==
  ASSUME SoundStore(store), NEW r \in RunId, NEW n, FailsRun(r, n)
  PROVE  CalmEnd
BY RunFailedCalm, CalmToTransitive DEF FailsRun

LEMMA FailsPublishedRunCalm ==
  ASSUME NEW st, SoundStore(st), CalmTo(store, st), NEW r \in RunId, FailsPublishedRun(st, r)
  PROVE  CalmEnd
BY RunFailedCalm DEF FailsPublishedRun

(* A step of an attempt claims its run, or is calm.                        *)
LEMMA AttemptStepCalm ==
  ASSUME OInv, NEW r \in RunId, AttemptStep(r)
  PROVE  \/ CalmEnd /\ CallsKept
         \/ \E payload \in Payload, p \in PublicationClaim : RuntimeOutput(p, r, payload)
         \/ \E payload \in Payload, n \in NoteClaim : ReportFailure(n, r, payload)
<1> DEFINE run == store.runs[r]
           Calm == UNCHANGED <<crashes, publishers, notifiers, remote, late>>
<1>1. SoundStore(store) /\ (run.note # "none" => run.status \in TerminalStatus)
  BY DEF OInv, IInv, Stored, OutcomeFits, RunFits
<1>2. Calm => CallsKept
  BY DEF CallsKept
<1>3. /\ {"failed", "rejected"} \subseteq TerminalStatus
      /\ {"load_transient", "other", "policy"} \subseteq Reason
  BY DEF TerminalStatus, Reason
<1>4. \A st : CalmTo(store, st) => \A pc : AttemptSaves(r, st, pc) => CalmEnd
  BY AttemptSavesCalm
<1>5. UNCHANGED storeVars => CalmEnd
  BY SavesEndWith, CalmToTransitive DEF CalmEnd
<1>6. CASE LoadMisconfigured(r)
  BY <1>1, <1>2, <1>4, <1>6, RejectConfigurationCalm DEF LoadMisconfigured
<1>7. CASE LoadFails(r)
  <2>1. \A reason \in Reason : CalmTo(store, Update(store, r, WithStatus(run, "failed", reason)))
    BY <1>1, <1>3, UpdateStatusCalm
  <2>2. \/ AttemptSaves(r, Update(store, r, WithStatus(run, "failed", "load_transient")), "done")
        \/ AttemptSaves(r, Update(store, r, WithStatus(run, "failed", "other")), "reporting")
    BY <1>7 DEF LoadFails
  <2>3. CalmEnd
    BY <1>3, <1>4, <2>1, <2>2
  <2> QED
    BY <1>2, <1>7, <2>3 DEF LoadFails
<1>8. CASE LoadHeadChanged(r)
  <2>1. CalmTo(store, Update(store, r, WithStatus(run, "rejected", "policy")))
    BY <1>1, <1>3, UpdateStatusCalm
  <2> QED
    BY <1>2, <1>4, <1>8, <2>1 DEF LoadHeadChanged
<1>9. CASE LoadSucceeds(r)
  <2>1. CalmTo(store, Update(store, r, [run EXCEPT !.status = "running", !.context = TRUE]))
    BY <1>1, LoadedRunCalm
  <2>2. AttemptSaves(r, Update(store, r, [run EXCEPT !.status = "running", !.context = TRUE]), "starting")
    BY <1>9 DEF LoadSucceeds
  <2>3. CalmEnd
    BY <1>4, <2>1, <2>2
  <2> QED
    BY <1>2, <1>9, <2>3 DEF LoadSucceeds
<1>10. CalmTo(store, Blocked(r))
  BY <1>1, LoadedRunCalm DEF Blocked
<1>11. CASE LoadBlocked(r)
  <2>1. UNCHANGED storeVars \/ AttemptSaves(r, Blocked(r), "done")
    BY <1>11 DEF LoadBlocked
  <2> QED
    BY <1>2, <1>4, <1>5, <1>10, <1>11, <2>1 DEF LoadBlocked
<1>12. CASE BlockedProceeds(r)
  BY <1>2, <1>5, <1>12 DEF BlockedProceeds
<1>13. CASE BlockedHeadChanged(r)
  <2>1. CalmTo(store, UpdateIfCurrent(store, r, FALSE, WithStatus(run, "rejected", "policy")))
    BY <1>1, <1>3, UpdateStatusCalm
  <2>2. AttemptSaves(r, UpdateIfCurrent(store, r, FALSE, WithStatus(run, "rejected", "policy")), "done")
    BY <1>13 DEF BlockedHeadChanged
  <2>3. CalmEnd
    BY <1>4, <2>1, <2>2
  <2> QED
    BY <1>2, <1>13, <2>3 DEF BlockedHeadChanged
<1>14. CASE BlockedEnds(r)
  <2>1. CalmEnd
    BY <1>4, <1>10, <1>14 DEF BlockedEnds
  <2>2. late' \subseteq late \cup {BlockedRequest(r)} /\ BlockedRequest(r).op = BlockedNote
    BY <1>14 DEF BlockedEnds, GivenUp, BlockedRequest
  <2> QED
    BY <1>14, <2>1, <2>2 DEF BlockedEnds, CallsKept
<1>15. CASE DirectoryMissing(r)
  BY <1>1, <1>2, <1>4, <1>15, RejectConfigurationCalm DEF DirectoryMissing
<1>16. CASE SessionCreated(r)
  <2> DEFINE created == Update(store, r, [run EXCEPT !.status = "running", !.session = TRUE,
                                                     !.reason = "none"])
             patched == IF RuntimePatchAllowed(run) THEN created ELSE store
  <2>1. CalmTo(store, patched)
    BY <1>1, SessionRunCalm, CalmToTransitive
  <2>2. (Persist(patched, 0) \/ FailsRun(r, 1)) /\ Calm
    BY <1>16 DEF SessionCreated
  <2> HIDE DEF patched
  <2>3. CalmEnd
    BY <1>1, <2>1, <2>2, SavesEndWith, FailsRunCalm DEF CalmEnd
  <2> QED
    BY <1>2, <2>2, <2>3
<1>17. CASE StartFails(r)
  BY <1>1, <1>2, <1>17, FailsRunCalm DEF StartFails
<1>18. CASE ResponseAccepted(r)
  <2> DEFINE patched == IF ResponsePatchAllowed(run)
                        THEN Update(store, r, [run EXCEPT !.status = "running"]) ELSE store
  <2>1. CalmTo(store, patched)
    BY <1>1, RunningRunCalm, CalmToTransitive
  <2>2. (Persist(patched, 0) \/ FailsRun(r, 1)) /\ Calm
    BY <1>18 DEF ResponseAccepted
  <2> HIDE DEF patched
  <2>3. CalmEnd
    BY <1>1, <2>1, <2>2, SavesEndWith, FailsRunCalm DEF CalmEnd
  <2> QED
    BY <1>2, <2>2, <2>3
<1>19. CASE SessionFails(r)
  BY <1>1, <1>2, <1>19, FailsRunCalm DEF SessionFails
<1>20. CASE RuntimeOutputInvalid(r)
  <2> DEFINE considered == IF PublicationConsidered(run)
                           THEN UpdateIfCurrent(store, r, run.session, WithStatus(run, "failed", "other"))
                           ELSE store
  <2>1. CalmTo(store, considered) /\ SoundStore(considered)
    BY <1>1, <1>3, UpdateStatusCalm, UpdateStatusSound, CalmToTransitive
  <2>2. (FailsPublishedRun(considered, r) \/ FailsRun(r, 1)) /\ Calm
    BY <1>20 DEF RuntimeOutputInvalid
  <2> HIDE DEF considered
  <2>3. CalmEnd
    BY <1>1, <2>1, <2>2, FailsPublishedRunCalm, FailsRunCalm
  <2> QED
    BY <1>2, <2>2, <2>3
<1>21. CASE PublicationEnds(r)
  <2>1. UNCHANGED storeVars \/ FailsPublishedRun(store, r)
    BY <1>21 DEF PublicationEnds
  <2>2. CalmEnd
    BY <1>1, <1>5, <2>1, FailsPublishedRunCalm, CalmToTransitive
  <2> QED
    BY <1>2, <1>21, <2>2 DEF PublicationEnds
<1>22. ASSUME NEW payload \in Payload, RuntimeOutputRefused(r, payload) PROVE CalmEnd /\ CallsKept
  <2>1. FailsRun(r, 1) \/ FailsPublishedRun(store, r)
    BY <1>22 DEF RuntimeOutputRefused
  <2>2. CalmEnd
    BY <1>1, <2>1, FailsPublishedRunCalm, FailsRunCalm, CalmToTransitive
  <2> QED
    BY <1>2, <1>22, <2>2 DEF RuntimeOutputRefused
<1>23. ASSUME NEW payload \in Payload, ReportRefused(r, payload) PROVE CalmEnd /\ CallsKept
  <2>1. CalmEnd
    BY <1>23, SavesEndWith, CalmToTransitive DEF ReportRefused, CalmEnd
  <2> QED
    BY <1>2, <1>23, <2>1 DEF ReportRefused
<1> QED
  BY <1>6, <1>7, <1>8, <1>9, <1>11, <1>12, <1>13, <1>14, <1>15, <1>16, <1>17, <1>18, <1>19,
     <1>20, <1>21, <1>22, <1>23 DEF AttemptStep

(***************************************************************************)
(* Webhooks, leases and GitLab                                             *)
(***************************************************************************)

(* One run more.                                                           *)
LEMMA CreatedFits ==
  ASSUME OInv, CallsKept, NEW r, r = NextRunId(store), r \in RunId, NEW st, EndsWith(st), st.sequence = r,
         NEW t, NEW attempt, NEW status, NEW reason, NEW c, NEW d,
         Writes(store, st, r, NewRun(t, attempt, status, reason), c, d)
  PROVE  OutcomeFits' /\ Advances
<1> DEFINE rec == NewRun(t, attempt, status, reason)
<1>1. rec.pub = "none" /\ rec.note = "none" /\ rec.done = {}
  BY DEF NewRun, NoRun
<1>2. store' = st /\ store.sequence \in Nat /\ r = store.sequence + 1
  BY DEF EndsWith, NextRunId, OInv, IInv, Stored, SoundStore, Store
<1> HIDE DEF rec
<1>3. Gone(st.runs[r]) \/ (st.runs[r].pub = "none" /\ st.runs[r].note = "none" /\ st.runs[r].done = {})
  BY <1>1 DEF Writes, Alike, rec
<1>4. Unborn(r) /\ ~Unborn(r)'
  BY <1>2 DEF Unborn
<1>5. \A x \in RunId : RunMoves(x)
  BY <1>2, <1>3, <1>4 DEF RunMoves, Writes
<1>6. DiskAgrees'
  BY EndsWithAgrees DEF OInv, OutcomeFits
<1>7. store'.sequence \in Nat /\ store'.sequence >= store.sequence
  BY <1>2
<1> QED
  BY <1>5, <1>6, <1>7, StoreOnly

LEMMA DeliverFits ==
  ASSUME OInv, NEW t \in Trigger, Deliver(t)
  PROVE  OutcomeFits' /\ Advances
<1>1. /\ SoundStore(store)
      /\ {"accepted", "rejected"} \subseteq ActiveStatus \cup TerminalStatus
      /\ {"none", "configuration", "policy"} \subseteq Reason
  BY DEF OInv, IInv, Stored, ActiveStatus, TerminalStatus, Reason
<1>2. PICK status \in ActiveStatus \cup TerminalStatus, reason \in Reason :
        Persist(Create(store, t, status, reason), 0)
  BY <1>1 DEF Deliver
<1>3. NextRunId(store) \in RunId /\ CallsKept
  BY DEF Deliver, CallsKept
<1> DEFINE r == NextRunId(store)
           st == Create(store, t, status, reason)
<1>4. Writes(store, st, r, NewRun(t, 1, status, reason), store.pubClaims[r], store.noteClaims[r])
      /\ st.sequence = r
  BY <1>1, <1>3, CreateWrites
<1>5. EndsWith(st)
  BY <1>2, SavesEndWith
<1> HIDE DEF st
<1> QED
  BY <1>3, <1>4, <1>5, CreatedFits

LEMMA RetryFits ==
  ASSUME OInv, NEW r \in RunId, Retry(r)
  PROVE  OutcomeFits' /\ Advances
<1> DEFINE x == NextRunId(store)
           st == CreateRetryAttempt(store, r)
           t == store.runs[r].trigger
           attempt == store.runs[r].attempt + 1
<1>1. SoundStore(store) /\ x \in RunId /\ CallsKept /\ RetryAttemptAllowed(store, r)
  BY DEF OInv, IInv, Stored, Retry, CallsKept
<1>2. Writes(store, st, x, NewRun(t, attempt, "accepted", "none"), store.pubClaims[x], store.noteClaims[x])
      /\ st.sequence = x
  BY <1>1, CreateRetryAttemptWrites
<1>3. EndsWith(st)
  BY SavesEndWith DEF Retry
<1> HIDE DEF st, t, attempt
<1> QED
  BY <1>1, <1>2, <1>3, CreatedFits

LEMMA PublishInvalidFits ==
  ASSUME OInv, NEW r \in RunId, ManagementPublishInvalid(r)
  PROVE  OutcomeFits' /\ Advances
<1>1. /\ SoundStore(store) /\ "failed" \in TerminalStatus /\ "other" \in Reason
      /\ CallsKept
  BY DEF OInv, IInv, Stored, TerminalStatus, Reason, ManagementPublishInvalid, CallsKept
<1>2. CalmTo(store, UpdateIfCurrent(store, r, store.runs[r].session, WithStatus(store.runs[r], "failed", "other")))
  BY <1>1, UpdateStatusCalm
<1>3. CalmEnd
  BY <1>2, SavesEndWith DEF ManagementPublishInvalid, ResultInvalid, CalmEnd
<1> QED
  BY <1>1, <1>3, CalmStep

LEMMA LeaseExpiresFits ==
  ASSUME OInv, NEW r \in RunId, LeaseExpires(r)
  PROVE  OutcomeFits' /\ Advances
<1> DEFINE run == store.runs[r]
           old == disk.runs[r]
           over == [run EXCEPT !.leaseOver = TRUE]
           saved == [old EXCEPT !.leaseOver = TRUE]
<1>1. /\ SoundStore(store) /\ SoundDisk(disk) /\ CallsKept /\ DiskAgrees
      /\ store.runs \in [RunId -> Run] /\ disk.runs \in [RunId -> Run]
      /\ run \in Run /\ old \in Run /\ store.sequence \in Nat
  BY DEF OInv, IInv, OutcomeFits, Stored, LeaseExpires, CallsKept, SoundStore, SoundDisk, Store, Disk
<1>2. Keeps(run, over) /\ Agree(run, over)
  <2> HIDE DEF run
  <2>1. over = [run EXCEPT !.leaseOver = TRUE]
    OBVIOUS
  <2> QED
    BY <1>1, <2>1 DEF Keeps, Agree, SameVoice, Run
<1>3. Agree(old, saved)
  <2> HIDE DEF old
  <2> QED
    BY <1>1 DEF Agree, SameVoice, Run
<1>4. /\ store' = [store EXCEPT !.runs = [store.runs EXCEPT ![r] = over]]
      /\ disk' = disk \/ disk' = [disk EXCEPT !.runs = [disk.runs EXCEPT ![r] = saved]]
  BY DEF LeaseExpires
<1>5. /\ store'.sequence = store.sequence /\ store'.pubClaims = store.pubClaims
      /\ store'.noteClaims = store.noteClaims
      /\ store'.runs[r] = over /\ \A x \in RunId \ {r} : store'.runs[x] = store.runs[x]
  <2> HIDE DEF over
  <2> QED
    BY <1>1, <1>4 DEF SoundStore, Store
<1>6. /\ disk'.sequence = disk.sequence
      /\ disk'.runs[r] \in {old, saved} /\ \A x \in RunId \ {r} : disk'.runs[x] = disk.runs[x]
  <2> HIDE DEF saved
  <2> QED
    BY <1>1, <1>4 DEF SoundDisk, Disk
<1>7. ASSUME NEW x \in RunId PROVE Keeps(store.runs[x], store'.runs[x]) /\ Agree(store'.runs[x], disk'.runs[x])
  <2>1. Agree(store.runs[x], disk.runs[x])
    BY <1>1 DEF DiskAgrees
  <2>2. CASE x = r
    <3>1. Agree(over, run) /\ Agree(run, old) /\ (disk'.runs[r] = old \/ disk'.runs[r] = saved)
      BY <1>2, <1>6, <2>1, <2>2, AgreeIsEquivalence
    <3> HIDE DEF over, run, old, saved
    <3>2. Agree(over, disk'.runs[r])
      BY <1>3, <3>1, AgreeIsEquivalence
    <3>3. Keeps(store.runs[r], over)
      BY <1>2 DEF run
    <3> QED
      BY <1>5, <2>2, <3>2, <3>3
  <2>3. CASE x # r
    BY <1>5, <1>6, <2>1, <2>3 DEF Keeps
  <2> QED
    BY <2>2, <2>3
<1>8. DiskAgrees'
  BY <1>1, <1>5, <1>6, <1>7 DEF DiskAgrees
<1>9. \A x \in RunId : RunMoves(x)
  BY <1>5, <1>7 DEF RunMoves, RunCalm
<1> QED
  BY <1>1, <1>5, <1>8, <1>9, StoreOnly

(* GitLab takes what was on its way: nothing new is out.                   *)
LEMMA Arrives ==
  ASSUME Posting, NEW q \in Request, remote' = Taken(q), late' \subseteq late, UNCHANGED store,
         NEW x \in RunId, RunFits(x), OneNote(x),
         \A p \in PublicationClaim :
           Sending(p, x)' => Sending(p, x) /\ publishers'[p].payload = publishers[p].payload,
         \A n \in NoteClaim : NoteSending(n, x)' => NoteSending(n, x),
         ResultLate(q, x) => q.payload \in Results(x),
         NoteLate(q, x) => /\ NoteOut(x) /\ ~FailurePosted(x)
                           /\ \A n \in NoteClaim : ~NoteSending(n, x)'
                           /\ \A z \in late' : ~NoteLate(z, x)
  PROVE  /\ NothingNew(x) /\ OneNote(x)'
         /\ ResultLate(q, x) => Carried(q.op) \subseteq Visible(x)'
         /\ NoteLate(q, x) => FailurePosted(x)'
<1>1. /\ Visible(x)' = Visible(x) \cup IF ResultLate(q, x) THEN Carried(q.op) ELSE {}
      /\ remote'[x].payloads = remote[x].payloads \cup IF ResultLate(q, x) THEN {q.payload} ELSE {}
      /\ remote[x].count[FailureNote] \in Nat
      /\ remote'[x].count[FailureNote] =
           IF NoteLate(q, x) THEN remote[x].count[FailureNote] + 1 ELSE remote[x].count[FailureNote]
  BY TakenOutcome
<1>2. Results(x)' \subseteq Results(x)
  <2>1. Results(x)' = remote'[x].payloads
          \cup {publishers'[p].payload : p \in {y \in PublicationClaim : Sending(y, x)'}}
          \cup {z.payload : z \in {y \in late' : ResultLate(y, x)}}
    BY DEF Results
  <2>2. remote'[x].payloads \subseteq Results(x)
    BY <1>1 DEF Results
  <2> QED
    BY <2>1, <2>2 DEF Results
<1>3. FailurePosted(x)' <=> FailurePosted(x) \/ NoteLate(q, x)
  BY <1>1 DEF FailurePosted
<1>4. NoteOut(x)' => NoteOut(x)
  <2>1. NoteOut(x)' = (FailurePosted(x)' \/ (\E n \in NoteClaim : NoteSending(n, x)')
                         \/ \E z \in late' : NoteLate(z, x))
    BY DEF NoteOut
  <2> QED
    BY <1>3, <2>1 DEF NoteOut
<1>5. OneNote(x)'
  <2>1. remote'[x].count[FailureNote] <= 1
    BY <1>1 DEF OneNote, FailurePosted
  <2>2. ASSUME FailurePosted(x)'
        PROVE  (\A n \in NoteClaim : ~NoteSending(n, x)') /\ (\A z \in late' : ~NoteLate(z, x))
    BY <1>3, <2>2 DEF OneNote
  <2>3. ASSUME NEW n \in NoteClaim, NoteSending(n, x)'
        PROVE  /\ \A m \in NoteClaim : NoteSending(m, x)' => m = n
               /\ \A z \in late' : ~NoteLate(z, x)
    BY <2>3 DEF OneNote
  <2>4. ASSUME NEW q1 \in late', NEW q2 \in late', NoteLate(q1, x), NoteLate(q2, x)
        PROVE  q1 = q2
    BY <2>4 DEF OneNote
  <2> QED
    BY <2>1, <2>2, <2>3, <2>4 DEF OneNote
<1>6. Visible(x)' # {} => remote'[x].payloads # {}
  BY <1>1 DEF RunFits
<1> QED
  BY <1>1, <1>2, <1>3, <1>4, <1>5, <1>6 DEF NothingNew, Unborn

(* The store is left alone.                                                *)
LEMMA StoreKept ==
  ASSUME OInv, UNCHANGED storeVars
  PROVE  DiskAgrees' /\ \A x \in RunId : RunMoves(x)
BY SameIsCalm DEF OInv, OutcomeFits, DiskAgrees, storeVars, RunMoves

LEMMA TakesBlockedFits ==
  ASSUME OInv, NEW r \in RunId, GitLabTakesBlocked(r)
  PROVE  OutcomeFits' /\ Advances
<1> DEFINE q == BlockedRequest(r)
<1>1. /\ Posting /\ q \in Request /\ OutcomeFits
      /\ remote' = Taken(q) /\ UNCHANGED <<storeVars, publishers, notifiers, late>>
  BY RequestTypes DEF OInv, IInv, GitLabTakesBlocked
<1>2. \A x \in RunId : ~ResultLate(q, x) /\ ~NoteLate(q, x)
  BY CommentsDiffer DEF BlockedRequest, ResultLate, NoteLate
<1> HIDE DEF q
<1>3. ASSUME NEW x \in RunId PROVE NothingNew(x) /\ OneNote(x)'
  <2>1. RunFits(x) /\ OneNote(x) /\ UNCHANGED store /\ late' \subseteq late
    BY <1>1 DEF OutcomeFits, storeVars
  <2>2. /\ \A p \in PublicationClaim : Sending(p, x)' = Sending(p, x)
        /\ \A n \in NoteClaim : NoteSending(n, x)' = NoteSending(n, x)
    BY <1>1 DEF Sending, NoteSending
  <2> QED
    BY <1>1, <1>2, <2>1, <2>2, Arrives
<1> QED
  BY <1>1, <1>3, StoreKept, CalmFits

LEMMA LateArrivalFits ==
  ASSUME OInv, NEW q \in late, LateArrival(q)
  PROVE  OutcomeFits' /\ Advances
<1>1. /\ Posting /\ q \in Request /\ OutcomeFits
      /\ remote' = Taken(q) /\ late' = late \ {q} /\ UNCHANGED <<storeVars, publishers, notifiers>>
  BY DEF OInv, IInv, LateArrival, Posting
<1>2. ASSUME NEW x \in RunId PROVE NothingNew(x) /\ OneNote(x)'
  <2>1. RunFits(x) /\ OneNote(x) /\ UNCHANGED store /\ late' \subseteq late
    BY <1>1 DEF OutcomeFits, storeVars
  <2>2. /\ \A p \in PublicationClaim : Sending(p, x)' = Sending(p, x)
        /\ \A n \in NoteClaim : NoteSending(n, x)' = NoteSending(n, x)
    BY <1>1 DEF Sending, NoteSending
  <2>3. ResultLate(q, x) => q.payload \in Results(x)
    BY DEF Results
  <2>4. NoteLate(q, x) => /\ NoteOut(x) /\ ~FailurePosted(x)
                          /\ \A n \in NoteClaim : ~NoteSending(n, x)
                          /\ \A z \in late' : ~NoteLate(z, x)
    BY <1>1, <2>1 DEF NoteOut, OneNote
  <2> QED
    BY <1>1, <2>1, <2>2, <2>3, <2>4, Arrives
<1> QED
  BY <1>1, <1>2, StoreKept, CalmFits

LEMMA TakesResultFits ==
  ASSUME OInv, NEW p \in PublicationClaim, GitLabTakesResult(p)
  PROVE  OutcomeFits' /\ Advances
<1> DEFINE self == publishers[p]
           q == PublisherRequest(p)
<1>1. /\ Posting /\ q \in Request /\ OutcomeFits /\ Publishing
      /\ remote' = Taken(q) /\ UNCHANGED <<storeVars, notifiers, late>>
      /\ self.pc = "sent" /\ ~self.landed
      /\ publishers' = [publishers EXCEPT ![p] = [self EXCEPT !.landed = TRUE]]
  BY RequestTypes DEF OInv, IInv, GitLabTakesResult
<1>2. q.run = self.run /\ q.op = self.op /\ q.payload = self.payload /\ self.op \in Marker /\ self \in Publisher
  BY <1>1 DEF PublisherRequest, Publishing, Publisher
<1>3. \A y \in PublicationClaim \ {p} : publishers'[y] = publishers[y]
  BY <1>1 DEF Publishing
<1>4. publishers'[p] = [self EXCEPT !.landed = TRUE]
  BY <1>1 DEF Publishing
<1> DEFINE new == publishers'[p]
<1>5. /\ new.pc = self.pc /\ new.landed /\ new.run = self.run /\ new.op = self.op
      /\ new.payload = self.payload /\ new.session = self.session /\ new.allow = self.allow
      /\ new.resume = self.resume /\ new.done = self.done /\ new.pending = self.pending
  <2> HIDE DEF self
  <2> QED
    BY <1>2, <1>4 DEF Publisher
<1> HIDE DEF q, new
<1>6. ASSUME NEW x \in RunId
      PROVE  NothingNew(x) /\ OneNote(x)' /\ (self.run = x => Carried(self.op) \subseteq Visible(x)')
  <2>1. RunFits(x) /\ OneNote(x) /\ UNCHANGED store /\ late' \subseteq late
    BY <1>1 DEF OutcomeFits, storeVars
  <2>2. /\ \A y \in PublicationClaim :
             Sending(y, x)' => Sending(y, x) /\ publishers'[y].payload = publishers[y].payload
        /\ \A n \in NoteClaim : NoteSending(n, x)' = NoteSending(n, x)
    BY <1>1, <1>3, <1>5 DEF Sending, NoteSending, new
  <2>3. ResultLate(q, x) => q.payload \in Results(x)
    BY <1>1, <1>2 DEF Results, ResultLate, Sending
  <2>4. ~NoteLate(q, x) /\ (self.run = x => ResultLate(q, x))
    BY <1>2, CommentsDiffer DEF NoteLate, ResultLate
  <2> QED
    BY <1>1, <1>2, <2>1, <2>2, <2>3, <2>4, Arrives
<1>7. ASSUME NEW x \in RunId PROVE PubFits(p, x)'
  <2>1. PubFits(p, x) /\ UNCHANGED store /\ NothingNew(x)
    BY <1>1, <1>6 DEF OutcomeFits, storeVars
  <2>2. PublisherId(p)' = PublisherId(p) /\ Publishes(p)
    BY <1>1, <1>5 DEF PublisherId, Publishes, new
  <2>3. CASE self.run = x
    BY <1>1, <1>5, <1>6, <2>1, <2>2, <2>3 DEF PubFits, NothingNew, Present, new, Unborn
  <2>4. CASE self.run # x
    BY <1>5, <2>4 DEF PubFits, new
  <2> QED
    BY <2>3, <2>4
<1>8. \A y \in PublicationClaim : publishers'[y] = publishers[y] \/ \A x \in RunId : PubFits(y, x)'
  BY <1>3, <1>7
<1> QED
  BY <1>1, <1>6, <1>8, StoreKept, CalmFits

LEMMA TakesNoteFits ==
  ASSUME OInv, NEW n \in NoteClaim, GitLabTakesNote(n)
  PROVE  OutcomeFits' /\ Advances
<1> DEFINE self == notifiers[n]
           q == NotifierRequest(n)
<1>1. /\ Posting /\ q \in Request /\ OutcomeFits /\ Notifying
      /\ remote' = Taken(q) /\ UNCHANGED <<storeVars, publishers, late>>
      /\ self.pc = "sent" /\ ~self.landed
      /\ notifiers' = [notifiers EXCEPT ![n] = [self EXCEPT !.landed = TRUE]]
  BY RequestTypes DEF OInv, IInv, GitLabTakesNote
<1>2. q.run = self.run /\ q.op = FailureNote /\ self \in Notifier
  BY <1>1 DEF NotifierRequest, Notifying
<1>3. \A y \in NoteClaim \ {n} : notifiers'[y] = notifiers[y]
  BY <1>1 DEF Notifying
<1>4. notifiers'[n] = [self EXCEPT !.landed = TRUE]
  BY <1>1 DEF Notifying
<1> DEFINE new == notifiers'[n]
<1>5. /\ new.pc = self.pc /\ new.landed /\ new.run = self.run /\ new.session = self.session
      /\ new.resume = self.resume /\ new.posted = self.posted
  <2> HIDE DEF self
  <2> QED
    BY <1>2, <1>4 DEF Notifier
<1> HIDE DEF q, new
<1>6. ASSUME NEW x \in RunId
      PROVE  NothingNew(x) /\ OneNote(x)' /\ (self.run = x => FailurePosted(x)')
  <2>1. RunFits(x) /\ OneNote(x) /\ UNCHANGED store /\ late' \subseteq late
    BY <1>1 DEF OutcomeFits, storeVars
  <2>2. /\ \A y \in PublicationClaim : Sending(y, x)' = Sending(y, x)
        /\ \A m \in NoteClaim : NoteSending(m, x)' => NoteSending(m, x) /\ m # n
    BY <1>1, <1>3, <1>5 DEF Sending, NoteSending, new
  <2>3. ~ResultLate(q, x) /\ (NoteLate(q, x) => NoteSending(n, x))
    BY <1>1, <1>2, CommentsDiffer DEF ResultLate, NoteLate, NoteSending
  <2>4. NoteLate(q, x) => /\ NoteOut(x) /\ ~FailurePosted(x)
                          /\ \A m \in NoteClaim : ~NoteSending(m, x)'
                          /\ \A z \in late' : ~NoteLate(z, x)
    BY <1>1, <2>1, <2>2, <2>3 DEF NoteOut, OneNote
  <2>5. self.run = x => NoteLate(q, x)
    BY <1>2 DEF NoteLate
  <2> QED
    BY <1>1, <2>1, <2>2, <2>3, <2>4, <2>5, Arrives
<1>7. ASSUME NEW x \in RunId PROVE NoteFits(n, x)'
  <2>1. NoteFits(n, x) /\ UNCHANGED store /\ NothingNew(x)
    BY <1>1, <1>6 DEF OutcomeFits, storeVars
  <2>2. NotifierId(n)' = NotifierId(n) /\ Notifies(n)
    BY <1>1, <1>5 DEF NotifierId, Notifies, new
  <2>3. CASE self.run = x
    BY <1>1, <1>5, <1>6, <2>1, <2>2, <2>3 DEF NoteFits, Present, new, Unborn
  <2>4. CASE self.run # x
    BY <1>5, <2>4 DEF NoteFits, new
  <2> QED
    BY <2>3, <2>4
<1>8. \A y \in NoteClaim : notifiers'[y] = notifiers[y] \/ \A x \in RunId : NoteFits(y, x)'
  BY <1>3, <1>7
<1> QED
  BY <1>1, <1>6, <1>8, StoreKept, CalmFits

(***************************************************************************)
(* Restarts                                                                *)
(***************************************************************************)

(* What memory and file agree on is all that fits ask of a record.         *)
LEMMA AgreeFits ==
  ASSUME NEW x \in RunId, RunFits(x), NothingNew(x), Agree(store.runs[x], store'.runs[x])
  PROVE  StillFits(x)
<1> DEFINE old == store.runs[x]
           new == store'.runs[x]
<1>1. CASE old.status = "absent"
  BY <1>1 DEF RunFits, StillFits, Gone, Agree, SameVoice
<1>2. CASE old.status # "absent"
  <2>1. new.pub = "published" => PublicationComplete(Visible(x)') /\ new.status \in TerminalStatus
    BY CompleteGrows DEF RunFits, Agree, SameVoice, NothingNew
  <2> QED
    BY <1>2, <2>1 DEF RunFits, StillFits, Agree, SameVoice, NothingNew
<1> QED
  BY <1>1, <1>2

LEMMA CrashFits ==
  ASSUME OInv, Crash
  PROVE  OutcomeFits' /\ \A x \in RunId : Agree(store.runs[x], store'.runs[x])
<1>1. SoundStore(store) /\ SoundDisk(disk) /\ Publishing /\ Notifying /\ OutcomeFits /\ DiskAgrees
  BY DEF OInv, IInv, Stored, OutcomeFits
<1>2. /\ store' = Loaded(disk) /\ disk' = disk
      /\ UNCHANGED remote /\ late' \subseteq late \cup Outstanding
  BY DEF Crash
<1>3. store'.sequence = disk.sequence /\ store'.sequence = store.sequence /\ store.sequence \in Nat
  BY <1>1, <1>2 DEF Loaded, EmptyStore, DiskAgrees, SoundStore, Store
<1>4. ASSUME NEW x \in RunId
      PROVE  /\ Agree(store.runs[x], store'.runs[x])
             /\ Agree(store'.runs[x], disk'.runs[x])
  <2>1. store'.runs[x] = Normalized(disk.runs[x])
    BY <1>2 DEF Loaded, EmptyStore
  <2>2. Agree(disk.runs[x], store'.runs[x])
    BY <1>1, <2>1, NormalizedAgrees DEF SoundDisk, Disk
  <2> QED
    BY <1>1, <1>2, <2>2, AgreeIsEquivalence DEF DiskAgrees
<1>5. DiskAgrees'
  BY <1>2, <1>3, <1>4 DEF DiskAgrees
<1>6. \A p \in PublicationClaim : publishers'[p].pc \in {"idle", "published", "failed"}
  BY DEF Crash, IdlePublisher
<1>7. \A n \in NoteClaim : notifiers'[n].pc \in {"idle", "notified", "failed"}
  BY DEF Crash, IdleNotifier
<1>8. Quiet
  <2>1. \A p \in PublicationClaim, r \in RunId : ~Sending(p, r)'
    BY <1>6 DEF Sending
  <2>2. \A n \in NoteClaim, r \in RunId : ~NoteSending(n, r)'
    BY <1>7 DEF NoteSending
  <2>3. ASSUME NEW q \in Outstanding
        PROVE  \/ \E p \in PublicationClaim : Sending(p, q.run) /\ q = PublisherRequest(p)
               \/ \E n \in NoteClaim : NoteSending(n, q.run) /\ ~NoteSending(n, q.run)' /\ q = NotifierRequest(n)
               \/ q.op = BlockedNote
    <3>1. CASE \E p \in PublicationClaim :
                 publishers[p].pc = "sent" /\ ~publishers[p].landed /\ q = PublisherRequest(p)
      BY <3>1 DEF Sending, PublisherRequest
    <3>2. CASE \E n \in NoteClaim :
                 notifiers[n].pc = "sent" /\ ~notifiers[n].landed /\ q = NotifierRequest(n)
      <4>1. PICK n \in NoteClaim : notifiers[n].pc = "sent" /\ ~notifiers[n].landed /\ q = NotifierRequest(n)
        BY <3>2
      <4>2. q.run = notifiers[n].run
        BY <4>1 DEF NotifierRequest
      <4>3. ~NoteSending(n, q.run)'
        BY <1>7 DEF NoteSending
      <4> QED
        BY <4>1, <4>2, <4>3 DEF NoteSending
    <3>3. CASE \E r \in RunId : q = BlockedRequest(r)
      BY <3>3 DEF BlockedRequest
    <3> QED
      BY <3>1, <3>2, <3>3 DEF Outstanding
  <2>4. \A q \in late' :
          \/ q \in late
          \/ \E p \in PublicationClaim : Sending(p, q.run) /\ q = PublisherRequest(p)
          \/ \E n \in NoteClaim : NoteSending(n, q.run) /\ ~NoteSending(n, q.run)' /\ q = NotifierRequest(n)
          \/ q.op = BlockedNote
    BY <1>2, <2>3
  <2> QED
    BY <1>2, <2>1, <2>2, <2>4 DEF Quiet
<1>9. \A x \in RunId : NothingNew(x) /\ OneNote(x)'
  BY <1>1, <1>3, <1>8, QuietNothingNew
<1>10. \A x \in RunId : RunFits(x)'
  BY <1>1, <1>4, <1>9, AgreeFits, StillFitsSound DEF OutcomeFits
<1>11. /\ \A p \in PublicationClaim, x \in RunId : PubFits(p, x)'
       /\ \A n \in NoteClaim, x \in RunId : NoteFits(n, x)'
  BY <1>6, <1>7 DEF PubFits, NoteFits, Publishes, Notifies
<1> QED
  BY <1>4, <1>5, <1>9, <1>10, <1>11 DEF OutcomeFits

(***************************************************************************)
(* Publications                                                            *)
(***************************************************************************)

(* Only the call p moves, and what it gives up is its own request.         *)
PublisherAlone(p, r) ==
  /\ publishers[p].run = r /\ publishers'[p].run = r
  /\ \A y \in PublicationClaim \ {p} : publishers'[y] = publishers[y]
  /\ UNCHANGED <<notifiers, remote>>
  /\ \A q \in late' : q \in late \/ (Sending(p, r) /\ q = PublisherRequest(p))

LEMMA PublisherAloneQuiet ==
  ASSUME NEW p \in PublicationClaim, NEW r \in RunId, PublisherAlone(p, r), publishers'[p].pc # "sent"
  PROVE  Quiet
<1>1. ASSUME NEW y \in PublicationClaim, NEW x \in RunId, Sending(y, x)'
      PROVE  Sending(y, x) /\ publishers'[y].payload = publishers[y].payload
  BY <1>1 DEF PublisherAlone, Sending
<1>2. \A n \in NoteClaim, x \in RunId : NoteSending(n, x)' = NoteSending(n, x)
  BY DEF PublisherAlone, NoteSending
<1>3. ASSUME NEW q \in late' PROVE q \in late \/ (Sending(p, q.run) /\ q = PublisherRequest(p))
  BY DEF PublisherAlone, PublisherRequest
<1> QED
  BY <1>1, <1>2, <1>3 DEF Quiet, PublisherAlone

(* No call but p is at work on r.                                          *)
OnlyPublisher(p, r) ==
  /\ \A y \in PublicationClaim \ {p} : ~(Publishes(y) /\ publishers[y].run = r)
  /\ \A n \in NoteClaim : ~(Notifies(n) /\ notifiers[n].run = r)

(* A call that holds its run is the only one at work on it.                *)
LEMMA PublisherHasRun ==
  ASSUME OInv, NEW p \in PublicationClaim, NEW r \in RunId, publishers[p].run = r, Publishes(p),
         HoldsPublication(store, PublisherId(p))
  PROVE  /\ Present(store, r) /\ ~Unborn(r)
         /\ store.runs[r].pub = "publishing" /\ store.runs[r].note = "none"
         /\ store.runs[r].payload = publishers[p].payload
         /\ OnlyPublisher(p, r)
<1>1. PubFits(p, r) /\ RunFits(r) /\ SoundStore(store)
  BY DEF OInv, IInv, Stored, OutcomeFits
<1>2. store.runs[r].pub = "publishing" /\ store.runs[r].pubBy = p /\ ~Unborn(r)
  BY <1>1, PubHolds
<1>3. Present(store, r)
  BY <1>1, <1>2 DEF RunFits, Gone, Present
<1>4. store.runs[r].note = "none"
  BY <1>1, <1>2 DEF SoundStore, SoundRuns, OneSided
<1>5. store.runs[r].payload = publishers[p].payload
  BY <1>1, <1>3 DEF PubFits
<1>6. ASSUME NEW y \in PublicationClaim \ {p}, Publishes(y), publishers[y].run = r PROVE FALSE
  <2>1. PubFits(y, r)
    BY DEF OInv, OutcomeFits
  <2>2. store.runs[r].pubBy = y
    BY <1>3, <1>6, <2>1, PubHolds
  <2> QED
    BY <1>2, <2>2
<1>7. ASSUME NEW n \in NoteClaim, Notifies(n), notifiers[n].run = r PROVE FALSE
  <2>1. NoteFits(n, r)
    BY DEF OInv, OutcomeFits
  <2>2. store.runs[r].note = "notifying"
    BY <1>3, <1>7, <2>1, NoteHolds
  <2> QED
    BY <1>4, <2>2
<1> QED
  BY <1>2, <1>3, <1>4, <1>5, <1>6, <1>7 DEF OnlyPublisher

(* The only call at work on a run disturbs no other call.                  *)
LEMMA PublisherDisturbsNone ==
  ASSUME OInv, NEW p \in PublicationClaim, NEW r \in RunId, OnlyPublisher(p, r),
         publishers'[p].run = r, UNCHANGED notifiers,
         \A y \in PublicationClaim \ {p} : publishers'[y] = publishers[y],
         DiskAgrees', Apart(store, store', r),
         \A x \in RunId : OneNote(x)', \A x \in RunId \ {r} : NothingNew(x),
         RunFits(r)', Turns(r), PubFits(p, r)'
  PROVE  OutcomeFits' /\ Advances
<1>1. OutcomeFits
  BY DEF OInv
<1>2. ASSUME NEW x \in RunId PROVE RunFits(x)' /\ Final(x)
  <2>1. CASE x # r
    <3>1. RunFits(x) /\ NothingNew(x) /\ RunCalm(store, store', x)
      BY <1>1, <2>1 DEF OutcomeFits, Apart
    <3> QED
      BY <3>1, KeptFits, StillFitsSound
  <2> QED
    BY <2>1 DEF Turns
<1>3. ASSUME NEW y \in PublicationClaim, NEW x \in RunId PROVE PubFits(y, x)'
  <2>1. CASE y = p /\ x # r
    BY <2>1 DEF PubFits
  <2>2. CASE y # p /\ x = r
    BY <2>2 DEF OnlyPublisher, PubFits, Publishes
  <2>3. CASE y # p /\ x # r
    <3>1. PubFits(y, x) /\ NothingNew(x) /\ RunCalm(store, store', x) /\ publishers'[y] = publishers[y]
      BY <1>1, <2>3 DEF OutcomeFits, Apart
    <3> QED
      BY <3>1, PubKept
  <2> QED
    BY <2>1, <2>2, <2>3
<1>4. ASSUME NEW n \in NoteClaim, NEW x \in RunId PROVE NoteFits(n, x)'
  <2>1. CASE x = r
    BY <2>1 DEF OnlyPublisher, NoteFits, Notifies
  <2>2. CASE x # r
    <3>1. NoteFits(n, x) /\ NothingNew(x) /\ RunCalm(store, store', x) /\ notifiers'[n] = notifiers[n]
      BY <1>1, <2>2 DEF OutcomeFits, Apart
    <3> QED
      BY <3>1, NoteKept
  <2> QED
    BY <2>1, <2>2
<1>5. Turning(r) /\ \A x \in RunId \ {r} : Hushed(x)
  BY MovesHushed DEF Apart, Turns
<1> QED
  BY <1>2, <1>3, <1>4, <1>5 DEF OutcomeFits, Advances

(***************************************************************************)
(* The end of a publication                                                *)
(***************************************************************************)

(* The publication of a was given up, and nothing of it was posted.        *)
LeftOf(a, b) ==
  /\ b.trigger = a.trigger
  /\ a.status # "absent" => b.status # "absent"
  /\ StatusFinal(a, b) /\ SameNote(a, b)
  /\ b.pub = "none" /\ b.done = {}

(* What the end of the call p makes of its run.                            *)
EndedOf(p, a, b) ==
  \/ Gone(b)
  \/ PartialOf(a, b)
  \/ LeftOf(a, b) /\ publishers[p].pc \in {"secret", "head"} /\ ~publishers[p].resume
  \/ PublishedOf(a, b) /\ NotTerminal(a, TRUE) /\ PublicationComplete(publishers[p].done)

LEMMA EndedFits ==
  ASSUME OInv, NEW p \in PublicationClaim, NEW r \in RunId, publishers[p].run = r, Publishes(p),
         HoldsPublication(store, PublisherId(p)), NothingNew(r),
         EndedOf(p, store.runs[r], store'.runs[r])
  PROVE  RunFits(r)' /\ Turns(r)
<1> DEFINE old == store.runs[r]
           new == store'.runs[r]
<1>1. PubFits(p, r) /\ RunFits(r)
  BY DEF OInv, OutcomeFits
<1>2. /\ old.status # "absent" /\ ~Unborn(r)
      /\ old.pub = "publishing" /\ old.note = "none"
  BY PublisherHasRun DEF Present
<1>3. old.done \subseteq Visible(r)'
  BY <1>1 DEF RunFits, NothingNew
<1>4. CASE Gone(new)
  BY <1>1, <1>2, <1>4, StillFitsSound DEF StillFits, Turns, Turning, Hushed, Final, Gone
<1>5. CASE PartialOf(old, new)
  <2>1. Final(r)
    BY <1>2, <1>5 DEF Final, PartialOf, StatusFinal
  <2>2. StillFits(r)
    BY <1>2, <1>3, <1>5 DEF StillFits, PartialOf, SameRun, SameNote
  <2>3. Turning(r)
    BY <1>2, <1>5 DEF Turning, Hushed, SameVoice, PartialOf, SameRun, SameNote
  <2> QED
    BY <1>1, <2>1, <2>2, <2>3, StillFitsSound DEF Turns
<1>6. CASE LeftOf(old, new) /\ publishers[p].pc \in {"secret", "head"} /\ ~publishers[p].resume
  <2>1. Results(r)' = {}
    BY <1>1, <1>2, <1>6 DEF PubFits, NothingNew, Present
  <2>2. Final(r)
    BY <1>2, <1>6 DEF Final, LeftOf, StatusFinal
  <2>3. StillFits(r)
    BY <1>2, <1>6, <2>1 DEF StillFits, LeftOf, SameNote
  <2>4. Turning(r)
    BY <1>2, <1>6 DEF Turning, Withdraws, Mute, Over, LeftOf, SameNote
  <2> QED
    BY <1>1, <2>2, <2>3, <2>4, StillFitsSound DEF Turns
<1>7. CASE PublishedOf(old, new) /\ NotTerminal(old, TRUE) /\ PublicationComplete(publishers[p].done)
  <2>1. PublicationComplete(Visible(r)')
    BY <1>1, <1>7, CompleteGrows DEF PubFits, NothingNew
  <2>2. Final(r)
    BY <1>2, <1>7 DEF Final, PublishedOf, NotTerminal, ActiveStatus, TerminalStatus
  <2>3. StillFits(r)
    BY <1>2, <1>3, <1>7, <2>1 DEF StillFits, PublishedOf, SameRun, SameNote
  <2>4. Turning(r)
    BY <1>2, <1>7 DEF Turning, Concludes, Over, PublishedOf, SameRun, SameNote
  <2> QED
    BY <1>1, <2>2, <2>3, <2>4, StillFitsSound DEF Turns
<1> QED
  BY <1>4, <1>5, <1>6, <1>7 DEF EndedOf

(* The store st gives the run r of the call p up, if the call held it.     *)
PublicationGivenUp(p, r, st) ==
  \/ CalmTo(store, st)
  \/ /\ HoldsPublication(store, PublisherId(p))
     /\ Apart(store, st, r)
     /\ EndedOf(p, store.runs[r], st.runs[r])

(* A call that ends gives its run up as it must.                           *)
LEMMA PublisherEndFits ==
  ASSUME OInv, NEW p \in PublicationClaim, NEW r \in RunId, Publishes(p), PublisherAlone(p, r),
         publishers'[p].pc \in {"published", "failed"}, DiskAgrees',
         PublicationGivenUp(p, r, store')
  PROVE  OutcomeFits' /\ Advances
<1>1. publishers[p].run = r /\ OutcomeFits /\ Publishing /\ store.sequence \in Nat
  BY DEF PublisherAlone, OInv, IInv, Stored, SoundStore, Store
<1>2. store'.sequence = store.sequence
  BY DEF PublicationGivenUp, CalmTo, Apart
<1>3. \A x \in RunId : NothingNew(x) /\ OneNote(x)'
  BY <1>1, <1>2, PublisherAloneQuiet, QuietNothingNew
<1>4. \A x \in RunId : PubFits(p, x)'
  BY DEF PubFits, Publishes
<1>5. CASE CalmTo(store, store')
  <2>1. \A x \in RunId : RunMoves(x)
    BY <1>5 DEF CalmTo, RunMoves
  <2>2. /\ \A y \in PublicationClaim :
             publishers'[y] = publishers[y] \/ \A x \in RunId : PubFits(y, x)'
        /\ \A n \in NoteClaim : notifiers'[n] = notifiers[n]
    BY <1>4 DEF PublisherAlone
  <2> QED
    BY <1>1, <1>3, <2>1, <2>2, CalmFits
<1>6. CASE /\ HoldsPublication(store, PublisherId(p)) /\ Apart(store, store', r)
           /\ EndedOf(p, store.runs[r], store'.runs[r])
  <2>1. RunFits(r)' /\ Turns(r)
    BY <1>1, <1>3, <1>6, EndedFits
  <2> QED
    BY <1>1, <1>3, <1>4, <1>6, <2>1, PublisherHasRun, PublisherDisturbsNone DEF PublisherAlone
<1> QED
  BY <1>5, <1>6 DEF PublicationGivenUp

(* What is left of the record in each of the ways a call may end.          *)
LEMMA EndsAlone ==
  ASSUME Publishing, NEW p \in PublicationClaim, NEW r, publishers[p].run = r, publishers[p].pc # "idle",
         NEW outcome, PublisherEnds(p, outcome), UNCHANGED <<notifiers, remote>>,
         late' = late \/ late' = GivenUp(PublisherRequest(p), publishers[p].landed),
         late' # late => publishers[p].pc = "sent"
  PROVE  PublisherAlone(p, r) /\ publishers'[p].pc = outcome
<1>1. publishers'[p].pc = outcome /\ publishers'[p].run = r
  BY DEF Publishing, PublisherEnds, IdlePublisher
<1>2. \A y \in PublicationClaim \ {p} : publishers'[y] = publishers[y]
  BY DEF Publishing, PublisherEnds
<1>3. \A q \in late' : q \in late \/ (Sending(p, r) /\ q = PublisherRequest(p))
  BY DEF GivenUp, Sending
<1> QED
  BY <1>1, <1>2, <1>3 DEF PublisherAlone

(* failPublication                                                         *)
LEMMA FailGivesUp ==
  ASSUME OInv, NEW p \in PublicationClaim, NEW r \in RunId, publishers[p].run = r
  PROVE  PublicationGivenUp(p, r, FailPublication(store, PublisherId(p)))
<1> DEFINE id == PublisherId(p)
           new == FailPublication(store, id)
<1>1. SoundStore(store) /\ id.run = r
  BY DEF OInv, IInv, Stored, PublisherId
<1>2. CASE HoldsPublication(store, id)
  <2>1. PublicationDropped(store, new, r) /\ (Gone(new.runs[r]) \/ PartialOf(store.runs[r], new.runs[r]))
    BY <1>1, <1>2, FailPublicationEffect
  <2> QED
    BY <1>2, <2>1 DEF PublicationGivenUp, EndedOf, PublicationDropped
<1>3. CASE ~HoldsPublication(store, id)
  BY <1>3, CalmToTransitive DEF FailPublication, PublicationGivenUp
<1> QED
  BY <1>2, <1>3

(* rejectPublicationForPolicy                                              *)
LEMMA RejectGivesUp ==
  ASSUME OInv, NEW p \in PublicationClaim, NEW r \in RunId, publishers[p].run = r, PublisherCurrent(p)
  PROVE  PublicationGivenUp(p, r, RejectPublicationForPolicy(store, PublisherId(p)))
<1> DEFINE id == PublisherId(p)
           new == RejectPublicationForPolicy(store, id)
<1>1. SoundStore(store) /\ id.run = r /\ IsPublicationClaimCurrent(store, id) /\ HoldsPublication(store, id)
  BY DEF OInv, IInv, Stored, PublisherId, PublisherCurrent, IsPublicationClaimCurrent, HoldsPublication
<1>2. PublicationDropped(store, new, r) /\ (Gone(new.runs[r]) \/ PartialOf(store.runs[r], new.runs[r]))
  BY <1>1, RejectPublicationEffect
<1> QED
  BY <1>1, <1>2 DEF PublicationGivenUp, EndedOf, PublicationDropped

(* What releasePublicationClaim leaves of a.                               *)
ReleasedOf(a, b, resume) ==
  \/ Gone(b)
  \/ resume /\ PartialOf(a, b) /\ b.status = a.status
  \/ ~resume /\ ClearedOf(a, b)

LEMMA ReleasedThenKept ==
  ASSUME NEW p, NEW a, NEW b, NEW c, ReleasedOf(a, b, publishers[p].resume),
         publishers[p].pc \in {"secret", "head"}, Gone(c) \/ Keeps(b, c)
  PROVE  EndedOf(p, a, c)
<1>1. CASE Gone(b) \/ Gone(c)
  BY <1>1 DEF EndedOf, Gone, Keeps
<1>2. CASE publishers[p].resume /\ PartialOf(a, b) /\ b.status = a.status /\ Keeps(b, c)
  BY <1>2 DEF EndedOf, PartialOf, SameRun, SameNote, StatusFinal, Keeps
<1>3. CASE ~publishers[p].resume /\ ClearedOf(a, b) /\ Keeps(b, c)
  BY <1>3 DEF EndedOf, ClearedOf, LeftOf, SameRun, SameNote, StatusFinal, Keeps
<1> QED
  BY <1>1, <1>2, <1>3 DEF ReleasedOf

LEMMA KeptThenReleased ==
  ASSUME NEW p, NEW a, NEW b, NEW c, a.pub = "publishing", Keeps(a, b), ReleasedOf(b, c, publishers[p].resume),
         publishers[p].pc \in {"secret", "head"}
  PROVE  EndedOf(p, a, c)
<1>1. CASE Gone(c)
  BY <1>1 DEF EndedOf
<1>2. CASE publishers[p].resume /\ PartialOf(b, c) /\ c.status = b.status
  BY <1>2 DEF EndedOf, PartialOf, SameRun, SameNote, StatusFinal, Keeps
<1>3. CASE ~publishers[p].resume /\ ClearedOf(b, c)
  BY <1>3 DEF EndedOf, ClearedOf, LeftOf, SameRun, SameNote, StatusFinal, Keeps
<1> QED
  BY <1>1, <1>2, <1>3 DEF ReleasedOf

(* Every other run stays apart from two changes of which one is calm.      *)
LEMMA ApartCalm ==
  ASSUME NEW a, NEW b, NEW c, NEW r, c \in Store,
         (Apart(a, b, r) /\ CalmTo(b, c)) \/ (CalmTo(a, b) /\ Apart(b, c, r))
  PROVE  Apart(a, c, r)
BY CalmTwice DEF Apart, CalmTo

(* The preparation fails: released, then failed.                           *)
LEMMA PreparationGivesUp ==
  ASSUME OInv, NEW p \in PublicationClaim, NEW r \in RunId, publishers[p].run = r,
         publishers[p].pc \in {"secret", "head"},
         NEW st, SoundStore(st), CalmTo(ReleasePublicationClaim(store, PublisherId(p), publishers[p].resume), st)
  PROVE  PublicationGivenUp(p, r, st)
<1> DEFINE id == PublisherId(p)
           resume == publishers[p].resume
           released == ReleasePublicationClaim(store, id, resume)
<1>1. SoundStore(store) /\ id.run = r /\ resume \in BOOLEAN
  BY DEF OInv, IInv, Stored, PublisherId, Publishing, Publisher
<1>2. CASE HoldsPublication(store, id)
  <2>1. PublicationDropped(store, released, r) /\ ReleasedOf(store.runs[r], released.runs[r], resume)
    BY <1>1, <1>2, ReleasePublicationClaimEffect DEF ReleasedOf
  <2> HIDE DEF released
  <2>2. CalmTo(released, st)
    BY DEF released
  <2>3. Apart(store, st, r)
    BY <2>1, <2>2, ApartCalm DEF PublicationDropped, SoundStore
  <2>4. Gone(st.runs[r]) \/ Keeps(released.runs[r], st.runs[r])
    BY <2>2 DEF CalmTo, RunCalm
  <2>5. EndedOf(p, store.runs[r], st.runs[r])
    BY <2>1, <2>4, ReleasedThenKept
  <2> QED
    BY <1>2, <2>3, <2>5 DEF PublicationGivenUp
<1>3. CASE ~HoldsPublication(store, id)
  BY <1>3 DEF ReleasePublicationClaim, PublicationGivenUp
<1> QED
  BY <1>2, <1>3

(* The merge request has moved on: rejected, then released.                *)
LEMMA HeadChangeGivesUp ==
  ASSUME OInv, NEW p \in PublicationClaim, NEW r \in RunId, publishers[p].run = r, PublisherCurrent(p),
         publishers[p].pc \in {"secret", "head"},
         NEW st, SoundStore(st), CalmTo(store, st)
  PROVE  PublicationGivenUp(p, r, ReleasePublicationClaim(st, PublisherId(p), publishers[p].resume))
<1> DEFINE id == PublisherId(p)
           resume == publishers[p].resume
           released == ReleasePublicationClaim(st, id, resume)
<1>1. /\ id.run = r /\ resume \in BOOLEAN
      /\ HoldsPublication(store, id) /\ store.runs[r].pub = "publishing"
  BY DEF OInv, IInv, PublisherId, Publishing, Publisher, PublisherCurrent, IsPublicationClaimCurrent,
         HoldsPublication, PublicationClaimMatches
<1>2. CASE HoldsPublication(st, id)
  <2>1. PublicationDropped(st, released, r) /\ ReleasedOf(st.runs[r], released.runs[r], resume)
    BY <1>1, <1>2, ReleasePublicationClaimEffect DEF ReleasedOf
  <2> HIDE DEF released
  <2>2. Apart(store, released, r)
    BY <2>1, ApartCalm DEF PublicationDropped, Apart
  <2>3. Keeps(store.runs[r], st.runs[r])
    BY <1>1, <1>2 DEF CalmTo, RunCalm, Gone, HoldsPublication, PublicationClaimMatches
  <2>4. EndedOf(p, store.runs[r], released.runs[r])
    BY <1>1, <2>1, <2>3, KeptThenReleased
  <2>5. PublicationGivenUp(p, r, released)
    BY <1>1, <2>2, <2>4 DEF PublicationGivenUp
  <2> QED
    BY <2>5 DEF released
<1>3. CASE ~HoldsPublication(st, id)
  BY <1>3 DEF ReleasePublicationClaim, PublicationGivenUp
<1> QED
  BY <1>2, <1>3

(* completePublication, saved or not.                                      *)
LEMMA FinishGivesUp ==
  ASSUME OInv, NEW p \in PublicationClaim, NEW r \in RunId, publishers[p].run = r, PublisherCurrent(p),
         PublicationComplete(publishers[p].done), NEW status \in TerminalStatus
  PROVE  LET put == ReleaseAsPartial(store, PublisherId(p))
         IN  /\ PublicationGivenUp(p, r, CompletePublication(store, PublisherId(p), status))
             /\ PublicationGivenUp(p, r, put)
             /\ PublicationGivenUp(p, r, Saved(put, r))
<1> DEFINE id == PublisherId(p)
           new == CompletePublication(store, id, status)
           put == ReleaseAsPartial(store, id)
           saved == Saved(put, r)
<1>1. /\ SoundStore(store) /\ id.run = r /\ IsPublicationClaimCurrent(store, id)
      /\ HoldsPublication(store, id) /\ NotTerminal(store.runs[r], TRUE)
  BY DEF OInv, IInv, Stored, PublisherId, PublisherCurrent, IsPublicationClaimCurrent, HoldsPublication,
         ResultPublicationAllowed, NotTerminal
<1>2. PublicationDropped(store, new, r) /\ (Gone(new.runs[r]) \/ PublishedOf(store.runs[r], new.runs[r]))
  BY <1>1, CompletePublicationEffect
<1>3. /\ PublicationDropped(store, put, r) /\ (Gone(put.runs[r]) \/ PartialOf(store.runs[r], put.runs[r]))
      /\ PublicationDropped(store, saved, r) /\ (Gone(saved.runs[r]) \/ PartialOf(store.runs[r], saved.runs[r]))
  BY <1>1, ReleaseAsPartialEffect
<1> HIDE DEF new, put, saved
<1>4. PublicationGivenUp(p, r, new) /\ PublicationGivenUp(p, r, put) /\ PublicationGivenUp(p, r, saved)
  BY <1>1, <1>2, <1>3 DEF PublicationGivenUp, EndedOf, PublicationDropped
<1> QED
  BY <1>4 DEF new, put, saved

(* A publication that is released in memory only was not complete on disk. *)
LEMMA ReleaseAsPartialAgrees ==
  ASSUME NEW st, SoundStore(st), NEW id, id.run \in RunId, IsPublicationClaimCurrent(st, id)
  PROVE  LET put == ReleaseAsPartial(st, id)
         IN  put.sequence = st.sequence /\ \A x \in RunId : Agree(put.runs[x], st.runs[x])
<1> DEFINE r == id.run
           run == st.runs[r]
           rec == AsPartial([run EXCEPT !.status = "failed", !.reason = "other"])
           put == [Put(st, r, rec) EXCEPT !.pubClaims[r] = NoPublicationClaim]
<1>1. run \in Run /\ OneSided(run) /\ st \in Store
  BY StoreFields DEF SoundStore
<1>2. "other" \in Reason /\ NoPublicationClaim \in PublicationClaims
  BY NoClaimTypes DEF Reason
<1>3. rec \in Run
  <2> HIDE DEF run
  <2> QED
    BY <1>1, <1>2, BecomesPartial
<1>4. run.pub = "publishing" /\ run.note = "none" /\ run.status # "absent"
  BY <1>1 DEF IsPublicationClaimCurrent, PublicationClaimMatches, ResultPublicationAllowed, NotTerminal,
              OneSided, ActiveStatus
<1>5. Agree(rec, run)
  <2> HIDE DEF run
  <2> QED
    BY <1>1, <1>4 DEF Agree, SameVoice, AsPartial, Run
<1> HIDE DEF rec, run
<1>6. PutOf(st, put, r, rec, NoPublicationClaim, st.noteClaims[r], st.sequence)
  BY <1>1, <1>2, <1>3, PutForms
<1> HIDE DEF put
<1>7. put.sequence = st.sequence /\ \A x \in RunId : Alike(put.runs[x], IF x = r THEN rec ELSE st.runs[x])
  BY <1>6 DEF PutOf
<1>8. \A a, b, c : Alike(a, b) /\ Agree(b, c) => Agree(a, c)
  BY DEF Alike, Agree, SameVoice
<1>9. ASSUME NEW x \in RunId PROVE Agree(put.runs[x], st.runs[x])
  <2>1. CASE x = r
    BY <1>5, <1>7, <1>8, <2>1 DEF run
  <2>2. CASE x # r
    BY <1>7, <1>8, <2>2, AgreeIsEquivalence
  <2> QED
    BY <2>1, <2>2
<1>10. put = ReleaseAsPartial(st, id)
  BY DEF put, rec, run, ReleaseAsPartial, WithoutPublicationClaim
<1> QED
  BY <1>7, <1>9, <1>10

(* A call fails, with or without the save that records it.                 *)
LEMMA PublisherFailsFits ==
  ASSUME OInv, NEW p \in PublicationClaim, NEW r \in RunId, publishers[p].run = r, Publishes(p),
         NEW k, PublisherFails(p, k), UNCHANGED <<notifiers, remote>>,
         late' = late \/ late' = GivenUp(PublisherRequest(p), publishers[p].landed),
         late' # late => publishers[p].pc = "sent"
  PROVE  OutcomeFits' /\ Advances
<1> DEFINE st == FailPublication(store, PublisherId(p))
<1>1. Publishing /\ DiskAgrees /\ publishers[p].pc # "idle"
  BY DEF OInv, IInv, OutcomeFits, Publishes
<1>2. PublisherAlone(p, r) /\ publishers'[p].pc = "failed"
  BY <1>1, EndsAlone DEF PublisherFails
<1>3. PublicationGivenUp(p, r, st) /\ PublicationGivenUp(p, r, store)
  BY FailGivesUp, CalmToTransitive DEF PublicationGivenUp
<1>4. EndsWith(st) \/ EndsWith(store)
  BY SavesEndWith DEF PublisherFails
<1> HIDE DEF st
<1>5. PublicationGivenUp(p, r, store') /\ DiskAgrees'
  BY <1>1, <1>3, <1>4, EndsWithAgrees DEF EndsWith
<1> QED
  BY <1>2, <1>5, PublisherEndFits

(* A call whose preparation fails.                                         *)
LEMMA UnpreparedFits ==
  ASSUME OInv, NEW p \in PublicationClaim, PublisherUnprepared(p)
  PROVE  OutcomeFits' /\ Advances
<1> DEFINE self == publishers[p]
           r == self.run
           released == ReleasePublicationClaim(store, PublisherId(p), self.resume)
           run == released.runs[r]
           failed == IF IdentityCurrent(released, r, self.session)
                     THEN UpdateIfCurrent(released, r, self.session, WithStatus(run, "failed", "other"))
                     ELSE released
<1>1. PICK x \in RunId : self.run = x
  BY PublisherFields DEF OInv, IInv, PublisherUnprepared
<1>2. /\ Publishing /\ DiskAgrees /\ self.pc \in {"secret", "head"} /\ Publishes(p) /\ SoundStore(store)
      /\ PreparationFails(p) /\ UNCHANGED <<notifiers, remote, late>>
  BY DEF OInv, IInv, Stored, OutcomeFits, Publishes, PublisherUnprepared
<1>3. PublisherAlone(p, x) /\ publishers'[p].pc = "failed"
  BY <1>1, <1>2, EndsAlone DEF PreparationFails
<1>4. SoundStore(released)
  BY <1>1, <1>2, ReleasePublicationClaimSound DEF PublisherId
<1>5. SoundStore(failed) /\ CalmTo(released, failed)
  <2>1. "failed" \in TerminalStatus /\ "other" \in Reason
    BY DEF TerminalStatus, Reason
  <2> HIDE DEF released
  <2> QED
    BY <1>1, <1>4, <2>1, UpdateStatusSound, UpdateStatusCalm, CalmToTransitive
<1>6. Persist(failed, 0) \/ InMemory(store, 1) \/ Persist(released, 1)
  BY <1>2 DEF PreparationFails
<1>7. CalmTo(released, released)
  BY CalmToTransitive
<1>8. PublicationGivenUp(p, x, failed) /\ PublicationGivenUp(p, x, released) /\ PublicationGivenUp(p, x, store)
  <2>1. PublicationGivenUp(p, x, store)
    BY CalmToTransitive DEF PublicationGivenUp
  <2> HIDE DEF failed
  <2>2. PublicationGivenUp(p, x, failed)
    BY <1>1, <1>2, <1>5, PreparationGivesUp
  <2>3. PublicationGivenUp(p, x, released)
    BY <1>1, <1>2, <1>4, <1>7, PreparationGivesUp
  <2> QED
    BY <2>1, <2>2, <2>3
<1> HIDE DEF failed, released
<1>9. EndsWith(failed) \/ EndsWith(store) \/ EndsWith(released)
  BY <1>6, SavesEndWith
<1>10. PublicationGivenUp(p, x, store') /\ DiskAgrees'
  BY <1>2, <1>8, <1>9, EndsWithAgrees DEF EndsWith
<1> QED
  BY <1>2, <1>3, <1>10, PublisherEndFits

(* A call that finds the merge request moved on, before its first comment. *)
LEMMA PublisherHeadChangedFits ==
  ASSUME OInv, NEW p \in PublicationClaim, PublisherHeadChanged(p)
  PROVE  OutcomeFits' /\ Advances
<1> DEFINE self == publishers[p]
           rejected == UpdateIfCurrent(store, self.run, self.session,
                         WithStatus(store.runs[self.run], "rejected", "policy"))
           released == ReleasePublicationClaim(rejected, PublisherId(p), self.resume)
<1>1. PICK x \in RunId : self.run = x
  BY PublisherFields DEF OInv, IInv, PublisherHeadChanged
<1>2. /\ Publishing /\ DiskAgrees /\ self.pc \in {"secret", "head"} /\ Publishes(p) /\ SoundStore(store)
      /\ PublisherCurrent(p) /\ PublisherEnds(p, "failed") /\ UNCHANGED <<notifiers, remote, late>>
      /\ Persist(released, 0) \/ Persist(rejected, 1)
  BY DEF OInv, IInv, Stored, OutcomeFits, Publishes, PublisherHeadChanged
<1>3. PublisherAlone(p, x) /\ publishers'[p].pc = "failed"
  BY <1>1, <1>2, EndsAlone
<1>4. SoundStore(rejected) /\ CalmTo(store, rejected)
  <2>1. "rejected" \in TerminalStatus /\ "policy" \in Reason
    BY DEF TerminalStatus, Reason
  <2> QED
    BY <1>1, <1>2, <2>1, UpdateStatusSound, UpdateStatusCalm
<1> HIDE DEF rejected
<1>5. PublicationGivenUp(p, x, released) /\ PublicationGivenUp(p, x, rejected)
  BY <1>1, <1>2, <1>4, HeadChangeGivesUp DEF PublicationGivenUp
<1> HIDE DEF released
<1>6. EndsWith(released) \/ EndsWith(rejected)
  BY <1>2, SavesEndWith
<1>7. PublicationGivenUp(p, x, store') /\ DiskAgrees'
  BY <1>2, <1>5, <1>6, EndsWithAgrees DEF EndsWith
<1> QED
  BY <1>2, <1>3, <1>7, PublisherEndFits

(* A call that finds the merge request moved on, before a later comment.   *)
LEMMA CheckRejectsFits ==
  ASSUME OInv, NEW p \in PublicationClaim, PublisherCheckRejects(p)
  PROVE  OutcomeFits' /\ Advances
<1> DEFINE st == RejectPublicationForPolicy(store, PublisherId(p))
<1>1. PICK x \in RunId : publishers[p].run = x
  BY PublisherFields DEF OInv, IInv, PublisherCheckRejects
<1>2. /\ Publishing /\ DiskAgrees /\ publishers[p].pc # "idle" /\ Publishes(p)
      /\ PublisherCurrent(p) /\ PublisherEnds(p, "failed") /\ UNCHANGED <<notifiers, remote, late>>
      /\ Persist(st, 0) \/ InMemory(store, 1)
  BY DEF OInv, IInv, OutcomeFits, Publishes, PublisherCheckRejects
<1>3. PublisherAlone(p, x) /\ publishers'[p].pc = "failed"
  BY <1>1, <1>2, EndsAlone
<1>4. PublicationGivenUp(p, x, st) /\ PublicationGivenUp(p, x, store)
  BY <1>1, <1>2, RejectGivesUp, CalmToTransitive DEF PublicationGivenUp
<1> HIDE DEF st
<1>5. PublicationGivenUp(p, x, store') /\ DiskAgrees'
  BY <1>2, <1>4, SavesEndWith, EndsWithAgrees DEF EndsWith
<1> QED
  BY <1>2, <1>3, <1>5, PublisherEndFits

(* A publication is complete, saved or not.                                *)
LEMMA FinishesFits ==
  ASSUME OInv, NEW p \in PublicationClaim, NEW status \in {"blocked", "succeeded", "failed"},
         PublisherFinishes(p, status)
  PROVE  OutcomeFits' /\ Advances
<1> DEFINE id == PublisherId(p)
           done == CompletePublication(store, id, status)
           put == ReleaseAsPartial(store, id)
           saved == Saved(put, id.run)
<1>1. PICK x \in RunId : publishers[p].run = x
  BY PublisherFields DEF OInv, IInv, PublisherFinishes
<1>2. /\ Publishing /\ DiskAgrees /\ publishers[p].pc # "idle" /\ Publishes(p) /\ SoundStore(store)
      /\ PublisherCurrent(p) /\ UNCHANGED <<notifiers, remote, late>>
      /\ PublicationComplete(publishers[p].done)
      /\ id.run = x /\ status \in TerminalStatus
  BY <1>1 DEF OInv, IInv, Stored, OutcomeFits, Publishes, PublisherFinishes, PublisherId, TerminalStatus
<1>3. /\ PublisherEnds(p, "published") \/ PublisherEnds(p, "failed")
      /\ Persist(done, 0) \/ Persist(saved, 1) \/ InMemory(put, 2)
  BY DEF PublisherFinishes
<1>4. PublisherAlone(p, x) /\ publishers'[p].pc \in {"published", "failed"}
  BY <1>1, <1>2, <1>3, EndsAlone
<1>5. PublicationGivenUp(p, x, done) /\ PublicationGivenUp(p, x, put) /\ PublicationGivenUp(p, x, saved)
  BY <1>1, <1>2, FinishGivesUp
<1>6. put.sequence = store.sequence /\ \A y \in RunId : Agree(put.runs[y], store.runs[y])
  BY <1>2, ReleaseAsPartialAgrees DEF PublisherCurrent
<1> HIDE DEF done, put, saved
<1>7. CASE Persist(done, 0) \/ Persist(saved, 1)
  <2>1. EndsWith(done) \/ EndsWith(saved)
    BY <1>7, SavesEndWith
  <2>2. PublicationGivenUp(p, x, store') /\ DiskAgrees'
    BY <1>2, <1>5, <2>1, EndsWithAgrees DEF EndsWith
  <2> QED
    BY <1>2, <1>4, <2>2, PublisherEndFits
<1>8. CASE InMemory(put, 2)
  <2>1. PublicationGivenUp(p, x, store')
    BY <1>5, <1>8 DEF InMemory
  <2>2. DiskAgrees'
    BY <1>2, <1>6, <1>8, AgreeIsEquivalence DEF InMemory, DiskAgrees
  <2> QED
    BY <1>2, <1>4, <2>1, <2>2, PublisherEndFits
<1> QED
  BY <1>3, <1>7, <1>8

(***************************************************************************)
(* A publication goes on                                                   *)
(***************************************************************************)

(* The call goes on with the comments of the run r that it knows of.       *)
GoesOn(p, r) ==
  LET old == publishers[p]
      new == publishers'[p]
  IN  /\ PublisherAlone(p, r) /\ UNCHANGED late
      /\ new.session = old.session /\ new.allow = old.allow
      /\ new.payload = old.payload /\ new.resume = old.resume
      /\ new.pc \notin {"idle", "published", "failed"}
      /\ new.pc \in {"secret", "head"} => old.pc \in {"secret", "head"}
      /\ new.done \subseteq Visible(r)
      /\ new.pc = "record" => new.pending \subseteq Visible(r)
      /\ new.pc = "sent" => ~new.landed

(* The run r is as it was, or has other markers.                           *)
Marked(r, st) ==
  /\ Apart(store, st, r)
  /\ \/ Gone(st.runs[r])
     \/ \E markers \in SUBSET Visible(r) : MarkedOf(store.runs[r], st.runs[r], markers)
  /\ ClaimsKept(st, r, store.pubClaims[r], store.noteClaims[r])

LEMMA SameIsMarked ==
  ASSUME OInv, NEW r \in RunId
  PROVE  Marked(r, store)
<1>1. store \in Store /\ store.runs[r].done \subseteq Visible(r)
  BY DEF OInv, IInv, Stored, SoundStore, OutcomeFits, RunFits
<1> QED
  BY <1>1, SameIsCalm DEF Marked, Apart, MarkedOf, SameRun, SameNote, ClaimsKept

LEMMA MarkedFits ==
  ASSUME OInv, NEW p \in PublicationClaim, NEW r \in RunId, publishers[p].run = r, Publishes(p),
         HoldsPublication(store, PublisherId(p)), GoesOn(p, r), Marked(r, store'),
         NothingNew(r)
  PROVE  RunFits(r)' /\ Turns(r) /\ PubFits(p, r)'
<1> DEFINE old == store.runs[r]
           new == store'.runs[r]
           self == publishers[p]
           next == publishers'[p]
           id == [run |-> r, by |-> p, session |-> self.session, allow |-> self.allow]
           claim == [by |-> p, session |-> self.session, allow |-> self.allow]
<1>1. PubFits(p, r) /\ RunFits(r)
  BY DEF OInv, OutcomeFits
<1>2. /\ old.status # "absent" /\ ~Unborn(r)
      /\ old.pub = "publishing" /\ old.note = "none" /\ old.payload = self.payload
  BY PublisherHasRun DEF Present
<1>3. old.pubBy = p /\ old.session = self.session /\ store.pubClaims[r] = claim
  BY <1>1, PubHolds
<1>4. PublisherId(p) = id /\ PublisherId(p)' = id
  BY DEF PublisherId, GoesOn, PublisherAlone
<1>5. Visible(r)' = Visible(r)
  BY DEF GoesOn, PublisherAlone, Visible
<1>6. StillFits(r) /\ Turns(r)
  <2>1. CASE Gone(new)
    BY <1>2, <2>1 DEF StillFits, Turns, Turning, Hushed, Final, Gone
  <2>2. ASSUME NEW markers \in SUBSET Visible(r), MarkedOf(old, new, markers)
        PROVE  StillFits(r) /\ Turns(r)
    <3>1. StillFits(r) /\ Final(r)
      BY <1>2, <1>5, <2>2 DEF StillFits, Final, MarkedOf, SameRun, SameNote
    <3>2. Turning(r)
      BY <1>2, <2>2 DEF Turning, Hushed, SameVoice, MarkedOf, SameRun, SameNote
    <3> QED
      BY <3>1, <3>2 DEF Turns
  <2> QED
    BY <2>1, <2>2 DEF Marked
<1>7. ASSUME Present(store', r)
      PROVE  /\ HoldsPublication(store', id) /\ new.payload = self.payload
             /\ self.pc \in {"secret", "head"} /\ ~self.resume => Results(r)' = {}
  <2>1. PICK markers \in SUBSET Visible(r) : MarkedOf(old, new, markers)
    BY <1>7 DEF Marked, Gone, Present
  <2>2. new.pub = "publishing" /\ new.pubBy = p /\ new.session = self.session /\ new.payload = self.payload
    BY <1>2, <1>3, <2>1 DEF MarkedOf, SameRun
  <2>3. store'.pubClaims[r] = claim
    <3>1. PublicationClaimMatches(new, claim)
      BY <2>2 DEF PublicationClaimMatches
    <3> HIDE DEF claim
    <3> QED
      BY <1>3, <3>1 DEF Marked, ClaimsKept
  <2>4. HoldsPublication(store', id)
    BY <2>2, <2>3 DEF HoldsPublication, PublicationClaimMatches, ActivePublicationClaimMatches
  <2>5. self.pc \in {"secret", "head"} /\ ~self.resume => Results(r) = {}
    BY <1>1, <1>2 DEF PubFits, Present
  <2> QED
    BY <2>2, <2>4, <2>5 DEF NothingNew
<1>8. PubFits(p, r)'
  <2>1. ~Unborn(r)'
    BY <1>2 DEF NothingNew
  <2> HIDE DEF id
  <2> QED
    BY <1>4, <1>5, <1>7, <2>1 DEF PubFits, GoesOn, Present
<1> QED
  BY <1>1, <1>6, <1>8, StillFitsSound

LEMMA GoesOnFits ==
  ASSUME OInv, NEW p \in PublicationClaim, NEW r \in RunId, publishers[p].run = r, Publishes(p),
         PublisherCurrent(p), GoesOn(p, r), publishers'[p].pc # "sent",
         NEW st, EndsWith(st), Marked(r, st)
  PROVE  OutcomeFits' /\ Advances
<1>1. /\ OutcomeFits /\ DiskAgrees /\ Publishing /\ store.sequence \in Nat
      /\ HoldsPublication(store, PublisherId(p))
  BY DEF OInv, IInv, OutcomeFits, Stored, SoundStore, Store, PublisherCurrent, IsPublicationClaimCurrent,
         HoldsPublication
<1>2. store' = st /\ DiskAgrees' /\ Apart(store, store', r) /\ PublisherAlone(p, r)
  BY <1>1, EndsWithAgrees DEF EndsWith, Marked, GoesOn
<1>3. \A x \in RunId : NothingNew(x) /\ OneNote(x)'
  BY <1>1, <1>2, PublisherAloneQuiet, QuietNothingNew DEF Apart
<1>4. RunFits(r)' /\ Turns(r) /\ PubFits(p, r)'
  BY <1>1, <1>2, <1>3, MarkedFits
<1> QED
  BY <1>1, <1>2, <1>3, <1>4, PublisherHasRun, PublisherDisturbsNone DEF PublisherAlone

(* The call moves to a record that knows no more than GitLab shows.        *)
LEMMA MovesGoesOn ==
  ASSUME Publishing, NEW p \in PublicationClaim, NEW r \in RunId, publishers[p].run = r, NEW rec,
         publishers' = [publishers EXCEPT ![p] = rec], UNCHANGED <<notifiers, remote, late>>,
         rec.run = r, rec.session = publishers[p].session, rec.allow = publishers[p].allow,
         rec.payload = publishers[p].payload, rec.resume = publishers[p].resume,
         rec.pc \notin {"idle", "published", "failed"},
         rec.pc \in {"secret", "head"} => publishers[p].pc \in {"secret", "head"},
         rec.done \subseteq Visible(r), rec.pc = "record" => rec.pending \subseteq Visible(r),
         rec.pc = "sent" => ~rec.landed
  PROVE  GoesOn(p, r) /\ publishers'[p] = rec
<1>1. publishers'[p] = rec /\ \A y \in PublicationClaim \ {p} : publishers'[y] = publishers[y]
  BY DEF Publishing
<1> QED
  BY <1>1 DEF GoesOn, PublisherAlone

(* The call goes on to its next comment, or to its end.                    *)
LEMMA ContinuesGoesOn ==
  ASSUME Publishing, NEW p \in PublicationClaim, NEW r \in RunId, publishers[p].run = r,
         UNCHANGED <<notifiers, remote, late>>, NEW done, PublisherContinues(p, done),
         done \subseteq Visible(r)
  PROVE  GoesOn(p, r) /\ publishers'[p].pc # "sent"
<1> DEFINE self == publishers[p]
           finish == [self EXCEPT !.pc = "finish", !.done = done, !.pending = {}]
           next(m) == [self EXCEPT !.pc = "check", !.done = done, !.pending = {}, !.op = m]
<1>1. self \in Publisher
  BY DEF Publishing
<1>2. CASE NextOperations(done) = {}
  <2>1. publishers' = [publishers EXCEPT ![p] = finish]
    BY <1>2 DEF PublisherContinues
  <2>2. /\ finish.run = self.run /\ finish.session = self.session /\ finish.allow = self.allow
        /\ finish.payload = self.payload /\ finish.resume = self.resume
        /\ finish.pc = "finish" /\ finish.done = done
    <3> HIDE DEF self
    <3> QED
      BY <1>1 DEF Publisher
  <2> HIDE DEF finish
  <2> QED
    BY <2>1, <2>2, MovesGoesOn
<1>3. CASE NextOperations(done) # {}
  <2>1. PICK m \in NextOperations(done) : publishers' = [publishers EXCEPT ![p] = next(m)]
    BY <1>3 DEF PublisherContinues
  <2> DEFINE rec == next(m)
  <2>2. /\ rec.run = self.run /\ rec.session = self.session /\ rec.allow = self.allow
        /\ rec.payload = self.payload /\ rec.resume = self.resume
        /\ rec.pc = "check" /\ rec.done = done
    <3> HIDE DEF self
    <3> QED
      BY <1>1 DEF Publisher
  <2>3. publishers' = [publishers EXCEPT ![p] = rec]
    BY <2>1
  <2> HIDE DEF rec
  <2> QED
    BY <2>2, <2>3, MovesGoesOn
<1> QED
  BY <1>2, <1>3

(* A step that saves nothing.                                              *)
LEMMA GoesOnUnsavedFits ==
  ASSUME OInv, NEW p \in PublicationClaim, NEW r \in RunId, publishers[p].run = r, Publishes(p),
         PublisherCurrent(p), GoesOn(p, r), publishers'[p].pc # "sent", UNCHANGED storeVars
  PROVE  OutcomeFits' /\ Advances
BY SavesEndWith, SameIsMarked, GoesOnFits

(* The token, and the head.                                                *)
LEMMA PreparedFits ==
  ASSUME OInv, NEW p \in PublicationClaim, PublisherHasToken(p) \/ PublisherHeadVerified(p)
  PROVE  OutcomeFits' /\ Advances
<1> DEFINE self == publishers[p]
           rec(pc) == [self EXCEPT !.pc = pc]
<1>1. PICK r \in RunId : self.run = r
  BY PublisherFields DEF OInv, IInv, PublisherHasToken, PublisherHeadVerified
<1>2. /\ Publishing /\ Publishes(p) /\ PublisherCurrent(p) /\ self \in Publisher
      /\ UNCHANGED storeVars /\ UNCHANGED <<notifiers, remote, late>>
      /\ self.pc \in {"secret", "head"} /\ self.done \subseteq Visible(r)
  BY <1>1 DEF OInv, IInv, OutcomeFits, PubFits, Publishes, Publishing, PublisherHasToken, PublisherHeadVerified
<1>3. CASE \E pc \in {"head", "list"} : PublisherWaits(p, pc)
  <2>1. PICK pc \in {"head", "list"} : publishers' = [publishers EXCEPT ![p] = rec(pc)]
    BY <1>3 DEF PublisherWaits
  <2> DEFINE new == rec(pc)
  <2>2. /\ new.run = self.run /\ new.session = self.session /\ new.allow = self.allow
        /\ new.payload = self.payload /\ new.resume = self.resume
        /\ new.pc = pc /\ new.done = self.done
    <3> HIDE DEF self
    <3> QED
      BY <1>2 DEF Publisher
  <2>3. publishers' = [publishers EXCEPT ![p] = new]
    BY <2>1
  <2> HIDE DEF new
  <2>4. GoesOn(p, r) /\ publishers'[p].pc # "sent"
    BY <1>1, <1>2, <2>2, <2>3, MovesGoesOn
  <2> QED
    BY <1>1, <1>2, <2>4, GoesOnUnsavedFits
<1>4. CASE PublisherContinues(p, {})
  <2>1. GoesOn(p, r) /\ publishers'[p].pc # "sent"
    BY <1>1, <1>2, <1>4, ContinuesGoesOn
  <2> QED
    BY <1>1, <1>2, <2>1, GoesOnUnsavedFits
<1>5. (\E pc \in {"head", "list"} : PublisherWaits(p, pc)) \/ PublisherContinues(p, {})
  BY DEF PublisherHasToken, PublisherHeadVerified
<1> QED
  BY <1>3, <1>4, <1>5

(* What is on GitLab replaces what the store remembers.                    *)
LEMMA ReconcilesFits ==
  ASSUME OInv, NEW p \in PublicationClaim, PublisherReconciles(p)
  PROVE  OutcomeFits' /\ Advances
<1> DEFINE id == PublisherId(p)
           st == ReplacePublicationMarkers(store, id, Visible(id.run))
<1>1. PICK r \in RunId : publishers[p].run = r
  BY PublisherFields DEF OInv, IInv, PublisherReconciles
<1>2. /\ Publishing /\ Publishes(p) /\ PublisherCurrent(p) /\ SoundStore(store) /\ id.run = r
      /\ Persist(st, 0) /\ PublisherContinues(p, Visible(r)) /\ UNCHANGED <<notifiers, remote, late>>
  BY <1>1 DEF OInv, IInv, Stored, Publishes, PublisherReconciles, PublisherId
<1>3. Visible(r) \in SUBSET Marker
  BY DEF Visible
<1>4. /\ Apart(store, st, r)
      /\ Gone(st.runs[r]) \/ MarkedOf(store.runs[r], st.runs[r], Visible(r))
      /\ ClaimsKept(st, r, store.pubClaims[r], store.noteClaims[r])
  BY <1>2, <1>3, MarkersEffect
<1> HIDE DEF st
<1>5. Marked(r, st)
  BY <1>4 DEF Marked
<1>6. EndsWith(st) /\ GoesOn(p, r) /\ publishers'[p].pc # "sent"
  BY <1>1, <1>2, SavesEndWith, ContinuesGoesOn
<1> QED
  BY <1>1, <1>2, <1>5, <1>6, GoesOnFits

(* GitLab confirmed a comment, or refused its position.                    *)
LEMMA AnsweredFits ==
  ASSUME OInv, NEW p \in PublicationClaim, PublisherConfirmed(p) \/ PublisherPositionRefused(p)
  PROVE  OutcomeFits' /\ Advances
<1> DEFINE self == publishers[p]
           posted == [self EXCEPT !.pc = "record", !.pending = Carried(self.op)]
           refused == [self EXCEPT !.pc = "check", !.op = FallbackMarker(self.op.finding)]
<1>1. PICK r \in RunId : self.run = r
  BY PublisherFields DEF OInv, IInv, PublisherConfirmed, PublisherPositionRefused
<1>2. /\ Publishing /\ Publishes(p) /\ PublisherCurrent(p) /\ self \in Publisher
      /\ UNCHANGED storeVars /\ UNCHANGED <<notifiers, remote, late>>
      /\ self.pc = "sent" /\ self.done \subseteq Visible(r)
      /\ self.landed => Carried(self.op) \subseteq Visible(r)
  BY <1>1 DEF OInv, IInv, OutcomeFits, PubFits, Publishes, Publishing, PublisherConfirmed,
              PublisherPositionRefused
<1>3. CASE PublisherConfirmed(p)
  <2>1. publishers' = [publishers EXCEPT ![p] = posted] /\ self.landed
    BY <1>3 DEF PublisherConfirmed
  <2>2. /\ posted.run = self.run /\ posted.session = self.session /\ posted.allow = self.allow
        /\ posted.payload = self.payload /\ posted.resume = self.resume
        /\ posted.pc = "record" /\ posted.done = self.done /\ posted.pending = Carried(self.op)
    <3> HIDE DEF self
    <3> QED
      BY <1>2 DEF Publisher
  <2> HIDE DEF posted
  <2>3. publishers'[p] = posted /\ \A y \in PublicationClaim \ {p} : publishers'[y] = publishers[y]
    BY <1>2, <2>1 DEF Publishing
  <2>4. GoesOn(p, r) /\ publishers'[p].pc # "sent"
    BY <1>1, <1>2, <2>1, <2>2, <2>3 DEF GoesOn, PublisherAlone
  <2> QED
    BY <1>1, <1>2, <2>4, GoesOnUnsavedFits
<1>4. CASE PublisherPositionRefused(p)
  <2>1. publishers' = [publishers EXCEPT ![p] = refused]
    BY <1>4 DEF PublisherPositionRefused
  <2>2. /\ refused.run = self.run /\ refused.session = self.session /\ refused.allow = self.allow
        /\ refused.payload = self.payload /\ refused.resume = self.resume
        /\ refused.pc = "check" /\ refused.done = self.done
    <3> HIDE DEF self
    <3> QED
      BY <1>2 DEF Publisher
  <2> HIDE DEF refused
  <2>3. publishers'[p] = refused /\ \A y \in PublicationClaim \ {p} : publishers'[y] = publishers[y]
    BY <1>2, <2>1 DEF Publishing
  <2>4. GoesOn(p, r) /\ publishers'[p].pc # "sent"
    BY <1>1, <1>2, <2>2, <2>3 DEF GoesOn, PublisherAlone
  <2> QED
    BY <1>1, <1>2, <2>4, GoesOnUnsavedFits
<1> QED
  BY <1>3, <1>4

(* One marker of a confirmed comment is recorded.                          *)
LEMMA RecordsFits ==
  ASSUME OInv, NEW p \in PublicationClaim, PublisherRecords(p)
  PROVE  OutcomeFits' /\ Advances
<1> DEFINE self == publishers[p]
           id == PublisherId(p)
<1>1. PICK r \in RunId : self.run = r
  BY PublisherFields DEF OInv, IInv, PublisherRecords
<1>2. /\ Publishing /\ Publishes(p) /\ PublisherCurrent(p) /\ self \in Publisher
      /\ SoundStore(store) /\ id.run = r /\ UNCHANGED <<notifiers, remote, late>>
      /\ self.pc = "record" /\ self.done \subseteq Visible(r) /\ self.pending \subseteq Visible(r)
      /\ store.runs[r].done \subseteq Visible(r) /\ self.pending \subseteq Marker
  BY <1>1 DEF OInv, IInv, Stored, OutcomeFits, PubFits, RunFits, Publishes, Publishing, Publisher,
              PublisherRecords, PublisherId
<1>3. PICK m \in self.pending :
        /\ Persist(RecordPublicationMarker(store, id, m), 0)
        /\ IF self.pending = {m}
           THEN PublisherContinues(p, self.done \cup {m})
           ELSE publishers' = [publishers EXCEPT ![p].done = @ \cup {m}, ![p].pending = @ \ {m}]
  BY DEF PublisherRecords
<1> DEFINE st == RecordPublicationMarker(store, id, m)
           markers == store.runs[r].done \cup {m}
           rec == [self EXCEPT !.done = self.done \cup {m}, !.pending = self.pending \ {m}]
<1>4. m \in Marker /\ markers \in SUBSET Visible(r)
  BY <1>2
<1>5. /\ Apart(store, st, r)
      /\ Gone(st.runs[r]) \/ MarkedOf(store.runs[r], st.runs[r], markers)
      /\ ClaimsKept(st, r, store.pubClaims[r], store.noteClaims[r])
  BY <1>2, <1>4, RecordMarkerEffect
<1>6. EndsWith(st)
  BY <1>3, SavesEndWith
<1> HIDE DEF st
<1>7. Marked(r, st)
  <2> HIDE DEF markers
  <2> QED
    BY <1>4, <1>5 DEF Marked
<1>8. CASE self.pending = {m}
  <2>1. GoesOn(p, r) /\ publishers'[p].pc # "sent"
    BY <1>1, <1>2, <1>3, <1>8, ContinuesGoesOn
  <2> QED
    BY <1>1, <1>2, <1>6, <1>7, <2>1, GoesOnFits
<1>9. CASE self.pending # {m}
  <2>1. publishers' = [publishers EXCEPT ![p] = rec]
    BY <1>2, <1>3, <1>9 DEF Publishing
  <2>2. /\ rec.run = self.run /\ rec.session = self.session /\ rec.allow = self.allow
        /\ rec.payload = self.payload /\ rec.resume = self.resume
        /\ rec.pc = self.pc /\ rec.done = self.done \cup {m} /\ rec.pending = self.pending \ {m}
    <3> HIDE DEF self
    <3> QED
      BY <1>2 DEF Publisher
  <2> HIDE DEF rec
  <2>3. publishers'[p] = rec /\ \A y \in PublicationClaim \ {p} : publishers'[y] = publishers[y]
    BY <1>2, <2>1 DEF Publishing
  <2>4. m \in Visible(r) /\ rec.done \subseteq Visible(r) /\ rec.pending \subseteq Visible(r)
    BY <1>2, <2>2
  <2>5. GoesOn(p, r) /\ publishers'[p].pc # "sent"
    BY <1>1, <1>2, <2>2, <2>3, <2>4 DEF GoesOn, PublisherAlone
  <2> QED
    BY <1>1, <1>2, <1>6, <1>7, <2>5, GoesOnFits
<1> QED
  BY <1>8, <1>9

(* The request for a comment goes out.                                     *)
LEMMA SendsFits ==
  ASSUME OInv, NEW p \in PublicationClaim, PublisherSends(p)
  PROVE  OutcomeFits' /\ Advances
<1> DEFINE self == publishers[p]
           rec == [self EXCEPT !.pc = "sent", !.landed = FALSE]
<1>1. PICK r \in RunId : self.run = r
  BY PublisherFields DEF OInv, IInv, PublisherSends
<1>2. /\ Publishing /\ OutcomeFits /\ Publishes(p) /\ PublisherCurrent(p) /\ self \in Publisher
      /\ UNCHANGED storeVars /\ UNCHANGED <<notifiers, remote, late>>
      /\ self.pc = "check" /\ publishers' = [publishers EXCEPT ![p] = rec]
  BY DEF OInv, IInv, Publishes, Publishing, PublisherSends
<1>3. PubFits(p, r) /\ RunFits(r) /\ HoldsPublication(store, PublisherId(p))
  BY <1>2 DEF OutcomeFits, PublisherCurrent, IsPublicationClaimCurrent, HoldsPublication
<1>4. publishers'[p] = rec /\ \A y \in PublicationClaim \ {p} : publishers'[y] = publishers[y]
  BY <1>2 DEF Publishing
<1>5. /\ rec.run = self.run /\ rec.session = self.session /\ rec.allow = self.allow
      /\ rec.payload = self.payload /\ rec.resume = self.resume
      /\ rec.pc = "sent" /\ rec.done = self.done /\ ~rec.landed
  <2> HIDE DEF self
  <2> QED
    BY <1>2 DEF Publisher
<1> HIDE DEF rec
<1>6. self.done \subseteq Visible(r)
  BY <1>1, <1>2, <1>3 DEF PubFits
<1>7. GoesOn(p, r)
  BY <1>1, <1>2, <1>4, <1>5, <1>6 DEF GoesOn, PublisherAlone
<1>8. /\ Present(store, r) /\ ~Unborn(r) /\ store.runs[r].pub = "publishing"
      /\ store.runs[r].note = "none" /\ store.runs[r].payload = self.payload
      /\ OnlyPublisher(p, r)
  BY <1>1, <1>2, <1>3, PublisherHasRun
<1>9. /\ \A n \in NoteClaim, x \in RunId : NoteSending(n, x)' = NoteSending(n, x)
      /\ \A y \in PublicationClaim, x \in RunId : y # p \/ x # r => Sending(y, x)' = Sending(y, x)
      /\ publishers'[p].payload = self.payload
  BY <1>1, <1>2, <1>4, <1>5 DEF NoteSending, Sending
<1>10. \A x \in RunId : /\ Results(x)' \subseteq Results(x) \cup (IF x = r THEN {self.payload} ELSE {})
                        /\ NoteOut(x)' = NoteOut(x) /\ OneNote(x)' = OneNote(x)
                        /\ Visible(x)' = Visible(x) /\ Unborn(x)' = Unborn(x)
  <2> TAKE x \in RunId
  <2>1. Results(x)' = remote[x].payloads
          \cup {publishers'[y].payload : y \in {z \in PublicationClaim : Sending(z, x)'}}
          \cup {q.payload : q \in {z \in late : ResultLate(z, x)}}
    BY <1>2 DEF Results
  <2>2. \A y \in PublicationClaim : Sending(y, x)' =>
          \/ Sending(y, x) /\ publishers'[y].payload = publishers[y].payload
          \/ x = r /\ publishers'[y].payload = self.payload
    BY <1>4, <1>9
  <2>3. Results(x)' \subseteq Results(x) \cup (IF x = r THEN {self.payload} ELSE {})
    BY <2>1, <2>2 DEF Results
  <2>4. NoteOut(x)' = NoteOut(x) /\ OneNote(x)' = OneNote(x)
    BY <1>2, <1>9 DEF NoteOut, OneNote, FailurePosted
  <2>5. Visible(x)' = Visible(x) /\ Unborn(x)' = Unborn(x)
    BY <1>2 DEF Visible, Unborn, storeVars
  <2> QED
    BY <2>3, <2>4, <2>5
<1>11. ~NoteOut(r) /\ \A a \in Results(r) : a = self.payload
  BY <1>3, <1>8 DEF RunFits, Present
<1>12. UNCHANGED <<store, remote>>
  BY <1>2 DEF storeVars
<1>13. RunFits(r)' /\ Turns(r)
  <2>1. RunFits(r)'
    BY <1>3, <1>8, <1>10, <1>11, <1>12 DEF RunFits, Present
  <2>2. Turns(r)
    BY <1>12 DEF Turns, Turning, Hushed, SameVoice, Final
  <2> QED
    BY <2>1, <2>2
<1>14. PubFits(p, r)'
  <2>1. PublisherId(p)' = PublisherId(p)
    BY <1>1, <1>4, <1>5 DEF PublisherId
  <2> QED
    BY <1>1, <1>2, <1>3, <1>4, <1>5, <1>8, <1>10, <1>12, <2>1 DEF PubFits, Present
<1>15. ASSUME NEW x \in RunId PROVE OneNote(x)' /\ (x # r => NothingNew(x))
  <2>1. RunFits(x) /\ OneNote(x)
    BY <1>2 DEF OutcomeFits
  <2> QED
    BY <1>10, <1>12, <2>1 DEF NothingNew, RunFits, FailurePosted
<1>16. DiskAgrees' /\ Apart(store, store', r)
  <2>1. store \in Store
    BY DEF OInv, IInv, Stored, SoundStore
  <2> QED
    BY <1>2, <1>12, <2>1, StoreKept, SameIsCalm DEF Apart
<1> QED
  BY <1>1, <1>2, <1>4, <1>5, <1>8, <1>13, <1>14, <1>15, <1>16, PublisherDisturbsNone

(* Every step of a publication keeps what is out told of.                  *)
LEMMA PublisherStepFits ==
  ASSUME OInv, NEW p \in PublicationClaim, PublisherStep(p)
  PROVE  OutcomeFits' /\ Advances
<1>1. CASE PublisherHasToken(p) \/ PublisherHeadVerified(p)
  BY <1>1, PreparedFits
<1>2. CASE PublisherUnprepared(p)
  BY <1>2, UnpreparedFits
<1>3. CASE PublisherHeadChanged(p)
  BY <1>3, PublisherHeadChangedFits
<1>4. CASE PublisherReconciles(p)
  BY <1>4, ReconcilesFits
<1>5. CASE PublisherSends(p)
  BY <1>5, SendsFits
<1>6. CASE PublisherCheckRejects(p)
  BY <1>6, CheckRejectsFits
<1>7. CASE PublisherConfirmed(p) \/ PublisherPositionRefused(p)
  BY <1>7, AnsweredFits
<1>8. CASE PublisherRecords(p)
  BY <1>8, RecordsFits
<1>9. CASE \E status \in {"blocked", "succeeded", "failed"} : PublisherFinishes(p, status)
  BY <1>9, FinishesFits
<1>10. CASE \/ PublisherReconcileFails(p) \/ PublisherCheckFails(p) \/ PublisherUnconfirmed(p)
            \/ PublisherRecordFails(p) \/ PublisherFinishFails(p)
  <2>1. /\ publishers[p].pc \in {"list", "check", "sent", "record", "finish"}
        /\ PublisherFails(p, 0) \/ PublisherFails(p, 1)
        /\ UNCHANGED <<notifiers, remote>>
        /\ late' = late \/ late' = GivenUp(PublisherRequest(p), publishers[p].landed)
        /\ late' # late => publishers[p].pc = "sent"
    BY <1>10 DEF PublisherReconcileFails, PublisherCheckFails, PublisherUnconfirmed,
                 PublisherRecordFails, PublisherFinishFails
  <2>2. Publishes(p)
    BY <2>1 DEF Publishes
  <2>3. PICK r \in RunId : publishers[p].run = r
    BY <2>1, PublisherFields DEF OInv, IInv
  <2>4. PICK k \in {0, 1} : PublisherFails(p, k)
    BY <2>1
  <2> QED
    BY <2>1, <2>2, <2>3, <2>4, PublisherFailsFits
<1> QED
  BY <1>1, <1>2, <1>3, <1>4, <1>5, <1>6, <1>7, <1>8, <1>9, <1>10 DEF PublisherStep

(* A call begins, or resumes, the publication of a run.                    *)
LEMMA PublisherClaimsFits ==
  ASSUME OInv, NEW p \in PublicationClaim, NEW caller, NEW r \in RunId, NEW payload \in Payload,
         PublisherClaims(p, caller, r, payload), UNCHANGED <<notifiers, remote, late>>
  PROVE  OutcomeFits' /\ Advances
<1> DEFINE run == store.runs[r]
           new == store'.runs[r]
           resume == run.pub # "none"
           allow == run.status = "failed" /\ run.pub = "partial"
           rec == [IdlePublisher EXCEPT
                     !.pc = "secret", !.caller = caller, !.run = r, !.payload = payload,
                     !.session = run.session, !.resume = resume, !.allow = resume /\ run.status = "failed"]
           claim == [by |-> p, session |-> run.session, allow |-> allow]
           id == [run |-> r, by |-> p, session |-> run.session, allow |-> allow]
           st == ClaimPublication(store, r, p, payload)
<1>1. /\ SoundStore(store) /\ Publishing /\ OutcomeFits /\ DiskAgrees /\ RunFits(r)
      /\ PublicationConsidered(run) /\ ClaimPublicationAllowed(store, r, payload)
      /\ Persist(st, 0) /\ publishers' = [publishers EXCEPT ![p] = rec]
  BY DEF OInv, IInv, Stored, OutcomeFits, PublisherClaims, PublicationAccepted
<1>2. /\ run.status # "absent" /\ run.note = "none" /\ run.pub # "published"
      /\ run.pub = "none" \/ run.payload = payload
      /\ store.pubClaims[r].by = NoClaim \/ ~PublicationClaimMatches(run, store.pubClaims[r])
      /\ allow = (resume /\ run.status = "failed")
  BY <1>1 DEF ClaimPublicationAllowed, ResultPublicationAllowed, PublicationConsidered, ActiveStatus
<1>3. publishers'[p] = rec /\ \A y \in PublicationClaim \ {p} : publishers'[y] = publishers[y]
  BY <1>1 DEF Publishing
<1>4. /\ rec.pc = "secret" /\ rec.run = r /\ rec.payload = payload /\ rec.session = run.session
      /\ rec.resume = resume /\ rec.allow = allow /\ rec.done = {}
  <2> HIDE DEF run
  <2> QED
    BY <1>2 DEF IdlePublisher
<1>5. /\ Apart(store, st, r)
      /\ Gone(st.runs[r]) \/ ClaimedOf(run, st.runs[r], p, payload)
      /\ ClaimsKept(st, r, claim, store.noteClaims[r])
  BY <1>1, ClaimPublicationEffect
<1>6. EndsWith(st)
  BY <1>1, SavesEndWith
<1> HIDE DEF st, rec, run, resume, allow
<1>7. store' = st /\ DiskAgrees'
  BY <1>1, <1>6, EndsWithAgrees DEF EndsWith
<1>8. OnlyPublisher(p, r)
  <2>1. ASSUME NEW y \in PublicationClaim \ {p}, Publishes(y), publishers[y].run = r PROVE FALSE
    <3>1. PubFits(y, r) /\ Present(store, r)
      BY <1>1, <1>2 DEF OutcomeFits, Present, run
    <3>2. /\ run.pub = "publishing" /\ run.pubBy = y /\ run.session = publishers[y].session
          /\ store.pubClaims[r] = [by |-> y, session |-> publishers[y].session, allow |-> publishers[y].allow]
      BY <2>1, <3>1, PubHolds DEF run
    <3> QED
      BY <1>2, <3>2, NullAssumption DEF PublicationClaimMatches
  <2>2. ASSUME NEW n \in NoteClaim, Notifies(n), notifiers[n].run = r PROVE FALSE
    <3>1. NoteFits(n, r) /\ Present(store, r)
      BY <1>1, <1>2 DEF OutcomeFits, Present, run
    <3>2. run.note = "notifying"
      BY <2>2, <3>1, NoteHolds DEF run
    <3> QED
      BY <1>2, <3>2
  <2> QED
    BY <2>1, <2>2 DEF OnlyPublisher
<1>9. Quiet
  <2>1. \A y \in PublicationClaim, x \in RunId :
          Sending(y, x)' => Sending(y, x) /\ publishers'[y].payload = publishers[y].payload
    BY <1>3, <1>4 DEF Sending
  <2>2. \A n \in NoteClaim, x \in RunId : NoteSending(n, x)' = NoteSending(n, x)
    BY DEF NoteSending
  <2> QED
    BY <2>1, <2>2 DEF Quiet
<1>10. \A x \in RunId : NothingNew(x) /\ OneNote(x)'
  <2>1. store.sequence \in Nat /\ store'.sequence = store.sequence
    BY <1>1, <1>5, <1>7 DEF SoundStore, Store, Apart
  <2> QED
    BY <1>1, <1>9, <2>1, QuietNothingNew
<1>11. run.pub = "none" => Results(r)' = {}
  BY <1>1, <1>2, <1>10 DEF RunFits, NothingNew, run
<1>12. RunFits(r)' /\ Turns(r)
  <2>1. CASE Gone(new)
    BY <1>1, <1>2, <1>10, <2>1, StillFitsSound DEF StillFits, Turns, Turning, Hushed, Final, Gone, run
  <2>2. CASE ClaimedOf(run, new, p, payload)
    <3>1. Final(r)
      BY <1>2, <2>2 DEF Final, ClaimedOf, run
    <3>2. run.done \subseteq Visible(r)'
      BY <1>1, <1>10 DEF RunFits, NothingNew, run
    <3>3. StillFits(r)
      BY <1>2, <1>11, <2>2, <3>2 DEF StillFits, ClaimedOf, SameRun, SameNote, run
    <3>4. Turning(r)
      BY <1>2, <2>2 DEF Turning, Hushed, SameVoice, Begins, Mute, Over, ClaimedOf, SameRun, SameNote, run
    <3> QED
      BY <1>1, <1>10, <3>1, <3>3, <3>4, StillFitsSound DEF Turns
  <2> QED
    BY <1>5, <1>7, <2>1, <2>2
<1>13. PubFits(p, r)'
  <2>1. ~Unborn(r)'
    BY <1>1, <1>2, <1>5, <1>7 DEF RunFits, Gone, Unborn, Apart, run
  <2>2. PublisherId(p)' = id
    BY <1>3, <1>4 DEF PublisherId
  <2>3. ASSUME Present(store', r)
        PROVE  HoldsPublication(store', id) /\ new.payload = payload /\ (~resume => Results(r)' = {})
    <3>1. ClaimedOf(run, new, p, payload)
      BY <1>5, <1>7, <2>3 DEF Present, Gone
    <3>2. /\ new.pub = "publishing" /\ new.pubBy = p /\ new.session = run.session
          /\ new.payload = payload
      BY <3>1 DEF ClaimedOf, SameRun
    <3>3. store'.pubClaims[r] = claim
      <4>1. PublicationClaimMatches(new, claim)
        BY <3>2 DEF PublicationClaimMatches
      <4> HIDE DEF claim
      <4> QED
        BY <1>5, <1>7, <4>1 DEF ClaimsKept
    <3>4. HoldsPublication(store', id)
      BY <3>2, <3>3 DEF HoldsPublication, PublicationClaimMatches, ActivePublicationClaimMatches
    <3> QED
      BY <1>11, <3>2, <3>4 DEF resume
  <2> HIDE DEF id
  <2> QED
    BY <1>3, <1>4, <2>1, <2>2, <2>3 DEF PubFits, Present
<1> QED
  BY <1>3, <1>4, <1>5, <1>7, <1>8, <1>10, <1>12, <1>13, PublisherDisturbsNone

(***************************************************************************)
(* Notifications                                                           *)
(***************************************************************************)

(* No call but n is at work on r.                                          *)
OnlyNotifier(n, r) ==
  /\ \A m \in NoteClaim \ {n} : ~(Notifies(m) /\ notifiers[m].run = r)
  /\ \A p \in PublicationClaim : ~(Publishes(p) /\ publishers[p].run = r)

(* A call that holds its run is the only one at work on it, and no result  *)
(* of the run is out.                                                      *)
LEMMA NotifierHasRun ==
  ASSUME OInv, NEW n \in NoteClaim, NEW r \in RunId, notifiers[n].run = r, Notifies(n),
         HoldsNotification(store, NotifierId(n))
  PROVE  /\ Present(store, r) /\ ~Unborn(r)
         /\ store.runs[r].note = "notifying" /\ store.runs[r].pub = "none"
         /\ Results(r) = {}
         /\ OnlyNotifier(n, r)
<1>1. NoteFits(n, r) /\ RunFits(r) /\ SoundStore(store)
  BY DEF OInv, IInv, Stored, OutcomeFits
<1>2. store.runs[r].note = "notifying" /\ store.runs[r].noteBy = n /\ ~Unborn(r)
  BY <1>1, NoteHolds
<1>3. Present(store, r)
  BY <1>1, <1>2 DEF RunFits, Gone, Present
<1>4. store.runs[r].pub = "none"
  BY <1>1, <1>2 DEF SoundStore, SoundRuns, OneSided
<1>5. Results(r) = {}
  BY <1>1, <1>3, <1>4 DEF RunFits, Present
<1>6. ASSUME NEW m \in NoteClaim \ {n}, Notifies(m), notifiers[m].run = r PROVE FALSE
  <2>1. NoteFits(m, r)
    BY DEF OInv, OutcomeFits
  <2>2. store.runs[r].noteBy = m
    BY <1>3, <1>6, <2>1, NoteHolds
  <2> QED
    BY <1>2, <2>2
<1>7. ASSUME NEW p \in PublicationClaim, Publishes(p), publishers[p].run = r PROVE FALSE
  <2>1. PubFits(p, r)
    BY DEF OInv, OutcomeFits
  <2>2. store.runs[r].pub = "publishing"
    BY <1>3, <1>7, <2>1, PubHolds
  <2> QED
    BY <1>4, <2>2
<1> QED
  BY <1>2, <1>3, <1>4, <1>5, <1>6, <1>7 DEF OnlyNotifier

(* The only call at work on a run disturbs no other call.                  *)
LEMMA NotifierDisturbsNone ==
  ASSUME OInv, NEW n \in NoteClaim, NEW r \in RunId, OnlyNotifier(n, r),
         notifiers'[n].run = r, UNCHANGED publishers,
         \A m \in NoteClaim \ {n} : notifiers'[m] = notifiers[m],
         DiskAgrees', Apart(store, store', r),
         \A x \in RunId : OneNote(x)', \A x \in RunId \ {r} : NothingNew(x),
         RunFits(r)', Turns(r), NoteFits(n, r)'
  PROVE  OutcomeFits' /\ Advances
<1>1. OutcomeFits
  BY DEF OInv
<1>2. ASSUME NEW x \in RunId PROVE RunFits(x)' /\ Final(x)
  <2>1. CASE x # r
    <3>1. RunFits(x) /\ NothingNew(x) /\ RunCalm(store, store', x)
      BY <1>1, <2>1 DEF OutcomeFits, Apart
    <3> QED
      BY <3>1, KeptFits, StillFitsSound
  <2> QED
    BY <2>1 DEF Turns
<1>3. ASSUME NEW m \in NoteClaim, NEW x \in RunId PROVE NoteFits(m, x)'
  <2>1. CASE m = n /\ x # r
    BY <2>1 DEF NoteFits
  <2>2. CASE m # n /\ x = r
    BY <2>2 DEF OnlyNotifier, NoteFits, Notifies
  <2>3. CASE m # n /\ x # r
    <3>1. NoteFits(m, x) /\ NothingNew(x) /\ RunCalm(store, store', x) /\ notifiers'[m] = notifiers[m]
      BY <1>1, <2>3 DEF OutcomeFits, Apart
    <3> QED
      BY <3>1, NoteKept
  <2> QED
    BY <2>1, <2>2, <2>3
<1>4. ASSUME NEW p \in PublicationClaim, NEW x \in RunId PROVE PubFits(p, x)'
  <2>1. CASE x = r
    BY <2>1 DEF OnlyNotifier, PubFits, Publishes
  <2>2. CASE x # r
    <3>1. PubFits(p, x) /\ NothingNew(x) /\ RunCalm(store, store', x) /\ publishers'[p] = publishers[p]
      BY <1>1, <2>2 DEF OutcomeFits, Apart
    <3> QED
      BY <3>1, PubKept
  <2> QED
    BY <2>1, <2>2
<1>5. Turning(r) /\ \A x \in RunId \ {r} : Hushed(x)
  BY MovesHushed DEF Apart, Turns
<1> QED
  BY <1>2, <1>3, <1>4, <1>5 DEF OutcomeFits, Advances

(* Only the call n moves, and what it gives up is its own request.         *)
NotifierAlone(n, r) ==
  /\ notifiers[n].run = r /\ notifiers'[n].run = r
  /\ \A m \in NoteClaim \ {n} : notifiers'[m] = notifiers[m]
  /\ UNCHANGED <<publishers, remote>>
  /\ \A q \in late' : q \in late \/ (NoteSending(n, r) /\ q = NotifierRequest(n))

LEMMA NotifierAloneQuiet ==
  ASSUME NEW n \in NoteClaim, NEW r \in RunId, NotifierAlone(n, r), notifiers'[n].pc # "sent"
  PROVE  Quiet
<1>1. \A m \in NoteClaim, x \in RunId : NoteSending(m, x)' => NoteSending(m, x) /\ m # n
  BY DEF NotifierAlone, NoteSending
<1>2. \A p \in PublicationClaim, x \in RunId : Sending(p, x)' = Sending(p, x)
  BY DEF NotifierAlone, Sending
<1>3. ASSUME NEW q \in late', q \notin late
      PROVE  NoteSending(n, q.run) /\ ~NoteSending(n, q.run)' /\ q = NotifierRequest(n)
  <2>1. NoteSending(n, r) /\ q = NotifierRequest(n) /\ q.run = r
    BY <1>3 DEF NotifierAlone, NotifierRequest
  <2> QED
    BY <1>1, <2>1
<1> QED
  BY <1>1, <1>2, <1>3 DEF Quiet, NotifierAlone

LEMMA NotifierEndsAlone ==
  ASSUME Notifying, NEW n \in NoteClaim, NEW r, notifiers[n].run = r, notifiers[n].pc # "idle",
         NEW outcome, NotifierEnds(n, outcome), UNCHANGED <<publishers, remote>>,
         late' = late \/ late' = GivenUp(NotifierRequest(n), notifiers[n].landed),
         late' # late => notifiers[n].pc = "sent"
  PROVE  NotifierAlone(n, r) /\ notifiers'[n].pc = outcome
<1>1. notifiers'[n].pc = outcome /\ notifiers'[n].run = r
  BY DEF Notifying, NotifierEnds, IdleNotifier
<1>2. \A m \in NoteClaim \ {n} : notifiers'[m] = notifiers[m]
  BY DEF Notifying, NotifierEnds
<1>3. \A q \in late' : q \in late \/ (NoteSending(n, r) /\ q = NotifierRequest(n))
  BY DEF GivenUp, NoteSending
<1> QED
  BY <1>1, <1>2, <1>3 DEF NotifierAlone

(* The store st gives up the notification of r by the call n, if the call  *)
(* held it.  A post is forgotten only when GitLab refused it.              *)
NotificationGivenUp(n, r, refused, st) ==
  LET a == store.runs[r]
      b == st.runs[r]
  IN  \/ CalmTo(store, st)
      \/ /\ HoldsNotification(store, NotifierId(n))
         /\ Apart(store, st, r)
         /\ \/ Gone(b) \/ b = a
            \/ NotifiedOf(a, b, "partial", a.postStarted /\ ~refused)
            \/ NotifiedOf(a, b, "notified", a.postStarted /\ ~refused) /\ FailurePosted(r)

LEMMA NotifierEndFits ==
  ASSUME OInv, NEW n \in NoteClaim, NEW r \in RunId, Notifies(n), NotifierAlone(n, r),
         notifiers'[n].pc \in {"notified", "failed"}, DiskAgrees',
         NEW refused \in BOOLEAN, NotificationGivenUp(n, r, refused, store'),
         refused => ~NoteOut(r)'
  PROVE  OutcomeFits' /\ Advances
<1> DEFINE old == store.runs[r]
           new == store'.runs[r]
<1>1. notifiers[n].run = r /\ OutcomeFits /\ Publishing /\ store.sequence \in Nat
  BY DEF NotifierAlone, OInv, IInv, Stored, SoundStore, Store
<1>2. store'.sequence = store.sequence
  BY DEF NotificationGivenUp, CalmTo, Apart
<1>3. \A x \in RunId : NothingNew(x) /\ OneNote(x)'
  BY <1>1, <1>2, NotifierAloneQuiet, QuietNothingNew
<1>4. \A x \in RunId : NoteFits(n, x)'
  BY DEF NoteFits, Notifies
<1>5. CASE CalmTo(store, store')
  <2>1. \A x \in RunId : RunMoves(x)
    BY <1>5 DEF CalmTo, RunMoves
  <2>2. /\ \A m \in NoteClaim :
             notifiers'[m] = notifiers[m] \/ \A x \in RunId : NoteFits(m, x)'
        /\ \A p \in PublicationClaim : publishers'[p] = publishers[p]
    BY <1>4 DEF NotifierAlone
  <2> QED
    BY <1>1, <1>3, <2>1, <2>2, CalmFits
<1>6. CASE /\ HoldsNotification(store, NotifierId(n)) /\ Apart(store, store', r)
           /\ \/ Gone(new) \/ new = old
              \/ NotifiedOf(old, new, "partial", old.postStarted /\ ~refused)
              \/ NotifiedOf(old, new, "notified", old.postStarted /\ ~refused) /\ FailurePosted(r)
  <2>1. /\ old.status # "absent" /\ ~Unborn(r) /\ old.note = "notifying" /\ old.pub = "none"
        /\ Results(r) = {} /\ OnlyNotifier(n, r)
    BY <1>1, <1>6, NotifierHasRun DEF Present
  <2>2. RunFits(r) /\ NothingNew(r) /\ old.done \subseteq Visible(r)' /\ old.status \in TerminalStatus
    BY <1>1, <1>3, <2>1 DEF OutcomeFits, RunFits, NothingNew
  <2>3. ASSUME Gone(new) PROVE RunFits(r)' /\ Turns(r)
    BY <2>1, <2>2, <2>3, StillFitsSound DEF StillFits, Turns, Turning, Hushed, Final, Gone
  <2>4. ASSUME new = old PROVE RunFits(r)' /\ Turns(r)
    <3>1. StillFits(r) /\ Turns(r)
      BY <2>1, <2>2, <2>4 DEF StillFits, Turns, Turning, Hushed, SameVoice, Final
    <3> QED
      BY <2>2, <3>1, StillFitsSound
  <2>5. ASSUME NEW note \in {"partial", "notified"},
               NotifiedOf(old, new, note, old.postStarted /\ ~refused),
               note = "notified" => FailurePosted(r)
        PROVE  RunFits(r)' /\ Turns(r)
    <3>1. Final(r)
      BY <2>1, <2>5 DEF Final, NotifiedOf, StatusFinal, SamePublication
    <3>2. new.status \in TerminalStatus
      BY <2>2, <2>5 DEF NotifiedOf, StatusFinal, TerminalStatus
    <3>3. StillFits(r)
      BY <2>1, <2>2, <2>5, <3>2 DEF StillFits, NotifiedOf, SameRun, SamePublication, NothingNew
    <3>4. Turning(r)
      BY <2>1, <2>5 DEF Turning, Hushed, SameVoice, Concludes, Over, NotifiedOf, SameRun, SamePublication
    <3> QED
      BY <2>2, <3>1, <3>3, <3>4, StillFitsSound DEF Turns
  <2>6. RunFits(r)' /\ Turns(r)
    BY <1>6, <2>3, <2>4, <2>5
  <2> QED
    BY <1>1, <1>3, <1>4, <1>6, <2>1, <2>6, NotifierDisturbsNone DEF NotifierAlone
<1> QED
  BY <1>5, <1>6 DEF NotificationGivenUp

(* releaseFailureNotificationClaim touches no run.                         *)
LEMMA ReleaseNoteGivesUp ==
  ASSUME OInv, NEW n \in NoteClaim, NEW r \in RunId, notifiers[n].run = r
  PROVE  LET released == ReleaseFailureNotificationClaim(store, NotifierId(n))
         IN  /\ NotificationGivenUp(n, r, FALSE, released)
             /\ released.runs = store.runs /\ released.sequence = store.sequence
<1> DEFINE id == NotifierId(n)
           released == ReleaseFailureNotificationClaim(store, id)
<1>1. SoundStore(store) /\ id = [run |-> r, by |-> n, session |-> notifiers[n].session] /\ id.run = r
  BY DEF OInv, IInv, Stored, NotifierId
<1>2. /\ released \in Store /\ released.runs = store.runs /\ released.sequence = store.sequence
      /\ released.pubClaims = store.pubClaims
      /\ \A x \in RunId \ {r} : released.noteClaims[x] = store.noteClaims[x]
      /\ IF ActiveNoteClaimMatches(store, id)
         THEN released.noteClaims[r] = NoNoteClaim ELSE released = store
  BY <1>1, ReleaseNoteClaimEffect
<1> HIDE DEF released
<1>3. \A x \in RunId \ {r} : RunCalm(store, released, x)
  BY <1>2 DEF RunCalm, Keeps
<1>4. Apart(store, released, r)
  BY <1>2, <1>3 DEF Apart
<1>5. NotificationGivenUp(n, r, FALSE, released)
  <2>1. CASE HoldsNotification(store, id)
    BY <1>2, <1>4, <2>1 DEF NotificationGivenUp
  <2>2. CASE ~HoldsNotification(store, id) /\ ActiveNoteClaimMatches(store, id)
    <3>1. store.noteClaims[r] = [by |-> n, session |-> notifiers[n].session]
      BY <1>1, <2>2 DEF ActiveNoteClaimMatches
    <3>2. ~NoteClaimMatches(store.runs[r], store.noteClaims[r])
      BY <1>1, <2>2, <3>1 DEF HoldsNotification, NoteClaimMatches
    <3>3. RunCalm(store, released, r)
      BY <1>2, <2>2, <3>2 DEF RunCalm, Keeps
    <3> QED
      BY <1>2, <1>3, <3>3 DEF NotificationGivenUp, CalmTo
  <2>3. CASE ~ActiveNoteClaimMatches(store, id)
    BY <1>2, <2>3, CalmToTransitive DEF NotificationGivenUp
  <2> QED
    BY <2>1, <2>2, <2>3
<1> QED
  BY <1>2, <1>5 DEF released

(* A claim that is gone is not released.                                   *)
LEMMA ReleasedAlready ==
  ASSUME NEW n \in NoteClaim, NEW st, st.noteClaims[notifiers[n].run] = NoNoteClaim
  PROVE  /\ ReleaseFailureNotificationClaim(st, NotifierId(n)) = st
         /\ \A refused : FailFailureNotification(st, NotifierId(n), refused) = st
<1>1. ~ActiveNoteClaimMatches(st, NotifierId(n))
  BY NullAssumption DEF ActiveNoteClaimMatches, NotifierId, NoNoteClaim
<1> QED
  BY <1>1 DEF ReleaseFailureNotificationClaim, FailFailureNotification, HoldsNotification

(* failFailureNotification, then the finally block.                        *)
LEMMA FailedGivesUp ==
  ASSUME OInv, NEW n \in NoteClaim, NEW r \in RunId, notifiers[n].run = r, NEW refused \in BOOLEAN
  PROVE  NotificationGivenUp(n, r, refused, NotificationFailed(n, refused))
<1> DEFINE id == NotifierId(n)
           failed == FailFailureNotification(store, id, refused)
<1>1. SoundStore(store) /\ id.run = r
  BY DEF OInv, IInv, Stored, NotifierId
<1>2. CASE HoldsNotification(store, id)
  <2>1. /\ NoteDropped(store, failed, r)
        /\ \/ Gone(failed.runs[r])
           \/ NotifiedOf(store.runs[r], failed.runs[r], "partial", store.runs[r].postStarted /\ ~refused)
    BY <1>1, <1>2, FailNotificationEffect
  <2> HIDE DEF failed
  <2>2. NotificationFailed(n, refused) = failed
    BY <2>1, ReleasedAlready DEF NotificationFailed, NoteDropped, failed
  <2> QED
    BY <1>2, <2>1, <2>2 DEF NotificationGivenUp, NoteDropped
<1>3. CASE ~HoldsNotification(store, id)
  <2>1. NotificationFailed(n, refused) = ReleaseFailureNotificationClaim(store, id)
    BY <1>3 DEF NotificationFailed, FailFailureNotification
  <2>2. CalmTo(store, ReleaseFailureNotificationClaim(store, id))
    BY <1>3, ReleaseNoteGivesUp DEF NotificationGivenUp
  <2> QED
    BY <2>1, <2>2 DEF NotificationGivenUp
<1> QED
  BY <1>2, <1>3

(* The catch block: a save failed, and so may the one that records it.     *)
LEMMA NotifierAbortsFits ==
  ASSUME OInv, NEW n \in NoteClaim, NEW r \in RunId, notifiers[n].run = r, Notifies(n),
         NEW k, NotifierAborts(n, k), UNCHANGED <<publishers, remote>>,
         late' = late \/ late' = GivenUp(NotifierRequest(n), notifiers[n].landed),
         late' # late => notifiers[n].pc = "sent"
  PROVE  OutcomeFits' /\ Advances
<1> DEFINE failed == NotificationFailed(n, FALSE)
           released == ReleaseFailureNotificationClaim(store, NotifierId(n))
<1>1. Notifying /\ DiskAgrees /\ notifiers[n].pc # "idle"
  BY DEF OInv, IInv, OutcomeFits, Notifies
<1>2. NotifierAlone(n, r) /\ notifiers'[n].pc = "failed"
  BY <1>1, NotifierEndsAlone DEF NotifierAborts
<1>3. /\ NotificationGivenUp(n, r, FALSE, failed) /\ NotificationGivenUp(n, r, FALSE, released)
      /\ released.runs = store.runs /\ released.sequence = store.sequence
  BY FailedGivesUp, ReleaseNoteGivesUp
<1>4. \E j : Persist(failed, j) \/ InMemory(released, j)
  BY DEF NotifierAborts
<1> HIDE DEF failed, released
<1>5. EndsWith(failed) \/ (store' = released /\ disk' = disk)
  BY <1>4, SavesEndWith DEF InMemory
<1>6. NotificationGivenUp(n, r, FALSE, store')
  BY <1>3, <1>5 DEF EndsWith
<1>7. DiskAgrees'
  <2>1. CASE EndsWith(failed)
    BY <1>1, <2>1, EndsWithAgrees
  <2>2. CASE store' = released /\ disk' = disk
    BY <1>1, <1>3, <2>2 DEF DiskAgrees
  <2> QED
    BY <1>5, <2>1, <2>2
<1> QED
  BY <1>2, <1>6, <1>7, NotifierEndFits

(* A call that gives up.                                                   *)
LEMMA NotifierGivesUpFits ==
  ASSUME OInv, NEW n \in NoteClaim, NEW r \in RunId, notifiers[n].run = r, Notifies(n),
         NEW refused \in BOOLEAN, NotifierGivesUp(n, refused), UNCHANGED <<publishers, remote>>,
         late' = late \/ late' = GivenUp(NotifierRequest(n), notifiers[n].landed),
         late' # late => notifiers[n].pc = "sent",
         refused => NoteSending(n, r) /\ late' = late
  PROVE  OutcomeFits' /\ Advances
<1>1. Notifying /\ DiskAgrees /\ notifiers[n].pc # "idle" /\ OneNote(r)
  BY DEF OInv, IInv, OutcomeFits, Notifies
<1>2. CASE NotifierEnds(n, "failed") /\ Persist(NotificationFailed(n, refused), 0)
  <2> DEFINE failed == NotificationFailed(n, refused)
  <2>1. NotifierAlone(n, r) /\ notifiers'[n].pc = "failed"
    BY <1>1, <1>2, NotifierEndsAlone
  <2>2. NotificationGivenUp(n, r, refused, failed)
    BY FailedGivesUp
  <2>3. EndsWith(failed)
    BY <1>2, SavesEndWith
  <2> HIDE DEF failed
  <2>4. NotificationGivenUp(n, r, refused, store') /\ DiskAgrees'
    BY <1>1, <2>2, <2>3, EndsWithAgrees DEF EndsWith
  <2>5. refused => ~NoteOut(r)'
    <3> SUFFICES ASSUME refused PROVE ~NoteOut(r)'
      OBVIOUS
    <3>1. /\ ~FailurePosted(r) /\ \A q \in late : ~NoteLate(q, r)
          /\ \A m \in NoteClaim : NoteSending(m, r) => m = n
      BY <1>1 DEF OneNote
    <3>2. ~FailurePosted(r)' /\ \A q \in late' : ~NoteLate(q, r)
      BY <3>1 DEF FailurePosted
    <3>3. \A m \in NoteClaim : ~NoteSending(m, r)'
      BY <2>1, <3>1 DEF NotifierAlone, NoteSending
    <3> QED
      BY <3>2, <3>3 DEF NoteOut
  <2> QED
    BY <2>1, <2>4, <2>5, NotifierEndFits
<1>3. CASE NotifierAborts(n, 1)
  BY <1>3, NotifierAbortsFits
<1> QED
  BY <1>2, <1>3 DEF NotifierGivesUp

(* The merge request has moved on.                                         *)
LEMMA NotifierHeadChangedFits ==
  ASSUME OInv, NEW n \in NoteClaim, NotifierHeadChanged(n)
  PROVE  OutcomeFits' /\ Advances
<1> DEFINE id == NotifierId(n)
           st == RejectFailureNotificationForPolicy(store, id)
           end == ReleaseFailureNotificationClaim(FailFailureNotification(st, id, FALSE), id)
<1>1. PICK r \in RunId : notifiers[n].run = r
  BY NotifierFields DEF OInv, IInv, NotifierHeadChanged
<1>2. /\ Notifying /\ DiskAgrees /\ Notifies(n) /\ notifiers[n].pc # "idle"
      /\ SoundStore(store) /\ id.run = r /\ UNCHANGED <<publishers, remote, late>>
      /\ IsFailureNotificationClaimCurrent(store, id) /\ HoldsNotification(store, id)
  BY <1>1 DEF OInv, IInv, Stored, OutcomeFits, Notifies, NotifierHeadChanged, NotifierId, NotifierCurrent,
              IsFailureNotificationClaimCurrent, HoldsNotification
<1>3. CASE NotifierAborts(n, 1)
  BY <1>1, <1>2, <1>3, NotifierAbortsFits
<1>4. CASE NotifierEnds(n, "failed") /\ Persist(end, 0)
  <2>1. /\ NoteDropped(store, st, r)
        /\ Gone(st.runs[r]) \/ NotifiedOf(store.runs[r], st.runs[r], "partial", store.runs[r].postStarted)
    BY <1>2, RejectNotificationEffect
  <2> HIDE DEF st
  <2>2. end = st
    BY <1>1, <2>1, ReleasedAlready DEF NoteDropped
  <2> HIDE DEF end
  <2>3. EndsWith(st)
    BY <1>4, <2>2, SavesEndWith
  <2>4. store.runs[r].postStarted = (store.runs[r].postStarted /\ ~FALSE)
    BY <1>2, StoreFields DEF Run
  <2>5. NotificationGivenUp(n, r, FALSE, st)
    BY <1>2, <2>1, <2>4 DEF NotificationGivenUp, NoteDropped
  <2>6. NotificationGivenUp(n, r, FALSE, store') /\ DiskAgrees'
    BY <1>2, <2>3, <2>5, EndsWithAgrees DEF EndsWith
  <2>7. NotifierAlone(n, r) /\ notifiers'[n].pc = "failed"
    BY <1>1, <1>2, <1>4, NotifierEndsAlone
  <2> QED
    BY <1>2, <2>6, <2>7, NotifierEndFits
<1> QED
  BY <1>3, <1>4 DEF NotifierHeadChanged, NotifierRejects

(* The note is there.                                                      *)
LEMMA NotifierSucceedsFits ==
  ASSUME OInv, NEW n \in NoteClaim, NEW r \in RunId, notifiers[n].run = r, Notifies(n),
         NotifierSucceeds(n), FailurePosted(r), UNCHANGED <<publishers, remote, late>>
  PROVE  OutcomeFits' /\ Advances
<1> DEFINE id == NotifierId(n)
           st == CompleteFailureNotification(store, id)
           released == ReleaseFailureNotificationClaim(store, id)
<1>1. /\ Notifying /\ DiskAgrees /\ notifiers[n].pc # "idle"
      /\ SoundStore(store) /\ id.run = r
  BY DEF OInv, IInv, Stored, OutcomeFits, Notifies, NotifierId
<1>2. CASE NotifierAborts(n, 1)
  BY <1>2, NotifierAbortsFits
<1>3. CASE NotifierCurrent(n) /\ NotifierEnds(n, "notified") /\ Persist(st, 0)
  <2>1. /\ NoteDropped(store, st, r)
        /\ Gone(st.runs[r]) \/ NotifiedOf(store.runs[r], st.runs[r], "notified", store.runs[r].postStarted)
    BY <1>1, CompleteNotificationEffect
  <2>2. EndsWith(st)
    BY <1>3, SavesEndWith
  <2>3. HoldsNotification(store, id)
    BY <1>3 DEF NotifierCurrent, IsFailureNotificationClaimCurrent, HoldsNotification
  <2> HIDE DEF st
  <2>4. store.runs[r].postStarted = (store.runs[r].postStarted /\ ~FALSE)
    BY <1>1, StoreFields DEF Run
  <2>5. NotificationGivenUp(n, r, FALSE, st)
    BY <2>1, <2>3, <2>4 DEF NotificationGivenUp, NoteDropped
  <2>6. NotificationGivenUp(n, r, FALSE, store') /\ DiskAgrees'
    BY <1>1, <2>2, <2>5, EndsWithAgrees DEF EndsWith
  <2>7. NotifierAlone(n, r) /\ notifiers'[n].pc = "notified"
    BY <1>1, <1>3, NotifierEndsAlone
  <2> QED
    BY <2>6, <2>7, NotifierEndFits
<1>4. CASE NotifierEnds(n, "failed") /\ InMemory(released, 0)
  <2>1. /\ NotificationGivenUp(n, r, FALSE, released)
        /\ released.runs = store.runs /\ released.sequence = store.sequence
    BY ReleaseNoteGivesUp
  <2>2. store' = released /\ disk' = disk
    BY <1>4 DEF InMemory
  <2> HIDE DEF released
  <2>3. NotificationGivenUp(n, r, FALSE, store') /\ DiskAgrees'
    BY <1>1, <2>1, <2>2 DEF DiskAgrees
  <2>4. NotifierAlone(n, r) /\ notifiers'[n].pc = "failed"
    BY <1>1, <1>4, NotifierEndsAlone
  <2> QED
    BY <2>3, <2>4, NotifierEndFits
<1> QED
  BY <1>2, <1>3, <1>4 DEF NotifierSucceeds

(* A call goes on, to where it may post only if no note is out.            *)
LEMMA NotifierWaitsFits ==
  ASSUME OInv, NEW n \in NoteClaim, NEW r \in RunId, notifiers[n].run = r, Notifies(n),
         notifiers[n].pc # "sent", NEW pc \in {"find", "head", "check"}, NotifierWaits(n, pc),
         pc \in {"head", "check"} => MayPost(n), UNCHANGED storeVars,
         UNCHANGED <<publishers, remote, late>>
  PROVE  OutcomeFits' /\ Advances
<1> DEFINE self == notifiers[n]
           rec == [self EXCEPT !.pc = pc]
<1>1. /\ Notifying /\ Publishing /\ OutcomeFits /\ self \in Notifier /\ store.sequence \in Nat
      /\ UNCHANGED store
  BY DEF OInv, IInv, Notifying, Notifies, Stored, SoundStore, Store, storeVars
<1>2. notifiers'[n] = rec /\ \A m \in NoteClaim \ {n} : notifiers'[m] = notifiers[m]
  BY <1>1 DEF Notifying, NotifierWaits
<1>3. /\ rec.pc = pc /\ rec.run = r /\ rec.session = self.session
      /\ rec.resume = self.resume /\ rec.posted = self.posted
  <2> HIDE DEF self
  <2> QED
    BY <1>1 DEF Notifier, self
<1> HIDE DEF rec
<1>4. NotifierAlone(n, r) /\ notifiers'[n].pc # "sent"
  BY <1>2, <1>3 DEF NotifierAlone
<1>5. \A x \in RunId : NothingNew(x) /\ OneNote(x)'
  BY <1>1, <1>4, NotifierAloneQuiet, QuietNothingNew
<1>6. ASSUME NEW x \in RunId PROVE NoteFits(n, x)'
  <2>1. NoteFits(n, x) /\ NothingNew(x) /\ NothingNew(r)
    BY <1>1, <1>5 DEF OutcomeFits
  <2>2. NotifierId(n)' = NotifierId(n) /\ (MayPost(n)' <=> MayPost(n))
    BY <1>2, <1>3 DEF NotifierId, MayPost
  <2>3. CASE x = r
    BY <1>1, <1>2, <1>3, <2>1, <2>2, <2>3 DEF NoteFits, Present, NothingNew
  <2>4. CASE x # r
    BY <1>2, <1>3, <2>4 DEF NoteFits
  <2> QED
    BY <2>3, <2>4
<1>7. \A m \in NoteClaim : notifiers'[m] = notifiers[m] \/ \A x \in RunId : NoteFits(m, x)'
  BY <1>2, <1>6
<1> QED
  BY <1>1, <1>5, <1>7, StoreKept, CalmFits

(* The note goes out: the store tells of it first.                         *)
LEMMA NotifierSendsFits ==
  ASSUME OInv, NEW n \in NoteClaim, NotifierSends(n)
  PROVE  OutcomeFits' /\ Advances
<1> DEFINE self == notifiers[n]
           rec == [self EXCEPT !.pc = "sent", !.landed = FALSE]
           id == [run |-> self.run, by |-> n, session |-> self.session]
           claim == [by |-> n, session |-> self.session]
           st == MarkFailureNotificationPostStarted(store, NotifierId(n))
           old == store.runs[self.run]
           new == store'.runs[self.run]
<1>1. PICK r \in RunId : self.run = r
  BY NotifierFields DEF OInv, IInv, NotifierSends
<1>2. /\ Notifying /\ OutcomeFits /\ DiskAgrees /\ SoundStore(store) /\ Notifies(n) /\ NotifierCurrent(n)
      /\ self \in Notifier /\ self.pc = "check" /\ UNCHANGED <<publishers, remote, late>>
      /\ NoteFits(n, r) /\ RunFits(r)
  BY DEF OInv, IInv, Stored, OutcomeFits, Notifies, Notifying, NotifierSends
<1>3. CASE NotifierAborts(n, 1)
  BY <1>1, <1>2, <1>3, NotifierAbortsFits
<1>4. CASE Persist(st, 0) /\ notifiers' = [notifiers EXCEPT ![n] = rec]
  <2>1. NotifierId(n) = id /\ HoldsNotification(store, id)
    BY <1>2 DEF NotifierId, NotifierCurrent, IsFailureNotificationClaimCurrent, HoldsNotification
  <2>2. /\ Present(store, r) /\ ~Unborn(r) /\ old.note = "notifying" /\ old.pub = "none"
        /\ Results(r) = {} /\ OnlyNotifier(n, r)
    <3>1. HoldsNotification(store, NotifierId(n))
      BY <2>1
    <3> QED
      BY <1>1, <1>2, <3>1, NotifierHasRun
  <2>3. old.noteBy = n /\ old.session = self.session /\ store.noteClaims[r] = claim
    BY <1>1, <1>2, <2>1, NoteHolds
  <2>4. ~NoteOut(r)
    BY <1>1, <1>2, <2>2 DEF NoteFits
  <2>5. notifiers'[n] = rec /\ \A m \in NoteClaim \ {n} : notifiers'[m] = notifiers[m]
    BY <1>2, <1>4 DEF Notifying
  <2>6. /\ rec.pc = "sent" /\ rec.run = self.run /\ rec.session = self.session
        /\ rec.resume = self.resume /\ rec.posted = self.posted /\ ~rec.landed
    <3> HIDE DEF self
    <3> QED
      BY <1>2 DEF Notifier
  <2> HIDE DEF rec
  <2>7. /\ Apart(store, st, r)
        /\ Gone(st.runs[r]) \/ PostingOf(store.runs[r], st.runs[r])
        /\ ClaimsKept(st, r, store.pubClaims[r], store.noteClaims[r])
    BY <1>1, <1>2, MarkPostEffect DEF NotifierId
  <2>8. EndsWith(st)
    BY <1>4, SavesEndWith
  <2> HIDE DEF st
  <2>9. store' = st /\ DiskAgrees' /\ store'.sequence = store.sequence
    BY <1>2, <2>7, <2>8, EndsWithAgrees DEF EndsWith, Apart
  <2>10. /\ \A p \in PublicationClaim, x \in RunId : Sending(p, x)' = Sending(p, x)
         /\ \A m \in NoteClaim, x \in RunId : NoteSending(m, x)' => NoteSending(m, x) \/ (m = n /\ x = r)
         /\ \A m \in NoteClaim, x \in RunId : x # r => NoteSending(m, x)' = NoteSending(m, x)
    BY <1>1, <1>2, <2>5, <2>6 DEF Sending, NoteSending
  <2>11. \A x \in RunId : Results(x)' = Results(x) /\ Visible(x)' = Visible(x) /\ Unborn(x)' = Unborn(x)
    BY <1>2, <2>9, <2>10 DEF Results, Visible, Unborn
  <2>12. ASSUME NEW x \in RunId, x # r PROVE NothingNew(x) /\ OneNote(x)'
    <3>1. RunFits(x) /\ OneNote(x)
      BY <1>2 DEF OutcomeFits
    <3>2. NoteOut(x)' = NoteOut(x) /\ OneNote(x)' = OneNote(x)
      BY <1>2, <2>10, <2>12 DEF NoteOut, OneNote, FailurePosted
    <3>3. remote'[x].payloads = remote[x].payloads
      BY <1>2
    <3> QED
      BY <1>2, <2>11, <3>1, <3>2, <3>3 DEF NothingNew, RunFits, FailurePosted
  <2>13. OneNote(r)'
    <3>1. OneNote(r) /\ remote' = remote /\ late' = late
      BY <1>2 DEF OutcomeFits
    <3>2. /\ ~FailurePosted(r) /\ \A q \in late : ~NoteLate(q, r)
          /\ \A m \in NoteClaim : ~NoteSending(m, r)
      BY <2>4 DEF NoteOut
    <3>3. ~FailurePosted(r)' /\ \A m \in NoteClaim : NoteSending(m, r)' => m = n
      BY <2>10, <3>1, <3>2 DEF FailurePosted
    <3> QED
      BY <3>1, <3>2, <3>3 DEF OneNote
  <2>14. RunFits(r)' /\ Turns(r)
    <3>1. CASE Gone(new)
      BY <1>1, <1>2, <2>2, <2>11, <3>1 DEF RunFits, Turns, Turning, Hushed, Final, Gone
    <3>2. CASE PostingOf(old, new)
      <4>1. Final(r)
        BY <1>1, <2>2, <3>2 DEF Final, PostingOf, SamePublication
      <4>2. /\ new.status = old.status /\ new.status # "absent" /\ new.pub = "none"
            /\ new.note = "notifying" /\ new.postStarted /\ new.done = old.done
        BY <1>1, <2>2, <3>2 DEF PostingOf, SameRun, SamePublication, Present
      <4>3. Results(r)' = {} /\ Visible(r)' = Visible(r) /\ ~Unborn(r)' /\ remote'[r] = remote[r]
        BY <1>2, <2>2, <2>11
      <4>4. /\ old.status \in TerminalStatus /\ old.done \subseteq Visible(r)
            /\ Visible(r) # {} => remote[r].payloads # {}
        BY <1>1, <1>2, <2>2 DEF RunFits
      <4>5. RunFits(r)'
        BY <1>1, <4>2, <4>3, <4>4 DEF RunFits
      <4>6. Turning(r)
        BY <1>1, <2>2, <4>2, <3>2 DEF Turning, Hushed, SameVoice, PostingOf, SameRun, Present
      <4> QED
        BY <4>1, <4>5, <4>6 DEF Turns
    <3> QED
      BY <1>1, <2>7, <2>9, <3>1, <3>2
  <2>15. NoteFits(n, r)'
    <3>1. NotifierId(n)' = id
      BY <2>5, <2>6 DEF NotifierId
    <3>2. ASSUME Present(store', r) PROVE HoldsNotification(store', id)
      <4>1. PostingOf(old, new)
        BY <1>1, <2>7, <2>9, <3>2 DEF Present, Gone
      <4>2. new.note = "notifying" /\ new.noteBy = n /\ new.session = self.session
        BY <2>2, <2>3, <4>1 DEF PostingOf, SameRun
      <4>3. store'.noteClaims[r] = claim
        <5>1. NoteClaimMatches(new, claim)
          BY <4>2 DEF NoteClaimMatches
        <5> HIDE DEF claim
        <5> QED
          BY <1>1, <2>3, <2>7, <2>9, <5>1 DEF ClaimsKept
      <4> QED
        BY <1>1, <4>2, <4>3 DEF HoldsNotification, NoteClaimMatches, ActiveNoteClaimMatches
    <3> HIDE DEF id
    <3> QED
      BY <2>2, <2>5, <2>6, <2>11, <3>1, <3>2 DEF NoteFits, Present
  <2> QED
    BY <1>1, <1>2, <2>2, <2>5, <2>6, <2>7, <2>9, <2>12, <2>13, <2>14, <2>15, NotifierDisturbsNone
<1> QED
  BY <1>3, <1>4 DEF NotifierSends

(* A call begins, or resumes, the notification of a run.                   *)
LEMMA NotifierClaimsFits ==
  ASSUME OInv, NEW n \in NoteClaim, NEW r \in RunId, NEW payload \in Payload \cup {NoPayload},
         NotifierClaims(n, r, payload), UNCHANGED <<publishers, remote, late>>
  PROVE  OutcomeFits' /\ Advances
<1> DEFINE run == store.runs[r]
           new == store'.runs[r]
           resume == run.note # "none"
           rec == [IdleNotifier EXCEPT
                     !.pc = "secret", !.run = r, !.payload = payload, !.session = run.session,
                     !.resume = resume, !.posted = run.postStarted]
           claim == [by |-> n, session |-> run.session]
           id == [run |-> r, by |-> n, session |-> run.session]
           st == ClaimFailureNotification(store, r, n, payload)
<1>1. /\ SoundStore(store) /\ Notifying /\ Publishing /\ OutcomeFits /\ DiskAgrees /\ RunFits(r)
      /\ ClaimFailureNotificationAllowed(store, r, payload)
      /\ Persist(st, 0) /\ notifiers' = [notifiers EXCEPT ![n] = rec]
  BY DEF OInv, IInv, Stored, OutcomeFits, NotifierClaims, NotificationAccepted
<1>2. /\ run.status = "failed" /\ run.pub = "none" /\ run.note # "notified"
      /\ store.noteClaims[r].by = NoClaim
      /\ "failed" \in TerminalStatus
  BY <1>1 DEF ClaimFailureNotificationAllowed, FailureNotificationAllowed, TerminalStatus
<1>3. notifiers'[n] = rec /\ \A m \in NoteClaim \ {n} : notifiers'[m] = notifiers[m]
  BY <1>1 DEF Notifying
<1>4. /\ rec.pc = "secret" /\ rec.run = r /\ rec.session = run.session
      /\ rec.resume = resume /\ rec.posted = run.postStarted
  <2> HIDE DEF run
  <2> QED
    BY DEF IdleNotifier
<1>5. /\ Apart(store, st, r)
      /\ Gone(st.runs[r]) \/ NotingOf(run, st.runs[r], n)
      /\ ClaimsKept(st, r, store.pubClaims[r], claim)
  BY <1>1, ClaimNotificationEffect
<1>6. EndsWith(st)
  BY <1>1, SavesEndWith
<1> HIDE DEF st, rec, run, resume
<1>7. store' = st /\ DiskAgrees'
  BY <1>1, <1>6, EndsWithAgrees DEF EndsWith
<1>8. OnlyNotifier(n, r)
  <2>1. ASSUME NEW m \in NoteClaim \ {n}, Notifies(m), notifiers[m].run = r PROVE FALSE
    <3>1. NoteFits(m, r) /\ Present(store, r)
      BY <1>1, <1>2 DEF OutcomeFits, Present, run
    <3>2. store.noteClaims[r] = [by |-> m, session |-> notifiers[m].session]
      BY <2>1, <3>1, NoteHolds
    <3> QED
      BY <1>2, <3>2, NullAssumption
  <2>2. ASSUME NEW p \in PublicationClaim, Publishes(p), publishers[p].run = r PROVE FALSE
    <3>1. PubFits(p, r) /\ Present(store, r)
      BY <1>1, <1>2 DEF OutcomeFits, Present, run
    <3>2. run.pub = "publishing"
      BY <2>2, <3>1, PubHolds DEF run
    <3> QED
      BY <1>2, <3>2
  <2> QED
    BY <2>1, <2>2 DEF OnlyNotifier
<1>9. Quiet
  <2>1. \A m \in NoteClaim, x \in RunId : NoteSending(m, x)' => NoteSending(m, x)
    BY <1>3, <1>4 DEF NoteSending
  <2>2. \A p \in PublicationClaim, x \in RunId : Sending(p, x)' = Sending(p, x)
    BY DEF Sending
  <2> QED
    BY <2>1, <2>2 DEF Quiet
<1>10. \A x \in RunId : NothingNew(x) /\ OneNote(x)'
  <2>1. store.sequence \in Nat /\ store'.sequence = store.sequence
    BY <1>1, <1>5, <1>7 DEF SoundStore, Store, Apart
  <2> QED
    BY <1>1, <1>9, <2>1, QuietNothingNew
<1>11. ~resume \/ ~run.postStarted => ~NoteOut(r)'
  BY <1>1, <1>2, <1>10 DEF RunFits, NothingNew, run, resume
<1>12. RunFits(r)' /\ Turns(r)
  <2>1. CASE Gone(new)
    BY <1>1, <1>2, <1>10, <2>1, StillFitsSound DEF StillFits, Turns, Turning, Hushed, Final, Gone, run
  <2>2. CASE NotingOf(run, new, n)
    <3>1. Final(r)
      BY <1>2, <2>2 DEF Final, NotingOf, SamePublication, run
    <3>2. run.done \subseteq Visible(r)'
      BY <1>1, <1>10 DEF RunFits, NothingNew, run
    <3>3. StillFits(r)
      BY <1>2, <2>2, <3>2 DEF StillFits, NotingOf, SameRun, SamePublication, run
    <3>4. Turning(r)
      BY <1>2, <2>2 DEF Turning, Hushed, SameVoice, Begins, Mute, Over, NotingOf, SameRun, SamePublication, run
    <3> QED
      BY <1>1, <1>10, <3>1, <3>3, <3>4, StillFitsSound DEF Turns
  <2> QED
    BY <1>5, <1>7, <2>1, <2>2
<1>13. NoteFits(n, r)'
  <2>1. ~Unborn(r)'
    BY <1>1, <1>2, <1>5, <1>7 DEF RunFits, Gone, Unborn, Apart, run
  <2>2. NotifierId(n)' = id
    BY <1>3, <1>4 DEF NotifierId
  <2>3. ASSUME Present(store', r) PROVE HoldsNotification(store', id)
    <3>1. NotingOf(run, new, n)
      BY <1>5, <1>7, <2>3 DEF Present, Gone
    <3>2. new.note = "notifying" /\ new.noteBy = n /\ new.session = run.session
      BY <3>1 DEF NotingOf, SameRun
    <3>3. store'.noteClaims[r] = claim
      <4>1. NoteClaimMatches(new, claim)
        BY <3>2 DEF NoteClaimMatches
      <4> HIDE DEF claim
      <4> QED
        BY <1>5, <1>7, <4>1 DEF ClaimsKept
    <3> QED
      BY <3>2, <3>3 DEF HoldsNotification, NoteClaimMatches, ActiveNoteClaimMatches
  <2>4. MayPost(n)' => ~NoteOut(r)'
    BY <1>3, <1>4, <1>11 DEF MayPost
  <2> HIDE DEF id
  <2> QED
    BY <1>3, <1>4, <2>1, <2>2, <2>3, <2>4 DEF NoteFits, Present
<1> QED
  BY <1>3, <1>4, <1>5, <1>7, <1>8, <1>10, <1>12, <1>13, NotifierDisturbsNone

(* Every step of a notification keeps what is out told of.                 *)
LEMMA NotifierStepFits ==
  ASSUME OInv, NEW n \in NoteClaim, NotifierStep(n)
  PROVE  OutcomeFits' /\ Advances
<1>1. notifiers[n].pc \in {"secret", "head", "find", "check", "sent"} /\ Notifying
  BY DEF OInv, IInv, NotifierStep, NotifierHasToken, NotifierHeadVerified, NotifierFindsNote, NotifierFindsNone,
         NotifierBlocked, NotifierHeadChanged, NotifierSends, NotifierConfirmed, NotifierRefused,
         NotifierUnconfirmed
<1>2. Notifies(n)
  BY <1>1 DEF Notifies
<1>3. PICK r \in RunId : notifiers[n].run = r
  BY <1>1, NotifierFields
<1>4. NoteFits(n, r) /\ OneNote(r)
  BY DEF OInv, OutcomeFits
<1>5. CASE NotifierHasToken(n)
  <2> DEFINE pc == IF notifiers[n].resume THEN "find" ELSE "head"
  <2>1. /\ NotifierWaits(n, pc) /\ UNCHANGED storeVars /\ UNCHANGED <<publishers, remote, late>>
        /\ notifiers[n].pc # "sent" /\ pc \in {"find", "head", "check"}
        /\ pc \in {"head", "check"} => MayPost(n)
    BY <1>5 DEF NotifierHasToken, MayPost
  <2> HIDE DEF pc
  <2> QED
    BY <1>2, <1>3, <2>1, NotifierWaitsFits
<1>6. CASE NotifierHeadVerified(n)
  <2>1. /\ NotifierWaits(n, "check") /\ UNCHANGED storeVars /\ UNCHANGED <<publishers, remote, late>>
        /\ notifiers[n].pc # "sent" /\ MayPost(n)
    BY <1>2, <1>3, <1>4, <1>6 DEF NotifierHeadVerified, NoteFits
  <2> QED
    BY <1>2, <1>3, <2>1, NotifierWaitsFits
<1>7. CASE NotifierFindsNote(n) \/ NotifierConfirmed(n)
  <2>1. NotifierSucceeds(n) /\ FailurePosted(r) /\ UNCHANGED <<publishers, remote, late>>
    BY <1>2, <1>3, <1>4, <1>7 DEF NotifierFindsNote, NotifierConfirmed, NoteFits, FailurePosted
  <2> QED
    BY <1>2, <1>3, <2>1, NotifierSucceedsFits
<1>8. CASE NotifierFindsNone(n)
  <2>1. UNCHANGED <<publishers, remote, late>> /\ notifiers[n].pc = "find"
    BY <1>8 DEF NotifierFindsNone
  <2>2. CASE NotifierGivesUp(n, FALSE)
    BY <1>2, <1>3, <2>1, <2>2, NotifierGivesUpFits
  <2>3. CASE ~notifiers[n].posted /\ NotifierWaits(n, "check") /\ UNCHANGED storeVars
    BY <1>2, <1>3, <2>1, <2>3, NotifierWaitsFits DEF MayPost
  <2> QED
    BY <1>8, <2>2, <2>3 DEF NotifierFindsNone
<1>9. CASE NotifierBlocked(n)
  BY <1>2, <1>3, <1>9, NotifierGivesUpFits DEF NotifierBlocked
<1>10. CASE NotifierHeadChanged(n)
  BY <1>10, NotifierHeadChangedFits
<1>11. CASE NotifierSends(n)
  BY <1>11, NotifierSendsFits
<1>12. CASE NotifierRefused(n)
  <2>1. NotifierGivesUp(n, TRUE) /\ UNCHANGED <<publishers, remote, late>> /\ NoteSending(n, r)
    BY <1>3, <1>12 DEF NotifierRefused, NoteSending
  <2> QED
    BY <1>2, <1>3, <2>1, NotifierGivesUpFits
<1>13. CASE NotifierUnconfirmed(n)
  <2>1. /\ NotifierGivesUp(n, FALSE) /\ UNCHANGED <<publishers, remote>> /\ notifiers[n].pc = "sent"
        /\ late' = GivenUp(NotifierRequest(n), notifiers[n].landed)
    BY <1>13 DEF NotifierUnconfirmed
  <2> QED
    BY <1>2, <1>3, <2>1, NotifierGivesUpFits
<1> QED
  BY <1>5, <1>6, <1>7, <1>8, <1>9, <1>10, <1>11, <1>12, <1>13 DEF NotifierStep

(***************************************************************************)
(* Every step                                                              *)
(***************************************************************************)

LEMMA AttemptStepFits ==
  ASSUME OInv, NEW r \in RunId, AttemptStep(r)
  PROVE  OutcomeFits' /\ Advances
<1>1. CASE CalmEnd /\ CallsKept
  BY <1>1, CalmStep
<1>2. CASE \E payload \in Payload, p \in PublicationClaim : RuntimeOutput(p, r, payload)
  BY <1>2, PublisherClaimsFits DEF RuntimeOutput
<1>3. CASE \E payload \in Payload, n \in NoteClaim : ReportFailure(n, r, payload)
  BY <1>3, NotifierClaimsFits DEF ReportFailure
<1> QED
  BY <1>1, <1>2, <1>3, AttemptStepCalm

LEMMA RecoverNotificationFits ==
  ASSUME OInv, NEW n \in NoteClaim, NEW r \in RunId, RecoverNotification(n, r)
  PROVE  OutcomeFits' /\ Advances
<1>1. store.runs[r].notePayload \in Payload \cup {NoPayload}
  BY StoreFields DEF OInv, IInv, Stored, Run
<1> QED
  BY <1>1, NotifierClaimsFits DEF RecoverNotification

(* No step but a restart undoes what is final, and a restart loads what    *)
(* agrees with what was in memory.                                         *)
LEMMA NextOutcome ==
  ASSUME OInv, [Next]_vars
  PROVE  /\ OutcomeFits'
         /\ \/ Advances
            \/ /\ crashes' # crashes
               /\ \A x \in RunId : Agree(store.runs[x], store'.runs[x])
<1>1. CASE Management
  <2>1. CASE \E r \in RunId : Retry(r) \/ ManagementPublishInvalid(r)
    BY <2>1, RetryFits, PublishInvalidFits
  <2>2. CASE \E r \in RunId, p \in PublicationClaim, payload \in Payload : ManagementPublish(p, r, payload)
    BY <2>2, PublisherClaimsFits DEF ManagementPublish
  <2>3. CASE \E r \in RunId, n \in NoteClaim : RecoverNotification(n, r)
    BY <2>3, RecoverNotificationFits
  <2> QED
    BY <1>1, <2>1, <2>2, <2>3 DEF Management
<1>2. CASE Environment
  <2>1. CASE \E t \in Trigger : Deliver(t)
    BY <2>1, DeliverFits
  <2>2. CASE \E r \in RunId : LeaseExpires(r) \/ GitLabTakesBlocked(r)
    BY <2>2, LeaseExpiresFits, TakesBlockedFits
  <2>3. CASE \E p \in PublicationClaim : GitLabTakesResult(p)
    BY <2>3, TakesResultFits
  <2>4. CASE \E n \in NoteClaim : GitLabTakesNote(n)
    BY <2>4, TakesNoteFits
  <2>5. CASE \E q \in late : LateArrival(q)
    BY <2>5, LateArrivalFits
  <2>6. CASE Crash
    <3>0. crashes \in Int
      BY EnvironmentAssumption DEF OInv, IInv, Restarting
    <3>1. crashes' = crashes + 1
      BY <2>6, Zenon DEF Crash
    <3>2. crashes' # crashes
      BY <3>0, <3>1
    <3> QED
      BY <2>6, <3>2, CrashFits
  <2> QED
    BY <1>2, <2>1, <2>2, <2>3, <2>4, <2>5, <2>6 DEF Environment
<1>3. CASE Server
  BY <1>3, AttemptStepFits, PublisherStepFits, NotifierStepFits DEF Server
<1>4. CASE UNCHANGED vars
  <2>1. CallsKept /\ UNCHANGED storeVars
    BY <1>4 DEF vars, CallsKept, storeVars
  <2>2. CalmEnd
    BY <2>1, SavesEndWith, CalmToTransitive DEF CalmEnd
  <2> QED
    BY <2>1, <2>2, CalmStep
<1> QED
  BY <1>1, <1>2, <1>3, <1>4 DEF Next

(* Nothing is out when the server starts for the first time.               *)
LEMMA InitOutcome == Init => OutcomeFits
<1> SUFFICES ASSUME Init PROVE OutcomeFits
  OBVIOUS
<1>1. /\ store = EmptyStore /\ disk = DiskOf(EmptyStore) /\ late = {}
      /\ \A p \in PublicationClaim : publishers[p].pc = "idle"
      /\ \A n \in NoteClaim : notifiers[n].pc = "idle"
      /\ \A r \in RunId : remote[r] = NothingPosted
  BY DEF Init, IdlePublisher, IdleNotifier
<1>2. DiskAgrees
  BY <1>1, AgreeIsEquivalence DEF DiskAgrees, DiskOf
<1>3. ASSUME NEW r \in RunId PROVE RunFits(r) /\ OneNote(r)
  <2>1. store.runs[r] = NoRun /\ store.sequence = 0
    BY <1>1 DEF EmptyStore
  <2>2. Gone(store.runs[r]) /\ store.runs[r].done = {}
    BY <2>1 DEF Gone, NoRun
  <2>3. remote[r].payloads = {} /\ \A c \in Comment : remote[r].count[c] = 0
    BY <1>1 DEF NothingPosted
  <2>4. Visible(r) = {} /\ remote[r].count[FailureNote] = 0
    BY <2>3, CommentsDiffer DEF Visible
  <2>5. Results(r) = {}
    BY <1>1, <2>3 DEF Results, Sending
  <2>6. ~NoteOut(r)
    BY <1>1, <2>4 DEF NoteOut, FailurePosted, NoteSending
  <2>7. RunFits(r)
    BY <2>2, <2>4, <2>5, <2>6 DEF RunFits, Gone
  <2>8. OneNote(r)
    BY <1>1, <2>4 DEF OneNote, FailurePosted, NoteSending
  <2> QED
    BY <2>7, <2>8
<1>4. /\ \A p \in PublicationClaim, r \in RunId : PubFits(p, r)
      /\ \A n \in NoteClaim, r \in RunId : NoteFits(n, r)
  BY <1>1 DEF PubFits, NoteFits, Publishes, Notifies
<1> QED
  BY <1>2, <1>3, <1>4 DEF OutcomeFits

(***************************************************************************)
(* The theorems                                                            *)
(***************************************************************************)

(* Whatever the calls, the requests, the failing saves and the restarts do *)
(* to each other, the record of every run tells of all that is out of it.  *)
THEOREM OutcomeInvariance == Spec => []OInv
<1>1. Init => OInv
  BY InitSound, InitOutcome DEF OInv
<1>2. OInv /\ [Next]_vars => OInv'
  <2> SUFFICES ASSUME OInv, [Next]_vars PROVE OInv'
    OBVIOUS
  <2>1. IInv'
    BY NextSound DEF OInv
  <2>2. OutcomeFits'
    BY NextOutcome
  <2> QED
    BY <2>1, <2>2 DEF OInv
<1> QED
  BY <1>1, <1>2, PTL DEF Spec

(* A merge request never shows both the result of a run and a note that    *)
(* the run failed: what the two claims exclude in the record stays         *)
(* excluded on GitLab, though requests arrive long after the call that     *)
(* sent them gave up, or after a restart.                                  *)
THEOREM OutcomeIsExclusive == Spec => []ExclusiveOutcome
<1>1. ASSUME OInv, NEW r \in RunId PROVE ~(Visible(r) # {} /\ FailurePosted(r))
  <2>1. RunFits(r)
    BY <1>1 DEF OInv, OutcomeFits
  <2>2. Visible(r) # {} => Results(r) # {}
    BY <2>1 DEF RunFits, Results
  <2>3. FailurePosted(r) => NoteOut(r)
    BY DEF NoteOut
  <2> QED
    BY <2>1, <2>2, <2>3 DEF RunFits
<1>2. OInv => ExclusiveOutcome
  BY <1>1 DEF ExclusiveOutcome
<1> QED
  BY <1>2, OutcomeInvariance, PTL

(* reportGitLabReviewRunFailure posts the note of a run at most once: not  *)
(* after a lost answer, not by a recovery, not by a request of a call that *)
(* was given up.                                                           *)
THEOREM FailureIsToldOnce == Spec => []FailureNoteAtMostOnce
<1>1. OInv => FailureNoteAtMostOnce
  BY DEF OInv, OutcomeFits, OneNote, FailureNoteAtMostOnce
<1> QED
  BY <1>1, OutcomeInvariance, PTL

(* Two results are never mixed under one run: a publication is resumed     *)
(* with the payload the record keeps, and no other result of the run is    *)
(* posted once a request with this one is out.                             *)
THEOREM OneResultPosted == Spec => []OnePayload
<1>1. ASSUME OInv, NEW r \in RunId PROVE Cardinality(remote[r].payloads) <= 1
  <2>1. \A a, b \in remote[r].payloads : a = b
    BY <1>1 DEF OInv, OutcomeFits, RunFits, Results
  <2>2. CASE remote[r].payloads = {}
    BY <2>2, FS_EmptySet
  <2>3. CASE remote[r].payloads # {}
    <3>1. PICK a : a \in remote[r].payloads
      BY <2>3
    <3>2. remote[r].payloads = {a}
      BY <2>1, <3>1
    <3>3. Cardinality({a}) = 1
      BY FS_Singleton
    <3> QED
      BY <3>2, <3>3
  <2> QED
    BY <2>2, <2>3
<1>2. OInv => OnePayload
  BY <1>1 DEF OnePayload
<1> QED
  BY <1>2, OutcomeInvariance, PTL

(* The markers that recordPublicationPosted saves, in memory and in the    *)
(* file, are comments GitLab has, and a run is "published" only when every *)
(* finding of its result is reported.                                      *)
THEOREM PublishedIsPosted == Spec => []PublishedMeansPosted
<1>1. ASSUME OInv, NEW r \in RunId
      PROVE  /\ store.runs[r].done \cup disk.runs[r].done \subseteq Visible(r)
             /\ "published" \in {store.runs[r].pub, disk.runs[r].pub} => PublicationComplete(Visible(r))
  <2>1. RunFits(r) /\ Agree(store.runs[r], disk.runs[r])
    BY <1>1 DEF OInv, OutcomeFits, DiskAgrees
  <2> QED
    BY <2>1 DEF RunFits, Agree, SameVoice
<1>2. OInv => PublishedMeansPosted
  BY <1>1 DEF PublishedMeansPosted
<1> QED
  BY <1>2, OutcomeInvariance, PTL

(* No step but a restart moves a run out of a terminal status, except that *)
(* a failed run is published later, or is rejected by policy.              *)
THEOREM TerminalStays == Spec => TerminalIsFinal
<1> DEFINE Stays ==
      \A r \in RunId :
        LET run == store.runs[r]
            next == store'.runs[r]
        IN  /\ run.status \in TerminalStatus
            /\ next.status \notin {run.status, "absent"}
            /\ crashes' = crashes
            => /\ run.status = "failed"
               /\ next.pub = "published" \/ (next.status = "rejected" /\ next.reason = "policy")
<1>1. OInv /\ [Next]_vars => [Stays]_vars
  <2> SUFFICES ASSUME OInv, [Next]_vars PROVE Stays
    OBVIOUS
  <2>1. CASE Advances
    BY <2>1 DEF Advances, Final
  <2>2. CASE crashes' # crashes
    BY <2>2
  <2> QED
    BY <2>1, <2>2, NextOutcome
<1> QED
  BY <1>1, OutcomeInvariance, PTL DEF Spec, TerminalIsFinal

(* A published run keeps its status and what was posted until it is        *)
(* pruned, a restart included: the file agrees with memory on it.          *)
THEOREM PublishedStays == Spec => PublishedIsFinal
<1> DEFINE Stays ==
      \A r \in RunId : store.runs[r].pub = "published" =>
        LET next == store'.runs[r]
        IN  \/ next.status = "absent"
            \/ /\ next.pub = "published" /\ next.status = store.runs[r].status
               /\ next.done = store.runs[r].done
<1>1. OInv /\ [Next]_vars => [Stays]_vars
  <2> SUFFICES ASSUME OInv, [Next]_vars PROVE Stays
    OBVIOUS
  <2>1. CASE Advances
    BY <2>1 DEF Advances, Final
  <2>2. CASE \A x \in RunId : Agree(store.runs[x], store'.runs[x])
    BY <2>2 DEF Agree, SameVoice
  <2> QED
    BY <2>1, <2>2, NextOutcome
<1> QED
  BY <1>1, OutcomeInvariance, PTL DEF Spec, PublishedIsFinal

=============================================================================
