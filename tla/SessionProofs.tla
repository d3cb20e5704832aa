--------------------------- MODULE SessionProofs ---------------------------
(***************************************************************************)
(* What the components of a session keep, for any number of calls: the     *)
(* permission requests (PermissionRequests), the turns (SessionTurn), the  *)
(* messages of a chat (FeishuSessions), the buffer of a stream             *)
(* (PartUpdateBuffer) and the reply in a chat (FeishuReply).               *)
(***************************************************************************)
EXTENDS SessionTurn, PermissionRequests, FeishuSessions, FeishuReply,
        PartUpdateBuffer, SequenceTheorems, FiniteSetTheorems, TLAPS

-----------------------------------------------------------------------------
(* Permission requests.  The events of a request tell how far it came (Course), and a reply "always" that is under way
   names a request that it took off the list and announced (ReplyCourse). *)
AskTypes == [pc : {"none", "evaluating", "pending", "allowed", "denied", "rejected", "cancelled"},
             seen : SUBSET Patterns, aborted : BOOLEAN]

ReplyTypes == [pc : {"none", "granting", "granted", "cascading", "done"}, to : Asks \cup {"none"}, seen : SUBSET Patterns]

AskRecords ==
  /\ ask \in [Asks -> AskTypes]
  /\ pending \subseteq Asks
  /\ reply \in [Replies -> ReplyTypes]
  /\ grants \in [AskSessions -> SUBSET Patterns]
  /\ DOMAIN events = Asks

Course(r) ==
  /\ ask[r].pc \in {"none", "evaluating", "denied"} => r \notin pending /\ events[r] = <<>>
  /\ ask[r].pc = "pending" =>
       \/ r \in pending /\ events[r] = <<"asked">>
       \/ r \notin pending /\ events[r] = <<"asked", "always">>
  /\ ask[r].pc = "allowed" => r \notin pending /\ events[r] \in {<<>>, <<"asked", "once">>, <<"asked", "always">>}
  /\ ask[r].pc = "rejected" => r \notin pending /\ events[r] = <<"asked", "rejected">>
  /\ ask[r].pc = "cancelled" =>
       r \notin pending /\ events[r] \in {<<"asked", "cancelled">>, <<"asked", "always", "cancelled">>}
  /\ ask[r].seen \subseteq grants[AskedIn[r]]

ReplyCourse(p) ==
  /\ reply[p].pc \in {"granting", "granted", "cascading"} =>
       reply[p].to \in Asks /\ events[reply[p].to] \in {<<"asked", "always">>, <<"asked", "always", "cancelled">>}
  /\ reply[p].pc = "cascading" => reply[p].seen \subseteq grants[AskedIn[reply[p].to]]

AskInv == AskRecords /\ (\A r \in Asks : Course(r)) /\ (\A p \in Replies : ReplyCourse(p))

LEMMA AppendToOne ==
  ASSUME NEW S, NEW a \in S, NEW b \in S
  PROVE  Append(<<a>>, b) = <<a, b>>
<1>1. <<a>> \in Seq(S) /\ <<a, b>> \in Seq(S) /\ Len(<<a>>) = 1 /\ Len(<<a, b>>) = 2
  OBVIOUS
<1>2. Append(<<a>>, b) \in Seq(S) /\ Len(Append(<<a>>, b)) = 2
  BY <1>1, AppendProperties
<1>3. Append(<<a>>, b)[1] = a /\ Append(<<a>>, b)[2] = b
  BY <1>1, AppendProperties
<1>4. \A i \in 1..Len(Append(<<a>>, b)) : Append(<<a>>, b)[i] = <<a, b>>[i]
  <2> TAKE i \in 1..Len(Append(<<a>>, b))
  <2>1. i = 1 \/ i = 2
    BY <1>2
  <2> QED BY <1>3, <2>1
<1>5. Len(Append(<<a>>, b)) = Len(<<a, b>>)
  BY <1>1, <1>2
<1> QED BY <1>1, <1>2, <1>4, <1>5, SeqEqual

LEMMA AppendToTwo ==
  ASSUME NEW S, NEW a \in S, NEW b \in S, NEW c \in S
  PROVE  Append(<<a, b>>, c) = <<a, b, c>>
<1>1. <<a, b>> \in Seq(S) /\ <<a, b, c>> \in Seq(S) /\ Len(<<a, b>>) = 2 /\ Len(<<a, b, c>>) = 3
  OBVIOUS
<1>2. Append(<<a, b>>, c) \in Seq(S) /\ Len(Append(<<a, b>>, c)) = 3
  BY <1>1, AppendProperties
<1>3. Append(<<a, b>>, c)[1] = a /\ Append(<<a, b>>, c)[2] = b /\ Append(<<a, b>>, c)[3] = c
  BY <1>1, AppendProperties
<1>4. \A i \in 1..Len(Append(<<a, b>>, c)) : Append(<<a, b>>, c)[i] = <<a, b, c>>[i]
  <2> TAKE i \in 1..Len(Append(<<a, b>>, c))
  <2>1. i = 1 \/ i = 2 \/ i = 3
    BY <1>2
  <2> QED BY <1>3, <2>1
<1>5. Len(Append(<<a, b>>, c)) = Len(<<a, b, c>>)
  BY <1>1, <1>2
<1> QED BY <1>1, <1>2, <1>4, <1>5, SeqEqual

LEMMA EventSequences ==
  /\ Append(<<>>, "asked") = <<"asked">>
  /\ Append(<<"asked">>, "once") = <<"asked", "once">>
  /\ Append(<<"asked">>, "always") = <<"asked", "always">>
  /\ Append(<<"asked">>, "rejected") = <<"asked", "rejected">>
  /\ Append(<<"asked">>, "cancelled") = <<"asked", "cancelled">>
  /\ Append(<<"asked", "always">>, "cancelled") = <<"asked", "always", "cancelled">>
  /\ <<>> \o <<"asked", "cancelled">> = <<"asked", "cancelled">>
  /\ <<"asked">> \notin {<<"asked", "always">>, <<"asked", "always", "cancelled">>}
<1>1. Append(<<>>, "asked") = <<"asked">>
  OBVIOUS
<1> DEFINE Events == {"asked", "once", "always", "rejected", "cancelled"}
<1>2. /\ "asked" \in Events /\ "once" \in Events /\ "always" \in Events /\ "rejected" \in Events
      /\ "cancelled" \in Events
  OBVIOUS
<1> HIDE DEF Events
<1>3. /\ Append(<<"asked">>, "once") = <<"asked", "once">>
      /\ Append(<<"asked">>, "always") = <<"asked", "always">>
      /\ Append(<<"asked">>, "rejected") = <<"asked", "rejected">>
      /\ Append(<<"asked">>, "cancelled") = <<"asked", "cancelled">>
  BY <1>2, AppendToOne, Zenon
<1>4. Append(<<"asked", "always">>, "cancelled") = <<"asked", "always", "cancelled">>
  BY <1>2, AppendToTwo, Zenon
<1>5. <<>> \o <<"asked", "cancelled">> = <<"asked", "cancelled">>
  OBVIOUS
<1>6. <<"asked">> \notin {<<"asked", "always">>, <<"asked", "always", "cancelled">>}
  <2>1. /\ Len(<<"asked">>) = 1 /\ Len(<<"asked", "always">>) = 2
        /\ Len(<<"asked", "always", "cancelled">>) = 3
    OBVIOUS
  <2> QED BY <2>1
<1> QED BY <1>1, <1>3, <1>4, <1>5, <1>6

(* What the updates of a request, and of a reply, make of the records. *)
LEMMA AskUpdate ==
  ASSUME ask \in [Asks -> AskTypes], NEW r \in Asks, NEW b \in BOOLEAN,
         NEW c \in {"pending", "allowed", "denied", "cancelled"},
         \/ ask' = [ask EXCEPT ![r].pc = c]
         \/ ask' = [ask EXCEPT ![r].pc = c, ![r].aborted = b]
  PROVE  /\ ask' \in [Asks -> AskTypes] /\ ask'[r].pc = c /\ ask'[r].seen = ask[r].seen
         /\ \A q \in Asks \ {r} : ask'[q] = ask[q]
BY DEF AskTypes

LEMMA ReplyUpdate ==
  ASSUME reply \in [Replies -> ReplyTypes], NEW p \in Replies, NEW to \in Asks \cup {"none"}, NEW seen \in SUBSET Patterns,
         NEW c \in {"granting", "granted", "cascading", "done"},
         \/ to = reply[p].to /\ seen = reply[p].seen /\ reply' = [reply EXCEPT ![p].pc = c]
         \/ seen = reply[p].seen /\ reply' = [reply EXCEPT ![p].pc = c, ![p].to = to]
         \/ to = reply[p].to /\ reply' = [reply EXCEPT ![p].pc = c, ![p].seen = seen]
  PROVE  /\ reply' \in [Replies -> ReplyTypes] /\ reply'[p].pc = c /\ reply'[p].to = to /\ reply'[p].seen = seen
         /\ \A o \in Replies \ {p} : reply'[o] = reply[o]
BY DEF ReplyTypes

LEMMA AskFacts ==
  ASSUME AskInv
  PROVE  /\ AskRecords
         /\ \A r \in Asks : Course(r) /\ ask[r].pc \in
              {"none", "evaluating", "pending", "allowed", "denied", "rejected", "cancelled"}
         /\ \A p \in Replies : ReplyCourse(p)
         /\ \A r \in pending : r \in Asks /\ ask[r].pc = "pending" /\ events[r] = <<"asked">>
         /\ \A r \in Asks : AskedIn[r] \in AskSessions /\ Granted(AskedIn[r]) \subseteq grants[AskedIn[r]]
                            /\ Granted(AskedIn[r]) \subseteq Patterns
<1>1. AskRecords /\ (\A r \in Asks : Course(r)) /\ (\A p \in Replies : ReplyCourse(p))
  BY DEF AskInv
<1>2. \A r \in Asks : ask[r].pc \in {"none", "evaluating", "pending", "allowed", "denied", "rejected", "cancelled"}
  BY <1>1 DEF AskRecords, AskTypes
<1>3. ASSUME NEW r \in pending PROVE r \in Asks /\ ask[r].pc = "pending" /\ events[r] = <<"asked">>
  <2>1. r \in Asks
    BY <1>1 DEF AskRecords
  <2> QED BY <1>1, <1>2, <2>1 DEF Course
<1>4. ASSUME NEW r \in Asks
      PROVE  AskedIn[r] \in AskSessions /\ Granted(AskedIn[r]) \subseteq grants[AskedIn[r]]
             /\ Granted(AskedIn[r]) \subseteq Patterns
  BY <1>1, PermissionAssumption DEF AskRecords, Granted
<1> QED BY <1>1, <1>2, <1>3, <1>4

(* A step of one request. *)
LEMMA OneRequestStep ==
  ASSUME AskInv, NEW r \in Asks, AskRecords', Course(r)', reply' = reply, grants' = grants,
         \A q \in Asks \ {r} : ask'[q] = ask[q] /\ events'[q] = events[q] /\ (q \in pending' <=> q \in pending),
         events[r] \in {<<"asked", "always">>, <<"asked", "always", "cancelled">>} =>
           events'[r] \in {<<"asked", "always">>, <<"asked", "always", "cancelled">>}
  PROVE  AskInv'
<1>1. ASSUME NEW q \in Asks \ {r} PROVE Course(q)'
  BY AskFacts DEF Course
<1>2. ASSUME NEW p \in Replies PROVE ReplyCourse(p)'
  BY AskFacts DEF ReplyCourse
<1> QED BY <1>1, <1>2 DEF AskInv

LEMMA AskStep ==
  ASSUME AskInv, NEW r \in Asks, Ask(r)
  PROVE  AskInv'
<1>1. /\ ask[r].pc = "none" /\ UNCHANGED <<pending, reply, grants, events>>
      /\ ask' = [ask EXCEPT ![r].pc = "evaluating", ![r].seen = Granted(AskedIn[r])]
  BY DEF Ask
<1>2. ask \in [Asks -> AskTypes] /\ Granted(AskedIn[r]) \in SUBSET Patterns
  BY AskFacts DEF AskRecords
<1>3. /\ ask' \in [Asks -> AskTypes] /\ ask'[r].pc = "evaluating" /\ ask'[r].seen = Granted(AskedIn[r])
      /\ \A q \in Asks \ {r} : ask'[q] = ask[q]
  BY <1>1, <1>2 DEF AskTypes
<1>4. AskRecords'
  BY <1>1, <1>3, AskFacts DEF AskRecords
<1>5. Course(r)'
  BY <1>1, <1>3, AskFacts DEF Course
<1> QED BY <1>1, <1>3, <1>4, <1>5, OneRequestStep

LEMMA EvaluateStep ==
  ASSUME AskInv, NEW r \in Asks, Evaluate(r)
  PROVE  AskInv'
<1>1. /\ ask[r].pc = "evaluating" /\ reply' = reply /\ grants' = grants
      /\ r \notin pending /\ events[r] = <<>>
  BY AskFacts DEF Evaluate, Course
<1>2. PICK outcome \in {"denied", "allowed", "pending", "cancelled"} :
        /\ ask' = [ask EXCEPT ![r].pc = outcome]
        /\ \/ outcome \in {"denied", "allowed"} /\ pending' = pending /\ events' = events
           \/ outcome = "pending" /\ pending' = pending \cup {r} /\ events' = [events EXCEPT ![r] = <<"asked">>]
           \/ outcome = "cancelled" /\ pending' = pending /\ events' = [events EXCEPT ![r] = <<"asked", "cancelled">>]
  <2>1. CASE Verdict(r, ask[r].seen) # "ask"
    BY <2>1 DEF Evaluate
  <2>2. CASE Verdict(r, ask[r].seen) = "ask" /\ ~ask[r].aborted
    BY <1>1, <2>2, EventSequences DEF Evaluate, Publish
  <2>3. CASE Verdict(r, ask[r].seen) = "ask" /\ ask[r].aborted
    <3>1. events' = [events EXCEPT ![r] = events[r] \o <<"asked", "cancelled">>]
      BY <2>3 DEF Evaluate
    <3> QED BY <1>1, <2>3, <3>1, EventSequences DEF Evaluate
  <2> QED BY <2>1, <2>2, <2>3, AskFacts DEF AskRecords
<1>3. /\ ask' \in [Asks -> AskTypes] /\ ask'[r].pc = outcome /\ ask'[r].seen = ask[r].seen
      /\ \A q \in Asks \ {r} : ask'[q] = ask[q]
  BY <1>2, AskFacts, AskUpdate DEF AskRecords
<1>4. AskRecords'
  BY <1>1, <1>2, <1>3, AskFacts DEF AskRecords
<1>5. \A q \in Asks \ {r} : events'[q] = events[q] /\ (q \in pending' <=> q \in pending)
  BY <1>2, AskFacts DEF AskRecords
<1>6. Course(r)'
  BY <1>1, <1>2, <1>3, AskFacts DEF Course, AskRecords
<1> QED BY <1>1, <1>3, <1>4, <1>5, <1>6, EventSequences, OneRequestStep

(* The request is cancelled, by its signal or its timer. *)
LEMMA CancelStep ==
  ASSUME AskInv, NEW r \in Asks, ask[r].pc = "pending", Cancel(r), reply' = reply, grants' = grants,
         ask' \in [Asks -> AskTypes], ask'[r].pc = "cancelled", ask'[r].seen = ask[r].seen,
         \A q \in Asks \ {r} : ask'[q] = ask[q]
  PROVE  AskInv'
<1>1. events[r] \in {<<"asked">>, <<"asked", "always">>}
  BY AskFacts DEF Course
<1>2. /\ pending' = pending \ {r} /\ events' = [events EXCEPT ![r] = Append(events[r], "cancelled")]
  BY DEF Cancel, PendingAfterCancel, Publish
<1>3. /\ events'[r] = Append(events[r], "cancelled")
      /\ \A q \in Asks \ {r} : events'[q] = events[q] /\ (q \in pending' <=> q \in pending)
  BY <1>2, AskFacts DEF AskRecords
<1>4. AskRecords'
  BY <1>2, AskFacts DEF AskRecords
<1>5. events'[r] \in {<<"asked", "cancelled">>, <<"asked", "always", "cancelled">>}
  BY <1>1, <1>3, EventSequences
<1>6. events[r] \in {<<"asked", "always">>, <<"asked", "always", "cancelled">>} =>
        events'[r] \in {<<"asked", "always">>, <<"asked", "always", "cancelled">>}
  BY <1>1, <1>3, EventSequences
<1>7. Course(r)'
  BY <1>2, <1>3, <1>5, AskFacts DEF Course
<1> QED BY <1>3, <1>4, <1>6, <1>7, OneRequestStep

LEMMA AbortStep ==
  ASSUME AskInv, NEW r \in Asks, Abort(r) \/ TimeOut(r)
  PROVE  AskInv'
<1>1. reply' = reply /\ grants' = grants
  BY DEF Abort, TimeOut
<1>2. ask \in [Asks -> AskTypes]
  BY AskFacts DEF AskRecords
<1>3. CASE (Abort(r) /\ Unsettled(r)) \/ TimeOut(r)
  <2>1. /\ Cancel(r) /\ ask[r].pc = "pending"
        /\ \/ ask' = [ask EXCEPT ![r].pc = "cancelled"]
           \/ ask' = [ask EXCEPT ![r].pc = "cancelled", ![r].aborted = TRUE]
    BY <1>3 DEF Abort, TimeOut, Expires, Unsettled
  <2>2. /\ ask' \in [Asks -> AskTypes] /\ ask'[r].pc = "cancelled" /\ ask'[r].seen = ask[r].seen
        /\ \A q \in Asks \ {r} : ask'[q] = ask[q]
    BY <1>2, <2>1, AskUpdate
  <2> QED BY <1>1, <2>1, <2>2, CancelStep
<1>4. CASE Abort(r) /\ ~Unsettled(r)
  <2>1. ask' = [ask EXCEPT ![r].aborted = TRUE] /\ pending' = pending /\ events' = events
    BY <1>4 DEF Abort
  <2>2. /\ ask' \in [Asks -> AskTypes] /\ ask'[r].pc = ask[r].pc /\ ask'[r].seen = ask[r].seen
        /\ \A q \in Asks \ {r} : ask'[q] = ask[q]
    BY <1>2, <2>1 DEF AskTypes
  <2>3. AskRecords'
    BY <1>1, <2>1, <2>2, AskFacts DEF AskRecords
  <2>4. Course(r)'
    BY <1>1, <2>1, <2>2, AskFacts DEF Course
  <2> QED BY <1>1, <2>1, <2>2, <2>3, <2>4, OneRequestStep
<1> QED BY <1>3, <1>4

-----------------------------------------------------------------------------
(* A set of pending requests is settled, and the reply that did it is over. *)
LEMMA SettlementStep ==
  ASSUME AskInv, NEW rs \in SUBSET pending, NEW outcome, NEW event,
         \/ outcome = "rejected" /\ event = "rejected"
         \/ outcome = "allowed" /\ event \in {"once", "always"},
         pending' = pending \ rs, ask' = Settled(rs, outcome), events' = Announced(rs, event), grants' = grants,
         reply' \in [Replies -> ReplyTypes],
         \A p \in Replies : reply'[p] = reply[p] \/ reply'[p].pc = "done"
  PROVE  AskInv'
<1>1. ASSUME NEW r \in Asks
      PROVE  /\ r \in rs => /\ ask'[r].pc = outcome /\ ask'[r].seen = ask[r].seen
                            /\ events'[r] = Append(<<"asked">>, event)
             /\ r \notin rs => ask'[r] = ask[r] /\ events'[r] = events[r]
  BY AskFacts DEF Settled, Announced, Publish, Unsettled, AskRecords, AskTypes
<1>2. ASSUME NEW r \in Asks PROVE Course(r)'
  <2>1. CASE r \in rs
    BY <1>1, <2>1, AskFacts, EventSequences DEF Course
  <2>2. CASE r \notin rs
    BY <1>1, <2>2, AskFacts DEF Course
  <2> QED BY <2>1, <2>2
<1>3. ASSUME NEW p \in Replies PROVE ReplyCourse(p)'
  <2>1. CASE reply'[p].pc = "done"
    BY <2>1 DEF ReplyCourse
  <2>2. CASE reply'[p] = reply[p]
    <3>1. reply[p].pc \in {"granting", "granted", "cascading"} => reply[p].to \in Asks /\ reply[p].to \notin rs
      BY AskFacts, EventSequences DEF ReplyCourse
    <3> QED BY <1>1, <2>2, <3>1, AskFacts DEF ReplyCourse
  <2> QED BY <2>1, <2>2
<1>4. AskRecords'
  <2>1. ask' \in [Asks -> AskTypes]
    BY AskFacts DEF Settled, AskRecords, AskTypes
  <2> QED BY <2>1, AskFacts DEF AskRecords, Announced
<1> QED BY <1>2, <1>3, <1>4 DEF AskInv

LEMMA ReplyEnds ==
  ASSUME AskInv, NEW p \in Replies, NEW r \in Asks, reply' = [reply EXCEPT ![p].pc = "done", ![p].to = r]
  PROVE  reply' \in [Replies -> ReplyTypes] /\ \A o \in Replies : reply'[o] = reply[o] \/ reply'[o].pc = "done"
<1>1. reply \in [Replies -> ReplyTypes]
  BY AskFacts DEF AskRecords
<1>2. reply[p].seen \in SUBSET Patterns
  BY <1>1 DEF ReplyTypes
<1> QED BY <1>1, <1>2, ReplyUpdate

LEMMA ReplyRejectStep ==
  ASSUME AskInv, NEW p \in Replies, NEW r \in Asks, ReplyReject(p, r)
  PROVE  AskInv'
<1>1. RejectedWith(r) \in SUBSET pending
  BY DEF ReplyReject, Answerable, RejectedWith, SameSession
<1>2. /\ pending' = pending \ RejectedWith(r) /\ ask' = Settled(RejectedWith(r), "rejected")
      /\ events' = Announced(RejectedWith(r), "rejected") /\ grants' = grants
      /\ reply' = [reply EXCEPT ![p].pc = "done", ![p].to = r]
  BY DEF ReplyReject
<1> QED BY <1>1, <1>2, ReplyEnds, SettlementStep

LEMMA ReplyOnceStep ==
  ASSUME AskInv, NEW p \in Replies, NEW r \in Asks, ReplyOnce(p, r)
  PROVE  AskInv'
<1>1. {r} \in SUBSET pending
  BY DEF ReplyOnce, Answerable
<1>2. /\ pending' = pending \ {r} /\ ask' = Settled({r}, "allowed")
      /\ events' = Announced({r}, "once") /\ grants' = grants
      /\ reply' = [reply EXCEPT ![p].pc = "done", ![p].to = r]
  BY DEF ReplyOnce
<1> QED BY <1>1, <1>2, ReplyEnds, SettlementStep

LEMMA CascadeStep ==
  ASSUME AskInv, NEW p \in Replies, Cascade(p)
  PROVE  AskInv'
<1> DEFINE approved == {q \in SameSession(reply[p].to) : NowAllowed(q, reply[p].seen)}
<1>1. approved \in SUBSET pending
  BY DEF SameSession
<1>2. /\ pending' = pending \ approved /\ ask' = Settled(approved, "allowed")
      /\ events' = Announced(approved, "always") /\ grants' = grants
      /\ reply' = [reply EXCEPT ![p].pc = "done"]
  BY DEF Cascade
<1> HIDE DEF approved
<1>3. reply \in [Replies -> ReplyTypes]
  BY AskFacts DEF AskRecords
<1>4. reply' \in [Replies -> ReplyTypes] /\ \A o \in Replies : reply'[o] = reply[o] \/ reply'[o].pc = "done"
  BY <1>2, <1>3 DEF ReplyTypes
<1> QED BY <1>1, <1>2, <1>4, SettlementStep

LEMMA ReplyAlwaysStep ==
  ASSUME AskInv, NEW p \in Replies, NEW r \in Asks, ReplyAlways(p, r)
  PROVE  AskInv'
<1>1. /\ r \in pending /\ pending' = pending \ {r} /\ ask' = ask /\ grants' = grants
      /\ reply' = [reply EXCEPT ![p].pc = IF ProfileSnapshots THEN "granting" ELSE "granted", ![p].to = r]
      /\ events' = Announced({r}, "always")
  BY DEF ReplyAlways, Answerable
<1>2. events'[r] = <<"asked", "always">> /\ \A q \in Asks \ {r} : events'[q] = events[q]
  BY <1>1, AskFacts, EventSequences DEF Announced, Publish
<1>3. /\ reply' \in [Replies -> ReplyTypes] /\ reply'[p].pc \in {"granting", "granted"} /\ reply'[p].to = r
      /\ \A o \in Replies \ {p} : reply'[o] = reply[o]
  <2>1. reply \in [Replies -> ReplyTypes]
    BY AskFacts DEF AskRecords
  <2>2. reply[p].seen \in SUBSET Patterns
    BY <2>1 DEF ReplyTypes
  <2>3. PICK c \in {"granting", "granted"} : reply' = [reply EXCEPT ![p].pc = c, ![p].to = r]
    BY <1>1
  <2> QED BY <2>1, <2>2, <2>3, ReplyUpdate
<1>4. AskRecords'
  BY <1>1, <1>3, AskFacts DEF AskRecords, Announced
<1>5. ASSUME NEW q \in Asks PROVE Course(q)'
  <2>1. CASE q = r
    BY <1>1, <1>2, <2>1, AskFacts DEF Course
  <2>2. CASE q # r
    BY <1>1, <1>2, <2>2, AskFacts DEF Course
  <2> QED BY <2>1, <2>2
<1>6. ASSUME NEW o \in Replies PROVE ReplyCourse(o)'
  <2>1. CASE o = p
    BY <1>2, <1>3, <2>1 DEF ReplyCourse
  <2>2. CASE o # p
    BY <1>1, <1>2, <1>3, <2>2, AskFacts DEF ReplyCourse
  <2> QED BY <2>1, <2>2
<1> QED BY <1>4, <1>5, <1>6 DEF AskInv

LEMMA GrantStep ==
  ASSUME AskInv, NEW p \in Replies, GrantStored(p) \/ GrantFails(p)
  PROVE  AskInv'
<1>1. /\ UNCHANGED <<ask, pending, events>> /\ reply[p].pc = "granting"
      /\ reply' = [reply EXCEPT ![p].pc = "granted"] \/ reply' = [reply EXCEPT ![p].pc = "done"]
  BY DEF GrantStored, GrantFails
<1>2. reply[p].to \in Asks
  BY <1>1, AskFacts DEF ReplyCourse
<1>3. /\ grants' \in [AskSessions -> SUBSET Patterns]
      /\ \A s \in AskSessions : grants[s] \subseteq grants'[s]
  <2>1. AskedIn[reply[p].to] \in AskSessions /\ AlwaysOf[reply[p].to] \subseteq Patterns
    BY <1>2, PermissionAssumption
  <2>2. \/ grants' = [grants EXCEPT ![AskedIn[reply[p].to]] = @ \cup AlwaysOf[reply[p].to]]
        \/ grants' = grants
    BY DEF GrantStored, GrantFails
  <2> QED BY <2>1, <2>2, AskFacts DEF AskRecords
<1>4. /\ reply' \in [Replies -> ReplyTypes] /\ reply'[p].pc \in {"granted", "done"} /\ reply'[p].to = reply[p].to
      /\ \A o \in Replies \ {p} : reply'[o] = reply[o]
  <2>1. reply \in [Replies -> ReplyTypes]
    BY AskFacts DEF AskRecords
  <2> QED BY <1>1, <2>1 DEF ReplyTypes
<1>5. AskRecords'
  BY <1>1, <1>3, <1>4, AskFacts DEF AskRecords
<1>6. ASSUME NEW r \in Asks PROVE Course(r)'
  BY <1>1, <1>3, AskFacts DEF Course
<1>7. ASSUME NEW o \in Replies PROVE ReplyCourse(o)'
  <2>1. CASE o = p
    BY <1>1, <1>4, <2>1, AskFacts DEF ReplyCourse
  <2>2. CASE o # p
    BY <1>1, <1>3, <1>4, <2>2, AskFacts DEF ReplyCourse
  <2> QED BY <2>1, <2>2
<1> QED BY <1>5, <1>6, <1>7 DEF AskInv

LEMMA ResumeStep ==
  ASSUME AskInv, NEW p \in Replies, ResumeAfterGrant(p)
  PROVE  AskInv'
<1> DEFINE r == reply[p].to
<1>1. /\ UNCHANGED <<pending, grants, events>> /\ reply[p].pc = "granted"
      /\ ask' = Settled({r}, "allowed")
      /\ reply' = [reply EXCEPT ![p].pc = "cascading", ![p].seen = Granted(AskedIn[r])]
  BY DEF ResumeAfterGrant
<1>2. r \in Asks /\ events[r] \in {<<"asked", "always">>, <<"asked", "always", "cancelled">>} /\ r \notin pending
  BY <1>1, AskFacts, EventSequences DEF ReplyCourse
<1> HIDE DEF r
<1>3. /\ reply' \in [Replies -> ReplyTypes] /\ reply'[p].pc = "cascading" /\ reply'[p].to = r
      /\ reply'[p].seen = Granted(AskedIn[r]) /\ \A o \in Replies \ {p} : reply'[o] = reply[o]
  <2>1. reply \in [Replies -> ReplyTypes] /\ Granted(AskedIn[r]) \in SUBSET Patterns
    BY <1>2, AskFacts DEF AskRecords
  <2>2. r = reply[p].to
    BY DEF r
  <2>3. \/ r = reply[p].to /\ reply' = [reply EXCEPT ![p].pc = "cascading", ![p].seen = Granted(AskedIn[r])]
    BY <1>1, <2>2
  <2> QED BY <1>2, <2>1, <2>3 DEF ReplyTypes
<1>4. \A q \in Asks : ask'[q] = IF q = r /\ ask[q].pc = "pending" THEN [ask[q] EXCEPT !.pc = "allowed"] ELSE ask[q]
  BY <1>1 DEF Settled, Unsettled
<1>5. AskRecords'
  <2>1. ask' \in [Asks -> AskTypes]
    BY <1>1, AskFacts DEF Settled, AskRecords, AskTypes
  <2> QED BY <1>1, <1>3, <2>1, AskFacts DEF AskRecords
<1>6. ASSUME NEW q \in Asks PROVE Course(q)'
  <2>1. CASE q = r /\ ask[q].pc = "pending"
    <3>1. ask'[q].pc = "allowed" /\ ask'[q].seen = ask[q].seen
      BY <1>4, <2>1, AskFacts DEF AskRecords, AskTypes
    <3>2. events[r] = <<"asked", "always">>
      BY <1>2, <2>1, AskFacts DEF Course
    <3> QED BY <1>1, <1>2, <2>1, <3>1, <3>2, AskFacts DEF Course
  <2>2. CASE ~(q = r /\ ask[q].pc = "pending")
    <3>1. ask'[q] = ask[q]
      BY <1>4, <2>2
    <3> QED BY <1>1, <3>1, AskFacts DEF Course
  <2> QED BY <2>1, <2>2
<1>7. ASSUME NEW o \in Replies PROVE ReplyCourse(o)'
  <2>1. CASE o = p
    BY <1>1, <1>2, <1>3, <2>1, AskFacts DEF ReplyCourse
  <2>2. CASE o # p
    BY <1>1, <1>3, <2>2, AskFacts DEF ReplyCourse
  <2> QED BY <2>1, <2>2
<1> QED BY <1>5, <1>6, <1>7 DEF AskInv

-----------------------------------------------------------------------------
LEMMA AskStart == AskInit => AskInv
<1> SUFFICES ASSUME AskInit PROVE AskInv
  OBVIOUS
<1>1. AskRecords
  BY DEF AskInit, AskRecords, AskTypes, ReplyTypes
<1>2. ASSUME NEW r \in Asks PROVE Course(r)
  BY DEF AskInit, Course
<1>3. ASSUME NEW p \in Replies PROVE ReplyCourse(p)
  BY DEF AskInit, ReplyCourse
<1> QED BY <1>1, <1>2, <1>3 DEF AskInv

LEMMA AskNextStep == AskInv /\ [AskNext]_askVars => AskInv'
<1> SUFFICES ASSUME AskInv, [AskNext]_askVars PROVE AskInv'
  OBVIOUS
<1>1. CASE UNCHANGED askVars
  <2>1. ask' = ask /\ pending' = pending /\ reply' = reply /\ grants' = grants /\ events' = events
    BY <1>1 DEF askVars
  <2> QED BY <2>1 DEF AskInv, AskRecords, Course, ReplyCourse
<1>2. ASSUME NEW r \in Asks, Ask(r) \/ Evaluate(r) \/ Abort(r) \/ TimeOut(r) PROVE AskInv'
  BY <1>2, AskStep, EvaluateStep, AbortStep
<1>3. ASSUME NEW p \in Replies, NEW r \in Asks, ReplyReject(p, r) \/ ReplyOnce(p, r) \/ ReplyAlways(p, r) PROVE AskInv'
  BY <1>3, ReplyRejectStep, ReplyOnceStep, ReplyAlwaysStep
<1>4. ASSUME NEW p \in Replies, ReplyStep(p) PROVE AskInv'
  BY <1>4, GrantStep, ResumeStep, CascadeStep DEF ReplyStep
<1> QED BY <1>1, <1>2, <1>3, <1>4 DEF AskNext

(* The events tell how far every request came, for any number of requests, replies, sessions and patterns: what is in
   the list has only been asked, and a reply "always" under way was announced before its grant was stored. *)
THEOREM AskInvariance == AskSpec => []AskInv
BY AskStart, AskNextStep, PTL DEF AskSpec

LEMMA AlwaysIsAReply ==
  ASSUME NEW r \in Asks, events[r] = <<"asked", "always">>
  PROVE  Replied(r) # {}
<1>1. 2 \in DOMAIN events[r] /\ events[r][2] = "always"
  OBVIOUS
<1> QED BY <1>1 DEF Replied

LEMMA InvariantSettles == AskInv => SettledInTheOpen
<1> SUFFICES ASSUME AskInv PROVE SettledInTheOpen
  OBVIOUS
<1>1. ListIsHonest
  <2>1. \A r \in pending : Unsettled(r)
    BY AskFacts DEF Unsettled
  <2>2. ASSUME NEW r \in Asks, Unsettled(r), r \notin pending PROVE Replied(r) # {}
    BY <2>2, AskFacts, AlwaysIsAReply DEF Unsettled, Course
  <2> QED BY <2>1, <2>2 DEF ListIsHonest
<1>2. OutcomeIsAnnounced
  BY AskFacts DEF Course, OutcomeIsAnnounced
<1> QED BY <1>1, <1>2 DEF SettledInTheOpen

(* SettledInTheOpen: whoever lists the pending requests sees those that wait and no other, and what the caller of ask()
   gets is what was announced, in whatever order aborts, time-outs and replies come. *)
THEOREM RequestsSettle == AskSpec => []SettledInTheOpen
BY InvariantSettles, AskInvariance, PTL

-----------------------------------------------------------------------------
(* What a step does to one request. *)
LEMMA CascadesOnly ==
  ASSUME AskInv, [AskNext]_askVars, NEW p \in Replies, NEW q \in Asks, Cascaded(p, q)
  PROVE  Cascade(p)
<1>1. reply \in [Replies -> ReplyTypes]
  BY AskFacts DEF AskRecords
<1>2. reply[p].pc = "cascading" /\ reply'[p].pc = "done"
  BY DEF Cascaded
<1>3. reply' # reply
  BY <1>2
<1>4. ~(\E r \in Asks : Ask(r) \/ Evaluate(r) \/ Abort(r) \/ TimeOut(r)) /\ ~UNCHANGED askVars
  BY <1>3 DEF Ask, Evaluate, Abort, TimeOut, askVars
<1>5. ASSUME NEW o \in Replies, NEW r \in Asks, ReplyReject(o, r) \/ ReplyOnce(o, r) \/ ReplyAlways(o, r) PROVE FALSE
  <2>1. reply[o].pc = "none"
    BY <1>5 DEF ReplyReject, ReplyOnce, ReplyAlways
  <2>2. o # p
    BY <1>2, <2>1
  <2>3. reply'[p] = reply[p]
    BY <1>1, <1>5, <2>2 DEF ReplyReject, ReplyOnce, ReplyAlways
  <2> QED BY <1>2, <2>3
<1>6. ASSUME NEW o \in Replies, ReplyStep(o) PROVE o = p /\ Cascade(p)
  <2>1. CASE o # p
    <3>1. reply'[p] = reply[p]
      BY <1>1, <1>6, <2>1 DEF ReplyStep, GrantStored, GrantFails, ResumeAfterGrant, Cascade
    <3> QED BY <1>2, <3>1
  <2>2. CASE o = p
    BY <1>2, <1>6, <2>2 DEF ReplyStep, GrantStored, GrantFails, ResumeAfterGrant
  <2> QED BY <2>1, <2>2
<1> QED BY <1>4, <1>5, <1>6 DEF AskNext

LEMMA CascadeIsAllowed ==
  ASSUME AskInv, NEW p \in Replies, NEW q \in Asks, Cascade(p), ask[q].pc = "pending", ask'[q].pc = "allowed"
  PROVE  \A i \in DOMAIN PatternsOf[q] : PatternsOf[q][i] \in grants[AskedIn[q]] \/ Rules[q][PatternsOf[q][i]] = "allow"
<1>1. q \in SameSession(reply[p].to) /\ NowAllowed(q, reply[p].seen)
  BY DEF Cascade, Settled
<1>2. AskedIn[q] = AskedIn[reply[p].to]
  BY <1>1 DEF SameSession
<1>3. reply[p].seen \subseteq grants[AskedIn[q]]
  BY <1>2, AskFacts DEF Cascade, ReplyCourse
<1>4. ask[q].seen \subseteq grants[AskedIn[q]]
  BY AskFacts DEF Course
<1>5. ASSUME NEW i \in DOMAIN PatternsOf[q]
      PROVE  PatternsOf[q][i] \in grants[AskedIn[q]] \/ Rules[q][PatternsOf[q][i]] = "allow"
  <2>1. PatternsOf[q][i] \in ask[q].seen \/ Rule(q, PatternsOf[q][i], reply[p].seen) = "allow"
    BY <1>1 DEF NowAllowed
  <2> QED BY <1>3, <1>4, <2>1 DEF Rule
<1> QED BY <1>5

(* Only a reply that rejects makes a request rejected. *)
LEMMA RejectsOnly ==
  ASSUME AskInv, [AskNext]_askVars, NEW r \in Asks, ask[r].pc # "rejected", ask'[r].pc = "rejected"
  PROVE  \E p \in Replies, to \in Asks : ReplyReject(p, to) /\ r \in RejectedWith(to)
<1>1. ask \in [Asks -> AskTypes]
  BY AskFacts DEF AskRecords
<1>2. ~UNCHANGED askVars
  BY DEF askVars
<1>3. ASSUME NEW q \in Asks, Ask(q) \/ Evaluate(q) \/ Abort(q) \/ TimeOut(q) PROVE FALSE
  BY <1>1, <1>3 DEF Ask, Evaluate, Abort, TimeOut, AskTypes
<1>4. ASSUME NEW p \in Replies, NEW q \in Asks, ReplyOnce(p, q) \/ ReplyAlways(p, q) PROVE FALSE
  BY <1>1, <1>4 DEF ReplyOnce, ReplyAlways, Settled, AskTypes
<1>5. ASSUME NEW p \in Replies, ReplyStep(p) PROVE FALSE
  BY <1>1, <1>5 DEF ReplyStep, GrantStored, GrantFails, ResumeAfterGrant, Cascade, Settled, AskTypes
<1>6. ASSUME NEW p \in Replies, NEW to \in Asks, ReplyReject(p, to) PROVE r \in RejectedWith(to)
  BY <1>6 DEF ReplyReject, Settled
<1> QED BY <1>2, <1>3, <1>4, <1>5, <1>6 DEF AskNext

LEMMA RejectionTakesAll ==
  ASSUME AskInv, NEW p \in Replies, NEW to \in Asks, NEW r \in Asks, NEW q \in Asks,
         ReplyReject(p, to), r \in RejectedWith(to), AskedIn[q] = AskedIn[r]
  PROVE  q \notin pending'
<1>1. AskedIn[r] = AskedIn[to]
  BY DEF RejectedWith, SameSession
<1>2. pending' = pending \ RejectedWith(to)
  BY DEF ReplyReject
<1>3. q \in pending => q \in RejectedWith(to)
  BY <1>1 DEF RejectedWith, SameSession
<1> QED BY <1>2, <1>3

(* ApprovedOnlyIfAllowed: the grants that a cascade judges by were read before an await, and what was read is still
   granted when it approves. *)
THEOREM ApprovalsAreAllowed == AskSpec => ApprovedOnlyIfAllowed
<1>1. ASSUME AskInv, [AskNext]_askVars, NEW p \in Replies, NEW q \in Asks, Cascaded(p, q)
      PROVE  \A i \in DOMAIN PatternsOf[q] : PatternsOf[q][i] \in grants[AskedIn[q]] \/ Rules[q][PatternsOf[q][i]] = "allow"
  <2>1. ask[q].pc = "pending" /\ ask'[q].pc = "allowed"
    BY <1>1 DEF Cascaded
  <2> QED BY <1>1, <2>1, CascadesOnly, CascadeIsAllowed
<1>2. AskInv /\ [AskNext]_askVars =>
        [\A p \in Replies, q \in Asks : Cascaded(p, q) =>
           \A i \in DOMAIN PatternsOf[q] :
             PatternsOf[q][i] \in grants[AskedIn[q]] \/ Rules[q][PatternsOf[q][i]] = "allow"]_askVars
  BY <1>1
<1> QED BY <1>2, AskInvariance, PTL DEF AskSpec, ApprovedOnlyIfAllowed

(* RejectionSticks: a rejection leaves no request of its session in the list. *)
THEOREM RejectionsStick == AskSpec => RejectionSticks
<1>1. AskInv /\ [AskNext]_askVars =>
        [\A r, q \in Asks : ask[r].pc # "rejected" /\ ask'[r].pc = "rejected" /\ AskedIn[q] = AskedIn[r]
                             => q \notin pending']_askVars
  BY RejectsOnly, RejectionTakesAll
<1> QED BY <1>1, AskInvariance, PTL DEF AskSpec, RejectionSticks

(* RepliesAreKept, for any number of requests, replies, sessions and patterns: a cascade approves only what grants or rules
   allow pattern by pattern, and a rejection leaves no request of its session in the list. *)
THEOREM RepliesKept == AskSpec => RepliesAreKept
BY ApprovalsAreAllowed, RejectionsStick DEF RepliesAreKept

-----------------------------------------------------------------------------
(* The turns of a session.  A call that works on a session has its lease (Leases); a message lock is held once, and
   between the look for an old message and the writing of the new one nobody else writes it (Requests); a turn that is
   under way is bound to its session and reported at its end alone, unless it or another turn of the session was started
   between the end of the one and the handler of its error (Reports). *)
CallTypes == [pc : Stages \cup Ended \cup MessageIds, aborted : BOOLEAN, wrote : BOOLEAN, overtook : SUBSET Prompts]

TurnEvents == {"completed", "failed", "cancelled"}

TurnRecords ==
  /\ call \in [Calls -> CallTypes]
  /\ active \in [Sessions -> Calls \cup {Nobody}]
  /\ bound \in [Sessions -> Prompts \cup {Nobody}]
  /\ messages \subseteq [session : Sessions, id : MessageIds]
  /\ receipts \in [MessageIds -> Prompts \cup {Nobody}]
  /\ terminals \in [Prompts -> Seq(TurnEvents)]

Leases == \A c \in Calls : Working(c) => active[SessionOf[c]] = c

LocksExclude == \A c, d \in Prompts : HoldsMessageLock(c) /\ HoldsMessageLock(d) /\ MessageOf[c] = MessageOf[d] => c = d

CheckedIsNew == \A c \in Prompts : call[c].pc \in {"new", "started"} => IsNew(MessageOf[c])

WrittenIsThere == \A c \in Prompts : call[c].wrote => MessageKey(c) \in messages \/ Disturbed(SessionOf[c])

AcceptedWasWritten ==
  /\ \A c \in Prompts : call[c].pc \in {"written", "accepted"} => call[c].wrote
  /\ \A m \in MessageIds : receipts[m] # Nobody => MessageOf[receipts[m]] = m /\ call[receipts[m]].wrote

Requests == LocksExclude /\ CheckedIsNew /\ WrittenIsThere /\ AcceptedWasWritten /\ WrittenOnce /\ ReplayIsTrue

Reported(c) ==
  /\ call[c].pc \in {"idle", "lock", "locked", "new", "started", "written", "failing", "accepted", "replayed"} =>
       terminals[c] = <<>>
  /\ call[c].pc \in {"settled", "unaccepted", "done"} => Len(terminals[c]) = 1
  /\ terminals[c] = <<>> \/ Len(terminals[c]) = 1
  /\ Working(c) => bound[SessionOf[c]] = c
  /\ call[c].pc = "catch" => bound[SessionOf[c]] = IF terminals[c] = <<>> THEN c ELSE Nobody

(* A turn works, or its handler is still to run: until then the turn may be bound. *)
UnderWay(c) == Working(c) \/ call[c].pc = "catch"

(* What holds of a turn whatever the others do: it overtakes when it starts, and settles by its own report. *)
OwnCourse(c) ==
  /\ call[c].pc \in {"idle", "lock", "locked", "new"} => call[c].overtook = {}
  /\ call[c].pc \in {"settled", "unaccepted"} => terminals[c] # <<>>

(* Of two turns of a session of which one waits for its handler, one was started after the other had ended. *)
Together ==
  \A c, d \in Prompts :
    c # d /\ SessionOf[c] = SessionOf[d] /\ UnderWay(c) /\ call[d].pc = "catch"
    => d \in call[c].overtook \/ c \in call[d].overtook

(* A session is bound to no turn that is over. *)
Bindings == \A s \in Sessions, c \in Prompts : bound[s] = c => SessionOf[c] = s /\ UnderWay(c)

Reports ==
  /\ Together /\ Bindings
  /\ \A c \in Prompts : OwnCourse(c) /\ (~HandlerIsLate(c) => Reported(c))

TurnInv == TurnRecords /\ Leases /\ Requests /\ Reports

LEMMA TurnFacts ==
  ASSUME TurnInv
  PROVE  /\ TurnRecords /\ Leases /\ Requests
         /\ \A c \in Calls : SessionOf[c] \in Sessions /\ c # Nobody /\ call[c] \in CallTypes
         /\ \A c \in Prompts : c \in Calls /\ c \notin Removals /\ MessageOf[c] \in MessageIds
         /\ \A m \in MessageIds : m \notin Stages \cup Ended
<1> QED BY TurnAssumption DEF TurnInv, TurnRecords, Calls

LEMMA CallUpdate ==
  ASSUME TurnInv, NEW c \in Calls, NEW pc \in Stages \cup Ended \cup MessageIds, Goto(c, pc)
  PROVE  /\ call' \in [Calls -> CallTypes] /\ call'[c].pc = pc
         /\ call'[c].wrote = call[c].wrote
         /\ call'[c].overtook = call[c].overtook
         /\ \A d \in Calls \ {c} : call'[d] = call[d]
<1>1. call \in [Calls -> CallTypes]
  BY TurnFacts DEF TurnRecords
<1>2. call' = [call EXCEPT ![c].pc = pc, ![c].aborted = IF pc \in Ended THEN FALSE ELSE call[c].aborted]
  BY DEF Goto
<1> QED BY <1>1, <1>2 DEF CallTypes

(* The lease: a step of one call. *)
LEMMA LeaseStep ==
  ASSUME TurnInv, NEW c \in Calls, \A d \in Calls \ {c} : call'[d] = call[d],
         \/ active' = active /\ (Working(c)' => Working(c))
         \/ Reserve(c)
         \/ active' = WithoutLease(c) /\ ~Working(c)'
  PROVE  Leases' /\ active' \in [Sessions -> Calls \cup {Nobody}]
<1>1. /\ active \in [Sessions -> Calls \cup {Nobody}] /\ SessionOf[c] \in Sessions /\ c # Nobody
      /\ \A d \in Calls : SessionOf[d] \in Sessions /\ d # Nobody /\ (Working(d) => active[SessionOf[d]] = d)
  BY TurnFacts DEF TurnRecords, Leases
<1>2. \A d \in Calls \ {c} : Working(d)' => Working(d)
  BY DEF Working
<1>3. CASE active' = active /\ (Working(c)' => Working(c))
  BY <1>1, <1>2, <1>3 DEF Leases
<1>4. CASE Reserve(c)
  <2>1. active[SessionOf[c]] = Nobody /\ active' = [active EXCEPT ![SessionOf[c]] = c]
    BY <1>4 DEF Reserve, Free
  <2>2. ASSUME NEW d \in Calls, Working(d)' PROVE active'[SessionOf[d]] = d
    BY <1>1, <1>2, <2>1, <2>2
  <2> QED BY <1>1, <2>1, <2>2 DEF Leases
<1>5. CASE active' = WithoutLease(c) /\ ~Working(c)'
  <2>1. active' = [active EXCEPT ![SessionOf[c]] = IF active[SessionOf[c]] = c THEN Nobody ELSE active[SessionOf[c]]]
    BY <1>5 DEF WithoutLease
  <2>2. ASSUME NEW d \in Calls, Working(d)' PROVE active'[SessionOf[d]] = d
    BY <1>1, <1>2, <1>5, <2>1, <2>2
  <2> QED BY <1>1, <2>1, <2>2 DEF Leases
<1> QED BY <1>3, <1>4, <1>5

(* The messages: a step of one call that writes and removes nothing. *)
LEMMA QuietStep ==
  ASSUME TurnInv, NEW c \in Calls, call' \in [Calls -> CallTypes], \A d \in Calls \ {c} : call'[d] = call[d],
         call'[c].wrote = call[c].wrote, messages' = messages, receipts' = receipts,
         c \in Removals => call'[c].pc # "idle",
         c \in Prompts /\ HoldsMessageLock(c)' => HoldsMessageLock(c) \/ MessageLockFree(MessageOf[c]),
         c \in Prompts /\ call'[c].pc \in {"new", "started"} => IsNew(MessageOf[c]),
         c \in Prompts /\ call'[c].pc \in {"written", "accepted"} => call[c].wrote,
         c \in Prompts /\ call'[c].pc = "replayed" => MessageKey(c) \in messages \/ Disturbed(SessionOf[c])
  PROVE  Requests'
<1>1. \A s : Disturbed(s) => Disturbed(s)'
  BY DEF Disturbed, Calls
<1>2. \A d \in Calls : call'[d].wrote = call[d].wrote
  OBVIOUS
<1>3. \A d \in Prompts : d \in Calls /\ d \notin Removals
  BY TurnFacts
<1>4. LocksExclude'
  <2>1. ASSUME NEW d \in Prompts, NEW e \in Prompts, d # e, HoldsMessageLock(d)', HoldsMessageLock(e)',
               MessageOf[d] = MessageOf[e]
        PROVE  FALSE
    <3>1. \A f \in Prompts \ {c} : HoldsMessageLock(f)' <=> HoldsMessageLock(f)
      BY <1>3 DEF HoldsMessageLock
    <3>2. HoldsMessageLock(d) /\ HoldsMessageLock(e)
      BY <2>1, <3>1 DEF MessageLockFree
    <3> QED BY <2>1, <3>2, TurnFacts DEF Requests, LocksExclude
  <2> QED BY <2>1 DEF LocksExclude
<1>5. CheckedIsNew'
  BY <1>3, TurnFacts DEF CheckedIsNew, Requests, IsNew
<1>6. WrittenIsThere'
  BY <1>1, <1>2, <1>3, TurnFacts DEF WrittenIsThere, Requests, MessageKey
<1>7. AcceptedWasWritten'
  <2>1. \A m \in MessageIds : receipts[m] # Nobody => receipts[m] \in Calls
    BY <1>3, TurnFacts DEF TurnRecords
  <2> QED BY <1>2, <1>3, <2>1, TurnFacts DEF AcceptedWasWritten, Requests
<1>8. WrittenOnce'
  BY <1>1, <1>2, <1>3, TurnFacts DEF WrittenOnce, Requests
<1>9. ReplayIsTrue'
  BY <1>1, <1>3, TurnFacts DEF ReplayIsTrue, Requests, MessageKey
<1> QED BY <1>4, <1>5, <1>6, <1>7, <1>8, <1>9 DEF Requests

(* Who has overtaken another turn, or was overtaken, stays so. *)
LEMMA LateStays ==
  ASSUME TurnInv, NEW c \in Calls, \A d \in Calls \ {c} : call'[d] = call[d], call[c].overtook \subseteq call'[c].overtook
  PROVE  \A d \in Prompts : HandlerIsLate(d) => HandlerIsLate(d)'
<1>1. \A d \in Prompts : d \in Calls /\ call[d].overtook \subseteq call'[d].overtook
  BY TurnFacts
<1> QED BY <1>1 DEF HandlerIsLate

(* Of two turns of a session of which one waits for its handler, both have a late handler. *)
LEMMA BothAreLate ==
  ASSUME TurnInv, NEW c \in Prompts, NEW d \in Prompts, c # d, SessionOf[c] = SessionOf[d],
         UnderWay(c), call[d].pc = "catch"
  PROVE  HandlerIsLate(c) /\ HandlerIsLate(d)
<1>1. d \in call[c].overtook \/ c \in call[d].overtook
  BY DEF TurnInv, Reports, Together
<1> QED BY <1>1 DEF HandlerIsLate

(* The terminal events: a step of one call. *)
LEMMA ReportStep ==
  ASSUME TurnInv, NEW c \in Calls, \A d \in Calls \ {c} : call'[d] = call[d],
         call[c].overtook \subseteq call'[c].overtook,
         c \in Prompts => OwnCourse(c)' /\ (~HandlerIsLate(c)' => Reported(c)'),
         c \in Prompts /\ call'[c].pc = "catch" => call[c].pc \in {"thrown", "catch"},
         c \in Prompts /\ UnderWay(c)' => UnderWay(c) \/ Unhandled(SessionOf[c]) \subseteq call'[c].overtook,
         \A d \in Prompts \ {c} : terminals[d] # <<>> => terminals'[d] # <<>>,
         \A d \in Prompts \ {c} : ~HandlerIsLate(d)' => terminals'[d] = terminals[d],
         \A s \in Sessions \ {SessionOf[c]} : bound'[s] = bound[s],
         \A d \in Prompts \ {c} : SessionOf[d] = SessionOf[c] /\ UnderWay(d) /\ ~HandlerIsLate(d)'
                                  => bound'[SessionOf[c]] = bound[SessionOf[c]],
         \/ /\ bound'[SessionOf[c]] = bound[SessionOf[c]]
            /\ c \in Prompts /\ bound[SessionOf[c]] = c /\ UnderWay(c) => UnderWay(c)'
         \/ bound'[SessionOf[c]] = Nobody
         \/ c \in Prompts /\ bound'[SessionOf[c]] = c /\ UnderWay(c)'
  PROVE  Reports'
<1>1. /\ \A d \in Prompts : d \in Calls /\ SessionOf[d] \in Sessions /\ OwnCourse(d) /\ (~HandlerIsLate(d) => Reported(d))
      /\ SessionOf[c] \in Sessions /\ bound \in [Sessions -> Prompts \cup {Nobody}] /\ Together /\ Bindings
  BY TurnFacts DEF TurnInv, Reports, TurnRecords
<1>2. \A d \in Prompts \ {c} : call'[d] = call[d] /\ (UnderWay(d)' <=> UnderWay(d)) /\ (Working(d)' <=> Working(d))
  BY <1>1 DEF UnderWay, Working
<1>3. ASSUME NEW d \in Prompts \ {c} PROVE OwnCourse(d)' /\ (~HandlerIsLate(d)' => Reported(d)')
  <2>1. OwnCourse(d)'
    BY <1>1, <1>2 DEF OwnCourse
  <2>2. ASSUME ~HandlerIsLate(d)' PROVE Reported(d)'
    <3>1. Reported(d) /\ terminals'[d] = terminals[d] /\ call'[d] = call[d] /\ (Working(d)' <=> Working(d))
      BY <1>1, <1>2, <2>2, LateStays
    <3>2. UnderWay(d) => bound'[SessionOf[d]] = bound[SessionOf[d]]
      BY <1>1, <2>2
    <3> QED BY <3>1, <3>2 DEF Reported, UnderWay
  <2> QED BY <2>1, <2>2
<1>4. Together'
  <2> SUFFICES ASSUME NEW d \in Prompts, NEW e \in Prompts, d # e, SessionOf[d] = SessionOf[e], UnderWay(d)',
                      call'[e].pc = "catch"
               PROVE  e \in call'[d].overtook \/ d \in call'[e].overtook
    BY DEF Together
  <2>1. CASE d # c /\ e # c
    BY <1>1, <1>2, <2>1 DEF Together
  <2>2. CASE e = c
    <3>1. UnderWay(d) /\ call'[d] = call[d]
      BY <1>2, <2>2
    <3>2. CASE call[c].pc = "catch"
      BY <1>1, <2>2, <3>1, <3>2 DEF Together
    <3>3. CASE call[c].pc = "thrown"
      <4>1. Working(c) /\ UnderWay(c)
        BY <3>3 DEF Working, UnderWay
      <4>2. ~Working(d)
        BY <1>1, <2>2, <4>1, TurnFacts DEF Leases
      <4>3. call[d].pc = "catch"
        BY <3>1, <4>2 DEF UnderWay
      <4> QED BY <1>1, <2>2, <3>1, <4>1, <4>3 DEF Together
    <3> QED BY <2>2, <3>2, <3>3
  <2>3. CASE d = c /\ e # c
    <3>1. call[e].pc = "catch" /\ call'[e] = call[e]
      BY <1>2, <2>3
    <3>2. CASE UnderWay(c)
      BY <1>1, <2>3, <3>1, <3>2 DEF Together
    <3>3. CASE Unhandled(SessionOf[c]) \subseteq call'[c].overtook
      BY <2>3, <3>1, <3>3 DEF Unhandled
    <3> QED BY <2>3, <3>2, <3>3
  <2> QED BY <2>1, <2>2, <2>3
<1>5. Bindings'
  <2> SUFFICES ASSUME NEW s \in Sessions, NEW d \in Prompts, bound'[s] = d
               PROVE  SessionOf[d] = s /\ UnderWay(d)'
    BY DEF Bindings
  <2>1. CASE /\ bound'[s] = bound[s]
             /\ s = SessionOf[c] /\ c \in Prompts /\ bound[s] = c /\ UnderWay(c) => UnderWay(c)'
    <3>1. SessionOf[d] = s /\ UnderWay(d)
      BY <1>1, <2>1 DEF Bindings
    <3> QED BY <1>2, <2>1, <3>1
  <2>2. CASE s = SessionOf[c] /\ c \in Prompts /\ bound'[s] = c /\ UnderWay(c)'
    BY <2>2
  <2>3. CASE s = SessionOf[c] /\ bound'[s] = Nobody
    <3>1. d \in Calls /\ Nobody \notin Calls
      BY <1>1, TurnAssumption
    <3> QED BY <2>3, <3>1
  <2> QED BY <1>1, <2>1, <2>2, <2>3
<1> QED BY <1>1, <1>3, <1>4, <1>5 DEF Reports

(* ... that leaves the bindings and the terminal events alone and starts no turn. *)
LEMMA UnreportedStep ==
  ASSUME TurnInv, NEW c \in Calls, \A d \in Calls \ {c} : call'[d] = call[d], bound' = bound, terminals' = terminals,
         call'[c].overtook = call[c].overtook,
         c \in Prompts => /\ UnderWay(c)' <=> UnderWay(c)
                          /\ OwnCourse(c)'
                          /\ ~HandlerIsLate(c) => Reported(c)'
                          /\ call'[c].pc = "catch" => call[c].pc = "catch"
  PROVE  Reports'
<1>1. c \in Prompts => (~HandlerIsLate(c)' => Reported(c)')
  BY LateStays
<1> QED BY <1>1, ReportStep

(* Steps of a prompt that change nothing but its own state. *)
LEMMA MoveStep ==
  ASSUME TurnInv, NEW c \in Prompts, NEW pc \in Stages \cup Ended, Goto(c, pc),
         UNCHANGED <<active, bound, disk, terminals, crashes>>,
         \/ call[c].pc = "idle" /\ pc \in {"lock", "refused"}
         \/ call[c].pc = "idle" /\ pc = "replayed" /\ (MessageKey(c) \in messages \/ Disturbed(SessionOf[c]))
         \/ call[c].pc = "lock" /\ pc = "locked" /\ MessageLockFree(MessageOf[c])
         \/ call[c].pc = "locked" /\ pc = "new" /\ IsNew(MessageOf[c])
         \/ call[c].pc \in {"locked", "new"} /\ pc = "refused"
         \/ call[c].pc \in {"started", "written"} /\ pc = "failing"
         \/ call[c].pc = "accepted" /\ pc = "thrown"
  PROVE  TurnInv'
<1>1. /\ c \in Calls /\ c \notin Removals /\ SessionOf[c] \in Sessions /\ \A m \in MessageIds : m \notin Stages \cup Ended
  BY TurnFacts
<1>2. /\ call' \in [Calls -> CallTypes] /\ call'[c].pc = pc /\ call'[c].wrote = call[c].wrote
      /\ call'[c].overtook = call[c].overtook
      /\ \A d \in Calls \ {c} : call'[d] = call[d]
  BY <1>1, CallUpdate
<1>3. active' = active /\ bound' = bound /\ messages' = messages /\ receipts' = receipts /\ terminals' = terminals
  BY DEF disk
<1>4. TurnRecords'
  BY <1>2, <1>3, TurnFacts DEF TurnRecords
<1>5. Working(c)' => Working(c)
  BY <1>1, <1>2 DEF Working, Stages, Ended
<1>6. Leases'
  BY <1>1, <1>2, <1>3, <1>5, LeaseStep
<1>7. HoldsMessageLock(c)' => HoldsMessageLock(c) \/ MessageLockFree(MessageOf[c])
  BY <1>2 DEF HoldsMessageLock
<1>8. Requests'
  BY <1>1, <1>2, <1>3, <1>7, QuietStep
<1>9. /\ ~HandlerIsLate(c) => Reported(c)'
      /\ OwnCourse(c)' /\ (UnderWay(c)' <=> UnderWay(c))
  <2>1. OwnCourse(c) /\ (~HandlerIsLate(c) => Reported(c))
    BY DEF TurnInv, Reports
  <2>2. Working(c)' <=> Working(c)
    BY <1>1, <1>2 DEF Working, Stages, Ended
  <2>3. OwnCourse(c)' /\ (UnderWay(c)' <=> UnderWay(c))
    BY <1>2, <1>3, <2>1, <2>2 DEF OwnCourse, UnderWay
  <2>4. ASSUME Reported(c) PROVE Reported(c)'
    BY <1>2, <1>3, <2>2, <2>4 DEF Reported
  <2> QED BY <2>1, <2>3, <2>4
<1>10. Reports'
  BY <1>1, <1>2, <1>3, <1>9, UnreportedStep
<1> QED BY <1>4, <1>6, <1>8, <1>10 DEF TurnInv

LEMMA MovesStep ==
  ASSUME TurnInv, NEW c \in Calls,
         Replay(c) \/ LockMessage(c) \/ AssertNew(c) \/ RefuseBusy(c) \/ AcceptFails(c) \/ LoopThrows(c)
  PROVE  TurnInv'
<1>1. c \in Prompts
  BY DEF Replay, LockMessage, AssertNew, RefuseBusy, AcceptFails, LoopThrows, At
<1>2. CASE Replay(c)
  <2> DEFINE turn == receipts[MessageOf[c]]
  <2>1. /\ call[c].pc = "idle" /\ UNCHANGED <<active, bound, disk, terminals, crashes>>
        /\ Goto(c, IF turn = Nobody THEN "lock" ELSE IF SessionOf[turn] = SessionOf[c] THEN "replayed" ELSE "refused")
    BY <1>2 DEF Replay, At
  <2>2. ASSUME turn # Nobody, SessionOf[turn] = SessionOf[c]
        PROVE  MessageKey(c) \in messages \/ Disturbed(SessionOf[c])
    <3>1. turn \in Prompts /\ MessageOf[turn] = MessageOf[c] /\ call[turn].wrote
      BY <1>1, <2>2, TurnFacts DEF TurnRecords, Requests, AcceptedWasWritten
    <3>2. MessageKey(turn) = MessageKey(c)
      BY <2>2, <3>1 DEF MessageKey
    <3> QED BY <2>2, <3>1, <3>2, TurnFacts DEF Requests, WrittenIsThere
  <2> HIDE DEF turn
  <2>3. CASE turn = Nobody
    <3>1. Goto(c, "lock")
      BY <2>1, <2>3
    <3> QED BY <1>1, <2>1, <3>1, MoveStep DEF Stages
  <2>4. CASE turn # Nobody /\ SessionOf[turn] = SessionOf[c]
    <3>1. Goto(c, "replayed")
      BY <2>1, <2>4
    <3> QED BY <1>1, <2>1, <2>2, <2>4, <3>1, MoveStep DEF Ended
  <2>5. CASE turn # Nobody /\ SessionOf[turn] # SessionOf[c]
    <3>1. Goto(c, "refused")
      BY <2>1, <2>5
    <3> QED BY <1>1, <2>1, <3>1, MoveStep DEF Ended
  <2> QED BY <2>3, <2>4, <2>5
<1>3. CASE LockMessage(c)
  <2>1. /\ call[c].pc = "lock" /\ MessageLockFree(MessageOf[c]) /\ Goto(c, "locked")
        /\ UNCHANGED <<active, bound, disk, terminals, crashes>>
    BY <1>3 DEF LockMessage, At
  <2> QED BY <1>1, <2>1, MoveStep DEF Stages
<1>4. CASE AssertNew(c)
  <2>1. call[c].pc = "locked" /\ UNCHANGED <<active, bound, disk, terminals, crashes>>
    BY <1>4 DEF AssertNew, At
  <2>2. CASE IsNew(MessageOf[c])
    <3>1. Goto(c, "new")
      BY <1>4, <2>2 DEF AssertNew
    <3> QED BY <1>1, <2>1, <2>2, <3>1, MoveStep DEF Stages
  <2>3. CASE ~IsNew(MessageOf[c])
    <3>1. Goto(c, "refused")
      BY <1>4, <2>3 DEF AssertNew
    <3> QED BY <1>1, <2>1, <3>1, MoveStep DEF Ended
  <2> QED BY <2>2, <2>3
<1>5. CASE RefuseBusy(c)
  <2>1. call[c].pc = "new" /\ Goto(c, "refused") /\ UNCHANGED <<active, bound, disk, terminals, crashes>>
    BY <1>5 DEF RefuseBusy, At
  <2> QED BY <1>1, <2>1, MoveStep DEF Ended
<1>6. CASE AcceptFails(c)
  <2>1. /\ call[c].pc \in {"started", "written"} /\ Goto(c, "failing")
        /\ UNCHANGED <<active, bound, disk, terminals, crashes>>
    BY <1>6 DEF AcceptFails, At
  <2> QED BY <1>1, <2>1, MoveStep DEF Stages
<1>7. CASE LoopThrows(c)
  <2>1. call[c].pc = "accepted" /\ Goto(c, "thrown") /\ UNCHANGED <<active, bound, disk, terminals, crashes>>
    BY <1>7 DEF LoopThrows, At
  <2> QED BY <1>1, <2>1, MoveStep DEF Stages
<1> QED BY <1>2, <1>3, <1>4, <1>5, <1>6, <1>7

LEMMA StartTurnStep ==
  ASSUME TurnInv, NEW c \in Calls, StartTurn(c)
  PROVE  TurnInv'
<1>1. /\ c \in Prompts /\ call[c].pc = "new" /\ Reserve(c)
      /\ call' = [call EXCEPT ![c].pc = "started", ![c].overtook = Unhandled(SessionOf[c])]
      /\ bound' = [bound EXCEPT ![SessionOf[c]] = c]
      /\ messages' = messages /\ receipts' = receipts /\ terminals' = terminals
  BY DEF StartTurn, At, disk
<1>2. c \notin Removals /\ SessionOf[c] \in Sessions
  BY <1>1, TurnFacts
<1>3. /\ call' \in [Calls -> CallTypes] /\ call'[c].pc = "started" /\ call'[c].wrote = call[c].wrote
      /\ call'[c].overtook = Unhandled(SessionOf[c])
      /\ \A d \in Calls \ {c} : call'[d] = call[d]
  <2>1. call \in [Calls -> CallTypes] /\ Unhandled(SessionOf[c]) \in SUBSET Prompts
    BY TurnFacts DEF TurnRecords, Unhandled
  <2> HIDE DEF Unhandled
  <2> QED BY <1>1, <2>1 DEF CallTypes, Stages
<1>4. Leases' /\ active' \in [Sessions -> Calls \cup {Nobody}]
  BY <1>1, <1>3, LeaseStep
<1>5. Requests'
  <2>1. HoldsMessageLock(c)
    BY <1>1 DEF HoldsMessageLock
  <2>2. IsNew(MessageOf[c])
    BY <1>1, TurnFacts DEF Requests, CheckedIsNew
  <2> QED BY <1>1, <1>2, <1>3, <2>1, <2>2, QuietStep
<1>6. TurnRecords'
  BY <1>1, <1>2, <1>3, <1>4, TurnFacts DEF TurnRecords
<1>7. bound'[SessionOf[c]] = c /\ \A s \in Sessions \ {SessionOf[c]} : bound'[s] = bound[s]
  BY <1>1, <1>2, TurnFacts DEF TurnRecords
<1>8. ASSUME NEW d \in Prompts \ {c}, Working(d), SessionOf[d] = SessionOf[c] PROVE FALSE
  <2>1. active[SessionOf[c]] = d /\ d # Nobody
    BY <1>8, TurnFacts DEF Leases
  <2> QED BY <1>1, <2>1 DEF Reserve, Free
<1>9. call[c].overtook = {} /\ OwnCourse(c)' /\ UnderWay(c)' /\ (~HandlerIsLate(c)' => Reported(c)')
  <2>1. OwnCourse(c) /\ (~HandlerIsLate(c) => Reported(c))
    BY <1>1 DEF TurnInv, Reports
  <2>2. call[c].overtook = {} /\ OwnCourse(c)' /\ UnderWay(c)'
    BY <1>1, <1>3, <2>1 DEF OwnCourse, UnderWay, Working
  <2>3. ASSUME ~HandlerIsLate(c)' PROVE Reported(c)'
    <3>1. ~HandlerIsLate(c)
      BY <1>1, <1>3, <2>2, <2>3, LateStays
    <3> QED BY <1>1, <1>3, <1>7, <2>1, <3>1 DEF Reported
  <2> QED BY <2>2, <2>3
<1>10. ASSUME NEW d \in Prompts \ {c}, SessionOf[d] = SessionOf[c], UnderWay(d) PROVE HandlerIsLate(d)'
  <2>1. call[d].pc = "catch"
    BY <1>8, <1>10 DEF UnderWay
  <2>2. d \in call'[c].overtook
    BY <1>3, <1>10, <2>1 DEF Unhandled
  <2> QED BY <1>1, <2>2 DEF HandlerIsLate
<1>11. Reports'
  BY <1>1, <1>3, <1>7, <1>9, <1>10, ReportStep
<1> QED BY <1>4, <1>5, <1>6, <1>11 DEF TurnInv

LEMMA CreateStep ==
  ASSUME TurnInv, NEW c \in Calls, CreateUserMessage(c)
  PROVE  TurnInv'
<1>1. /\ c \in Prompts /\ call[c].pc = "started"
      /\ call' = [call EXCEPT ![c].pc = "written", ![c].wrote = TRUE]
      /\ messages' = messages \cup {MessageKey(c)}
      /\ active' = active /\ bound' = bound /\ receipts' = receipts /\ terminals' = terminals
  BY DEF CreateUserMessage, At
<1>2. c \in Calls /\ c \notin Removals /\ SessionOf[c] \in Sessions /\ MessageOf[c] \in MessageIds
  BY <1>1, TurnFacts
<1>3. /\ call' \in [Calls -> CallTypes] /\ call'[c].pc = "written" /\ call'[c].wrote = TRUE
      /\ call'[c].overtook = call[c].overtook
      /\ \A d \in Calls \ {c} : call'[d] = call[d]
  <2>1. call \in [Calls -> CallTypes]
    BY TurnFacts DEF TurnRecords
  <2> QED BY <1>1, <2>1 DEF CallTypes, Stages
<1>4. TurnRecords'
  BY <1>1, <1>2, <1>3, TurnFacts DEF TurnRecords, MessageKey
<1>5. Working(c)
  BY <1>1 DEF Working
<1>6. Leases'
  BY <1>1, <1>3, <1>5, LeaseStep
<1>7. \A d \in Prompts \ {c} : d \in Calls /\ call'[d] = call[d] /\ (HoldsMessageLock(d)' <=> HoldsMessageLock(d))
  BY <1>3, TurnFacts DEF HoldsMessageLock
<1>8. HoldsMessageLock(c) /\ IsNew(MessageOf[c])
  BY <1>1, TurnFacts DEF HoldsMessageLock, Requests, CheckedIsNew
<1>9. \A s : Disturbed(s)' <=> Disturbed(s)
  <2>1. \A d \in Removals : d \in Calls /\ call'[d] = call[d]
    BY <1>2, <1>3 DEF Calls
  <2> QED BY <2>1 DEF Disturbed
<1>10. LocksExclude'
  BY <1>7, <1>8, TurnFacts DEF LocksExclude, Requests
<1>11. CheckedIsNew'
  <2>1. ASSUME NEW d \in Prompts, call'[d].pc \in {"new", "started"} PROVE IsNew(MessageOf[d])'
    <3>1. d # c /\ HoldsMessageLock(d) /\ IsNew(MessageOf[d])
      BY <1>3, <1>7, <2>1, TurnFacts DEF HoldsMessageLock, Requests, CheckedIsNew
    <3>2. MessageOf[d] # MessageOf[c]
      BY <1>1, <1>8, <3>1, TurnFacts DEF Requests, LocksExclude
    <3> QED BY <1>1, <3>1, <3>2 DEF IsNew, MessageKey
  <2> QED BY <2>1 DEF CheckedIsNew
<1>12. WrittenIsThere'
  BY <1>1, <1>7, <1>9, TurnFacts DEF WrittenIsThere, Requests, MessageKey
<1>13. AcceptedWasWritten'
  <2>1. \A m \in MessageIds : receipts[m] # Nobody => receipts[m] \in Prompts
    BY TurnFacts DEF TurnRecords
  <2> QED BY <1>1, <1>3, <1>7, <2>1, TurnFacts DEF AcceptedWasWritten, Requests
<1>14. WrittenOnce'
  <2>1. ASSUME NEW d \in Prompts \ {c}, call[d].wrote, MessageOf[d] = MessageOf[c], SessionOf[d] = SessionOf[c]
        PROVE  Disturbed(SessionOf[c])
    <3>1. MessageKey(d) \notin messages
      BY <1>8, <2>1 DEF IsNew, MessageKey
    <3> QED BY <2>1, <3>1, TurnFacts DEF Requests, WrittenIsThere
  <2> QED BY <1>7, <1>9, <2>1, TurnFacts DEF WrittenOnce, Requests
<1>15. ReplayIsTrue'
  BY <1>1, <1>3, <1>7, <1>9, TurnFacts DEF ReplayIsTrue, Requests, MessageKey
<1>16. (~HandlerIsLate(c) => Reported(c)') /\ OwnCourse(c)' /\ UnderWay(c)' /\ UnderWay(c)
  <2>1. OwnCourse(c) /\ (~HandlerIsLate(c) => Reported(c))
    BY <1>1 DEF TurnInv, Reports
  <2>2. ASSUME Reported(c) PROVE Reported(c)'
    BY <1>1, <1>3, <1>5, <2>2 DEF Reported
  <2> QED BY <1>1, <1>3, <1>5, <2>1, <2>2 DEF OwnCourse, UnderWay, Working
<1>17. Reports'
  BY <1>1, <1>2, <1>3, <1>16, UnreportedStep
<1> QED BY <1>4, <1>6, <1>10, <1>11, <1>12, <1>13, <1>14, <1>15, <1>17 DEF TurnInv, Requests

LEMMA AcceptStep ==
  ASSUME TurnInv, NEW c \in Calls, Accept(c)
  PROVE  TurnInv'
<1>1. /\ c \in Prompts /\ call[c].pc = "written" /\ Goto(c, "accepted")
      /\ receipts' = [receipts EXCEPT ![MessageOf[c]] = c]
      /\ active' = active /\ bound' = bound /\ messages' = messages /\ terminals' = terminals
  BY DEF Accept, At
<1>2. c \in Calls /\ c \notin Removals /\ SessionOf[c] \in Sessions /\ MessageOf[c] \in MessageIds
  BY <1>1, TurnFacts
<1>3. /\ call' \in [Calls -> CallTypes] /\ call'[c].pc = "accepted" /\ call'[c].wrote = call[c].wrote
      /\ call'[c].overtook = call[c].overtook
      /\ \A d \in Calls \ {c} : call'[d] = call[d]
  BY <1>1, CallUpdate DEF Stages
<1>4. TurnRecords'
  BY <1>1, <1>2, <1>3, TurnFacts DEF TurnRecords
<1>5. Working(c)
  BY <1>1 DEF Working
<1>6. Leases'
  BY <1>1, <1>3, <1>5, LeaseStep
<1>7. \A d \in Prompts \ {c} : d \in Calls /\ call'[d] = call[d] /\ (HoldsMessageLock(d)' => HoldsMessageLock(d))
  BY <1>3, TurnFacts DEF HoldsMessageLock
<1>8. ~HoldsMessageLock(c)' /\ call[c].wrote
  BY <1>1, <1>3, TurnFacts DEF HoldsMessageLock, Requests, AcceptedWasWritten
<1>9. \A s : Disturbed(s)' <=> Disturbed(s)
  <2>1. \A d \in Removals : d \in Calls /\ call'[d] = call[d]
    BY <1>2, <1>3 DEF Calls
  <2> QED BY <2>1 DEF Disturbed
<1>10. LocksExclude'
  BY <1>7, <1>8, TurnFacts DEF LocksExclude, Requests
<1>11. CheckedIsNew'
  BY <1>1, <1>3, <1>7, TurnFacts DEF CheckedIsNew, Requests, IsNew
<1>12. WrittenIsThere'
  BY <1>1, <1>3, <1>7, <1>9, TurnFacts DEF WrittenIsThere, Requests, MessageKey
<1>13. AcceptedWasWritten'
  <2>1. ASSUME NEW m \in MessageIds, receipts'[m] # Nobody
        PROVE  MessageOf[receipts'[m]] = m /\ call'[receipts'[m]].wrote
    <3>1. CASE m = MessageOf[c]
      BY <1>1, <1>2, <1>3, <1>8, <3>1, TurnFacts DEF TurnRecords
    <3>2. CASE m # MessageOf[c]
      <4>1. receipts'[m] = receipts[m] /\ receipts[m] \in Prompts
        BY <1>1, <2>1, <3>2, TurnFacts DEF TurnRecords
      <4> QED BY <1>3, <1>7, <2>1, <4>1, TurnFacts DEF Requests, AcceptedWasWritten
    <3> QED BY <3>1, <3>2
  <2> QED BY <1>3, <1>7, <1>8, <2>1, TurnFacts DEF AcceptedWasWritten, Requests
<1>14. WrittenOnce'
  BY <1>3, <1>7, <1>9, TurnFacts DEF WrittenOnce, Requests
<1>15. ReplayIsTrue'
  BY <1>1, <1>3, <1>7, <1>9, TurnFacts DEF ReplayIsTrue, Requests, MessageKey
<1>16. (~HandlerIsLate(c) => Reported(c)') /\ OwnCourse(c)' /\ UnderWay(c)' /\ UnderWay(c)
  <2>1. OwnCourse(c) /\ (~HandlerIsLate(c) => Reported(c))
    BY <1>1 DEF TurnInv, Reports
  <2>2. ASSUME Reported(c) PROVE Reported(c)'
    BY <1>1, <1>3, <1>5, <2>2 DEF Reported
  <2> QED BY <1>1, <1>3, <1>5, <2>1, <2>2 DEF OwnCourse, UnderWay, Working
<1>17. Reports'
  BY <1>1, <1>2, <1>3, <1>16, UnreportedStep
<1> QED BY <1>4, <1>6, <1>10, <1>11, <1>12, <1>13, <1>14, <1>15, <1>17 DEF TurnInv, Requests

(* The terminal event of a turn, by the turn itself. *)
LEMMA TerminalStep ==
  ASSUME TurnInv, NEW c \in Calls, FailTurn(c) \/ LoopEnds(c) \/ LoopThrowsSettled(c)
  PROVE  TurnInv'
<1>1. /\ c \in Prompts /\ call[c].pc \in {"failing", "accepted"}
      /\ UNCHANGED <<active, bound, disk, crashes>>
  BY DEF FailTurn, LoopEnds, LoopThrowsSettled, At
<1>2. PICK pc \in {"unaccepted", "settled", "thrown"}, event \in TurnEvents :
        /\ Goto(c, pc) /\ (pc = "unaccepted" => call[c].pc = "failing")
        /\ terminals' = [terminals EXCEPT ![c] = Append(terminals[c], event)]
  BY DEF FailTurn, LoopEnds, LoopThrowsSettled, PublishTerminal, Terminal, TurnEvents, At
<1>3. c \in Calls /\ c \notin Removals /\ SessionOf[c] \in Sessions
  BY <1>1, TurnFacts
<1>4. /\ call' \in [Calls -> CallTypes] /\ call'[c].pc = pc /\ call'[c].wrote = call[c].wrote
      /\ call'[c].overtook = call[c].overtook
      /\ \A d \in Calls \ {c} : call'[d] = call[d]
  BY <1>2, CallUpdate DEF Stages
<1>5. active' = active /\ bound' = bound /\ messages' = messages /\ receipts' = receipts
  BY <1>1 DEF disk
<1>6. /\ terminals[c] \in Seq(TurnEvents) /\ terminals'[c] \in Seq(TurnEvents)
      /\ Len(terminals'[c]) = Len(terminals[c]) + 1
      /\ terminals' \in [Prompts -> Seq(TurnEvents)]
      /\ \A d \in Prompts \ {c} : terminals'[d] = terminals[d]
  <2>1. terminals \in [Prompts -> Seq(TurnEvents)]
    BY TurnFacts DEF TurnRecords
  <2>2. Append(terminals[c], event) \in Seq(TurnEvents) /\ Len(Append(terminals[c], event)) = Len(terminals[c]) + 1
    BY <1>1, <2>1, AppendProperties
  <2> QED BY <1>1, <1>2, <2>1, <2>2
<1>7. TurnRecords'
  BY <1>4, <1>5, <1>6, TurnFacts DEF TurnRecords
<1>8. Working(c)
  BY <1>1 DEF Working
<1>9. Leases'
  BY <1>4, <1>5, <1>8, LeaseStep
<1>10. Requests'
  BY <1>2, <1>3, <1>4, <1>5, QuietStep DEF HoldsMessageLock
<1>11. (~HandlerIsLate(c)' => Reported(c)') /\ OwnCourse(c)' /\ UnderWay(c)' /\ UnderWay(c)
  <2>1. ASSUME ~HandlerIsLate(c)' PROVE Reported(c)'
    <3>1. ~HandlerIsLate(c)
      BY <1>1, <1>4, <2>1, LateStays
    <3>2. Reported(c) /\ terminals[c] = <<>>
      BY <1>1, <3>1 DEF TurnInv, Reports, Reported
    <3>3. Len(terminals'[c]) = 1
      BY <1>6, <3>2
    <3> QED BY <1>4, <1>5, <1>8, <3>2, <3>3 DEF Reported
  <2>2. terminals'[c] # <<>>
    BY <1>6
  <2> QED BY <1>4, <1>8, <2>1, <2>2 DEF OwnCourse, UnderWay, Working
<1>12. Reports'
  BY <1>1, <1>4, <1>5, <1>6, <1>11, ReportStep
<1> QED BY <1>7, <1>9, <1>10, <1>12 DEF TurnInv

LEMMA ReleaseStep ==
  ASSUME TurnInv, NEW c \in Calls, ReleaseLease(c)
  PROVE  TurnInv'
<1>1. /\ c \in Prompts /\ call[c].pc \in {"settled", "unaccepted", "thrown"}
      /\ active' = WithoutLease(c) /\ bound' = BoundAfter(c)
      /\ messages' = messages /\ receipts' = receipts /\ terminals' = terminals
  BY DEF ReleaseLease, disk
<1>2. PICK pc \in {"done", "refused", "catch"} :
        /\ Goto(c, pc)
        /\ pc = "done" <=> call[c].pc = "settled"
        /\ pc = "catch" <=> call[c].pc = "thrown"
  <2>1. Goto(c, CASE call[c].pc = "settled" -> "done" [] call[c].pc = "unaccepted" -> "refused" [] OTHER -> "catch")
    BY DEF ReleaseLease
  <2>2. CASE call[c].pc = "settled"
    BY <2>1, <2>2
  <2>3. CASE call[c].pc = "unaccepted"
    BY <2>1, <2>3
  <2>4. CASE call[c].pc = "thrown"
    BY <2>1, <2>4
  <2> QED BY <1>1, <2>2, <2>3, <2>4
<1>3. /\ c \in Calls /\ c \notin Removals /\ SessionOf[c] \in Sessions
      /\ \A m \in MessageIds : m \notin Stages \cup Ended
  BY <1>1, TurnFacts
<1>4. /\ call' \in [Calls -> CallTypes] /\ call'[c].pc = pc /\ call'[c].wrote = call[c].wrote
      /\ call'[c].overtook = call[c].overtook
      /\ \A d \in Calls \ {c} : call'[d] = call[d]
  BY <1>2, CallUpdate DEF Stages, Ended
<1>5. ~Working(c)' /\ Working(c)
  BY <1>1, <1>3, <1>4 DEF Working, Stages, Ended
<1>6. Leases' /\ active' \in [Sessions -> Calls \cup {Nobody}]
  BY <1>1, <1>4, <1>5, LeaseStep
<1>7. /\ bound' \in [Sessions -> Prompts \cup {Nobody}]
      /\ \A s \in Sessions \ {SessionOf[c]} : bound'[s] = bound[s]
      /\ bound[SessionOf[c]] = c =>
           bound'[SessionOf[c]] = IF terminals[c] = <<>> THEN c ELSE Nobody
      /\ bound[SessionOf[c]] # c => bound'[SessionOf[c]] = bound[SessionOf[c]]
  <2>1. bound \in [Sessions -> Prompts \cup {Nobody}]
    BY TurnFacts DEF TurnRecords
  <2>2. bound' = IF terminals[c] # <<>>
                 THEN [bound EXCEPT ![SessionOf[c]] = IF bound[SessionOf[c]] = c THEN Nobody ELSE bound[SessionOf[c]]]
                 ELSE bound
    BY <1>1 DEF BoundAfter, Unbound
  <2> QED BY <1>3, <2>1, <2>2
<1>8. active'[SessionOf[c]] = Nobody
  <2>1. active[SessionOf[c]] = c /\ active \in [Sessions -> Calls \cup {Nobody}]
    BY <1>5, TurnFacts DEF Leases, TurnRecords
  <2> QED BY <1>1, <1>3, <2>1 DEF WithoutLease
<1>9. TurnRecords'
  BY <1>1, <1>4, <1>6, <1>7, TurnFacts DEF TurnRecords
<1>10. Requests'
  BY <1>1, <1>3, <1>4, QuietStep DEF HoldsMessageLock
<1>11. ASSUME ~HandlerIsLate(c)' PROVE Reported(c)'
  <2>1. Reported(c)
    <3>1. ~HandlerIsLate(c)
      BY <1>1, <1>3, <1>4, <1>11, LateStays
    <3> QED BY <1>1, <3>1 DEF TurnInv, Reports
  <2>2. bound[SessionOf[c]] = c
    BY <1>5, <2>1 DEF Reported
  <2>3. bound'[SessionOf[c]] = IF terminals[c] = <<>> THEN c ELSE Nobody
    BY <1>7, <2>2
  <2>4. pc = "done" => Len(terminals[c]) = 1
    BY <1>2, <2>1 DEF Reported
  <2>5. terminals[c] = <<>> \/ Len(terminals[c]) = 1
    BY <2>1 DEF Reported
  <2> QED BY <1>1, <1>2, <1>4, <1>5, <2>3, <2>4, <2>5 DEF Reported
<1>12. ASSUME NEW d \in Prompts \ {c}, SessionOf[d] = SessionOf[c], UnderWay(d) PROVE HandlerIsLate(d)'
  <2>1. ~Working(d)
    BY <1>3, <1>5, <1>12, TurnFacts DEF Leases
  <2>2. call[d].pc = "catch" /\ UnderWay(c)
    BY <1>5, <1>12, <2>1 DEF UnderWay
  <2>3. HandlerIsLate(d)
    BY <1>1, <1>12, <2>2, BothAreLate
  <2> QED BY <1>3, <1>4, <2>3, LateStays
<1>13. OwnCourse(c)' /\ UnderWay(c)
  BY <1>2, <1>4, <1>5 DEF OwnCourse, UnderWay
<1>14. \/ /\ bound'[SessionOf[c]] = bound[SessionOf[c]]
          /\ bound[SessionOf[c]] = c /\ UnderWay(c) => UnderWay(c)'
       \/ bound'[SessionOf[c]] = Nobody
       \/ bound'[SessionOf[c]] = c /\ UnderWay(c)'
  <2>1. CASE bound[SessionOf[c]] # c
    BY <1>7, <2>1
  <2>2. CASE bound[SessionOf[c]] = c /\ terminals[c] # <<>>
    BY <1>7, <2>2
  <2>3. CASE bound[SessionOf[c]] = c /\ terminals[c] = <<>>
    <3>1. pc = "catch"
      BY <1>1, <1>2, <2>3 DEF TurnInv, Reports, OwnCourse
    <3>2. UnderWay(c)'
      BY <1>4, <3>1 DEF UnderWay
    <3> QED BY <1>7, <2>3, <3>2
  <2> QED BY <2>1, <2>2, <2>3
<1>15. call'[c].pc = "catch" => call[c].pc \in {"thrown", "catch"}
  BY <1>2, <1>4
<1>16. \A d \in Prompts \ {c} : SessionOf[d] = SessionOf[c] /\ UnderWay(d) => HandlerIsLate(d)'
  BY <1>12
<1>17. Reports'
  BY <1>1, <1>3, <1>4, <1>7, <1>11, <1>13, <1>14, <1>15, <1>16, ReportStep
<1> QED BY <1>6, <1>9, <1>10, <1>17 DEF TurnInv

(* The handler of the error that ended a turn. *)
LEMMA CatchStep ==
  ASSUME TurnInv, NEW c \in Prompts, Catch(c)
  PROVE  TurnInv'
<1> DEFINE turn == bound[SessionOf[c]]
<1>1. /\ call[c].pc = "catch" /\ Goto(c, "done") /\ active' = active /\ messages' = messages /\ receipts' = receipts
      /\ IF turn = Nobody THEN UNCHANGED <<bound, terminals>>
         ELSE PublishTerminal(c, turn, "failed") /\ bound' = Unbound(SessionOf[c], turn)
  BY DEF Catch, At, disk
<1>2. /\ c \in Calls /\ c \notin Removals /\ SessionOf[c] \in Sessions
      /\ \A m \in MessageIds : m \notin Stages \cup Ended
      /\ bound \in [Sessions -> Prompts \cup {Nobody}] /\ terminals \in [Prompts -> Seq(TurnEvents)]
      /\ Nobody \notin Prompts
  BY TurnFacts, TurnAssumption DEF TurnRecords, Calls
<1>3. /\ call' \in [Calls -> CallTypes] /\ call'[c].pc = "done" /\ call'[c].wrote = call[c].wrote
      /\ call'[c].overtook = call[c].overtook
      /\ \A d \in Calls \ {c} : call'[d] = call[d]
  BY <1>1, <1>2, CallUpdate DEF Ended
<1>4. PICK event \in TurnEvents :
        turn # Nobody =>
          /\ terminals' = [terminals EXCEPT ![turn] = Append(terminals[turn], event)]
          /\ bound' = [bound EXCEPT ![SessionOf[c]] = Nobody]
  BY <1>1, <1>2 DEF PublishTerminal, Terminal, TurnEvents, Unbound
<1>5. turn \in Prompts \cup {Nobody} /\ (turn = Nobody => bound' = bound /\ terminals' = terminals)
  BY <1>1, <1>2
<1>6. turn # Nobody => /\ terminals'[turn] \in Seq(TurnEvents) /\ Len(terminals'[turn]) = Len(terminals[turn]) + 1
                       /\ terminals' \in [Prompts -> Seq(TurnEvents)]
                       /\ \A d \in Prompts \ {turn} : terminals'[d] = terminals[d]
                       /\ bound' \in [Sessions -> Prompts \cup {Nobody}] /\ bound'[SessionOf[c]] = Nobody
                       /\ \A s \in Sessions \ {SessionOf[c]} : bound'[s] = bound[s]
  <2> SUFFICES ASSUME turn # Nobody
               PROVE  /\ terminals'[turn] \in Seq(TurnEvents) /\ Len(terminals'[turn]) = Len(terminals[turn]) + 1
                      /\ terminals' \in [Prompts -> Seq(TurnEvents)]
                      /\ \A d \in Prompts \ {turn} : terminals'[d] = terminals[d]
                      /\ bound' \in [Sessions -> Prompts \cup {Nobody}] /\ bound'[SessionOf[c]] = Nobody
                      /\ \A s \in Sessions \ {SessionOf[c]} : bound'[s] = bound[s]
    OBVIOUS
  <2>1. turn \in Prompts
    BY <1>5
  <2> HIDE DEF turn
  <2>2. /\ Append(terminals[turn], event) \in Seq(TurnEvents)
        /\ Len(Append(terminals[turn], event)) = Len(terminals[turn]) + 1
    BY <1>2, <2>1, AppendProperties
  <2> QED BY <1>2, <1>4, <2>1, <2>2
<1> HIDE DEF turn
<1>7. TurnRecords'
  BY <1>1, <1>2, <1>3, <1>5, <1>6, TurnFacts DEF TurnRecords
<1>8. ~Working(c)'
  BY <1>2, <1>3 DEF Working, Stages, Ended
<1>9. Leases'
  BY <1>1, <1>2, <1>3, <1>8, LeaseStep
<1>10. Requests'
  BY <1>1, <1>2, <1>3, QuietStep DEF HoldsMessageLock
<1>11. turn # Nobody => SessionOf[turn] = SessionOf[c] /\ UnderWay(turn)
  BY <1>2 DEF TurnInv, Reports, Bindings, turn
<1>12. ASSUME NEW d \in Prompts \ {c}, SessionOf[d] = SessionOf[c], UnderWay(d) PROVE HandlerIsLate(d)'
  <2>1. HandlerIsLate(d)
    BY <1>1, <1>12, BothAreLate
  <2> QED BY <1>2, <1>3, <2>1, LateStays
<1>13. \A d \in Prompts \ {c} :
         (terminals[d] # <<>> => terminals'[d] # <<>>) /\ (~HandlerIsLate(d)' => terminals'[d] = terminals[d])
  <2> SUFFICES ASSUME NEW d \in Prompts \ {c}
               PROVE  /\ terminals[d] # <<>> => terminals'[d] # <<>>
                      /\ ~HandlerIsLate(d)' => terminals'[d] = terminals[d]
    OBVIOUS
  <2>1. CASE turn = d
    <3>1. terminals'[d] # <<>>
      <4>1. Len(terminals'[d]) = Len(terminals[d]) + 1 /\ Len(terminals[d]) \in Nat /\ d # Nobody
        BY <1>2, <1>6, <2>1
      <4> QED BY <4>1
    <3> QED BY <1>2, <1>11, <1>12, <2>1, <3>1
  <2>2. CASE turn # d
    BY <1>5, <1>6, <2>2
  <2> QED BY <2>1, <2>2
<1>14. OwnCourse(c)'
  BY <1>3 DEF OwnCourse
<1>15. ASSUME ~HandlerIsLate(c)' PROVE Reported(c)'
  <2>1. Reported(c)
    <3>1. ~HandlerIsLate(c)
      BY <1>2, <1>3, <1>15, LateStays
    <3> QED BY <3>1 DEF TurnInv, Reports
  <2>2. turn = IF terminals[c] = <<>> THEN c ELSE Nobody
    BY <1>1, <2>1 DEF Reported, turn
  <2>3. CASE terminals[c] = <<>>
    <3>1. turn = c /\ turn # Nobody
      BY <1>2, <2>2, <2>3
    <3>2. Len(terminals'[c]) = Len(terminals[c]) + 1
      BY <1>6, <3>1
    <3>3. Len(terminals[c]) = 0
      BY <2>3
    <3>4. Len(terminals'[c]) = 1
      BY <3>2, <3>3
    <3> QED BY <1>3, <1>8, <3>4 DEF Reported
  <2>4. CASE terminals[c] # <<>>
    <3>1. turn = Nobody /\ Len(terminals[c]) = 1
      BY <2>1, <2>2, <2>4 DEF Reported
    <3> QED BY <1>3, <1>5, <1>8, <3>1 DEF Reported
  <2> QED BY <2>3, <2>4
<1>16. /\ \A s \in Sessions \ {SessionOf[c]} : bound'[s] = bound[s]
       /\ bound'[SessionOf[c]] = Nobody
  BY <1>5, <1>6 DEF turn
<1>17. UnderWay(c)
  BY <1>1 DEF UnderWay
<1>18. \A d \in Prompts \ {c} : SessionOf[d] = SessionOf[c] /\ UnderWay(d) => HandlerIsLate(d)'
  BY <1>12
<1>19. Reports'
  BY <1>2, <1>3, <1>13, <1>14, <1>15, <1>16, <1>17, <1>18, ReportStep
<1> QED BY <1>7, <1>9, <1>10, <1>19 DEF TurnInv

(* The lease of a session is cancelled: the call learns of it at its next step. *)
LEMMA CancelledStep ==
  ASSUME TurnInv, NEW s \in Sessions, CancelSession(s)
  PROVE  TurnInv'
<1>1. active' = active /\ bound' = bound /\ messages' = messages /\ receipts' = receipts /\ terminals' = terminals
  BY DEF CancelSession, disk
<1>2. PICK c \in Calls : call' = [call EXCEPT ![c].aborted = TRUE]
  BY TurnFacts DEF CancelSession, TurnRecords
<1>3. /\ call' \in [Calls -> CallTypes] /\ call'[c].pc = call[c].pc /\ call'[c].wrote = call[c].wrote
      /\ call'[c].overtook = call[c].overtook
      /\ \A d \in Calls \ {c} : call'[d] = call[d]
  <2>1. call \in [Calls -> CallTypes]
    BY TurnFacts DEF TurnRecords
  <2> QED BY <1>1, <1>2, <2>1 DEF CallTypes
<1>4. TurnRecords'
  BY <1>1, <1>3, TurnFacts DEF TurnRecords
<1>5. Working(c)' <=> Working(c)
  BY <1>3 DEF Working
<1>6. Leases'
  BY <1>1, <1>2, <1>3, <1>5, LeaseStep
<1>7. Requests'
  <2>1. CASE c \in Prompts
    <3>1. c \notin Removals
      BY <2>1, TurnFacts
    <3>2. call[c].pc = "replayed" => MessageKey(c) \in messages \/ Disturbed(SessionOf[c])
      BY <2>1, TurnFacts DEF Requests, ReplayIsTrue
    <3>3. /\ call[c].pc \in {"new", "started"} => IsNew(MessageOf[c])
          /\ call[c].pc \in {"written", "accepted"} => call[c].wrote
      BY <2>1, TurnFacts DEF Requests, CheckedIsNew, AcceptedWasWritten
    <3> QED BY <1>1, <1>2, <1>3, <3>1, <3>2, <3>3, QuietStep DEF HoldsMessageLock
  <2>2. CASE c \notin Prompts /\ call[c].pc # "idle"
    BY <1>1, <1>2, <1>3, <2>2, QuietStep
  <2>3. CASE c \notin Prompts /\ call[c].pc = "idle"
    <3>1. \A d \in Prompts : d \in Calls /\ call'[d] = call[d]
      BY <1>3, <2>3, TurnFacts
    <3>2. \A t : Disturbed(t) => Disturbed(t)'
      <4>1. \A d \in Removals : d \in Calls /\ call'[d].pc = call[d].pc
        BY <1>3 DEF Calls
      <4> QED BY <4>1 DEF Disturbed
    <3>3. /\ \A d \in Prompts : HoldsMessageLock(d)' <=> HoldsMessageLock(d)
          /\ \A m : IsNew(m)' <=> IsNew(m)
          /\ \A m \in MessageIds : receipts[m] # Nobody => receipts[m] \in Prompts
      BY <1>1, <3>1, TurnFacts DEF HoldsMessageLock, IsNew, TurnRecords
    <3>4. LocksExclude' /\ CheckedIsNew'
      BY <3>1, <3>3, TurnFacts DEF Requests, LocksExclude, CheckedIsNew
    <3>5. WrittenIsThere' /\ ReplayIsTrue' /\ WrittenOnce'
      BY <1>1, <3>1, <3>2, TurnFacts DEF Requests, WrittenIsThere, ReplayIsTrue, WrittenOnce, MessageKey
    <3>6. AcceptedWasWritten'
      BY <1>1, <3>1, <3>3, TurnFacts DEF Requests, AcceptedWasWritten
    <3> QED BY <3>4, <3>5, <3>6 DEF Requests
  <2> QED BY <2>1, <2>2, <2>3
<1>8. c \in Prompts => (~HandlerIsLate(c) => Reported(c)') /\ OwnCourse(c)' /\ (UnderWay(c)' <=> UnderWay(c))
  <2> SUFFICES ASSUME c \in Prompts
               PROVE  (~HandlerIsLate(c) => Reported(c)') /\ OwnCourse(c)' /\ (UnderWay(c)' <=> UnderWay(c))
    OBVIOUS
  <2>1. OwnCourse(c) /\ (~HandlerIsLate(c) => Reported(c))
    BY DEF TurnInv, Reports
  <2>2. ASSUME Reported(c) PROVE Reported(c)'
    BY <1>1, <1>3, <1>5, <2>2 DEF Reported
  <2> QED BY <1>1, <1>3, <1>5, <2>1, <2>2 DEF OwnCourse, UnderWay
<1>9. Reports'
  BY <1>1, <1>2, <1>3, <1>8, UnreportedStep
<1> QED BY <1>4, <1>6, <1>7, <1>9 DEF TurnInv

(* The removal of a session.  From its first step on, the session is disturbed. *)
LEMMA RemovalSteps ==
  ASSUME TurnInv, NEW c \in Calls, RemovalStep(c)
  PROVE  TurnInv'
<1>1. /\ c \in Removals /\ bound' = bound /\ terminals' = terminals
      /\ call[c].pc \in {"idle", "removing"} \cup MessageIds
  BY DEF RemovalStep, StartRemoval, RemoveMessage, RemoveReceipt, RemoveSession, RemovalFails, disk
<1>2. /\ c \notin Prompts /\ SessionOf[c] \in Sessions
      /\ \A m \in MessageIds : m \notin Stages \cup Ended
  BY <1>1, TurnFacts
<1>3. PICK pc \in {"removing", "done", "failed"} \cup MessageIds :
        /\ Goto(c, pc)
        /\ \/ active' = active /\ Working(c)
           \/ Reserve(c)
           \/ active' = WithoutLease(c) /\ pc \in {"done", "failed"}
        /\ \/ messages' = messages
           \/ \E message \in messages : message.session = SessionOf[c] /\ messages' = messages \ {message}
        /\ \/ receipts' = receipts
           \/ \E m \in MessageIds : receipts' = [receipts EXCEPT ![m] = Nobody]
  <2>1. CASE StartRemoval(c)
    BY <2>1 DEF StartRemoval, disk
  <2>2. CASE RemoveMessage(c)
    <3>1. PICK message \in messages :
            message.session = SessionOf[c] /\ messages' = messages \ {message} /\ Goto(c, message.id)
      BY <2>2 DEF RemoveMessage, MessagesOf
    <3>2. message.id \in MessageIds
      BY <3>1, TurnFacts DEF TurnRecords
    <3> QED BY <2>2, <3>1, <3>2 DEF RemoveMessage, Working
  <2>3. CASE RemoveReceipt(c)
    BY <2>3 DEF RemoveReceipt, Working
  <2>4. CASE RemoveSession(c)
    BY <2>4 DEF RemoveSession
  <2>5. CASE RemovalFails(c)
    BY <2>5 DEF RemovalFails, disk
  <2> QED BY <2>1, <2>2, <2>3, <2>4, <2>5 DEF RemovalStep
<1>4. /\ call' \in [Calls -> CallTypes] /\ call'[c].pc = pc /\ call'[c].overtook = call[c].overtook
      /\ \A d \in Calls \ {c} : call'[d] = call[d]
  BY <1>3, CallUpdate DEF Stages, Ended
<1>5. pc \in {"done", "failed"} => ~Working(c)'
  BY <1>2, <1>4 DEF Working, Ended
<1>6. Leases' /\ active' \in [Sessions -> Calls \cup {Nobody}]
  BY <1>3, <1>4, <1>5, LeaseStep
<1>7. /\ receipts' \in [MessageIds -> Prompts \cup {Nobody}] /\ messages' \subseteq messages
      /\ \A m \in MessageIds : receipts'[m] # Nobody => receipts'[m] = receipts[m] /\ receipts[m] \in Prompts
  BY <1>3, TurnFacts DEF TurnRecords
<1>8. TurnRecords'
  BY <1>1, <1>4, <1>6, <1>7, TurnFacts DEF TurnRecords
<1>9. /\ \A d \in Prompts : d \in Calls /\ d # c /\ call'[d] = call[d] /\ (HoldsMessageLock(d)' <=> HoldsMessageLock(d))
      /\ Disturbed(SessionOf[c])'
      /\ \A s : Disturbed(s) => Disturbed(s)'
  <2>1. \A d \in Prompts : d \in Calls /\ d # c /\ call'[d] = call[d]
    BY <1>2, <1>4, TurnFacts
  <2>2. call'[c].pc # "idle"
    BY <1>2, <1>4 DEF Ended
  <2>3. Disturbed(SessionOf[c])' /\ \A s : Disturbed(s) => Disturbed(s)'
    <3>1. \A d \in Removals \ {c} : call'[d] = call[d]
      BY <1>4 DEF Calls
    <3> QED BY <1>1, <2>2, <3>1 DEF Disturbed
  <2> QED BY <2>1, <2>3 DEF HoldsMessageLock
<1>10. LocksExclude' /\ CheckedIsNew'
  BY <1>7, <1>9, TurnFacts DEF Requests, LocksExclude, CheckedIsNew, IsNew
<1>11. ASSUME NEW d \in Prompts, MessageKey(d) \in messages \/ Disturbed(SessionOf[d])
       PROVE  MessageKey(d) \in messages' \/ Disturbed(SessionOf[d])'
  <2>1. CASE SessionOf[d] = SessionOf[c]
    BY <1>9, <2>1
  <2>2. CASE SessionOf[d] # SessionOf[c]
    <3>1. MessageKey(d).session = SessionOf[d]
      BY DEF MessageKey
    <3>2. MessageKey(d) \in messages => MessageKey(d) \in messages'
      BY <1>3, <2>2, <3>1
    <3> QED BY <1>9, <1>11, <3>2
  <2> QED BY <2>1, <2>2
<1>12. WrittenIsThere' /\ ReplayIsTrue'
  <2>1. \A d \in Prompts : MessageKey(d)' = MessageKey(d)
    BY DEF MessageKey
  <2> QED BY <1>9, <1>11, <2>1, TurnFacts DEF Requests, WrittenIsThere, ReplayIsTrue
<1>13. WrittenOnce'
  BY <1>9, TurnFacts DEF Requests, WrittenOnce
<1>14. AcceptedWasWritten'
  BY <1>7, <1>9, TurnFacts DEF Requests, AcceptedWasWritten
<1>15. Reports'
  BY <1>1, <1>2, <1>4, UnreportedStep
<1> QED BY <1>6, <1>8, <1>10, <1>12, <1>13, <1>14, <1>15 DEF TurnInv, Requests

LEMMA CrashStep ==
  ASSUME TurnInv, Crash
  PROVE  TurnInv'
<1>1. /\ call' = [c \in Calls |-> IF call[c].pc \in Ended THEN call[c]
                                 ELSE [call[c] EXCEPT !.pc = "crashed", !.aborted = FALSE]]
      /\ active' = [s \in Sessions |-> Nobody] /\ bound' = [s \in Sessions |-> Nobody]
      /\ messages' = messages /\ receipts' = receipts /\ terminals' = terminals
  BY DEF Crash, disk
<1>2. /\ call' \in [Calls -> CallTypes]
      /\ \A c \in Calls : /\ call'[c].wrote = call[c].wrote /\ call'[c].pc \in Ended
                          /\ call'[c].pc = call[c].pc \/ call'[c].pc = "crashed"
                          /\ call[c].pc = "idle" <=> call'[c].pc = "idle"
  <2>1. call \in [Calls -> CallTypes]
    BY TurnFacts DEF TurnRecords
  <2> QED BY <1>1, <2>1 DEF CallTypes, Ended
<1>3. TurnRecords'
  BY <1>1, <1>2, TurnFacts DEF TurnRecords
<1>4. \A c \in Calls : ~Working(c)'
  BY <1>2, TurnFacts DEF Working, Ended
<1>5. Leases'
  BY <1>4 DEF Leases
<1>6. \A c \in Prompts : c \in Calls /\ ~HoldsMessageLock(c)' /\ call'[c].pc # "catch"
  BY <1>2, TurnFacts DEF HoldsMessageLock, Ended
<1>7. \A s : Disturbed(s)' <=> Disturbed(s)
  BY <1>2 DEF Disturbed, Calls
<1>8. LocksExclude' /\ CheckedIsNew'
  BY <1>2, <1>6 DEF LocksExclude, CheckedIsNew, HoldsMessageLock
<1>9. WrittenIsThere' /\ ReplayIsTrue' /\ WrittenOnce'
  BY <1>1, <1>2, <1>6, <1>7, TurnFacts DEF Requests, WrittenIsThere, ReplayIsTrue, WrittenOnce, MessageKey
<1>10. AcceptedWasWritten'
  <2>1. \A m \in MessageIds : receipts[m] # Nobody => receipts[m] \in Prompts
    BY TurnFacts DEF TurnRecords
  <2>2. \A c \in Prompts : c \in Calls /\ call'[c].wrote = call[c].wrote /\ call'[c].pc \notin {"written", "accepted"}
    BY <1>2, <1>6 DEF Ended
  <2>3. receipts' = receipts
    BY <1>1
  <2> QED BY <2>1, <2>2, <2>3, TurnFacts DEF Requests, AcceptedWasWritten
<1>11. \A c \in Calls : call'[c].overtook = call[c].overtook
  BY <1>1, TurnFacts DEF CallTypes
<1>12. \A c \in Prompts : (HandlerIsLate(c)' <=> HandlerIsLate(c)) /\ ~UnderWay(c)'
  BY <1>4, <1>6, <1>11 DEF HandlerIsLate, UnderWay
<1>13. ASSUME NEW c \in Prompts PROVE OwnCourse(c)' /\ (~HandlerIsLate(c)' => Reported(c)')
  <2>1. OwnCourse(c) /\ (~HandlerIsLate(c)' => Reported(c))
    BY <1>12 DEF TurnInv, Reports
  <2>2. OwnCourse(c)'
    BY <1>2, <1>6, <1>11, <2>1 DEF OwnCourse, Ended
  <2>3. ASSUME Reported(c) PROVE Reported(c)'
    BY <1>1, <1>2, <1>4, <1>6, <2>3 DEF Reported, Ended
  <2> QED BY <2>1, <2>2, <2>3
<1>14. Together' /\ Bindings'
  BY <1>1, <1>6, TurnFacts DEF Together, Bindings
<1> QED BY <1>3, <1>5, <1>8, <1>9, <1>10, <1>13, <1>14 DEF TurnInv, Requests, Reports

LEMMA TurnStart == TurnInit => TurnInv
<1> SUFFICES ASSUME TurnInit PROVE TurnInv
  OBVIOUS
<1>1. /\ call = [c \in Calls |-> [pc |-> "idle", aborted |-> FALSE, wrote |-> FALSE, overtook |-> {}]]
      /\ active = [s \in Sessions |-> Nobody] /\ bound = [s \in Sessions |-> Nobody]
      /\ messages = {} /\ receipts = [m \in MessageIds |-> Nobody] /\ terminals = [c \in Prompts |-> <<>>]
  BY DEF TurnInit
<1>2. \A c \in Calls : call[c].pc = "idle" /\ ~call[c].wrote /\ ~Working(c)
  BY <1>1, TurnAssumption DEF Working, Ended
<1>3. TurnRecords
  BY <1>1 DEF TurnRecords, CallTypes, Ended
<1>4. Leases
  BY <1>2 DEF Leases
<1>5. \A c \in Prompts : c \in Calls /\ terminals[c] = <<>>
  BY <1>1 DEF Calls
<1>6. Requests
  BY <1>1, <1>2, <1>5 DEF Requests, LocksExclude, CheckedIsNew, WrittenIsThere, AcceptedWasWritten, WrittenOnce,
                          ReplayIsTrue, HoldsMessageLock
<1>7. Reports
  <2>1. \A c \in Prompts : call[c].overtook = {}
    BY <1>1, <1>5
  <2>2. Together /\ Bindings
    BY <1>1, <1>2, <1>5, TurnAssumption DEF Together, Bindings
  <2> QED BY <1>2, <1>5, <2>1, <2>2 DEF Reports, Reported, OwnCourse
<1> QED BY <1>3, <1>4, <1>6, <1>7 DEF TurnInv

LEMMA TurnNextStep == TurnInv /\ [TurnNext]_turnVars => TurnInv'
<1> SUFFICES ASSUME TurnInv, [TurnNext]_turnVars PROVE TurnInv'
  OBVIOUS
<1>1. CASE UNCHANGED turnVars
  <2>1. /\ call' = call /\ active' = active /\ bound' = bound /\ messages' = messages /\ receipts' = receipts
        /\ terminals' = terminals
    BY <1>1 DEF turnVars, disk
  <2>2. TurnRecords' /\ Leases'
    BY <2>1, TurnFacts DEF TurnRecords, Leases, Working
  <2>3. Requests'
    BY <2>1, TurnFacts DEF Requests, LocksExclude, CheckedIsNew, WrittenIsThere, AcceptedWasWritten, WrittenOnce,
                           ReplayIsTrue, HoldsMessageLock, IsNew, Disturbed, MessageKey
  <2>4. Reports'
    BY <2>1 DEF TurnInv, Reports, Together, Bindings, OwnCourse, UnderWay, HandlerIsLate, Reported, Working
  <2> QED BY <2>2, <2>3, <2>4 DEF TurnInv
<1>2. ASSUME NEW c \in Calls, PromptStep(c) PROVE TurnInv'
  <2>1. CASE Catch(c)
    BY <2>1, CatchStep DEF Catch, At
  <2> QED BY <1>2, <2>1, MovesStep, StartTurnStep, CreateStep, AcceptStep, TerminalStep, ReleaseStep DEF PromptStep
<1>3. ASSUME NEW c \in Calls, RemovalStep(c) PROVE TurnInv'
  BY <1>3, RemovalSteps
<1>4. ASSUME NEW s \in Sessions, CancelSession(s) PROVE TurnInv'
  BY <1>4, CancelledStep
<1>5. CASE Crash
  BY <1>5, CrashStep
<1> QED BY <1>1, <1>2, <1>3, <1>4, <1>5 DEF TurnNext

(* What the turns of any number of sessions keep, for any number of prompts, resends, removals and crashes. *)
THEOREM TurnInvariance == TurnSpec => []TurnInv
BY TurnStart, TurnNextStep, PTL DEF TurnSpec

(* OneAtATime: the lease keeps two turns, and a turn and the removal of its session, from working at once. *)
THEOREM OneCallWorks == TurnSpec => []OneAtATime
<1>1. TurnInv => OneAtATime
  BY DEF TurnInv, Leases, OneAtATime
<1> QED BY <1>1, TurnInvariance, PTL

(* ResendsAreSafe: a message is written once however often it is sent, and whoever is told that it was accepted before
   finds it. *)
THEOREM ResendsStaySafe == TurnSpec => []ResendsAreSafe
<1>1. TurnInv => ResendsAreSafe
  BY DEF TurnInv, Requests, ResendsAreSafe
<1> QED BY <1>1, TurnInvariance, PTL

(* OneTerminal: every turn that is over was reported once, in its own name, however turns throw, are cancelled and follow
   each other, if no other turn came between the end of a turn and the handler of its error. *)
THEOREM TurnsReportOnce == TurnSpec => []OneTerminal
<1>1. TurnInv => OneTerminal
  <2> SUFFICES ASSUME TurnInv, NEW c \in Prompts, ~HandlerIsLate(c)
               PROVE  Len(terminals[c]) <= 1 /\ (call[c].pc = "done" => Len(terminals[c]) = 1)
    BY DEF OneTerminal
  <2>1. Reported(c)
    BY DEF TurnInv, Reports
  <2>2. /\ terminals[c] = <<>> \/ Len(terminals[c]) = 1
        /\ call[c].pc = "done" => Len(terminals[c]) = 1
    BY <2>1 DEF Reported
  <2>3. CASE terminals[c] = <<>>
    <3>1. Len(terminals[c]) = 0
      BY <2>3
    <3> QED BY <2>2, <3>1
  <2>4. CASE Len(terminals[c]) = 1
    BY <2>4
  <2> QED BY <2>2, <2>3, <2>4
<1> QED BY <1>1, TurnInvariance, PTL

-----------------------------------------------------------------------------
(***************************************************************************)
(* RouteIsKept of FeishuSessions, for any number of messages, aborts and   *)
(* resets.                                                                 *)
(***************************************************************************)
BoundTo == ResetCalls \cup Nat \cup {NoSession}

TurnPlaces ==
  {"get", "check", "create", "bind", "factory", "start", "send", "keep", "attach", "running", "stopping", "told", "done"}

RouteTurnRecords ==
  [pc : TurnPlaces, batch : SUBSET ChatMessages, session : BoundTo, sink : {"none", "live", "over"},
   reason : {"none", "busy", "failed"}]

ActiveTurns == [on : BOOLEAN, session : BoundTo, snapshot : Nat, sink : Nat]

MessageRecords == [handled : BOOLEAN, told : SUBSET {"none", "busy", "failed", "cancelled"}]

RouteRecords ==
  /\ buffer \in SUBSET ChatMessages
  /\ activeTurn \in ActiveTurns
  /\ turns \in Seq(RouteTurnRecords)
  /\ binding \in BoundTo
  /\ chatMessage \in [ChatMessages -> MessageRecords]

(* Where a message is. *)
MessageFits(m) ==
  /\ ~chatMessage[m].handled => m \notin buffer /\ Batches(m) = {} /\ chatMessage[m].told = {}
  /\ m \in buffer => Batches(m) = {} /\ chatMessage[m].told = {}
  /\ chatMessage[m].handled /\ m \notin buffer => Batches(m) # {} \/ chatMessage[m].told # {}
  /\ \A i, j \in Batches(m) : i = j
  /\ "cancelled" \in chatMessage[m].told => Batches(m) = {}

(* The turn that made the route busy is the last one that began. *)
RouteInv ==
  /\ RouteRecords
  /\ \A m \in ChatMessages : MessageFits(m)
  /\ ~buffering => buffer = {}
  /\ BufferedMeansIdle
  /\ activeTurn.on => turns # <<>> /\ turns[Len(turns)].pc # "done"

LEMMA RouteFacts ==
  ASSUME RouteInv
  PROVE  /\ buffer \in SUBSET ChatMessages /\ activeTurn \in ActiveTurns /\ turns \in Seq(RouteTurnRecords) /\ binding \in BoundTo
         /\ chatMessage \in [ChatMessages -> MessageRecords]
         /\ Len(turns) \in Nat /\ DOMAIN turns = 1..Len(turns) /\ \A i \in DOMAIN turns : turns[i] \in RouteTurnRecords
         /\ \A m \in ChatMessages : MessageFits(m)
         /\ ~buffering => buffer = {}
         /\ buffer # {} => ~activeTurn.on
         /\ activeTurn.on => turns # <<>> /\ turns[Len(turns)].pc # "done" /\ Len(turns) \in DOMAIN turns
<1>1. Len(turns) \in Nat /\ DOMAIN turns = 1..Len(turns) /\ \A i \in DOMAIN turns : turns[i] \in RouteTurnRecords
  BY LenProperties, ElementOfSeq DEF RouteInv, RouteRecords
<1>2. turns # <<>> => Len(turns) \in DOMAIN turns
  BY <1>1, EmptySeq DEF RouteInv, RouteRecords
<1> QED BY <1>1, <1>2 DEF RouteInv, RouteRecords, BufferedMeansIdle

(* The turns keep their batches, and whoever ends the last one has released the route. *)
SameBatches ==
  /\ turns' \in Seq(RouteTurnRecords) /\ DOMAIN turns' = DOMAIN turns
  /\ \A i \in DOMAIN turns : turns'[i].batch = turns[i].batch
  /\ activeTurn' \in ActiveTurns
  /\ activeTurn'.on => activeTurn.on /\ turns'[Len(turns)].pc # "done"

LEMMA SameBatchesKept ==
  ASSUME RouteInv, SameBatches, NEW m \in ChatMessages
  PROVE  Batches(m)' = Batches(m)
BY DEF SameBatches, Batches

LEMMA SameLength ==
  ASSUME RouteInv, SameBatches, activeTurn'.on
  PROVE  turns' # <<>> /\ turns'[Len(turns')].pc # "done"
<1>1. Len(turns) \in DOMAIN turns /\ Len(turns) \in Nat /\ DOMAIN turns = 1..Len(turns) /\ turns'[Len(turns)].pc # "done"
  BY RouteFacts DEF SameBatches
<1>2. Len(turns') \in Nat /\ DOMAIN turns' = 1..Len(turns') /\ DOMAIN turns' = DOMAIN turns
  BY LenProperties DEF SameBatches
<1>3. Len(turns') = Len(turns)
  <2>1. ASSUME NEW k \in Nat, NEW n \in Nat, 1..k = 1..n, n \in 1..k PROVE k = n
    <3>1. k \in 1..k /\ n <= k
      BY <2>1
    <3> QED BY <2>1, <3>1
  <2> QED BY <1>1, <1>2, <2>1
<1>4. turns' # <<>>
  BY <1>1, <1>2, EmptySeq
<1> QED BY <1>1, <1>3, <1>4

(* A step that tells nobody anything and leaves the messages where they are. *)
LEMMA QuietRouteStep ==
  ASSUME RouteInv, UNCHANGED <<buffering, buffer, chatMessage>>, SameBatches, binding' \in BoundTo
  PROVE  RouteInv'
<1>1. RouteRecords'
  BY RouteFacts DEF RouteRecords, SameBatches
<1>2. ASSUME NEW m \in ChatMessages PROVE MessageFits(m)'
  <2>1. MessageFits(m) /\ Batches(m)' = Batches(m)
    BY RouteFacts, SameBatchesKept
  <2> HIDE DEF Batches
  <2> QED BY <2>1 DEF MessageFits
<1>3. (~buffering => buffer = {})' /\ BufferedMeansIdle'
  BY RouteFacts DEF SameBatches, BufferedMeansIdle
<1> QED BY <1>1, <1>2, <1>3, SameLength DEF RouteInv

(* One turn goes on. *)
LEMMA OneTurn ==
  ASSUME RouteInv, NEW i \in DOMAIN turns, NEW t \in RouteTurnRecords, turns' = [turns EXCEPT ![i] = t], t.batch = turns[i].batch,
         activeTurn' \in ActiveTurns, activeTurn'.on => activeTurn.on /\ (t.pc # "done" \/ i # Len(turns))
  PROVE  SameBatches
<1>1. turns \in Seq(RouteTurnRecords) /\ DOMAIN turns = 1..Len(turns)
  BY RouteFacts
<1>2. turns' \in Seq(RouteTurnRecords)
  BY <1>1, ExceptSeq
<1>3. DOMAIN turns' = DOMAIN turns /\ turns'[i] = t /\ \A j \in DOMAIN turns : j # i => turns'[j] = turns[j]
  OBVIOUS
<1>4. activeTurn'.on => turns'[Len(turns)].pc # "done"
  BY <1>3, RouteFacts
<1> HIDE DEF RouteTurnRecords
<1> QED BY <1>2, <1>3, <1>4 DEF SameBatches

LEMMA PatchedActive ==
  ASSUME RouteInv, NEW v,
         NEW field \in {"session", "snapshot", "sink"}, v \in IF field = "session" THEN BoundTo ELSE Nat
  PROVE  Patched(activeTurn, field, v) \in ActiveTurns /\ (Patched(activeTurn, field, v).on <=> activeTurn.on)
<1>1. activeTurn \in ActiveTurns
  BY RouteFacts
<1>2. CASE field = "session"
  BY <1>1, <1>2 DEF Patched, ActiveTurns
<1>3. CASE field = "snapshot"
  BY <1>1, <1>3 DEF Patched, ActiveTurns
<1>4. CASE field = "sink"
  BY <1>1, <1>4 DEF Patched, ActiveTurns
<1> QED BY <1>2, <1>3, <1>4

LEMMA StoppedSink ==
  ASSUME NEW t \in RouteTurnRecords
  PROVE  StopSink(t) \in RouteTurnRecords /\ StopSink(t).batch = t.batch /\ StopSink(t).pc = t.pc
BY DEF StopSink, RouteTurnRecords

LEMMA TurnSteps ==
  ASSUME RouteInv, NEW i \in DOMAIN turns, TurnStep(i), ~ChatIsTold(i)
  PROVE  RouteInv'
<1> DEFINE t == turns[i]
<1>1. UNCHANGED <<buffering, buffer, chatMessage, abortCall, resetCall>>
  BY DEF TurnStep
<1>2. t \in RouteTurnRecords /\ t.session \in BoundTo /\ activeTurn \in ActiveTurns /\ binding \in BoundTo /\ i \in Nat
  BY RouteFacts DEF RouteTurnRecords
<1>3. {"get", "check", "create", "bind", "factory", "start", "send", "keep", "attach", "running", "stopping", "told", "done"}
        \subseteq TurnPlaces
  BY DEF TurnPlaces
(* The turn, and what is active and stored after the step. *)
<1>4. ASSUME NEW pc \in TurnPlaces \ {"done"}, RouteGoto(i, pc), activeTurn' = activeTurn, binding' = binding
      PROVE  RouteInv'
  <2>1. turns' = [turns EXCEPT ![i] = [t EXCEPT !.pc = pc]]
    BY <1>4 DEF RouteGoto
  <2>2. SameBatches
    <3> DEFINE u == [t EXCEPT !.pc = pc]
    <3>1. u \in RouteTurnRecords /\ u.batch = t.batch /\ u.pc = pc
      BY <1>2, <1>4, <2>1 DEF RouteTurnRecords
    <3>2. turns' = [turns EXCEPT ![i] = u]
      BY <1>2, <1>4, <2>1
    <3> HIDE DEF u
    <3> QED BY <1>2, <1>4, <2>1, <3>1, <3>2, OneTurn
  <2> QED BY <1>1, <1>2, <1>4, <2>2, QuietRouteStep
<1>5. ASSUME NEW s \in BoundTo, HasSession(i, s), binding' \in BoundTo
      PROVE  RouteInv'
  <2>1. turns' = [turns EXCEPT ![i] = [t EXCEPT !.pc = "factory", !.session = s]]
    BY <1>5 DEF HasSession
  <2>2. activeTurn' \in ActiveTurns /\ (activeTurn'.on => activeTurn.on)
    BY <1>5, PatchedActive DEF HasSession
  <2>3. SameBatches
    <3> DEFINE u == [t EXCEPT !.pc = "factory", !.session = s]
    <3>1. u \in RouteTurnRecords /\ u.batch = t.batch /\ u.pc = "factory"
      BY <1>2, <1>3, <2>1, <2>2 DEF RouteTurnRecords
    <3>2. turns' = [turns EXCEPT ![i] = u]
      BY <1>2, <1>3, <2>1, <2>2
    <3> HIDE DEF u
    <3> QED BY <1>2, <1>3, <2>1, <2>2, <3>1, <3>2, OneTurn
  <2> QED BY <1>1, <1>5, <2>3, QuietRouteStep
<1>6. CASE GetBinding(i)
  <2> DEFINE pc == IF binding = NoSession THEN "create" ELSE "check"
  <2>1. turns' = [turns EXCEPT ![i] = [t EXCEPT !.pc = pc, !.session = binding]] /\ activeTurn' = activeTurn /\ binding' = binding
    BY <1>6 DEF GetBinding
  <2>2. pc \in TurnPlaces /\ pc # "done"
    BY <1>3
  <2> HIDE DEF pc
  <2>3. SameBatches
    <3> DEFINE u == [t EXCEPT !.pc = pc, !.session = binding]
    <3>1. u \in RouteTurnRecords /\ u.batch = t.batch /\ u.pc = pc
      BY <1>2, <2>1, <2>2 DEF RouteTurnRecords
    <3>2. turns' = [turns EXCEPT ![i] = u]
      BY <1>2, <2>1, <2>2
    <3> HIDE DEF u
    <3> QED BY <1>2, <2>1, <2>2, <3>1, <3>2, OneTurn
  <2> QED BY <1>1, <1>2, <2>1, <2>3, QuietRouteStep
<1>7. CASE CheckBoundSession(i)
  <2>1. binding' = binding
    BY <1>7 DEF CheckBoundSession
  <2>2. CASE HasSession(i, t.session)
    BY <1>2, <1>5, <2>1, <2>2
  <2>3. CASE RouteGoto(i, "create") /\ UNCHANGED activeTurn
    BY <1>3, <1>4, <2>1, <2>3
  <2> QED BY <1>7, <2>2, <2>3 DEF CheckBoundSession
<1>8. CASE CreateBoundSession(i) \/ SendBatch(i) \/ BatchAccepted(i) \/ SinkBound(i)
  <2>1. PICK pc \in {"bind", "send", "keep", "running"} : RouteGoto(i, pc) /\ activeTurn' = activeTurn /\ binding' = binding
    BY <1>8 DEF CreateBoundSession, SendBatch, BatchAccepted, SinkBound
  <2> QED BY <1>3, <1>4, <2>1
<1>9. CASE StoreBinding(i)
  <2>1. i \in BoundTo /\ HasSession(i, i) /\ binding' = i
    BY <1>2, <1>9 DEF StoreBinding, BoundTo
  <2> QED BY <1>5, <2>1
<1>10. CASE MakeSink(i)
  <2>1. turns' = [turns EXCEPT ![i] = [t EXCEPT !.pc = "start", !.sink = "live"]] /\ binding' = binding
    BY <1>10 DEF MakeSink
  <2>2. activeTurn' \in ActiveTurns /\ (activeTurn'.on => activeTurn.on)
    BY <1>2, <1>10, PatchedActive DEF MakeSink
  <2>3. SameBatches
    <3> DEFINE u == [t EXCEPT !.pc = "start", !.sink = "live"]
    <3>1. u \in RouteTurnRecords /\ u.batch = t.batch /\ u.pc = "start"
      BY <1>2, <1>3, <2>1, <2>2 DEF RouteTurnRecords
    <3>2. turns' = [turns EXCEPT ![i] = u]
      BY <1>2, <1>3, <2>1, <2>2
    <3> HIDE DEF u
    <3> QED BY <1>2, <1>3, <2>1, <2>2, <3>1, <3>2, OneTurn
  <2> QED BY <1>1, <1>2, <2>1, <2>3, QuietRouteStep
<1>11. CASE KeepBinding(i)
  <2>1. turns' = [turns EXCEPT ![i] = [t EXCEPT !.pc = "attach"]] /\ binding' = t.session
    BY <1>11 DEF KeepBinding, RouteGoto
  <2>2. activeTurn' \in ActiveTurns /\ (activeTurn'.on => activeTurn.on)
    BY <1>2, <1>11, PatchedActive DEF KeepBinding
  <2>3. SameBatches
    <3> DEFINE u == [t EXCEPT !.pc = "attach"]
    <3>1. u \in RouteTurnRecords /\ u.batch = t.batch /\ u.pc = "attach"
      BY <1>2, <1>3, <2>1, <2>2 DEF RouteTurnRecords
    <3>2. turns' = [turns EXCEPT ![i] = u]
      BY <1>2, <1>3, <2>1, <2>2
    <3> HIDE DEF u
    <3> QED BY <1>2, <1>3, <2>1, <2>2, <3>1, <3>2, OneTurn
  <2> QED BY <1>1, <1>2, <2>1, <2>3, QuietRouteStep
<1>12. CASE BatchRefused(i) \/ FlushFailed(i)
  <2>1. PICK reason \in {"busy", "failed"} : TurnStops(i, reason)
    BY <1>12 DEF BatchRefused, FlushFailed
  <2> DEFINE stopped == StopSink(t)
  <2>2. stopped \in RouteTurnRecords /\ stopped.batch = t.batch
    BY <1>2, StoppedSink
  <2>3. turns' = [turns EXCEPT ![i] = [stopped EXCEPT !.pc = "stopping", !.reason = reason]] /\ activeTurn' = activeTurn /\ binding' = binding
    BY <2>1 DEF TurnStops
  <2> HIDE DEF stopped
  <2>4. SameBatches
    <3> DEFINE u == [stopped EXCEPT !.pc = "stopping", !.reason = reason]
    <3>1. u \in RouteTurnRecords /\ u.batch = t.batch /\ u.pc = "stopping"
      BY <1>2, <1>3, <2>2, <2>3 DEF RouteTurnRecords
    <3>2. turns' = [turns EXCEPT ![i] = u]
      BY <1>2, <1>3, <2>2, <2>3
    <3> HIDE DEF u
    <3> QED BY <1>2, <1>3, <2>2, <2>3, <3>1, <3>2, OneTurn
  <2> QED BY <1>1, <1>2, <2>3, <2>4, QuietRouteStep
<1>13. CASE TurnReleases(i)
  <2>1. turns' = [turns EXCEPT ![i] = [t EXCEPT !.pc = "done"]] /\ activeTurn' = Inactive /\ binding' = binding
    BY <1>13 DEF TurnReleases, RouteGoto, AfterTurn
  <2>2. Inactive \in ActiveTurns /\ ~Inactive.on
    BY DEF Inactive, ActiveTurns, BoundTo
  <2>3. SameBatches
    <3> DEFINE u == [t EXCEPT !.pc = "done"]
    <3>1. u \in RouteTurnRecords /\ u.batch = t.batch /\ u.pc = "done"
      BY <1>2, <1>3, <2>1, <2>2 DEF RouteTurnRecords
    <3>2. turns' = [turns EXCEPT ![i] = u]
      BY <1>2, <1>3, <2>1, <2>2
    <3> HIDE DEF u
    <3> QED BY <1>2, <1>3, <2>1, <2>2, <3>1, <3>2, OneTurn
  <2> QED BY <1>1, <1>2, <2>1, <2>3, QuietRouteStep
<1>14. CASE SinkEnds(i)
  <2>1. turns' = [turns EXCEPT ![i] = [t EXCEPT !.sink = "over"]] /\ activeTurn' = activeTurn /\ binding' = binding /\ t.pc # "done"
    BY <1>14 DEF SinkEnds
  <2>2. SameBatches
    <3> DEFINE u == [t EXCEPT !.sink = "over"]
    <3>1. u \in RouteTurnRecords /\ u.batch = t.batch /\ u.pc = t.pc
      BY <1>2, <2>1 DEF RouteTurnRecords
    <3>2. turns' = [turns EXCEPT ![i] = u]
      BY <1>2, <2>1
    <3> HIDE DEF u
    <3> QED BY <1>2, <2>1, <3>1, <3>2, OneTurn
  <2> QED BY <1>1, <1>2, <2>1, <2>2, QuietRouteStep
<1> QED BY <1>6, <1>7, <1>8, <1>9, <1>10, <1>11, <1>12, <1>13, <1>14 DEF TurnStep

(* A step that begins a turn with its batch. *)
LEMMA BatchFlushed ==
  ASSUME RouteInv, NEW batch \in SUBSET ChatMessages, FlushBatch(batch), binding' = binding, buffering' = buffering,
         chatMessage' \in [ChatMessages -> MessageRecords],
         \A m \in ChatMessages : /\ chatMessage'[m].told = chatMessage[m].told
                                 /\ m \in batch => chatMessage'[m].handled
                                 /\ m \notin batch => chatMessage'[m].handled = chatMessage[m].handled /\ m \notin buffer
                                 /\ m \in batch => m \in buffer \/ ~chatMessage[m].handled
  PROVE  RouteInv'
<1> DEFINE t == [pc |-> "get", batch |-> batch, session |-> NoSession, sink |-> "none", reason |-> "none"]
           n == Len(turns) + 1
<1>1. t \in RouteTurnRecords /\ t.batch = batch /\ t.pc # "done"
  BY DEF RouteTurnRecords, TurnPlaces, BoundTo
<1>2. turns' = Append(turns, t) /\ activeTurn' = [Inactive EXCEPT !.on = TRUE] /\ buffer' = {}
  BY DEF FlushBatch, Drained
<1> HIDE DEF t
<1>3. /\ turns' \in Seq(RouteTurnRecords) /\ Len(turns') = n /\ turns'[n] = t /\ turns' # <<>> /\ n \notin DOMAIN turns
      /\ DOMAIN turns' = DOMAIN turns \cup {n} /\ \A i \in DOMAIN turns : turns'[i] = turns[i]
  <2>1. turns \in Seq(RouteTurnRecords) /\ DOMAIN turns = 1..Len(turns) /\ Len(turns) \in Nat
    BY RouteFacts
  <2>2. /\ turns' \in Seq(RouteTurnRecords) /\ Len(turns') = n /\ turns'[n] = t /\ turns' # <<>>
        /\ \A i \in 1..Len(turns) : turns'[i] = turns[i]
    BY <1>1, <1>2, <2>1, AppendProperties
  <2>3. DOMAIN turns' = 1..n
    BY <2>2, LenProperties
  <2> QED BY <2>1, <2>2, <2>3
<1> HIDE DEF n
<1>4. ASSUME NEW m \in ChatMessages PROVE Batches(m)' = IF m \in batch THEN Batches(m) \cup {n} ELSE Batches(m)
  BY <1>1, <1>3 DEF Batches
<1>5. ASSUME NEW m \in ChatMessages PROVE MessageFits(m)'
  <2>1. MessageFits(m)
    BY RouteFacts
  <2>2. CASE m \in batch
    <3>1. Batches(m)' = {n} /\ chatMessage'[m].handled /\ chatMessage'[m].told = {} /\ m \notin buffer'
      BY <1>2, <1>4, <2>1, <2>2 DEF MessageFits
    <3> QED BY <3>1 DEF MessageFits
  <2>3. CASE m \notin batch
    <3>1. /\ Batches(m)' = Batches(m) /\ chatMessage'[m].handled = chatMessage[m].handled
          /\ chatMessage'[m].told = chatMessage[m].told /\ m \notin buffer' /\ m \notin buffer
      BY <1>2, <1>4, <2>3
    <3> HIDE DEF Batches
    <3> QED BY <2>1, <3>1 DEF MessageFits
  <2> QED BY <2>2, <2>3
<1>6. activeTurn' \in ActiveTurns
  BY <1>2 DEF Inactive, ActiveTurns, BoundTo
<1>7. RouteRecords'
  BY <1>2, <1>3, <1>6, RouteFacts DEF RouteRecords
<1> QED BY <1>1, <1>2, <1>3, <1>5, <1>7 DEF RouteInv, BufferedMeansIdle

(* A step after which some messages are known to be turned down, failed or cancelled. *)
LEMMA ToldStep ==
  ASSUME RouteInv, NEW batch \in SUBSET ChatMessages, NEW what \in {"none", "busy", "failed", "cancelled"}, Tell(batch, what),
         buffering' = buffering, SameBatches, binding' \in BoundTo,
         buffer' = buffer \/ buffer' = {}, buffer' # {} => batch \cap buffer = {},
         buffer' = {} => buffer \subseteq batch \/ buffer = {},
         what = "cancelled" => \A m \in batch : Batches(m) = {}
  PROVE  RouteInv'
<1>1. /\ chatMessage' \in [ChatMessages -> MessageRecords]
      /\ \A m \in batch : chatMessage'[m].handled /\ chatMessage'[m].told = chatMessage[m].told \cup {what}
      /\ \A m \in ChatMessages \ batch : chatMessage'[m] = chatMessage[m]
  <2>1. chatMessage \in [ChatMessages -> MessageRecords]
    BY RouteFacts
  <2> QED BY <2>1 DEF Tell, MessageRecords
<1>2. RouteRecords'
  BY <1>1, RouteFacts DEF RouteRecords, SameBatches
<1>3. ASSUME NEW m \in ChatMessages PROVE MessageFits(m)'
  <2>1. MessageFits(m) /\ Batches(m)' = Batches(m)
    BY RouteFacts, SameBatchesKept
  <2> HIDE DEF Batches
  <2>2. CASE m \in batch
    <3>1. m \notin buffer'
      BY <2>2
    <3> QED BY <1>1, <2>1, <2>2, <3>1 DEF MessageFits
  <2>3. CASE m \notin batch
    <3>1. chatMessage'[m] = chatMessage[m] /\ (m \in buffer' <=> m \in buffer)
      BY <1>1, <2>3
    <3> QED BY <2>1, <3>1 DEF MessageFits
  <2> QED BY <2>2, <2>3
<1>4. (~buffering => buffer = {})' /\ BufferedMeansIdle'
  BY RouteFacts DEF SameBatches, BufferedMeansIdle
<1> QED BY <1>2, <1>3, <1>4, SameLength DEF RouteInv

LEMMA UnchangedTurns ==
  ASSUME RouteInv, turns' = turns, activeTurn' = activeTurn \/ activeTurn' = Inactive
  PROVE  SameBatches
<1>1. Inactive \in ActiveTurns /\ ~Inactive.on
  BY DEF Inactive, ActiveTurns, BoundTo
<1>2. activeTurn' \in ActiveTurns /\ (activeTurn'.on => activeTurn.on)
  BY <1>1, RouteFacts
<1> QED BY <1>2, RouteFacts DEF SameBatches

LEMMA MessageArrivesStep ==
  ASSUME RouteInv, NEW m \in ChatMessages, MessageArrives(m)
  PROVE  RouteInv'
<1>1. /\ ~chatMessage[m].handled /\ buffering' = buffering /\ binding' = binding
      /\ binding \in BoundTo /\ MessageFits(m) /\ chatMessage \in [ChatMessages -> MessageRecords]
  BY RouteFacts DEF MessageArrives
<1>2. m \notin buffer /\ Batches(m) = {} /\ chatMessage[m].told = {}
  BY <1>1 DEF MessageFits
<1>3. CASE TurnsDown /\ Tell({m}, "busy") /\ UNCHANGED <<buffer, activeTurn, turns>>
  <2>1. SameBatches
    BY <1>3, UnchangedTurns
  <2>2. {m} \in SUBSET ChatMessages /\ {m} \cap buffer = {} /\ buffer = {}
    BY <1>2, <1>3, RouteFacts DEF TurnsDown
  <2> QED BY <1>1, <1>3, <2>1, <2>2, ToldStep
<1>4. ASSUME Take(m)
      PROVE  /\ chatMessage' \in [ChatMessages -> MessageRecords] /\ chatMessage'[m].handled
             /\ chatMessage'[m].told = chatMessage[m].told
             /\ \A k \in ChatMessages : k # m => chatMessage'[k] = chatMessage[k]
  BY <1>1, <1>4 DEF Take, MessageRecords
<1>5. CASE ~TurnsDown /\ buffering /\ buffer' = buffer \cup {m} /\ Take(m) /\ UNCHANGED <<activeTurn, turns>>
  <2>1. RouteRecords'
    BY <1>1, <1>4, <1>5, RouteFacts DEF RouteRecords
  <2>2. ASSUME NEW k \in ChatMessages PROVE MessageFits(k)'
    <3>1. Batches(k)' = Batches(k) /\ MessageFits(k)
      BY <1>5, RouteFacts DEF Batches
    <3> HIDE DEF Batches
    <3>2. CASE k = m
      BY <1>2, <1>4, <1>5, <3>1, <3>2 DEF MessageFits
    <3>3. CASE k # m
      <4>1. chatMessage'[k] = chatMessage[k] /\ (k \in buffer' <=> k \in buffer)
        BY <1>4, <1>5, <3>3
      <4> QED BY <3>1, <4>1 DEF MessageFits
    <3> QED BY <3>2, <3>3
  <2>3. (~buffering => buffer = {})' /\ BufferedMeansIdle'
    BY <1>1, <1>5 DEF TurnsDown, BufferedMeansIdle
  <2>4. turns' = turns /\ activeTurn' = activeTurn
    BY <1>5
  <2> QED BY <2>1, <2>2, <2>3, <2>4, RouteFacts DEF RouteInv
<1>6. CASE ~TurnsDown /\ ~buffering /\ FlushBatch({m}) /\ Take(m)
  <2>1. buffer = {}
    BY <1>6, RouteFacts
  <2>2. \A k \in ChatMessages : /\ chatMessage'[k].told = chatMessage[k].told
                                /\ k \in {m} => chatMessage'[k].handled
                                /\ k \notin {m} => chatMessage'[k].handled = chatMessage[k].handled /\ k \notin buffer
                                /\ k \in {m} => k \in buffer \/ ~chatMessage[k].handled
    BY <1>1, <1>4, <1>6, <2>1
  <2> QED BY <1>1, <1>4, <1>6, <2>2, BatchFlushed
<1> QED BY <1>3, <1>5, <1>6 DEF MessageArrives

LEMMA BufferIsDueStep ==
  ASSUME RouteInv, BufferIsDue
  PROVE  RouteInv'
<1>1. buffer # {} /\ buffering' = buffering /\ binding' = binding /\ ~activeTurn.on /\ binding \in BoundTo /\ buffer \in SUBSET ChatMessages
  BY RouteFacts DEF BufferIsDue
<1>2. FlushBatch(buffer) /\ chatMessage' = chatMessage
  BY <1>1 DEF BufferIsDue
<1>3. \A k \in ChatMessages : k \in buffer => chatMessage[k].handled
  BY RouteFacts DEF MessageFits
<1> QED BY <1>1, <1>2, <1>3, RouteFacts, BatchFlushed

LEMMA ChatIsToldStep ==
  ASSUME RouteInv, NEW i \in DOMAIN turns, TurnStep(i), ChatIsTold(i)
  PROVE  RouteInv'
<1> DEFINE u == [turns[i] EXCEPT !.pc = "told"]
<1>1. turns' = [turns EXCEPT ![i] = u] /\ Tell(turns[i].batch, turns[i].reason) /\ activeTurn' = activeTurn /\ binding' = binding
  BY DEF ChatIsTold, RouteGoto
<1>2. buffering' = buffering /\ buffer' = buffer
  BY DEF TurnStep
<1>3. turns[i] \in RouteTurnRecords /\ activeTurn \in ActiveTurns /\ binding \in BoundTo
  BY RouteFacts
<1>4. u \in RouteTurnRecords /\ u.batch = turns[i].batch /\ u.pc # "done"
  BY <1>3 DEF RouteTurnRecords, TurnPlaces
<1> HIDE DEF u
<1>5. SameBatches
  BY <1>1, <1>3, <1>4, OneTurn
<1>6. turns[i].batch \in SUBSET ChatMessages /\ turns[i].reason \in {"none", "busy", "failed", "cancelled"} /\ turns[i].reason # "cancelled"
  BY <1>3 DEF RouteTurnRecords
<1>7. turns[i].batch \cap buffer = {}
  <2>1. ASSUME NEW m \in ChatMessages, m \in turns[i].batch, m \in buffer PROVE FALSE
    <3>1. i \in Batches(m) /\ MessageFits(m)
      BY <2>1, RouteFacts DEF Batches
    <3> HIDE DEF Batches
    <3> QED BY <2>1, <3>1 DEF MessageFits
  <2> QED BY <1>6, <2>1
<1>8. buffer' = {} => buffer \subseteq turns[i].batch \/ buffer = {}
  BY <1>2
<1> QED BY <1>1, <1>2, <1>3, <1>5, <1>6, <1>7, <1>8, ToldStep

LEMMA AbortSteps ==
  ASSUME RouteInv, NEW a \in AbortCalls, AbortBegins(a) \/ AbortAnswered(a) \/ AbortReleases(a)
  PROVE  RouteInv'
<1>1. buffering' = buffering /\ binding' = binding /\ binding \in BoundTo /\ buffer \in SUBSET ChatMessages
  BY RouteFacts DEF AbortBegins, AbortAnswered, AbortReleases
<1>2. CASE AbortBegins(a)
  <2>1. SameBatches
    BY <1>2, UnchangedTurns DEF AbortBegins
  <2>2. CASE buffer' = {} /\ Tell(buffer, "cancelled")
    <3>1. \A m \in buffer : Batches(m) = {}
      BY <1>1, RouteFacts DEF MessageFits
    <3> QED BY <1>1, <2>1, <2>2, <3>1, ToldStep
  <2>3. CASE UNCHANGED <<buffer, chatMessage>>
    BY <1>1, <2>1, <2>3, QuietRouteStep
  <2> QED BY <1>2, <2>2, <2>3 DEF AbortBegins
<1>3. CASE AbortAnswered(a)
  <2>1. buffer' = buffer /\ chatMessage' = chatMessage /\ activeTurn' = activeTurn
    BY <1>3 DEF AbortAnswered
  <2>2. CASE turns' = turns
    BY <1>1, <2>1, <2>2, UnchangedTurns, QuietRouteStep
  <2>3. CASE turns' = [i \in DOMAIN turns |-> IF i = abortCall[a].sink THEN StopSink(turns[i]) ELSE turns[i]]
    <3>1. /\ DOMAIN turns' = DOMAIN turns
          /\ \A i \in DOMAIN turns : turns'[i] \in RouteTurnRecords /\ turns'[i].batch = turns[i].batch /\ turns'[i].pc = turns[i].pc
      BY <2>3, RouteFacts, StoppedSink
    <3>2. turns' \in Seq(RouteTurnRecords)
      <4>1. Len(turns) \in Nat /\ turns' \in [1..Len(turns) -> RouteTurnRecords]
        BY <2>3, <3>1, RouteFacts
      <4> QED BY <4>1, SeqDef
    <3>3. SameBatches
      BY <2>1, <3>1, <3>2, RouteFacts DEF SameBatches
    <3> QED BY <1>1, <2>1, <3>3, QuietRouteStep
  <2> QED BY <1>3, <2>2, <2>3 DEF AbortAnswered
<1>4. CASE AbortReleases(a)
  <2>1. buffer' = buffer /\ chatMessage' = chatMessage /\ activeTurn' = Inactive /\ turns' = turns
    BY <1>4 DEF AbortReleases
  <2> QED BY <1>1, <2>1, UnchangedTurns, QuietRouteStep
<1> QED BY <1>2, <1>3, <1>4

LEMMA ResetSteps ==
  ASSUME RouteInv, NEW r \in ResetCalls, ResetCreates(r) \/ ResetBinds(r)
  PROVE  RouteInv'
<1>1. UNCHANGED <<buffering, buffer, activeTurn, turns, chatMessage>>
  BY DEF ResetCreates, ResetBinds
<1>2. binding' \in BoundTo
  BY RouteFacts DEF ResetCreates, ResetBinds, BoundTo
<1> QED BY <1>1, <1>2, UnchangedTurns, QuietRouteStep

LEMMA RouteInitially ==
  ASSUME RouteInit
  PROVE  RouteInv
<1>1. /\ buffer = {} /\ activeTurn = Inactive /\ turns = <<>> /\ binding = NoSession
      /\ chatMessage = [m \in ChatMessages |-> [handled |-> FALSE, told |-> {}]]
  BY DEF RouteInit
<1>2. Inactive \in ActiveTurns /\ ~Inactive.on
  BY DEF Inactive, ActiveTurns, BoundTo
<1>3. RouteRecords
  BY <1>1, <1>2, EmptySeq DEF RouteRecords, MessageRecords, BoundTo
<1>4. \A m \in ChatMessages : Batches(m) = {}
  BY <1>1 DEF Batches
<1>5. \A m \in ChatMessages : MessageFits(m)
  BY <1>1, <1>4 DEF MessageFits
<1> QED BY <1>1, <1>2, <1>3, <1>5 DEF RouteInv, BufferedMeansIdle

LEMMA RouteStep ==
  ASSUME RouteInv, [RouteNext]_routeVars
  PROVE  RouteInv'
<1>1. CASE UNCHANGED routeVars
  BY <1>1, UnchangedTurns, QuietRouteStep, RouteFacts DEF routeVars
<1>2. ASSUME NEW i \in DOMAIN turns, TurnStep(i) PROVE RouteInv'
  BY <1>2, TurnSteps, ChatIsToldStep
<1>3. ASSUME NEW a \in AbortCalls, NEW i \in DOMAIN turns, CardAborts(a, i) PROVE RouteInv'
  BY <1>3, AbortSteps DEF CardAborts
<1> QED BY <1>1, <1>2, <1>3, MessageArrivesStep, BufferIsDueStep, AbortSteps, ResetSteps DEF RouteNext

LEMMA OneBatch ==
  ASSUME NEW S, \A i, j \in S : i = j
  PROVE  Cardinality(S) <= 1
<1>1. CASE S = {}
  BY <1>1, FS_EmptySet
<1>2. CASE S # {}
  <2>1. PICK i : i \in S
    BY <1>2
  <2>2. S = {i}
    BY <2>1
  <2>3. Cardinality({i}) = 1
    BY FS_Singleton
  <2> QED BY <2>2, <2>3
<1> QED BY <1>1, <1>2

LEMMA RouteKept ==
  ASSUME RouteInv
  PROVE  RouteIsKept
<1>1. ASSUME NEW m \in ChatMessages
      PROVE  /\ Cardinality(Batches(m)) <= 1
             /\ m \in buffer => Batches(m) = {} /\ chatMessage[m].told = {}
             /\ chatMessage[m].handled /\ m \notin buffer => Batches(m) # {} \/ chatMessage[m].told # {}
             /\ "cancelled" \in chatMessage[m].told => Batches(m) = {}
  <2>1. MessageFits(m)
    BY RouteFacts
  <2>2. Cardinality(Batches(m)) <= 1
    BY <2>1, OneBatch DEF MessageFits
  <2> QED BY <2>1, <2>2 DEF MessageFits
<1>2. BufferedMeansIdle
  BY DEF RouteInv
<1>3. BusyIsReleased
  BY RouteFacts DEF BusyIsReleased
<1> QED BY <1>1, <1>2, <1>3 DEF RouteIsKept, MessagesAreKept

(* A message is in one place at every moment, and the turn that makes the route busy is the one that began last
   (flushRoute(), handleIncomingMessage()). *)
THEOREM RouteInvariance == RouteSpec => []RouteInv
<1>1. RouteInit => RouteInv
  BY RouteInitially
<1>2. RouteInv /\ [RouteNext]_routeVars => RouteInv'
  BY RouteStep
<1> QED BY <1>1, <1>2, PTL DEF RouteSpec

(* For any number of messages, aborts and resets: no message of a chat is lost or sent twice, what was cancelled is not
   sent, and a route that is busy has a turn that will release it. *)
THEOREM RouteStaysKept == RouteSpec => []RouteIsKept
<1>1. RouteInv => RouteIsKept
  BY RouteKept
<1> QED BY <1>1, RouteInvariance, PTL

-----------------------------------------------------------------------------
(* The buffer of a stream.  What a part has emitted, what is on its way and what waits are kept apart (StreamFits), and a
   task that runs works on an entry that is still there and, if the entry has kept its version, holds its text
   (TaskFits). *)
EntryTypes ==
  [present : BOOLEAN, text : Nat, delta : Seq(Nat), version : Nat, deltaTimer : BOOLEAN, checkpointTimer : BOOLEAN]

RunningTypes == [name : {"emit", "flush", "persist"}, part : Parts, delta : Seq(Nat), text : Nat, version : Nat]

BufferRecords ==
  /\ text \in [Parts -> Nat]
  /\ entries \in [Parts -> EntryTypes]
  /\ queue \in Seq([name : {"emit", "flush", "void"}, part : Parts])
  /\ running \in Seq(RunningTypes)
  /\ Len(running) <= 1
  /\ emitted \in [Parts -> Seq(Nat)]
  /\ persisted \in [Parts -> Nat]
  /\ silent \in [Parts -> SUBSET Nat]

StreamFits(gone, flying, waiting, n, without) ==
  /\ Increasing(gone \o flying \o waiting)
  /\ ToSet(gone \o flying \o waiting) = (1..n) \ without
  /\ without \subseteq 1..n

EntryFits(e, length, stored) == IF e.present THEN e.text = length ELSE e.delta = <<>> /\ stored = length

TaskFits(task, e, length) ==
  /\ e.present
  /\ task.version <= e.version
  /\ task.version = e.version => task.text = length
  /\ task.name = "persist" => task.delta = <<>>

BufferInv ==
  /\ BufferRecords
  /\ \A p \in Parts : StreamFits(emitted[p], InFlight(p), entries[p].delta, text[p], silent[p])
  /\ \A p \in Parts : EntryFits(entries[p], text[p], persisted[p])
  /\ running # <<>> => TaskFits(running[1], entries[running[1].part], text[running[1].part])

(* Pushing adds the next change at the end. *)
LEMMA PushFits ==
  ASSUME NEW b \in Seq(Nat), NEW f \in Seq(Nat), NEW w \in Seq(Nat), NEW n \in Nat, NEW x, StreamFits(b, f, w, n, x)
  PROVE  StreamFits(b, f, Append(w, n + 1), n + 1, x)
<1> DEFINE s == b \o f \o w
           t == b \o f \o Append(w, n + 1)
<1>1. s \in Seq(Nat) /\ t = Append(s, n + 1)
  OBVIOUS
<1> HIDE DEF s
<1>2. Increasing(s) /\ ToSet(s) = (1..n) \ x /\ x \subseteq 1..n
  BY DEF StreamFits, s
<1>3. /\ t \in Seq(Nat) /\ Len(t) = Len(s) + 1 /\ t[Len(s) + 1] = n + 1 /\ \A i \in 1..Len(s) : t[i] = s[i]
      /\ Len(s) \in Nat /\ DOMAIN s = 1..Len(s) /\ DOMAIN t = 1..(Len(s) + 1)
  <2>1. Append(s, n + 1) \in Seq(Nat) /\ Len(Append(s, n + 1)) = Len(s) + 1 /\ Append(s, n + 1)[Len(s) + 1] = n + 1
    BY <1>1
  <2>2. \A i \in 1..Len(s) : Append(s, n + 1)[i] = s[i]
    BY <1>1
  <2>3. Len(s) \in Nat /\ DOMAIN s = 1..Len(s) /\ DOMAIN Append(s, n + 1) = 1..(Len(s) + 1)
    BY <1>1
  <2> QED
    BY <2>1, <2>2, <2>3, <1>1
<1> HIDE DEF t
<1>4. \A i \in 1..Len(s) : s[i] \in 1..n
  BY <1>2, <1>3 DEF ToSet
<1>5. Increasing(t)
  <2> SUFFICES ASSUME NEW i \in 1..(Len(s) + 1), NEW j \in 1..(Len(s) + 1), i < j PROVE t[i] < t[j]
    BY <1>3 DEF Increasing
  <2>1. i \in 1..Len(s) /\ t[i] = s[i] /\ s[i] \in 1..n
    BY <1>3, <1>4
  <2>2. CASE j \in 1..Len(s)
    BY <2>1, <2>2, <1>2, <1>3 DEF Increasing
  <2>3. CASE j = Len(s) + 1
    <3>1. t[j] = n + 1
      BY <2>3, <1>3
    <3> QED
      BY <3>1, <2>1
  <2>4. Len(s) \in Nat
    BY <1>3
  <2>5. ASSUME NEW m \in Nat, NEW l \in 1..(m + 1) PROVE l \in 1..m \/ l = m + 1
    OBVIOUS
  <2>6. j \in 1..Len(s) \/ j = Len(s) + 1
    BY <2>4, <2>5
  <2> QED
    BY <2>2, <2>3, <2>6
<1>6. ToSet(t) = ToSet(s) \cup {n + 1}
  <2>1. ToSet(t) = {t[i] : i \in 1..(Len(s) + 1)} /\ ToSet(s) = {s[i] : i \in 1..Len(s)}
    BY <1>3 DEF ToSet
  <2>2. \A i \in 1..(Len(s) + 1) : i \in 1..Len(s) \/ i = Len(s) + 1
    BY <1>3
  <2>3. \A i \in 1..Len(s) : i \in 1..(Len(s) + 1)
    BY <1>3
  <2>4. Len(s) + 1 \in 1..(Len(s) + 1)
    BY <1>3
  <2> QED
    BY <2>1, <2>2, <2>3, <2>4, <1>3, Zenon
<1>7. ToSet(t) = (1..(n + 1)) \ x /\ x \subseteq 1..(n + 1)
  BY <1>2, <1>6
<1> QED
  BY <1>5, <1>7 DEF StreamFits, t

(* A change without a delta adds nothing. *)
LEMMA SilenceFits ==
  ASSUME NEW b, NEW f, NEW w, NEW n \in Nat, NEW x, StreamFits(b, f, w, n, x)
  PROVE  StreamFits(b, f, w, n + 1, x \cup {n + 1})
BY DEF StreamFits

(* What waits is taken on its way, what is on its way arrives. *)
LEMMA TakenFits ==
  ASSUME NEW b \in Seq(Nat), NEW f \in Seq(Nat), NEW w \in Seq(Nat), NEW n, NEW x, StreamFits(b, f, w, n, x)
  PROVE  /\ f = <<>> => StreamFits(b, w, <<>>, n, x)
         /\ StreamFits(b \o f, <<>>, w, n, x)
<1>1. f = <<>> => b \o w \o <<>> = b \o f \o w
  OBVIOUS
<1>2. (b \o f) \o <<>> \o w = b \o f \o w
  OBVIOUS
<1> QED
  BY <1>1, <1>2 DEF StreamFits

(* What was on its way is lost. *)
LEMMA LostFits ==
  ASSUME NEW b \in Seq(Nat), NEW f \in Seq(Nat), NEW w \in Seq(Nat), NEW n \in Nat, NEW x, StreamFits(b, f, w, n, x)
  PROVE  StreamFits(b, <<>>, w, n, x \cup ToSet(f))
<1> DEFINE s == b \o f \o w
           t == b \o <<>> \o w
<1>0. s \in Seq(Nat) /\ t \in Seq(Nat) /\ Len(s) = Len(b) + Len(f) + Len(w) /\ Len(t) = Len(b) + Len(w)
  OBVIOUS
<1>2. \A i \in 1..Len(b) : s[i] = b[i] /\ t[i] = b[i]
  OBVIOUS
<1>3. \A i \in 1..Len(f) : s[Len(b) + i] = f[i]
  OBVIOUS
<1>4. \A i \in 1..Len(w) : s[Len(b) + Len(f) + i] = w[i] /\ t[Len(b) + i] = w[i]
  OBVIOUS
<1>5. Increasing(s) /\ ToSet(s) = (1..n) \ x /\ x \subseteq 1..n
  BY DEF StreamFits
<1> HIDE DEF s, t
<1>1. /\ Len(s) = Len(b) + Len(f) + Len(w) /\ Len(t) = Len(b) + Len(w)
      /\ DOMAIN s = 1..Len(s) /\ DOMAIN t = 1..Len(t) /\ DOMAIN f = 1..Len(f)
      /\ \A i \in 1..Len(s) : s[i] \in Nat
  BY <1>0
<1> DEFINE PosOf(i) == IF i <= Len(b) THEN i ELSE i + Len(f)
<1>6. Len(b) \in Nat /\ Len(f) \in Nat /\ Len(w) \in Nat
  OBVIOUS
<1>7. \A i \in 1..Len(t) : PosOf(i) \in 1..Len(s) /\ t[i] = s[PosOf(i)]
  <2> TAKE i \in 1..Len(t)
  <2>1. CASE i <= Len(b)
    BY <2>1, <1>1, <1>2, <1>6
  <2>2. CASE ~(i <= Len(b))
    <3> DEFINE k == i - Len(b)
    <3>1. k \in 1..Len(w) /\ i = Len(b) + k /\ i + Len(f) = Len(b) + Len(f) + k
      BY <2>2, <1>1, <1>6
    <3> HIDE DEF k
    <3>2. PosOf(i) = Len(b) + Len(f) + k
      BY <2>2, <3>1
    <3>3. t[i] = w[k] /\ s[PosOf(i)] = w[k]
      BY <3>1, <3>2, <1>4
    <3>4. PosOf(i) \in 1..Len(s)
      BY <3>1, <3>2, <1>1, <1>6
    <3> QED
      BY <3>3, <3>4
  <2> QED
    BY <2>1, <2>2
<1>8. \A i, j \in 1..Len(t) : i < j => PosOf(i) < PosOf(j)
  BY <1>6
<1>9. Increasing(t)
  <2> SUFFICES ASSUME NEW i \in 1..Len(t), NEW j \in 1..Len(t), i < j PROVE t[i] < t[j]
    BY <1>1 DEF Increasing
  <2>1. PosOf(i) \in DOMAIN s /\ PosOf(j) \in DOMAIN s /\ PosOf(i) < PosOf(j)
    BY <1>1, <1>7, <1>8
  <2> QED
    BY <2>1, <1>5, <1>7 DEF Increasing
<1> HIDE DEF PosOf
<1>10. \A i, j \in 1..Len(s) : i # j => s[i] # s[j]
  <2> TAKE i, j \in 1..Len(s)
  <2>1. s[i] \in Nat /\ s[j] \in Nat
    BY <1>1
  <2>2. i < j => s[i] < s[j]
    BY <1>1, <1>5 DEF Increasing
  <2>3. j < i => s[j] < s[i]
    BY <1>1, <1>5 DEF Increasing
  <2> QED
    BY <2>1, <2>2, <2>3
<1>11. ToSet(t) = ToSet(s) \ ToSet(f)
  <2>1. ASSUME NEW y \in ToSet(t) PROVE y \in ToSet(s) /\ y \notin ToSet(f)
    <3>1. PICK i \in 1..Len(t) : y = t[i]
      BY <2>1, <1>1 DEF ToSet
    <3>2. PosOf(i) \in DOMAIN s /\ y = s[PosOf(i)]
      BY <3>1, <1>1, <1>7
    <3>3. ASSUME NEW k \in 1..Len(f), y = f[k] PROVE FALSE
      <4>1. Len(b) + k \in 1..Len(s) /\ s[Len(b) + k] = y
        BY <3>3, <1>1, <1>3, <1>6
      <4>2. PosOf(i) # Len(b) + k
        BY <1>6 DEF PosOf
      <4> QED
        BY <4>1, <4>2, <3>2, <1>1, <1>10
    <3> QED
      BY <3>2, <3>3 DEF ToSet
  <2>2. ASSUME NEW y \in ToSet(s), y \notin ToSet(f) PROVE y \in ToSet(t)
    <3>1. PICK i \in 1..Len(s) : y = s[i]
      BY <2>2, <1>1 DEF ToSet
    <3>2. CASE i <= Len(b)
      <4>1. i \in 1..Len(t) /\ y = t[i]
        BY <3>1, <3>2, <1>1, <1>2, <1>6
      <4> QED
        BY <4>1, <1>1 DEF ToSet
    <3>3. CASE i > Len(b) /\ i <= Len(b) + Len(f)
      <4>1. i - Len(b) \in 1..Len(f) /\ i = Len(b) + (i - Len(b))
        BY <3>3, <1>6
      <4>2. y = f[i - Len(b)]
        BY <4>1, <3>1, <1>3
      <4> QED
        BY <4>1, <4>2, <2>2 DEF ToSet
    <3>4. CASE i > Len(b) + Len(f)
      <4> DEFINE k == i - Len(b) - Len(f)
      <4>1. k \in 1..Len(w) /\ i = Len(b) + Len(f) + k /\ Len(b) + k \in 1..Len(t)
        BY <3>4, <1>1, <1>6
      <4> HIDE DEF k
      <4>2. y = t[Len(b) + k] /\ Len(b) + k \in 1..Len(t)
        BY <4>1, <3>1, <1>4
      <4> QED
        BY <4>2, <1>1 DEF ToSet
    <3> QED
      BY <3>2, <3>3, <3>4, <1>6
  <2> QED
    BY <2>1, <2>2
<1>12. ToSet(f) \subseteq ToSet(s)
  <2> SUFFICES ASSUME NEW k \in 1..Len(f) PROVE f[k] \in ToSet(s)
    BY DEF ToSet
  <2>1. Len(b) + k \in 1..Len(s) /\ s[Len(b) + k] = f[k]
    BY <1>1, <1>3, <1>6
  <2> QED
    BY <2>1, <1>1 DEF ToSet
<1>13. ToSet(t) = (1..n) \ (x \cup ToSet(f)) /\ x \cup ToSet(f) \subseteq 1..n
  BY <1>5, <1>11, <1>12
<1> QED
  BY <1>9, <1>13 DEF StreamFits, t

LEMMA BufferInitHolds ==
  BufferInit => BufferInv
<1> SUFFICES ASSUME BufferInit PROVE BufferInv
  OBVIOUS
<1> USE DEF BufferInit
<1>1. Absent \in EntryTypes /\ Absent.delta = <<>> /\ ~Absent.present
  BY DEF Absent, EntryTypes
<1>2. BufferRecords
  BY <1>1 DEF BufferRecords
<1>3. ASSUME NEW p \in Parts PROVE StreamFits(emitted[p], InFlight(p), entries[p].delta, text[p], silent[p])
  <2>1. emitted[p] = <<>> /\ InFlight(p) = <<>> /\ entries[p].delta = <<>> /\ text[p] = 0 /\ silent[p] = {}
    BY <1>1 DEF InFlight
  <2>2. StreamFits(<<>>, <<>>, <<>>, 0, {})
    <3>1. <<>> \o <<>> \o <<>> = <<>>
      OBVIOUS
    <3> QED
      BY <3>1 DEF StreamFits, Increasing, ToSet
  <2> QED
    BY <2>1, <2>2
<1>4. \A p \in Parts : EntryFits(entries[p], text[p], persisted[p])
  BY <1>1 DEF EntryFits
<1> QED
  BY <1>2, <1>3, <1>4 DEF BufferInv

(* An entry that is updated keeps its deltas and gets a new version. *)
LEMMA UpdatedFacts ==
  ASSUME NEW e \in EntryTypes, NEW n \in Nat, e.present \/ e.delta = <<>>
  PROVE  /\ Updated(e, n) \in EntryTypes
         /\ Updated(e, n).present
         /\ Updated(e, n).text = n
         /\ Updated(e, n).delta = e.delta
         /\ e.present => Updated(e, n).version = e.version + 1
<1>1. CASE e.present
  <2> DEFINE u == [e EXCEPT !.text = n, !.version = @ + 1]
  <2> DEFINE k == e.version + 1
  <2>3. e.version \in Nat /\ k \in Nat
    BY DEF EntryTypes
  <2>4. u = [e EXCEPT !.text = n, !.version = k]
    OBVIOUS
  <2> HIDE DEF k
  <2>1. u \in EntryTypes /\ u.present = e.present /\ u.text = n /\ u.delta = e.delta /\ u.version = k
    BY <2>3, <2>4 DEF EntryTypes
  <2>2. Updated(e, n) = u
    BY <1>1 DEF Updated
  <2> QED
    BY <2>1, <2>2, <1>1 DEF k
<1>2. CASE ~e.present
  <2>1. Absent \in EntryTypes /\ Absent.delta = <<>>
    BY DEF Absent, EntryTypes
  <2> DEFINE u == [Absent EXCEPT !.present = TRUE, !.text = n, !.version = 1]
  <2>2. u \in EntryTypes /\ u.present /\ u.text = n /\ u.delta = <<>>
    BY <2>1 DEF EntryTypes
  <2>3. Updated(e, n) = u
    BY <1>2 DEF Updated
  <2> QED
    BY <2>2, <2>3, <1>2
<1> QED
  BY <1>1, <1>2

(* A push appends to the deltas of the entry it updates. *)
LEMMA PushedFacts ==
  ASSUME NEW u \in EntryTypes, NEW n \in Nat
  PROVE  /\ WithDelta(u, n) \in EntryTypes
         /\ WithDelta(u, n).delta = Append(u.delta, n)
         /\ WithDelta(u, n).present = u.present
         /\ WithDelta(u, n).text = u.text
         /\ WithDelta(u, n).version = u.version
<1> DEFINE v == WithDelta(u, n)
<1>1. u.delta \in Seq(Nat) /\ Append(u.delta, n) \in Seq(Nat)
  BY DEF EntryTypes
<1> DEFINE d == Append(u.delta, n)
<1>2. v = [u EXCEPT !.delta = d, !.deltaTimer = TRUE, !.checkpointTimer = TRUE]
  BY DEF WithDelta
<1>3. d \in Seq(Nat)
  BY <1>1
<1> HIDE DEF d, v
<1>4. v \in EntryTypes /\ v.delta = d
  BY <1>2, <1>3 DEF EntryTypes
<1>5. v.present = u.present /\ v.text = u.text /\ v.version = u.version
  BY <1>2 DEF EntryTypes
<1> QED
  BY <1>4, <1>5 DEF d, v

LEMMA WithoutDeltaFacts ==
  ASSUME NEW e \in EntryTypes, NEW v \in {WithoutDelta(e), Flushed(e)}
  PROVE  v \in EntryTypes /\ v.delta = <<>> /\ v.present = e.present /\ v.text = e.text /\ v.version = e.version
<1> DEFINE w == WithoutDelta(e)
<1>1. <<>> \in Seq(Nat)
  OBVIOUS
<1>2. w \in EntryTypes /\ w.delta = <<>> /\ w.present = e.present /\ w.text = e.text /\ w.version = e.version
  BY <1>1 DEF EntryTypes, WithoutDelta
<1>3. Flushed(e) = [w EXCEPT !.deltaTimer = FALSE, !.checkpointTimer = FALSE]
  BY DEF Flushed
<1> HIDE DEF w
<1> DEFINE f == [w EXCEPT !.deltaTimer = FALSE, !.checkpointTimer = FALSE]
<1>4. f \in EntryTypes /\ f.delta = <<>> /\ f.present = w.present /\ f.text = w.text /\ f.version = w.version
  BY <1>2 DEF EntryTypes
<1> HIDE DEF f
<1>5. v = w \/ v = f
  BY <1>3 DEF w, f
<1> QED
  BY <1>2, <1>4, <1>5

LEMMA OneRunning ==
  ASSUME BufferRecords
  PROVE  /\ running = <<>> \/ (Len(running) = 1 /\ DOMAIN running = {1} /\ running[1] \in RunningTypes)
         /\ running # <<>> => RemoveAt(running, 1) = <<>>
<1>1. running \in Seq(RunningTypes) /\ Len(running) \in Nat /\ Len(running) <= 1 /\ DOMAIN running = 1..Len(running)
  BY DEF BufferRecords
<1>2. running # <<>> => Len(running) # 0
  BY <1>1, EmptySeq
<1>3. CASE Len(running) = 1
  <2>1. 1..Len(running) = {1}
    BY <1>3
  <2>2. running[1] \in RunningTypes
    BY <1>1, <1>3, ElementOfSeq
  <2>3. SubSeq(running, 1, 0) = <<>> /\ SubSeq(running, 2, 1) = <<>>
    BY <1>1, <1>3
  <2>4. RemoveAt(running, 1) = SubSeq(running, 1, 0) \o SubSeq(running, 2, 1)
    BY <1>3 DEF RemoveAt
  <2> QED
    BY <2>1, <2>2, <2>3, <2>4, <1>1, <1>3
<1> QED
  BY <1>1, <1>2, <1>3

LEMMA FlightFacts ==
  ASSUME BufferRecords, NEW p \in Parts
  PROVE  InFlight(p) \in Seq(Nat)
<1>1. <<>> \in Seq(Nat)
  OBVIOUS
<1>2. running # <<>> => running[1].delta \in Seq(Nat)
  BY OneRunning DEF RunningTypes
<1> QED
  BY <1>1, <1>2 DEF InFlight

LEMMA EnqueueFacts ==
  ASSUME BufferRecords, NEW p \in Parts, NEW name \in {"emit", "flush"}, Enqueue(name, p)
  PROVE  queue' \in Seq([name : {"emit", "flush", "void"}, part : Parts])
BY DEF BufferRecords, Enqueue

(* The invariant after a step that leaves the streams, the entries and the task alone but for those it names. *)
LEMMA BufferKept ==
  ASSUME BufferInv, BufferRecords',
         \A p \in Parts : StreamFits(emitted'[p], InFlight(p)', entries'[p].delta, text'[p], silent'[p]),
         \A p \in Parts : EntryFits(entries'[p], text'[p], persisted'[p]),
         running' # <<>> => TaskFits(running'[1], entries'[running'[1].part], text'[running'[1].part])
  PROVE  BufferInv'
BY DEF BufferInv

LEMMA UpdateFits ==
  ASSUME BufferInv, NEW p \in Parts, NEW u \in EntryTypes, NEW n \in Nat,
         u.present, u.text = n, entries[p].present => u.version = entries[p].version + 1,
         entries' = [entries EXCEPT ![p] = u], text' = [text EXCEPT ![p] = n],
         UNCHANGED <<running, persisted>>
  PROVE  /\ text' \in [Parts -> Nat]
         /\ entries' \in [Parts -> EntryTypes]
         /\ \A q \in Parts : EntryFits(entries'[q], text'[q], persisted'[q])
         /\ running' # <<>> => TaskFits(running'[1], entries'[running'[1].part], text'[running'[1].part])
         /\ \A q \in Parts : InFlight(q)' = InFlight(q)
<1>1. BufferRecords
  BY DEF BufferInv
<1>2. text' \in [Parts -> Nat] /\ entries' \in [Parts -> EntryTypes]
  BY <1>1 DEF BufferRecords
<1>3. /\ entries'[p] = u /\ text'[p] = n
      /\ \A q \in Parts : q # p => entries'[q] = entries[q] /\ text'[q] = text[q]
  BY <1>1 DEF BufferRecords
<1>4. \A q \in Parts : EntryFits(entries'[q], text'[q], persisted'[q])
  BY <1>3 DEF BufferInv, EntryFits
<1>5. ASSUME running' # <<>> PROVE TaskFits(running'[1], entries'[running'[1].part], text'[running'[1].part])
  <2>1. running[1] \in RunningTypes /\ TaskFits(running[1], entries[running[1].part], text[running[1].part])
    BY <1>1, <1>5, OneRunning DEF BufferInv
  <2>2. running[1].part \in Parts /\ running[1].version \in Nat /\ entries[p].version \in Nat
    BY <1>1, <2>1 DEF RunningTypes, BufferRecords, EntryTypes
  <2>3. CASE running[1].part = p
    BY <2>1, <2>2, <2>3, <1>3 DEF TaskFits
  <2>4. CASE running[1].part # p
    BY <2>1, <2>2, <2>4, <1>3
  <2> QED
    BY <2>3, <2>4
<1>6. \A q \in Parts : InFlight(q)' = InFlight(q)
  BY DEF InFlight
<1> QED
  BY <1>2, <1>4, <1>5, <1>6

LEMMA PushKeeps ==
  ASSUME BufferInv, NEW p \in Parts, Push(p)
  PROVE  BufferInv'
<1> DEFINE n == text[p] + 1
           u == Updated(entries[p], n)
           v == WithDelta(u, n)
<1>1. BufferRecords
  BY DEF BufferInv
<1>2. n \in Nat /\ entries[p] \in EntryTypes /\ text[p] \in Nat /\ (entries[p].present \/ entries[p].delta = <<>>)
  BY <1>1 DEF BufferRecords, BufferInv, EntryFits
<1>3. /\ u \in EntryTypes /\ u.present /\ u.text = n /\ u.delta = entries[p].delta
      /\ entries[p].present => u.version = entries[p].version + 1
  BY <1>2, UpdatedFacts
<1>4. entries' = [entries EXCEPT ![p] = v] /\ text' = [text EXCEPT ![p] = n]
      /\ UNCHANGED <<queue, running, emitted, persisted, silent>>
  <2>1. entries' = [entries EXCEPT ![p] = v]
    BY DEF Push, WithDelta
  <2>2. text' = [text EXCEPT ![p] = n]
    BY DEF Push
  <2>3. UNCHANGED <<queue, running, emitted, persisted, silent>>
    BY DEF Push
  <2> QED
    BY <2>1, <2>2, <2>3
<1> HIDE DEF n
<1>5. v \in EntryTypes /\ v.delta = Append(u.delta, n) /\ v.present = u.present /\ v.text = u.text /\ v.version = u.version
  BY <1>2, <1>3, PushedFacts, Zenon
<1> HIDE DEF u, v
<1>6. /\ text' \in [Parts -> Nat] /\ entries' \in [Parts -> EntryTypes]
      /\ \A q \in Parts : EntryFits(entries'[q], text'[q], persisted'[q])
      /\ running' # <<>> => TaskFits(running'[1], entries'[running'[1].part], text'[running'[1].part])
      /\ \A q \in Parts : InFlight(q)' = InFlight(q)
  BY <1>2, <1>3, <1>4, <1>5, UpdateFits
<1>7. BufferRecords'
  BY <1>1, <1>4, <1>6 DEF BufferRecords
<1>8. ASSUME NEW q \in Parts PROVE StreamFits(emitted'[q], InFlight(q)', entries'[q].delta, text'[q], silent'[q])
  <2>1. StreamFits(emitted[q], InFlight(q), entries[q].delta, text[q], silent[q])
    BY DEF BufferInv
  <2>2. CASE q = p
    <3>1. emitted[p] \in Seq(Nat) /\ InFlight(p) \in Seq(Nat) /\ entries[p].delta \in Seq(Nat)
      BY <1>1, FlightFacts DEF BufferRecords, EntryTypes
    <3>2. StreamFits(emitted[p], InFlight(p), Append(entries[p].delta, text[p] + 1), text[p] + 1, silent[p])
      BY <2>1, <2>2, <3>1, <1>2, PushFits
    <3>3. entries'[p].delta = Append(entries[p].delta, n) /\ text'[p] = n
      BY <1>1, <1>3, <1>4, <1>5 DEF BufferRecords
    <3> QED
      BY <2>2, <3>2, <3>3, <1>4, <1>6 DEF n
  <2>3. CASE q # p
    BY <2>1, <2>3, <1>1, <1>4, <1>6 DEF BufferRecords
  <2> QED
    BY <2>2, <2>3
<1> QED
  BY <1>6, <1>7, <1>8, BufferKept

LEMMA CheckpointKeeps ==
  ASSUME BufferInv, NEW p \in Parts, Checkpoint(p)
  PROVE  BufferInv'
<1> DEFINE n == text'[p]
           u == Updated(entries[p], n)
<1>1. BufferRecords
  BY DEF BufferInv
<1>2. entries[p] \in EntryTypes /\ text[p] \in Nat /\ (entries[p].present \/ entries[p].delta = <<>>)
  BY <1>1 DEF BufferRecords, BufferInv, EntryFits
<1>3. /\ entries' = [entries EXCEPT ![p] = u]
      /\ UNCHANGED <<running, emitted, persisted>>
  BY <1>1 DEF Checkpoint, BufferRecords
<1>4. \/ text' = text /\ silent' = silent
      \/ /\ text' = [text EXCEPT ![p] = text[p] + 1]
         /\ silent' = [silent EXCEPT ![p] = silent[p] \cup {text[p] + 1}]
  BY <1>1 DEF Checkpoint, BufferRecords
<1>5. n \in Nat /\ text' = [text EXCEPT ![p] = n]
  BY <1>1, <1>2, <1>4 DEF BufferRecords
<1>6. queue' \in Seq([name : {"emit", "flush", "void"}, part : Parts])
  BY <1>1, EnqueueFacts DEF Checkpoint
<1> HIDE DEF n
<1>7. /\ u \in EntryTypes /\ u.present /\ u.text = n /\ u.delta = entries[p].delta
      /\ entries[p].present => u.version = entries[p].version + 1
  BY <1>2, <1>5, UpdatedFacts
<1> HIDE DEF u
<1>8. /\ text' \in [Parts -> Nat] /\ entries' \in [Parts -> EntryTypes]
      /\ \A q \in Parts : EntryFits(entries'[q], text'[q], persisted'[q])
      /\ running' # <<>> => TaskFits(running'[1], entries'[running'[1].part], text'[running'[1].part])
      /\ \A q \in Parts : InFlight(q)' = InFlight(q)
  BY <1>3, <1>5, <1>7, UpdateFits
<1>9. silent' \in [Parts -> SUBSET Nat]
  <2>1. silent \in [Parts -> SUBSET Nat] /\ silent[p] \cup {text[p] + 1} \subseteq Nat
    BY <1>1, <1>2 DEF BufferRecords
  <2> QED
    BY <2>1, <1>4
<1>10. BufferRecords'
  BY <1>1, <1>3, <1>6, <1>8, <1>9 DEF BufferRecords
<1>11. ASSUME NEW q \in Parts PROVE StreamFits(emitted'[q], InFlight(q)', entries'[q].delta, text'[q], silent'[q])
  <2>1. StreamFits(emitted[q], InFlight(q), entries[q].delta, text[q], silent[q])
    BY DEF BufferInv
  <2>2. emitted'[q] = emitted[q] /\ InFlight(q)' = InFlight(q) /\ entries'[q].delta = entries[q].delta
    BY <1>1, <1>3, <1>7, <1>8 DEF BufferRecords
  <2>3. \/ text'[q] = text[q] /\ silent'[q] = silent[q]
        \/ text'[q] = text[q] + 1 /\ silent'[q] = silent[q] \cup {text[q] + 1}
    BY <1>1, <1>4 DEF BufferRecords
  <2>4. text[q] \in Nat
    BY <1>1 DEF BufferRecords
  <2> QED
    BY <2>1, <2>2, <2>3, <2>4, SilenceFits
<1> QED
  BY <1>8, <1>10, <1>11, BufferKept

(* A step that only adds a task, or stops a timer. *)
LEMMA QueueKeeps ==
  ASSUME BufferInv, queue' \in Seq([name : {"emit", "flush", "void"}, part : Parts]),
         entries' \in [Parts -> EntryTypes],
         \A p \in Parts : /\ entries'[p].present = entries[p].present
                          /\ entries'[p].text = entries[p].text
                          /\ entries'[p].delta = entries[p].delta
                          /\ entries'[p].version = entries[p].version,
         UNCHANGED <<text, running, emitted, persisted, silent>>
  PROVE  BufferInv'
<1>1. BufferRecords /\ BufferRecords'
  BY DEF BufferInv, BufferRecords
<1>2. \A p \in Parts : InFlight(p)' = InFlight(p)
  BY DEF InFlight
<1>3. \A p \in Parts : StreamFits(emitted'[p], InFlight(p)', entries'[p].delta, text'[p], silent'[p])
  BY <1>2 DEF BufferInv
<1>4. \A p \in Parts : EntryFits(entries'[p], text'[p], persisted'[p])
  BY DEF BufferInv, EntryFits
<1>5. running' # <<>> => TaskFits(running'[1], entries'[running'[1].part], text'[running'[1].part])
  <2>1. running # <<>> => running[1].part \in Parts
    BY <1>1, OneRunning DEF RunningTypes
  <2> QED
    BY <2>1 DEF BufferInv, TaskFits
<1> QED
  BY <1>1, <1>3, <1>4, <1>5, BufferKept

LEMMA TimersKeep ==
  ASSUME BufferInv, NEW p \in Parts, Flush(p) \/ DeltaWindowEnds(p) \/ CheckpointWindowEnds(p)
  PROVE  BufferInv'
<1>1. BufferRecords
  BY DEF BufferInv
<1>2. PICK name \in {"emit", "flush"} : Enqueue(name, p)
  BY DEF Flush, DeltaWindowEnds, CheckpointWindowEnds, CheckpointTask
<1>3. queue' \in Seq([name : {"emit", "flush", "void"}, part : Parts])
  BY <1>1, <1>2, EnqueueFacts
<1> DEFINE a == [entries[p] EXCEPT !.deltaTimer = FALSE]
           b == [entries[p] EXCEPT !.checkpointTimer = FALSE]
<1>4. entries' = entries \/ entries' = [entries EXCEPT ![p] = a] \/ entries' = [entries EXCEPT ![p] = b]
  BY DEF Flush, DeltaWindowEnds, CheckpointWindowEnds
<1>5. UNCHANGED <<text, running, emitted, persisted, silent>>
  BY DEF Flush, DeltaWindowEnds, CheckpointWindowEnds
<1>6. \A e \in {a, b} : /\ e \in EntryTypes /\ e.present = entries[p].present /\ e.text = entries[p].text
                        /\ e.delta = entries[p].delta /\ e.version = entries[p].version
  <2>1. entries[p] \in EntryTypes
    BY <1>1 DEF BufferRecords
  <2>2. /\ a \in EntryTypes /\ a.present = entries[p].present /\ a.text = entries[p].text
        /\ a.delta = entries[p].delta /\ a.version = entries[p].version
    BY <2>1 DEF EntryTypes
  <2>3. /\ b \in EntryTypes /\ b.present = entries[p].present /\ b.text = entries[p].text
        /\ b.delta = entries[p].delta /\ b.version = entries[p].version
    BY <2>1 DEF EntryTypes
  <2> HIDE DEF a, b
  <2> QED
    BY <2>2, <2>3
<1> HIDE DEF a, b
<1>7. /\ entries' \in [Parts -> EntryTypes]
      /\ \A q \in Parts : /\ entries'[q].present = entries[q].present
                          /\ entries'[q].text = entries[q].text
                          /\ entries'[q].delta = entries[q].delta
                          /\ entries'[q].version = entries[q].version
  BY <1>1, <1>4, <1>6 DEF BufferRecords
<1> QED
  BY <1>3, <1>5, <1>7, QueueKeeps

LEMMA StartKeeps ==
  ASSUME BufferInv, StartTask
  PROVE  BufferInv'
<1> DEFINE task == Head(queue)
           p == task.part
           e == entries[p]
           r == [name |-> task.name, part |-> p, delta |-> e.delta, text |-> e.text, version |-> e.version]
           w == IF task.name = "flush" THEN Flushed(e) ELSE WithoutDelta(e)
<1>1. BufferRecords /\ running = <<>> /\ queue # <<>>
  BY DEF BufferInv, StartTask, Serial
<1>2. /\ queue' = Tail(queue) /\ UNCHANGED <<text, emitted, persisted, silent>>
      /\ \/ UNCHANGED <<running, entries>>
         \/ /\ task.name # "void" /\ e.present
            /\ running' = Append(running, r) /\ entries' = [entries EXCEPT ![p] = w]
  BY DEF StartTask
<1>3. /\ task \in [name : {"emit", "flush", "void"}, part : Parts]
      /\ queue' \in Seq([name : {"emit", "flush", "void"}, part : Parts])
  <2>1. queue \in Seq([name : {"emit", "flush", "void"}, part : Parts]) /\ queue # <<>>
    BY <1>1 DEF BufferRecords
  <2> QED
    BY <2>1, <1>2, HeadTailProperties
<1>4. p \in Parts /\ task.name \in {"emit", "flush", "void"}
  BY <1>3
<1>5. e \in EntryTypes
  BY <1>1, <1>4 DEF BufferRecords
<1>6. CASE UNCHANGED <<running, entries>>
  BY <1>1, <1>2, <1>3, <1>6, QueueKeeps DEF BufferRecords
<1>7. CASE /\ task.name # "void" /\ e.present
           /\ running' = Append(running, r) /\ entries' = [entries EXCEPT ![p] = w]
  <2>1. w \in {WithoutDelta(e), Flushed(e)}
    OBVIOUS
  <2>2. w \in EntryTypes /\ w.delta = <<>> /\ w.present = e.present /\ w.text = e.text /\ w.version = e.version
    BY <2>1, <1>5, WithoutDeltaFacts
  <2>3. r \in RunningTypes /\ r.part = p /\ r.delta = e.delta /\ r.text = e.text /\ r.version = e.version /\ r.name # "persist"
    BY <1>4, <1>5, <1>7 DEF RunningTypes, EntryTypes
  <2> HIDE DEF w, r
  <2>4. running' = <<r>> /\ running' \in Seq(RunningTypes) /\ Len(running') = 1 /\ running'[1] = r /\ running' # <<>>
    BY <1>1, <1>7, <2>3
  <2>5. entries' \in [Parts -> EntryTypes] /\ entries'[p] = w /\ \A q \in Parts : q # p => entries'[q] = entries[q]
    BY <1>1, <1>4, <1>7, <2>2 DEF BufferRecords
  <2>6. BufferRecords'
    BY <1>1, <1>2, <1>3, <2>4, <2>5 DEF BufferRecords
  <2>7. e.text = text[p] /\ e.version \in Nat
    BY <1>4, <1>5, <1>7 DEF BufferInv, EntryFits, EntryTypes
  <2>8. TaskFits(running'[1], entries'[running'[1].part], text'[running'[1].part])
    <3>1. entries'[running'[1].part] = w /\ text'[running'[1].part] = text[p] /\ running'[1] = r
      BY <1>2, <2>3, <2>4, <2>5
    <3>2. r.version <= w.version /\ w.present /\ r.text = text[p] /\ r.name # "persist"
      BY <1>7, <2>2, <2>3, <2>7
    <3> QED
      BY <3>1, <3>2 DEF TaskFits
  <2>9. \A q \in Parts : EntryFits(entries'[q], text'[q], persisted'[q])
    BY <1>2, <1>7, <2>2, <2>5, <2>7 DEF BufferInv, EntryFits
  <2>10. ASSUME NEW q \in Parts PROVE StreamFits(emitted'[q], InFlight(q)', entries'[q].delta, text'[q], silent'[q])
    <3>1. StreamFits(emitted[q], <<>>, entries[q].delta, text[q], silent[q])
      BY <1>1 DEF BufferInv, InFlight
    <3>2. CASE q = p
      <4>1. InFlight(q)' = e.delta
        BY <2>3, <2>4, <3>2 DEF InFlight
      <4>2. emitted[p] \in Seq(Nat) /\ e.delta \in Seq(Nat) /\ <<>> \in Seq(Nat)
        BY <1>1, <1>4, <1>5 DEF BufferRecords, EntryTypes
      <4>3. StreamFits(emitted[p], e.delta, <<>>, text[p], silent[p])
        BY <3>1, <3>2, <4>2, TakenFits
      <4> QED
        BY <1>2, <2>2, <2>5, <3>2, <4>1, <4>3
    <3>3. CASE q # p
      <4>1. InFlight(q)' = <<>>
        BY <2>3, <2>4, <3>3 DEF InFlight
      <4> QED
        BY <1>2, <2>5, <3>1, <3>3, <4>1
    <3> QED
      BY <3>2, <3>3
  <2> QED
    BY <2>6, <2>8, <2>9, <2>10, BufferKept
<1> QED
  BY <1>2, <1>6, <1>7

LEMMA EmittedKeeps ==
  ASSUME BufferInv, DeltaEmitted
  PROVE  BufferInv'
<1> DEFINE task == running[1]
           p == task.part
           r == [task EXCEPT !.name = "persist", !.delta = <<>>]
<1>1. BufferRecords
  BY DEF BufferInv
<1>2. PICK i \in DOMAIN running : /\ emitted' = [emitted EXCEPT ![running[i].part] = @ \o running[i].delta]
                                  /\ running' = IF running[i].name = "emit" THEN RemoveAt(running, i)
                                                ELSE [running EXCEPT ![i].name = "persist", ![i].delta = <<>>]
                                  /\ UNCHANGED <<text, entries, queue, persisted, silent>>
  BY Zenon DEF DeltaEmitted
<1>3. running # <<>> /\ i = 1 /\ Len(running) = 1 /\ DOMAIN running = {1} /\ task \in RunningTypes /\ RemoveAt(running, 1) = <<>>
  BY <1>1, <1>2, OneRunning
<1>4. TaskFits(task, entries[p], text[p])
  BY <1>3 DEF BufferInv
<1>5. p \in Parts /\ task.delta \in Seq(Nat)
  BY <1>3 DEF RunningTypes
<1>6. r \in RunningTypes /\ r.part = p /\ r.delta = <<>> /\ r.text = task.text /\ r.version = task.version /\ r.name = "persist"
  <2>1. <<>> \in Seq(Nat)
    OBVIOUS
  <2> HIDE DEF task
  <2> QED
    BY <1>3, <2>1 DEF RunningTypes
<1>7. running' = <<>> \/ running' = [running EXCEPT ![1] = r]
  BY <1>2, <1>3
<1> HIDE DEF r, task
<1>8. \/ running' = <<>>
      \/ /\ running' \in Seq(RunningTypes) /\ Len(running') = 1 /\ running'[1] = r
  <2>1. running \in Seq(RunningTypes)
    BY <1>1 DEF BufferRecords
  <2> QED
    <3>1. CASE running' = [running EXCEPT ![1] = r]
      <4>1. running' \in Seq(RunningTypes) /\ Len(running') = Len(running)
        BY <3>1, <2>1, <1>3, <1>6, ExceptSeq
      <4>2. running'[1] = r
        BY <3>1, <1>3
      <4> QED
        BY <4>1, <4>2, <1>3
    <3> QED
      BY <3>1, <1>7
<1>9. \A q \in Parts : InFlight(q)' = <<>>
  BY <1>6, <1>8 DEF InFlight
<1>10. emitted' = [emitted EXCEPT ![p] = emitted[p] \o task.delta]
  BY <1>2, <1>3 DEF task
<1>11. emitted' \in [Parts -> Seq(Nat)]
  <2>1. emitted \in [Parts -> Seq(Nat)]
    BY <1>1 DEF BufferRecords
  <2>2. emitted[p] \o task.delta \in Seq(Nat)
    BY <2>1, <1>5
  <2> QED
    BY <2>1, <2>2, <1>10
<1>12. BufferRecords'
  <2>1. <<>> \in Seq(RunningTypes) /\ Len(<<>>) <= 1
    OBVIOUS
  <2>2. running' \in Seq(RunningTypes) /\ Len(running') <= 1
    <3>1. CASE running' = <<>>
      BY <2>1, <3>1
    <3>2. CASE running' \in Seq(RunningTypes) /\ Len(running') = 1
      BY <3>2
    <3> QED
      BY <3>1, <3>2, <1>8
  <2> QED
    BY <2>2, <1>1, <1>2, <1>11 DEF BufferRecords
<1>13. running' # <<>> => TaskFits(running'[1], entries'[running'[1].part], text'[running'[1].part])
  BY <1>2, <1>4, <1>6, <1>8 DEF TaskFits
<1>14. \A q \in Parts : EntryFits(entries'[q], text'[q], persisted'[q])
  BY <1>2 DEF BufferInv
<1>15. ASSUME NEW q \in Parts PROVE StreamFits(emitted'[q], InFlight(q)', entries'[q].delta, text'[q], silent'[q])
  <2>1. StreamFits(emitted[q], InFlight(q), entries[q].delta, text[q], silent[q])
    BY DEF BufferInv
  <2>2. CASE q = p
    <3>1. InFlight(q) = task.delta
      BY <1>3, <2>2 DEF InFlight, task
    <3>2. emitted[q] \in Seq(Nat) /\ entries[q].delta \in Seq(Nat)
      BY <1>1 DEF BufferRecords, EntryTypes
    <3>3. StreamFits(emitted[q] \o task.delta, <<>>, entries[q].delta, text[q], silent[q])
      BY <2>1, <3>1, <3>2, <1>5, TakenFits
    <3>4. emitted'[q] = emitted[q] \o task.delta
      BY <1>1, <1>10, <2>2 DEF BufferRecords
    <3> QED
      BY <3>3, <3>4, <1>2, <1>9
  <2>3. CASE q # p
    <3>1. InFlight(q) = <<>>
      BY <1>3, <2>3 DEF InFlight, task
    <3>2. emitted'[q] = emitted[q]
      BY <1>1, <1>10, <2>3 DEF BufferRecords
    <3> QED
      BY <2>1, <3>1, <3>2, <1>2, <1>9
  <2> QED
    BY <2>2, <2>3
<1> QED
  BY <1>12, <1>13, <1>14, <1>15, BufferKept

LEMMA PersistedKeeps ==
  ASSUME BufferInv, PartPersisted
  PROVE  BufferInv'
<1> DEFINE task == running[1]
           p == task.part
<1>1. BufferRecords
  BY DEF BufferInv
<1>2. PICK i \in DOMAIN running :
        /\ running[i].name = "persist"
        /\ persisted' = [persisted EXCEPT ![running[i].part] = running[i].text]
        /\ IF entries[running[i].part].version = running[i].version /\ entries[running[i].part].delta = <<>>
           THEN DropEntry(running[i].part) ELSE UNCHANGED <<entries, queue>>
        /\ running' = RemoveAt(running, i)
        /\ UNCHANGED <<text, emitted, silent>>
  BY Zenon DEF PartPersisted
<1>3. running # <<>> /\ i = 1 /\ Len(running) = 1 /\ DOMAIN running = {1} /\ task \in RunningTypes /\ RemoveAt(running, 1) = <<>>
  BY <1>1, <1>2, OneRunning
<1>4. TaskFits(task, entries[p], text[p])
  BY <1>3 DEF BufferInv
<1>5. p \in Parts /\ task.text \in Nat
  BY <1>3 DEF RunningTypes
<1>6. running' = <<>> /\ \A q \in Parts : InFlight(q)' = <<>>
  BY <1>2, <1>3 DEF InFlight
<1>7. \A q \in Parts : InFlight(q) = <<>>
  BY <1>2, <1>3, <1>4 DEF InFlight, TaskFits
<1>8. Absent \in EntryTypes /\ Absent.delta = <<>> /\ ~Absent.present
  BY DEF Absent, EntryTypes
<1>9. \/ UNCHANGED <<entries, queue>>
      \/ /\ entries[p].version = task.version /\ entries[p].delta = <<>>
         /\ entries' = [entries EXCEPT ![p] = Absent]
         /\ queue' \in Seq([name : {"emit", "flush", "void"}, part : Parts])
  <2>1. CASE UNCHANGED <<entries, queue>>
    BY <2>1
  <2>2. CASE entries[p].version = task.version /\ entries[p].delta = <<>> /\ DropEntry(p)
    <3> DEFINE new(j) == IF queue[j] = [name |-> "emit", part |-> p] THEN [queue[j] EXCEPT !.name = "void"] ELSE queue[j]
    <3>1. queue \in Seq([name : {"emit", "flush", "void"}, part : Parts])
      BY <1>1 DEF BufferRecords
    <3>2. \A j \in 1..Len(queue) : queue[j] \in [name : {"emit", "flush", "void"}, part : Parts]
      BY <3>1, ElementOfSeq
    <3>3. \A j \in 1..Len(queue) : new(j) \in [name : {"emit", "flush", "void"}, part : Parts]
      BY <3>2
    <3>4. queue' = [j \in 1..Len(queue) |-> new(j)] /\ entries' = [entries EXCEPT ![p] = Absent]
      BY <2>2, <3>1 DEF DropEntry
    <3>5. Len(queue) \in Nat
      BY <3>1
    <3> HIDE DEF new
    <3>6. queue' \in Seq([name : {"emit", "flush", "void"}, part : Parts])
      BY <3>3, <3>4, <3>5, SeqDef
    <3> QED
      BY <2>2, <3>4, <3>6
  <2> QED
    BY <2>1, <2>2, <1>2, <1>3
<1> HIDE DEF task
<1>10. entries' \in [Parts -> EntryTypes] /\ persisted' \in [Parts -> Nat] /\ persisted' = [persisted EXCEPT ![p] = task.text]
  BY <1>1, <1>2, <1>3, <1>5, <1>8, <1>9 DEF BufferRecords, task
<1>11. BufferRecords'
  <2>1. <<>> \in Seq(RunningTypes) /\ Len(<<>>) <= 1
    OBVIOUS
  <2> QED
    BY <2>1, <1>1, <1>2, <1>6, <1>9, <1>10 DEF BufferRecords
<1>12. \A q \in Parts : entries'[q].delta = entries[q].delta
  BY <1>1, <1>8, <1>9 DEF BufferRecords
<1>13. \A q \in Parts : StreamFits(emitted'[q], InFlight(q)', entries'[q].delta, text'[q], silent'[q])
  BY <1>2, <1>6, <1>7, <1>12 DEF BufferInv
<1>14. ASSUME NEW q \in Parts PROVE EntryFits(entries'[q], text'[q], persisted'[q])
  <2>1. EntryFits(entries[q], text[q], persisted[q])
    BY DEF BufferInv
  <2>2. CASE q # p
    BY <2>1, <2>2, <1>1, <1>2, <1>9, <1>10 DEF BufferRecords
  <2>3. CASE q = p
    <3>1. persisted'[p] = task.text /\ text'[p] = text[p]
      BY <1>1, <1>2, <1>5, <1>10 DEF BufferRecords
    <3>2. CASE entries'[p] = entries[p]
      BY <3>1, <3>2, <2>1, <2>3, <1>4 DEF EntryFits, TaskFits
    <3>3. CASE entries'[p] = Absent /\ entries[p].version = task.version
      BY <3>1, <3>3, <2>3, <1>4, <1>8 DEF EntryFits, TaskFits
    <3> QED
      BY <3>2, <3>3, <1>1, <1>5, <1>9 DEF BufferRecords
  <2> QED
    BY <2>2, <2>3
<1> QED
  BY <1>6, <1>11, <1>13, <1>14, BufferKept

LEMMA FailureKeeps ==
  ASSUME BufferInv, TaskFails
  PROVE  BufferInv'
<1> DEFINE task == running[1]
           p == task.part
<1>1. BufferRecords
  BY DEF BufferInv
<1>2. PICK i \in DOMAIN running :
        /\ silent' = [silent EXCEPT ![running[i].part] = @ \cup ToSet(running[i].delta)]
        /\ running' = RemoveAt(running, i)
  BY Zenon DEF TaskFails
<1>3. running # <<>> /\ i = 1 /\ Len(running) = 1 /\ DOMAIN running = {1} /\ task \in RunningTypes /\ RemoveAt(running, 1) = <<>>
  BY <1>1, <1>2, OneRunning
<1>4. UNCHANGED <<text, entries, queue, emitted, persisted>>
  BY DEF TaskFails
<1>5. p \in Parts /\ task.delta \in Seq(Nat) /\ ToSet(task.delta) \subseteq Nat
  <2>1. p \in Parts /\ task.delta \in Seq(Nat)
    BY <1>3 DEF RunningTypes
  <2> HIDE DEF task
  <2> QED
    BY <2>1 DEF ToSet
<1>6. running' = <<>> /\ \A q \in Parts : InFlight(q)' = <<>>
  BY <1>2, <1>3 DEF InFlight
<1>7. silent' = [silent EXCEPT ![p] = silent[p] \cup ToSet(task.delta)]
  BY <1>2, <1>3
<1> HIDE DEF task
<1>8. silent' \in [Parts -> SUBSET Nat]
  BY <1>1, <1>5, <1>7 DEF BufferRecords
<1>9. BufferRecords'
  <2>1. <<>> \in Seq(RunningTypes) /\ Len(<<>>) <= 1
    OBVIOUS
  <2> QED
    BY <2>1, <1>1, <1>4, <1>6, <1>8 DEF BufferRecords
<1>10. ASSUME NEW q \in Parts PROVE StreamFits(emitted'[q], InFlight(q)', entries'[q].delta, text'[q], silent'[q])
  <2>1. StreamFits(emitted[q], InFlight(q), entries[q].delta, text[q], silent[q])
    BY DEF BufferInv
  <2>2. CASE q = p
    <3>1. InFlight(q) = task.delta
      BY <1>3, <2>2 DEF InFlight, task
    <3>2. emitted[q] \in Seq(Nat) /\ entries[q].delta \in Seq(Nat) /\ text[q] \in Nat
      BY <1>1 DEF BufferRecords, EntryTypes
    <3>3. StreamFits(emitted[q], <<>>, entries[q].delta, text[q], silent[q] \cup ToSet(task.delta))
      BY <2>1, <3>1, <3>2, <1>5, LostFits
    <3>4. silent'[q] = silent[q] \cup ToSet(task.delta)
      BY <1>1, <1>7, <2>2 DEF BufferRecords
    <3> QED
      BY <3>3, <3>4, <1>4, <1>6
  <2>3. CASE q # p
    <3>1. InFlight(q) = <<>>
      BY <1>3, <2>3 DEF InFlight, task
    <3>2. silent'[q] = silent[q]
      BY <1>1, <1>7, <2>3 DEF BufferRecords
    <3> QED
      BY <2>1, <3>1, <3>2, <1>4, <1>6
  <2> QED
    BY <2>2, <2>3
<1>11. \A q \in Parts : EntryFits(entries'[q], text'[q], persisted'[q])
  BY <1>4 DEF BufferInv
<1> QED
  BY <1>6, <1>9, <1>10, <1>11, BufferKept

LEMMA BufferStep ==
  BufferInv /\ [BufferNext]_bufferVars => BufferInv'
<1> SUFFICES ASSUME BufferInv, [BufferNext]_bufferVars PROVE BufferInv'
  OBVIOUS
<1>1. ASSUME NEW p \in Parts, Push(p) PROVE BufferInv'
  BY <1>1, PushKeeps
<1>2. ASSUME NEW p \in Parts, Checkpoint(p) PROVE BufferInv'
  BY <1>2, CheckpointKeeps
<1>3. ASSUME NEW p \in Parts, Flush(p) \/ DeltaWindowEnds(p) \/ CheckpointWindowEnds(p) PROVE BufferInv'
  BY <1>3, TimersKeep
<1>4. CASE StartTask
  BY <1>4, StartKeeps
<1>5. CASE DeltaEmitted
  BY <1>5, EmittedKeeps
<1>6. CASE PartPersisted
  BY <1>6, PersistedKeeps
<1>7. CASE TaskFails
  BY <1>7, FailureKeeps
<1>8. CASE UNCHANGED bufferVars
  BY <1>8 DEF bufferVars, BufferInv, BufferRecords, InFlight
<1> QED
  BY <1>1, <1>2, <1>3, <1>4, <1>5, <1>6, <1>7, <1>8 DEF BufferNext

(* The invariant of a buffer: its task, its entries and its streams fit, for any number of parts, changes and failures. *)
THEOREM BufferInvariance == BufferSpec => []BufferInv
<1> QED
  BY BufferInitHolds, BufferStep, PTL DEF BufferSpec

(* The buffer of a stream loses no text, doubles none and keeps its order, whatever comes in while a task awaits a
   consumer, and an entry is dropped only when its text is stored (enqueue, emitPending and flushEntry): NothingIsLost. *)
THEOREM TextArrives == BufferSpec => []NothingIsLost
<1>1. BufferInv => NothingIsLost
  <2> SUFFICES ASSUME BufferInv PROVE NothingIsLost
    OBVIOUS
  <2>1. EmittedInOrder
    BY DEF BufferInv, StreamFits, EmittedInOrder, Pushed
  <2>2. DroppedIsPersisted
    BY DEF BufferInv, EntryFits, DroppedIsPersisted
  <2> QED
    BY <2>1, <2>2 DEF NothingIsLost
<1> QED
  BY <1>1, BufferInvariance, PTL

-----------------------------------------------------------------------------
(* The reply in a chat.  A card that some call may still write as running shows the turn as running (ShowsRunning): the
   flush that shows the end is the last one (LastFlush), since a card that is over has no timer and nobody asks for
   another flush (CardOver). *)
CardStatuses == [status : ReplyStatuses, shown : BOOLEAN]

FlushPlaces == {"none", "create", "send", "stream", "tools", "update", "mode", "patch", "note", "text", "over"}

SinkTypes ==
  [bound : BOOLEAN, completed : BOOLEAN, stopped : BOOLEAN, done : ReplyStatuses \cup {"no", "stopped"},
   awaitsText : BOOLEAN, tool : BOOLEAN, postTool : BOOLEAN, timeout : BOOLEAN, deferred : BOOLEAN, poll : BOOLEAN,
   status : ReplyStatuses, delivery : {"none", "delivering", "fallback", "delivered"}]

CardTypes ==
  [transport : {"cardkit", "patch", "text"}, entity : Nat, sent : Nat, noted : BOOLEAN, terminal : BOOLEAN,
   reflush : BOOLEAN, timer : BOOLEAN, urgent : BOOLEAN]

FlushTypes == [by : Lines \cup {"nobody", "finish", "timer"}, status : ReplyStatuses, pc : FlushPlaces, card : Nat]

OpeningTypes == [pc : FlushPlaces, card : Nat]

ReplyRecords ==
  /\ sink \in SinkTypes
  /\ card \in CardTypes
  /\ flush \in FlushTypes
  /\ opening \in OpeningTypes
  /\ chat \in Seq(CardStatuses)

Refs == {card.entity, card.sent, flush.card, opening.card}

(* The flush under way shows the turn as running, or one that does may still begin. *)
Live == IF Busy THEN flush.status = "running" ELSE ~card.terminal

ShowsRunning ==
  /\ Refs \subseteq 0..Len(chat)
  /\ Live => \A i \in Refs \ {0} : chat[i].status = "running"

CardOver ==
  /\ sink.completed => card.terminal
  /\ card.terminal => (sink.completed \/ sink.stopped) /\ ~card.timer

LastFlush ==
  /\ flush.status # "running" => Busy /\ card.terminal
  /\ flush.pc \in {"stream", "tools"} => flush.status = "running"
  /\ ~Busy => flush.pc = "none"

ReplyInv == ReplyRecords /\ ShowsRunning /\ CardOver /\ LastFlush

StaysEnded == \A i \in DOMAIN chat : chat[i].status # "running" => chat'[i].status # "running"

(* What the first call of a flush is about. *)
LEMMA FirstCallFacts ==
  ASSUME NEW c \in CardTypes, NEW s \in ReplyStatuses
  PROVE  /\ FirstCall(c, s).pc \in FlushPlaces \ {"none", "tools"}
         /\ FirstCall(c, s).card \in {c.entity, c.sent, 0}
         /\ FirstCall(c, s).card \in Nat
         /\ FirstCall(c, s).pc = "stream" => s = "running"
BY DEF FirstCall, CardTypes, FlushPlaces

(* Steps that leave the cards at Feishu alone. *)
LEMMA ChatCalm ==
  ASSUME ReplyInv, ReplyRecords', CardOver', LastFlush', chat' = chat, Refs' \subseteq Refs \cup {0}, Live' => Live
  PROVE  ReplyInv' /\ StaysEnded
<1>1. Refs' \subseteq 0..Len(chat')
  BY DEF ReplyInv, ReplyRecords, ShowsRunning
<1>2. ASSUME Live' PROVE \A i \in Refs' \ {0} : chat'[i].status = "running"
  BY <1>2 DEF ReplyInv, ShowsRunning
<1>3. ShowsRunning'
  BY <1>1, <1>2 DEF ShowsRunning
<1> QED
  BY <1>3 DEF ReplyInv, StaysEnded

(* Steps that add a card or a message. *)
LEMMA ChatGrows ==
  ASSUME ReplyInv, ReplyRecords', CardOver', LastFlush', NEW m \in CardStatuses, chat' = Append(chat, m),
         Refs' \subseteq Refs \cup {0, Len(chat) + 1}, Live' => Live,
         Live' /\ Len(chat) + 1 \in Refs' => m.status = "running"
  PROVE  ReplyInv' /\ StaysEnded
<1>1. chat \in Seq(CardStatuses) /\ Len(chat) \in Nat /\ DOMAIN chat = 1..Len(chat)
  BY DEF ReplyInv, ReplyRecords
<1>2. Len(chat') = Len(chat) + 1 /\ chat'[Len(chat) + 1] = m /\ \A i \in 1..Len(chat) : chat'[i] = chat[i]
  BY <1>1
<1>3. Refs' \subseteq 0..Len(chat')
  BY <1>1, <1>2 DEF ReplyInv, ShowsRunning
<1>4. ASSUME Live', NEW i \in Refs' \ {0} PROVE chat'[i].status = "running"
  <2>1. CASE i = Len(chat) + 1
    BY <1>2, <1>4, <2>1
  <2>2. CASE i # Len(chat) + 1
    <3>1. i \in Refs \ {0} /\ i \in 1..Len(chat)
      BY <1>1, <1>4, <2>2 DEF ReplyInv, ShowsRunning
    <3> QED
      BY <3>1, <1>2, <1>4 DEF ReplyInv, ShowsRunning
  <2> QED
    BY <2>1, <2>2
<1>5. ShowsRunning'
  BY <1>3, <1>4 DEF ShowsRunning
<1>6. StaysEnded
  BY <1>1, <1>2 DEF StaysEnded
<1> QED
  BY <1>5, <1>6 DEF ReplyInv

(* Steps that change a card. *)
LEMMA ChatChanges ==
  ASSUME ReplyInv, ReplyRecords', CardOver', LastFlush', NEW i \in Nat, NEW m, i # 0,
         i \in DOMAIN chat => m \in CardStatuses, chat' = [chat EXCEPT ![i] = m],
         Refs' \subseteq Refs \cup {0}, Live' => Live,
         i \in DOMAIN chat => (Live' /\ chat[i].status = "running" => m.status = "running"),
         i \in DOMAIN chat => (chat[i].status # "running" => m.status # "running")
  PROVE  ReplyInv' /\ StaysEnded
<1>1. chat \in Seq(CardStatuses) /\ Len(chat) \in Nat /\ DOMAIN chat = 1..Len(chat)
  BY DEF ReplyInv, ReplyRecords
<1>2. Len(chat') = Len(chat) /\ \A j \in 1..Len(chat) : chat'[j] = IF j = i THEN m ELSE chat[j]
  <2>1. CASE i \in 1..Len(chat)
    BY <2>1, <1>1, ExceptSeq
  <2>2. CASE i \notin 1..Len(chat)
    <3>1. chat' = chat
      BY <2>2, <1>1
    <3> QED
      BY <3>1, <2>2
  <2> QED
    BY <2>1, <2>2
<1>3. Refs' \subseteq 0..Len(chat')
  BY <1>1, <1>2 DEF ReplyInv, ShowsRunning
<1>4. ASSUME Live', NEW j \in Refs' \ {0} PROVE chat'[j].status = "running"
  <2>1. j \in Refs \ {0} /\ j \in 1..Len(chat) /\ chat[j].status = "running"
    BY <1>1, <1>4 DEF ReplyInv, ShowsRunning
  <2> QED
    BY <2>1, <1>1, <1>2, <1>4
<1>5. ShowsRunning'
  BY <1>3, <1>4 DEF ShowsRunning
<1>6. StaysEnded
  BY <1>1, <1>2 DEF StaysEnded
<1> QED
  BY <1>5, <1>6 DEF ReplyInv

LEMMA FlushNowFacts ==
  ASSUME ReplyRecords, NEW c \in CardTypes, NEW by \in Lines \cup {"finish", "timer"}, NEW s \in ReplyStatuses,
         c.entity = card.entity, c.sent = card.sent, FlushNow(c, by, s)
  PROVE  /\ card' \in CardTypes /\ card'.entity = card.entity /\ card'.sent = card.sent
         /\ card'.terminal = c.terminal /\ card'.timer = c.timer
         /\ flush' \in FlushTypes
         /\ Busy => flush' = flush
         /\ ~Busy => /\ flush'.by = by /\ flush'.status = s /\ flush'.pc \in FlushPlaces \ {"none", "tools"}
                     /\ flush'.pc = "stream" => s = "running"
                     /\ flush'.card \in {card.entity, card.sent, 0}
<1> DEFINE firstCall == FirstCall(c, s)
           d == [c EXCEPT !.reflush = TRUE]
           note == c.noted \/ firstCall.pc = "note"
           e == [c EXCEPT !.reflush = FALSE, !.noted = note]
           f == [by |-> by, status |-> s, pc |-> firstCall.pc, card |-> firstCall.card]
<1>1. /\ firstCall.pc \in FlushPlaces \ {"none", "tools"} /\ firstCall.card \in {c.entity, c.sent, 0} /\ firstCall.card \in Nat
      /\ firstCall.pc = "stream" => s = "running"
  BY FirstCallFacts
<1>2. IF Busy THEN card' = d /\ flush' = flush ELSE card' = e /\ flush' = f
  BY DEF FlushNow
<1>3. d \in CardTypes /\ d.entity = c.entity /\ d.sent = c.sent /\ d.terminal = c.terminal /\ d.timer = c.timer
  BY DEF CardTypes
<1>4. note \in BOOLEAN
  BY DEF CardTypes
<1> HIDE DEF note, firstCall
<1>5. e \in CardTypes /\ e.entity = c.entity /\ e.sent = c.sent /\ e.terminal = c.terminal /\ e.timer = c.timer
  BY <1>4 DEF CardTypes
<1>6. f \in FlushTypes /\ f.by = by /\ f.status = s /\ f.pc = firstCall.pc /\ f.card = firstCall.card
  BY <1>1 DEF FlushTypes
<1>7. flush \in FlushTypes
  BY DEF ReplyRecords
<1> HIDE DEF d, e, f
<1>8. CASE Busy
  BY <1>2, <1>3, <1>7, <1>8
<1>9. CASE ~Busy
  BY <1>1, <1>2, <1>5, <1>6, <1>9
<1> QED
  BY <1>8, <1>9

(* Steps of the sink alone. *)
LEMMA SinkCalm ==
  ASSUME ReplyInv, sink' \in SinkTypes, sink'.completed = sink.completed, sink.stopped => sink'.stopped,
         opening' \in OpeningTypes, opening'.card \in {opening.card, 0}, UNCHANGED <<card, flush, chat>>
  PROVE  ReplyInv' /\ StaysEnded
<1>1. ReplyRecords'
  BY DEF ReplyInv, ReplyRecords
<1>2. CardOver'
  BY DEF ReplyInv, CardOver
<1>3. LastFlush' /\ (Live' => Live)
  BY DEF ReplyInv, LastFlush, Busy, Live
<1>4. Refs' \subseteq Refs \cup {0}
  BY DEF Refs
<1> QED
  BY <1>1, <1>2, <1>3, <1>4, ChatCalm

(* A flush that shows the turn as running begins, or is asked for. *)
LEMMA RunningFlush ==
  ASSUME ReplyInv, NEW c \in CardTypes, NEW by \in Lines \cup {"timer"}, c.entity = card.entity, c.sent = card.sent,
         c.terminal = card.terminal, ~card.terminal, FlushNow(c, by, "running"),
         sink' \in SinkTypes, sink'.completed = sink.completed, sink'.stopped = sink.stopped, UNCHANGED <<opening, chat>>
  PROVE  ReplyInv' /\ StaysEnded
<1>1. ReplyRecords /\ "running" \in ReplyStatuses
  BY DEF ReplyInv, ReplyStatuses
<1>2. /\ card' \in CardTypes /\ card'.entity = card.entity /\ card'.sent = card.sent
      /\ card'.terminal = c.terminal /\ card'.timer = c.timer
      /\ flush' \in FlushTypes
      /\ Busy => flush' = flush
      /\ ~Busy => /\ flush'.by = by /\ flush'.status = "running" /\ flush'.pc \in FlushPlaces \ {"none", "tools"}
                  /\ flush'.card \in {card.entity, card.sent, 0}
  BY <1>1, FlushNowFacts
<1>3. ReplyRecords'
  BY <1>1, <1>2 DEF ReplyRecords
<1>4. CardOver'
  BY <1>2 DEF ReplyInv, CardOver
<1>5. LastFlush'
  <2>1. CASE Busy
    BY <1>2, <2>1 DEF ReplyInv, LastFlush, Busy
  <2>2. CASE ~Busy
    <3>1. flush'.by # "nobody"
      BY <1>2, <2>2 DEF Lines
    <3> QED
      BY <3>1, <1>2, <2>2 DEF LastFlush, Busy
  <2> QED
    BY <2>1, <2>2
<1>6. Live
  BY DEF ReplyInv, LastFlush, Live
<1>7. Refs' \subseteq Refs \cup {0}
  BY <1>2 DEF Refs
<1> QED
  BY <1>1, <1>3, <1>4, <1>5, <1>6, <1>7, ChatCalm

(* The reply ends. *)
LEMMA FinishFlush ==
  ASSUME ReplyInv, NEW s \in ReplyStatuses, s # "running", FinishReply(s), UNCHANGED <<opening, chat>>
  PROVE  ReplyInv' /\ StaysEnded
<1> DEFINE n == [sink EXCEPT !.completed = TRUE, !.status = s, !.awaitsText = FALSE,
                             !.timeout = FALSE, !.deferred = FALSE, !.poll = FALSE,
                             !.delivery = IF card.terminal \/ Busy THEN "delivered" ELSE "delivering"]
           c == CardFinished(card)
<1>1. ReplyRecords /\ sink \in SinkTypes /\ card \in CardTypes /\ opening \in OpeningTypes
  BY DEF ReplyInv, ReplyRecords
<1>2. CASE sink.completed
  <2>1. UNCHANGED <<sink, card, flush>>
    BY <1>2 DEF FinishReply
  <2> QED
    BY <2>1, <1>1, SinkCalm
<1>3. CASE ~sink.completed
  <2>1. sink' = n /\ IF card.terminal THEN UNCHANGED <<card, flush>> ELSE FlushNow(c, "finish", s)
    BY <1>3 DEF FinishReply
  <2>2. n \in SinkTypes /\ n.completed /\ n.stopped = sink.stopped
    <3> DEFINE dl == IF card.terminal \/ Busy THEN "delivered" ELSE "delivering"
    <3>1. dl \in {"none", "delivering", "fallback", "delivered"}
      OBVIOUS
    <3>2. n = [sink EXCEPT !.completed = TRUE, !.status = s, !.awaitsText = FALSE,
                             !.timeout = FALSE, !.deferred = FALSE, !.poll = FALSE, !.delivery = dl]
      OBVIOUS
    <3> HIDE DEF dl
    <3> QED
      BY <3>1, <3>2, <1>1 DEF SinkTypes
  <2>3. c \in CardTypes /\ c.entity = card.entity /\ c.sent = card.sent /\ c.terminal /\ ~c.timer
    BY <1>1 DEF CardTypes, CardFinished
  <2> HIDE DEF n, c
  <2>4. CASE card.terminal
    <3>1. sink' \in SinkTypes /\ sink'.completed /\ UNCHANGED <<card, flush>>
      BY <2>1, <2>2, <2>4
    <3>2. ReplyRecords'
      BY <1>1, <3>1 DEF ReplyRecords
    <3>3. CardOver'
      BY <2>4, <3>1 DEF ReplyInv, CardOver
    <3>4. LastFlush' /\ (Live' => Live)
      BY <3>1 DEF ReplyInv, LastFlush, Busy, Live
    <3>5. Refs' \subseteq Refs \cup {0}
      BY <3>1 DEF Refs
    <3> QED
      BY <3>2, <3>3, <3>4, <3>5, ChatCalm
  <2>5. CASE ~card.terminal
    <3>1. /\ card' \in CardTypes /\ card'.entity = card.entity /\ card'.sent = card.sent
          /\ card'.terminal = c.terminal /\ card'.timer = c.timer
          /\ flush' \in FlushTypes
          /\ Busy => flush' = flush
          /\ ~Busy => /\ flush'.by = "finish" /\ flush'.status = s /\ flush'.pc \in FlushPlaces \ {"none", "tools"}
                      /\ flush'.pc = "stream" => s = "running"
                      /\ flush'.card \in {card.entity, card.sent, 0}
      BY <1>1, <2>1, <2>3, <2>5, FlushNowFacts
    <3>2. ReplyRecords'
      BY <1>1, <2>1, <2>2, <3>1 DEF ReplyRecords
    <3>3. CardOver'
      BY <2>1, <2>2, <2>3, <3>1 DEF CardOver
    <3>4. LastFlush' /\ (Live' => Live)
      <4>1. CASE Busy
        BY <2>3, <3>1, <4>1 DEF ReplyInv, LastFlush, Busy, Live
      <4>2. CASE ~Busy
        BY <2>3, <3>1, <4>2 DEF LastFlush, Busy, Live
      <4> QED
        BY <4>1, <4>2
    <3>5. Refs' \subseteq Refs \cup {0}
      BY <3>1 DEF Refs
    <3> QED
      BY <3>2, <3>3, <3>4, <3>5, ChatCalm
  <2> QED
    BY <2>4, <2>5
<1> QED
  BY <1>2, <1>3

LEMMA HeardOpen ==
  ASSUME ReplyInv, NEW l, NEW e, Heard(l, e)
  PROVE  ~card.terminal
BY DEF ReplyInv, CardOver, Heard

LEMMA ScheduledFlush ==
  ASSUME ReplyInv, NEW c \in CardTypes, NEW l \in Lines, NEW busy, NEW next, c.entity = card.entity, c.sent = card.sent,
         c.terminal = card.terminal, ~card.terminal, ScheduleFlush(l, c, busy, next),
         sink' \in SinkTypes, sink'.completed = sink.completed, sink'.stopped = sink.stopped, UNCHANGED <<opening, chat>>
  PROVE  ReplyInv' /\ StaysEnded
<1> DEFINE d == [c EXCEPT !.timer = FALSE]
           e == [c EXCEPT !.timer = TRUE]
<1>1. /\ d \in CardTypes /\ d.entity = c.entity /\ d.sent = c.sent /\ d.terminal = c.terminal
      /\ e \in CardTypes /\ e.entity = c.entity /\ e.sent = c.sent /\ e.terminal = c.terminal
  BY DEF CardTypes
<1>2. FlushNow(d, l, "running") \/ (card' = e /\ UNCHANGED flush)
  BY DEF ScheduleFlush
<1> HIDE DEF d, e
<1>3. CASE FlushNow(d, l, "running")
  BY <1>1, <1>3, RunningFlush
<1>4. CASE card' = e /\ UNCHANGED flush
  <2>1. ReplyRecords'
    BY <1>1, <1>4 DEF ReplyInv, ReplyRecords
  <2>2. CardOver'
    BY <1>1, <1>4 DEF ReplyInv, CardOver
  <2>3. LastFlush' /\ (Live' => Live)
    BY <1>1, <1>4 DEF ReplyInv, LastFlush, Busy, Live
  <2>4. Refs' \subseteq Refs \cup {0}
    BY <1>1, <1>4 DEF Refs
  <2> QED
    BY <2>1, <2>2, <2>3, <2>4, ChatCalm
<1> QED
  BY <1>2, <1>3, <1>4

LEMMA SinkSteps ==
  ASSUME ReplyInv,
         \/ BindTurn \/ StartDraining \/ PutAside \/ PollFires \/ DeferredFires \/ DeliveryTimesOut \/ ReplyDone
         \/ \E l \in Lines : DropEvent(l) \/ ResultFails(l)
  PROVE  ReplyInv' /\ StaysEnded
<1>1. sink \in SinkTypes /\ opening \in OpeningTypes
  BY DEF ReplyInv, ReplyRecords
<1>2. UNCHANGED <<card, flush, chat>>
  BY DEF BindTurn, StartDraining, PutAside, PollFires, DeferredFires, DeliveryTimesOut, ReplyDone, DropEvent, ResultFails
<1>3. opening' \in OpeningTypes /\ opening'.card \in {opening.card, 0}
  <2>1. CASE BindTurn
    BY <2>1 DEF BindTurn, OpeningTypes, FlushPlaces
  <2>2. CASE ~BindTurn
    BY <2>2, <1>1 DEF StartDraining, PutAside, PollFires, DeferredFires, DeliveryTimesOut, ReplyDone, DropEvent, ResultFails
  <2> QED
    BY <2>1, <2>2
<1> DEFINE Fits(s) == s \in SinkTypes /\ s.completed = sink.completed /\ (sink.stopped => s.stopped)
<1>4. Fits(sink)
  BY <1>1
<1>5. CASE BindTurn
  <2>1. sink' = [sink EXCEPT !.bound = TRUE, !.timeout = TRUE]
    BY <1>5 DEF BindTurn, Bound
  <2>2. Fits(sink')
    BY <2>1, <1>1 DEF SinkTypes
  <2> QED
    BY <2>2, <1>2, <1>3, SinkCalm
<1>6. CASE StartDraining
  <2> DEFINE poll == ~sink.completed /\ ~sink.stopped
  <2>1. sink' = [sink EXCEPT !.poll = poll] /\ poll \in BOOLEAN
    BY <1>6 DEF StartDraining
  <2> HIDE DEF poll
  <2>2. Fits(sink')
    BY <2>1, <1>1 DEF SinkTypes
  <2> QED
    BY <2>2, <1>2, <1>3, SinkCalm
<1>7. CASE PollFires
  <2>1. sink' = [sink EXCEPT !.poll = FALSE]
    BY <1>7 DEF PollFires
  <2>2. Fits(sink')
    BY <2>1, <1>1 DEF SinkTypes
  <2> QED
    BY <2>2, <1>2, <1>3, SinkCalm
<1>8. CASE DeferredFires
  <2>1. sink' = [sink EXCEPT !.deferred = FALSE]
    BY <1>8 DEF DeferredFires
  <2>2. Fits(sink')
    BY <2>1, <1>1 DEF SinkTypes
  <2> QED
    BY <2>2, <1>2, <1>3, SinkCalm
<1>9. CASE DeliveryTimesOut
  <2>1. sink' = [sink EXCEPT !.delivery = "fallback"]
    BY <1>9 DEF DeliveryTimesOut
  <2>2. Fits(sink')
    BY <2>1, <1>1 DEF SinkTypes
  <2> QED
    BY <2>2, <1>2, <1>3, SinkCalm
<1>10. CASE ReplyDone
  <2> DEFINE done == IF sink.done = "no" THEN sink.status ELSE sink.done
  <2>1. sink' = [sink EXCEPT !.stopped = TRUE, !.done = done]
    BY <1>10 DEF ReplyDone
  <2>2. done \in ReplyStatuses \cup {"no", "stopped"}
    BY <1>1 DEF SinkTypes
  <2> HIDE DEF done
  <2>3. Fits(sink')
    BY <2>1, <2>2, <1>1 DEF SinkTypes
  <2> QED
    BY <2>3, <1>2, <1>3, SinkCalm
<1>11. ASSUME NEW l \in Lines, ResultFails(l) PROVE ReplyInv' /\ StaysEnded
  <2> DEFINE poll == Open
  <2>1. sink' = sink \/ sink' = [sink EXCEPT !.poll = poll]
    BY <1>11 DEF ResultFails
  <2>2. poll \in BOOLEAN
    BY DEF Open
  <2> HIDE DEF poll
  <2>3. Fits([sink EXCEPT !.poll = poll])
    BY <2>2, <1>1 DEF SinkTypes
  <2> HIDE DEF Fits
  <2>4. Fits(sink')
    BY <2>1, <2>3, <1>4
  <2> QED
    BY <2>4, <1>2, <1>3, SinkCalm DEF Fits
<1>12. CASE PutAside
  BY <1>12, <1>1, <1>2, <1>3, SinkCalm DEF PutAside
<1>13. ASSUME NEW l \in Lines, DropEvent(l) PROVE ReplyInv' /\ StaysEnded
  BY <1>13, <1>1, <1>2, <1>3, SinkCalm DEF DropEvent
<1> QED
  BY <1>5, <1>6, <1>7, <1>8, <1>9, <1>10, <1>11, <1>12, <1>13

LEMMA StopSteps ==
  ASSUME ReplyInv, StopReply
  PROVE  ReplyInv' /\ StaysEnded
<1> DEFINE done == IF sink.completed THEN "final" ELSE "stopped"
           s == [sink EXCEPT !.stopped = TRUE, !.timeout = FALSE, !.deferred = FALSE, !.poll = FALSE, !.done = done]
           c == [card EXCEPT !.terminal = TRUE, !.timer = FALSE]
<1>1. ReplyRecords /\ sink \in SinkTypes /\ card \in CardTypes
  BY DEF ReplyInv, ReplyRecords
<1>2. sink' = s /\ card' = c /\ UNCHANGED <<flush, opening, chat>>
  BY DEF StopReply
<1>3. done \in ReplyStatuses \cup {"no", "stopped"}
  BY DEF ReplyStatuses
<1> HIDE DEF done
<1>4. s \in SinkTypes /\ s.stopped /\ s.completed = sink.completed
  BY <1>1, <1>3 DEF SinkTypes
<1>5. c \in CardTypes /\ c.terminal /\ ~c.timer /\ c.entity = card.entity /\ c.sent = card.sent
  BY <1>1 DEF CardTypes
<1> HIDE DEF s, c
<1>6. ReplyRecords'
  BY <1>1, <1>2, <1>4, <1>5 DEF ReplyRecords
<1>7. CardOver'
  BY <1>2, <1>4, <1>5 DEF CardOver
<1>8. LastFlush' /\ (Live' => Live)
  BY <1>2, <1>5 DEF ReplyInv, LastFlush, Busy, Live
<1>9. Refs' \subseteq Refs \cup {0}
  BY <1>2, <1>5 DEF Refs
<1> QED
  BY <1>2, <1>6, <1>7, <1>8, <1>9, ChatCalm

LEMMA FallbackSteps ==
  ASSUME ReplyInv, SendFallback
  PROVE  ReplyInv' /\ StaysEnded
<1> DEFINE s == [sink EXCEPT !.delivery = "delivered"]
           m == Message(sink.status)
<1>1. ReplyRecords /\ sink \in SinkTypes /\ chat \in Seq(CardStatuses) /\ opening \in OpeningTypes
  BY DEF ReplyInv, ReplyRecords
<1>2. sink' = s /\ UNCHANGED <<card, flush, opening>> /\ (chat' = Append(chat, m) \/ UNCHANGED chat)
  BY DEF SendFallback
<1>3. s \in SinkTypes /\ s.stopped = sink.stopped /\ s.completed = sink.completed
  BY <1>1 DEF SinkTypes
<1>4. m \in CardStatuses
  BY <1>1 DEF Message, CardStatuses, SinkTypes
<1> HIDE DEF s, m
<1>5. CASE UNCHANGED chat
  BY <1>1, <1>2, <1>3, <1>5, SinkCalm
<1>6. CASE chat' = Append(chat, m)
  <2>1. ReplyRecords'
    BY <1>1, <1>2, <1>3, <1>4, <1>6 DEF ReplyRecords
  <2>2. CardOver' /\ LastFlush' /\ (Live' => Live)
    BY <1>2, <1>3 DEF ReplyInv, CardOver, LastFlush, Busy, Live
  <2>3. Refs' = Refs /\ Len(chat) + 1 \notin Refs
    <3>1. Refs' = Refs
      BY <1>2 DEF Refs
    <3>2. Len(chat) \in Nat
      BY <1>1
    <3> QED
      BY <3>1, <3>2 DEF ReplyInv, ShowsRunning
  <2> QED
    BY <2>1, <2>2, <2>3, <1>4, <1>6, ChatGrows
<1> QED
  BY <1>2, <1>5, <1>6

LEMMA EventSteps ==
  ASSUME ReplyInv, NEW l \in Lines,
         HandleText(l) \/ TextShown(l) \/ HandleTool(l) \/ HandleResource(l) \/ HandleEnd(l) \/ HandleFail(l)
  PROVE  ReplyInv' /\ StaysEnded
<1>1. ReplyRecords /\ sink \in SinkTypes /\ card \in CardTypes /\ opening \in OpeningTypes
  BY DEF ReplyInv, ReplyRecords
<1>2. {"final", "error"} \subseteq ReplyStatuses \ {"running"}
  BY DEF ReplyStatuses
<1>3. CASE HandleText(l)
  <2> DEFINE post == sink.postTool \/ sink.tool
  <2>1. sink' = [sink EXCEPT !.postTool = post] /\ ScheduleFlush(l, card, "showing", "shown") /\ UNCHANGED <<opening, chat>> /\ ~card.terminal
    BY <1>3, HeardOpen DEF HandleText
  <2>2. post \in BOOLEAN
    BY <1>1 DEF SinkTypes
  <2> HIDE DEF post
  <2>3. sink' \in SinkTypes /\ sink'.completed = sink.completed /\ sink'.stopped = sink.stopped
    BY <2>1, <2>2, <1>1 DEF SinkTypes
  <2> QED
    BY <2>1, <2>3, <1>1, ScheduledFlush
<1>4. CASE TextShown(l)
  <2>1. UNCHANGED <<opening, chat>> /\ (FinishReply("final") \/ UNCHANGED <<sink, card, flush>>)
    BY <1>4 DEF TextShown
  <2> QED
    BY <2>1, <1>1, <1>2, FinishFlush, SinkCalm
<1>5. CASE HandleTool(l)
  <2> DEFINE c == [card EXCEPT !.timer = FALSE, !.urgent = TRUE]
             s == [sink EXCEPT !.tool = TRUE]
  <2>1. sink' = s /\ ScheduleFlush(l, c, "flushing", Resting(l)) /\ UNCHANGED <<opening, chat>> /\ ~card.terminal
    BY <1>5, HeardOpen DEF HandleTool
  <2>2. s \in SinkTypes /\ s.completed = sink.completed /\ s.stopped = sink.stopped
    BY <1>1 DEF SinkTypes
  <2>3. c \in CardTypes /\ c.entity = card.entity /\ c.sent = card.sent /\ c.terminal = card.terminal
    BY <1>1 DEF CardTypes
  <2> HIDE DEF c, s
  <2> QED
    BY <2>1, <2>2, <2>3, ScheduledFlush
<1>6. CASE HandleResource(l)
  <2>1. FlushNow(card, l, "running") /\ UNCHANGED <<sink, opening, chat>> /\ ~card.terminal
    BY <1>6, HeardOpen DEF HandleResource
  <2> QED
    BY <2>1, <1>1, RunningFlush
<1>7. CASE HandleEnd(l)
  <2> DEFINE s == [sink EXCEPT !.awaitsText = TRUE]
  <2>1. UNCHANGED <<opening, chat>> /\ (FinishReply("final") \/ (sink' = s /\ UNCHANGED <<card, flush>>))
    BY <1>7 DEF HandleEnd
  <2>2. s \in SinkTypes /\ s.completed = sink.completed /\ s.stopped = sink.stopped
    BY <1>1 DEF SinkTypes
  <2> HIDE DEF s
  <2> QED
    BY <2>1, <2>2, <1>1, <1>2, FinishFlush, SinkCalm
<1>8. CASE HandleFail(l)
  <2>1. UNCHANGED <<opening, chat>> /\ FinishReply("error")
    BY <1>8 DEF HandleFail
  <2> QED
    BY <2>1, <1>2, FinishFlush
<1> QED
  BY <1>3, <1>4, <1>5, <1>6, <1>7, <1>8

LEMMA ResultSteps ==
  ASSUME ReplyInv, (\E l \in Lines : ResultEnds(l) \/ ResultOpen(l)) \/ ReplyTimesOut \/ CardTimerFires
  PROVE  ReplyInv' /\ StaysEnded
<1>1. ReplyRecords /\ sink \in SinkTypes /\ card \in CardTypes /\ opening \in OpeningTypes
  BY DEF ReplyInv, ReplyRecords
<1>2. {"final", "error", "timeout"} \subseteq ReplyStatuses \ {"running"}
  BY DEF ReplyStatuses
<1>3. ASSUME NEW l \in Lines, ResultEnds(l) PROVE ReplyInv' /\ StaysEnded
  <2>1. UNCHANGED <<opening, chat>> /\ \E s \in {"final", "error"} : FinishReply(s)
    BY <1>3 DEF ResultEnds
  <2> QED
    BY <2>1, <1>2, FinishFlush
<1>4. ASSUME NEW l \in Lines, ResultOpen(l) PROVE ReplyInv' /\ StaysEnded
  <2> DEFINE poll == Open
             s == [sink EXCEPT !.deferred = TRUE]
             t == [sink EXCEPT !.poll = poll]
  <2>1. UNCHANGED <<opening, chat>> /\ (FinishReply("final") \/ ((sink' = s \/ sink' = t) /\ UNCHANGED <<card, flush>>))
    BY <1>4 DEF ResultOpen
  <2>2. poll \in BOOLEAN
    BY DEF Open
  <2> HIDE DEF poll
  <2>3. s \in SinkTypes /\ s.completed = sink.completed /\ s.stopped = sink.stopped
    BY <1>1 DEF SinkTypes
  <2>4. t \in SinkTypes /\ t.completed = sink.completed /\ t.stopped = sink.stopped
    BY <2>2, <1>1 DEF SinkTypes
  <2> HIDE DEF s, t
  <2>5. CASE FinishReply("final")
    BY <2>1, <2>5, <1>2, FinishFlush
  <2>6. CASE (sink' = s \/ sink' = t) /\ UNCHANGED <<card, flush>>
    BY <2>1, <2>3, <2>4, <2>6, <1>1, SinkCalm
  <2> QED
    BY <2>1, <2>5, <2>6
<1>5. CASE ReplyTimesOut
  BY <1>5, <1>2, FinishFlush DEF ReplyTimesOut
<1>6. CASE CardTimerFires
  <2> DEFINE c == [card EXCEPT !.timer = FALSE]
  <2>1. FlushNow(c, "timer", "running") /\ UNCHANGED <<sink, opening, chat>> /\ ~card.terminal
    BY <1>6 DEF CardTimerFires, ReplyInv, CardOver
  <2>2. c \in CardTypes /\ c.entity = card.entity /\ c.sent = card.sent /\ c.terminal = card.terminal
    BY <1>1 DEF CardTypes
  <2> HIDE DEF c
  <2> QED
    BY <2>1, <2>2, <1>1, RunningFlush
<1> QED
  BY <1>3, <1>4, <1>5, <1>6

(* A flush goes on. *)
LEMMA FlushMoves ==
  ASSUME ReplyInv, flush.pc # "none", NEW q \in FlushPlaces, NEW i \in Nat, flush' = [flush EXCEPT !.pc = q, !.card = i],
         q \in {"stream", "tools"} => flush.status = "running",
         card' \in CardTypes, card'.terminal = card.terminal, card'.timer = card.timer, UNCHANGED sink
  PROVE  /\ flush' \in FlushTypes /\ flush'.card = i
         /\ CardOver' /\ LastFlush'
         /\ Live' => Live
         /\ Live <=> flush.status = "running"
<1>1. flush \in FlushTypes /\ Busy
  BY DEF ReplyInv, ReplyRecords, LastFlush
<1>2. flush' \in FlushTypes /\ flush'.card = i /\ flush'.pc = q /\ flush'.by = flush.by /\ flush'.status = flush.status
  BY <1>1 DEF FlushTypes
<1>3. CardOver'
  BY DEF ReplyInv, CardOver
<1>4. LastFlush' /\ (Live' => Live)
  BY <1>1, <1>2 DEF ReplyInv, LastFlush, Busy, Live
<1> QED
  BY <1>1, <1>2, <1>3, <1>4 DEF Live

LEMMA ProceedFacts ==
  ASSUME flush \in FlushTypes, NEW c \in CardTypes, Proceed(c, flush.status)
  PROVE  /\ card' \in CardTypes /\ card'.entity = c.entity /\ card'.sent = c.sent
         /\ card'.terminal = c.terminal /\ card'.timer = c.timer
         /\ \E q \in FlushPlaces, i \in Nat :
              /\ flush' = [flush EXCEPT !.pc = q, !.card = i]
              /\ q \in {"stream", "tools"} => flush.status = "running"
              /\ i \in {c.entity, c.sent, 0}
<1> DEFINE firstCall == FirstCall(c, flush.status)
           note == c.noted \/ firstCall.pc = "note"
           d == [c EXCEPT !.noted = note]
<1>1. flush.status \in ReplyStatuses
  BY DEF FlushTypes
<1>2. /\ firstCall.pc \in FlushPlaces \ {"none", "tools"} /\ firstCall.card \in {c.entity, c.sent, 0} /\ firstCall.card \in Nat
      /\ firstCall.pc = "stream" => flush.status = "running"
  BY <1>1, FirstCallFacts
<1>3. card' = d /\ flush' = [flush EXCEPT !.pc = firstCall.pc, !.card = firstCall.card]
  BY DEF Proceed
<1>4. note \in BOOLEAN
  BY DEF CardTypes
<1> HIDE DEF note, firstCall
<1>5. d \in CardTypes /\ d.entity = c.entity /\ d.sent = c.sent /\ d.terminal = c.terminal /\ d.timer = c.timer
  BY <1>4 DEF CardTypes
<1> HIDE DEF d
<1>6. /\ flush' = [flush EXCEPT !.pc = firstCall.pc, !.card = firstCall.card]
      /\ firstCall.pc \in {"stream", "tools"} => flush.status = "running"
      /\ firstCall.card \in {c.entity, c.sent, 0}
  BY <1>2, <1>3
<1> QED
  BY <1>2, <1>3, <1>5, <1>6

LEMMA SentFacts ==
  ASSUME NEW c \in CardTypes, NEW i \in Nat
  PROVE  /\ Sent(c, i) \in CardTypes /\ Sent(c, i).sent = i /\ Sent(c, i).entity = c.entity
         /\ Sent(c, i).terminal = c.terminal /\ Sent(c, i).timer = c.timer
BY DEF Sent, CardTypes

LEMMA ToPatchFacts ==
  ASSUME NEW c \in CardTypes, NEW d \in {ToPatch(c), ToText(c)}
  PROVE  /\ d \in CardTypes /\ d.sent = c.sent /\ d.entity \in {c.entity, 0}
         /\ d.terminal = c.terminal /\ d.timer = c.timer
<1>1. /\ ToPatch(c) \in CardTypes /\ ToPatch(c).sent = c.sent /\ ToPatch(c).entity = 0
      /\ ToPatch(c).terminal = c.terminal /\ ToPatch(c).timer = c.timer
  BY DEF ToPatch, CardTypes
<1>2. /\ ToText(c) \in CardTypes /\ ToText(c).sent = c.sent /\ ToText(c).entity = c.entity
      /\ ToText(c).terminal = c.terminal /\ ToText(c).timer = c.timer
  BY DEF ToText, CardTypes
<1> QED
  BY <1>1, <1>2

(* A flush calls Feishu. *)
LEMMA FlushCreates ==
  ASSUME ReplyInv, UNCHANGED <<sink, opening>>, flush.pc = "create", chat' = Created,
         card' = [card EXCEPT !.entity = Len(Created)], flush' = [flush EXCEPT !.pc = "send", !.card = Len(Created)]
  PROVE  ReplyInv' /\ StaysEnded
<1> DEFINE m == [status |-> "running", shown |-> FALSE]
           n == Len(chat) + 1
<1>1. ReplyRecords /\ chat \in Seq(CardStatuses) /\ card \in CardTypes /\ opening \in OpeningTypes
  BY DEF ReplyInv, ReplyRecords
<1>2. m \in CardStatuses /\ m.status = "running" /\ n \in Nat
  BY <1>1 DEF CardStatuses, ReplyStatuses
<1>3. chat' = Append(chat, m) /\ Len(Created) = n
  BY <1>1, <1>2 DEF Created
<1>4. chat' \in Seq(CardStatuses)
  BY <1>1, <1>2, <1>3
<1> HIDE DEF m, n
<1>5. card' = [card EXCEPT !.entity = n] /\ flush' = [flush EXCEPT !.pc = "send", !.card = n]
  BY <1>3
<1>6. /\ card' \in CardTypes /\ card'.entity = n /\ card'.sent = card.sent
      /\ card'.terminal = card.terminal /\ card'.timer = card.timer
  BY <1>1, <1>2, <1>5 DEF CardTypes
<1>7. flush' \in FlushTypes /\ flush'.card = n /\ CardOver' /\ LastFlush' /\ (Live' => Live)
  <2>1. "send" \in FlushPlaces
    BY DEF FlushPlaces
  <2> QED
    BY <2>1, <1>2, <1>5, <1>6, FlushMoves
<1>8. ReplyRecords'
  BY <1>1, <1>4, <1>6, <1>7 DEF ReplyRecords
<1>9. Refs' \subseteq Refs \cup {0, Len(chat) + 1}
  BY <1>6, <1>7 DEF Refs, n
<1> QED
  BY <1>2, <1>3, <1>7, <1>8, <1>9, ChatGrows

LEMMA FlushSends ==
  ASSUME ReplyInv, UNCHANGED <<sink, opening>>, flush.pc = "send", chat' = [chat EXCEPT ![flush.card].shown = TRUE],
         LET c == Sent(card, flush.card) IN
           IF c.transport = "cardkit" THEN Proceed(c, flush.status)
           ELSE card' = c /\ flush' = [flush EXCEPT !.pc = "patch", !.card = c.sent]
  PROVE  ReplyInv' /\ StaysEnded
<1> DEFINE c == Sent(card, flush.card)
<1>1. ReplyRecords /\ chat \in Seq(CardStatuses) /\ card \in CardTypes /\ opening \in OpeningTypes /\ flush \in FlushTypes
  BY DEF ReplyInv, ReplyRecords
<1>2. flush.card \in Nat
  BY <1>1 DEF FlushTypes
<1>3. c \in CardTypes /\ c.sent = flush.card /\ c.entity = card.entity /\ c.terminal = card.terminal /\ c.timer = card.timer
  BY <1>1, <1>2, SentFacts
<1>4. Proceed(c, flush.status) \/ (card' = c /\ flush' = [flush EXCEPT !.pc = "patch", !.card = c.sent])
  OBVIOUS
<1> HIDE DEF c
<1>5. /\ card' \in CardTypes /\ card'.entity = c.entity /\ card'.sent = c.sent
      /\ card'.terminal = c.terminal /\ card'.timer = c.timer
      /\ \E q \in FlushPlaces, i \in Nat :
           /\ flush' = [flush EXCEPT !.pc = q, !.card = i]
           /\ q \in {"stream", "tools"} => flush.status = "running"
           /\ i \in {c.entity, c.sent, 0}
  <2>1. CASE Proceed(c, flush.status)
    BY <2>1, <1>1, <1>3, ProceedFacts
  <2>2. CASE card' = c /\ flush' = [flush EXCEPT !.pc = "patch", !.card = c.sent]
    <3>1. "patch" \in FlushPlaces /\ c.sent \in Nat
      BY <1>2, <1>3 DEF FlushPlaces
    <3> QED
      BY <2>2, <3>1, <1>3
  <2> QED
    BY <2>1, <2>2, <1>4
<1>6. PICK q \in FlushPlaces, i \in Nat :
        /\ flush' = [flush EXCEPT !.pc = q, !.card = i]
        /\ q \in {"stream", "tools"} => flush.status = "running"
        /\ i \in {c.entity, c.sent, 0}
  BY <1>5
<1>7. flush' \in FlushTypes /\ flush'.card = i /\ CardOver' /\ LastFlush' /\ (Live' => Live)
  BY <1>3, <1>5, <1>6, FlushMoves
<1>8. Refs' \subseteq Refs \cup {0}
  BY <1>3, <1>5, <1>6, <1>7 DEF Refs
<1> DEFINE m == [chat[flush.card] EXCEPT !.shown = TRUE]
<1>9. chat' = [chat EXCEPT ![flush.card] = m]
  OBVIOUS
<1>10. flush.card \in DOMAIN chat => m \in CardStatuses /\ m.status = chat[flush.card].status
  <2>1. flush.card \in DOMAIN chat => chat[flush.card] \in CardStatuses
    BY <1>1, ElementOfSeq
  <2> QED
    BY <2>1 DEF CardStatuses
<1> HIDE DEF m
<1>11. chat' \in Seq(CardStatuses)
  <2>1. CASE flush.card \in DOMAIN chat
    BY <2>1, <1>1, <1>9, <1>10, ExceptSeq
  <2>2. CASE flush.card \notin DOMAIN chat
    <3>1. chat' = chat
      BY <2>2, <1>1, <1>9
    <3> QED
      BY <3>1, <1>1
  <2> QED
    BY <2>1, <2>2
<1>12. ReplyRecords'
  BY <1>1, <1>5, <1>7, <1>11 DEF ReplyRecords
<1>13. CASE flush.card # 0
  BY <1>2, <1>7, <1>8, <1>9, <1>10, <1>12, <1>13, ChatChanges
<1>14. CASE flush.card = 0
  <2>1. chat' = chat
    <3>1. 0 \notin DOMAIN chat
      BY <1>1
    <3> QED
      BY <3>1, <1>1, <1>9, <1>14
  <2> QED
    BY <2>1, <1>7, <1>8, <1>12, ChatCalm
<1> QED
  BY <1>13, <1>14

(* A flush writes the status of a card. *)
LEMMA FlushWrites ==
  ASSUME ReplyInv, UNCHANGED <<sink, opening>>, NEW s \in ReplyStatuses, s = "running" => flush.status = "running",
         flush.status = "running" => s = "running",
         NEW q \in FlushPlaces, NEW i \in {0, card.entity},
         q \in {"stream", "tools"} => flush.status = "running", flush.pc # "none", flush.card # 0,
         chat' = [chat EXCEPT ![flush.card].status = s], FlushGoes(q, i)
  PROVE  ReplyInv' /\ StaysEnded
<1>1. ReplyRecords /\ chat \in Seq(CardStatuses) /\ card \in CardTypes /\ opening \in OpeningTypes /\ flush \in FlushTypes
  BY DEF ReplyInv, ReplyRecords
<1>2. flush.card \in Nat /\ i \in Nat
  BY <1>1 DEF FlushTypes, CardTypes
<1>3. flush' = [flush EXCEPT !.pc = q, !.card = i] /\ card' = card
  BY DEF FlushGoes
<1>4. flush' \in FlushTypes /\ flush'.card = i /\ CardOver' /\ LastFlush' /\ (Live' => Live) /\ (Live <=> flush.status = "running")
  BY <1>1, <1>2, <1>3, FlushMoves
<1>5. Refs' \subseteq Refs \cup {0}
  BY <1>3, <1>4 DEF Refs
<1> DEFINE m == [chat[flush.card] EXCEPT !.status = s]
<1>6. chat' = [chat EXCEPT ![flush.card] = m]
  OBVIOUS
<1>7. flush.card \in DOMAIN chat => m \in CardStatuses /\ m.status = s
  <2>1. flush.card \in DOMAIN chat => chat[flush.card] \in CardStatuses
    BY <1>1, ElementOfSeq
  <2> QED
    BY <2>1 DEF CardStatuses
<1> HIDE DEF m
<1>8. chat' \in Seq(CardStatuses)
  <2>1. CASE flush.card \in DOMAIN chat
    BY <2>1, <1>1, <1>6, <1>7, ExceptSeq
  <2>2. CASE flush.card \notin DOMAIN chat
    <3>1. chat' = chat
      BY <2>2, <1>1, <1>6
    <3> QED
      BY <3>1, <1>1
  <2> QED
    BY <2>1, <2>2
<1>9. ReplyRecords'
  BY <1>1, <1>3, <1>4, <1>8 DEF ReplyRecords
<1>10. flush.status = "running" => chat[flush.card].status = "running"
  BY <1>4 DEF ReplyInv, ShowsRunning, Refs
<1> QED
  BY <1>2, <1>4, <1>5, <1>6, <1>7, <1>9, <1>10, ChatChanges

(* A flush sends a message of its own. *)
LEMMA FlushAppends ==
  ASSUME ReplyInv, UNCHANGED <<sink, opening>>, flush.pc # "none", chat' = Append(chat, Message(flush.status)),
         NEW i \in {0, flush.card}, flush' = [flush EXCEPT !.pc = "over", !.card = i],
         card' \in CardTypes, card'.entity = card.entity, card'.sent \in {card.sent, Len(chat) + 1},
         card'.terminal = card.terminal, card'.timer = card.timer
  PROVE  ReplyInv' /\ StaysEnded
<1> DEFINE m == Message(flush.status)
<1>1. ReplyRecords /\ chat \in Seq(CardStatuses) /\ opening \in OpeningTypes /\ flush \in FlushTypes
  BY DEF ReplyInv, ReplyRecords
<1>2. m \in CardStatuses /\ m.status = flush.status /\ i \in Nat
  BY <1>1 DEF Message, CardStatuses, FlushTypes
<1> HIDE DEF m
<1>3. flush' \in FlushTypes /\ flush'.card = i /\ CardOver' /\ LastFlush' /\ (Live' => Live) /\ (Live <=> flush.status = "running")
  <2>1. "over" \in FlushPlaces
    BY DEF FlushPlaces
  <2> QED
    BY <2>1, <1>1, <1>2, FlushMoves
<1>4. chat' = Append(chat, m) /\ chat' \in Seq(CardStatuses)
  BY <1>1, <1>2 DEF m
<1>5. ReplyRecords'
  BY <1>1, <1>3, <1>4 DEF ReplyRecords
<1>6. Refs' \subseteq Refs \cup {0, Len(chat) + 1}
  BY <1>3 DEF Refs
<1> QED
  BY <1>2, <1>3, <1>4, <1>5, <1>6, ChatGrows

LEMMA FlushCallSteps ==
  ASSUME ReplyInv, FlushCalls
  PROVE  ReplyInv' /\ StaysEnded
<1>1. ReplyRecords /\ chat \in Seq(CardStatuses) /\ card \in CardTypes /\ opening \in OpeningTypes /\ flush \in FlushTypes /\ sink \in SinkTypes
  BY DEF ReplyInv, ReplyRecords
<1>2. UNCHANGED <<sink, opening>> /\ FlushCall
  BY DEF FlushCalls
<1>3. "running" \in ReplyStatuses /\ flush.status \in ReplyStatuses /\ {"tools", "over", "mode", "text"} \subseteq FlushPlaces
  BY <1>1 DEF FlushTypes, ReplyStatuses, FlushPlaces
<1>4. CASE /\ flush.pc = "create" /\ chat' = Created
           /\ card' = [card EXCEPT !.entity = Len(Created)]
           /\ flush' = [flush EXCEPT !.pc = "send", !.card = Len(Created)]
  BY <1>2, <1>4, FlushCreates
<1>5. CASE /\ flush.pc = "send" /\ chat' = [chat EXCEPT ![flush.card].shown = TRUE]
           /\ LET c == Sent(card, flush.card) IN
              IF c.transport = "cardkit" THEN Proceed(c, flush.status)
              ELSE card' = c /\ flush' = [flush EXCEPT !.pc = "patch", !.card = c.sent]
  BY <1>2, <1>5, FlushSends
<1>6. CASE /\ flush.pc \in {"stream", "tools"} /\ flush.card # 0
           /\ chat' = [chat EXCEPT ![flush.card].status = "running"]
           /\ FlushGoes(IF flush.pc = "stream" THEN "tools" ELSE "over", card.entity)
  <2> DEFINE q == IF flush.pc = "stream" THEN "tools" ELSE "over"
  <2>1. q \in FlushPlaces /\ FlushGoes(q, card.entity) /\ flush.status = "running"
    BY <1>3, <1>6 DEF ReplyInv, LastFlush
  <2> HIDE DEF q
  <2>2. flush.pc # "none"
    BY <1>6
  <2> QED
    BY <2>1, <2>2, <1>2, <1>3, <1>6, FlushWrites
<1>7. CASE /\ flush.pc = "update"
           /\ chat' = [chat EXCEPT ![flush.card].status = flush.status]
           /\ FlushGoes("mode", card.entity)
  <2>1. CASE flush.card # 0
    BY <2>1, <1>2, <1>3, <1>7, FlushWrites
  <2>2. CASE flush.card = 0
    <3>1. chat' = chat
      <4>1. 0 \notin DOMAIN chat
        BY <1>1
      <4> QED
        BY <4>1, <2>2, <1>1, <1>7
    <3>2. flush' = [flush EXCEPT !.pc = "mode", !.card = card.entity] /\ card' = card /\ card.entity \in Nat
      BY <1>1, <1>7 DEF FlushGoes, CardTypes
    <3>3. flush' \in FlushTypes /\ flush'.card = card.entity /\ CardOver' /\ LastFlush' /\ (Live' => Live)
      BY <1>1, <1>2, <1>3, <1>7, <3>2, FlushMoves
    <3>4. ReplyRecords' /\ Refs' \subseteq Refs \cup {0}
      BY <1>1, <1>2, <3>1, <3>2, <3>3 DEF ReplyRecords, Refs
    <3> QED
      BY <3>1, <3>3, <3>4, ChatCalm
  <2> QED
    BY <2>1, <2>2
<1>8. CASE \/ flush.pc = "mode" /\ flush.card # 0 /\ FlushGoes("over", 0) /\ UNCHANGED chat
           \/ flush.pc = "note" /\ FlushGoes(IF flush.status = "running" THEN "over" ELSE "text", 0) /\ UNCHANGED chat
  <2>1. PICK q \in {"over", "text"} : flush' = [flush EXCEPT !.pc = q, !.card = 0]
    BY <1>8 DEF FlushGoes
  <2>2. card' = card /\ chat' = chat /\ flush.pc # "none"
    BY <1>8 DEF FlushGoes
  <2>3. flush' \in FlushTypes /\ flush'.card = 0 /\ CardOver' /\ LastFlush' /\ (Live' => Live)
    BY <1>1, <1>2, <1>3, <2>1, <2>2, FlushMoves
  <2>4. ReplyRecords' /\ Refs' \subseteq Refs \cup {0}
    BY <1>1, <1>2, <2>2, <2>3 DEF ReplyRecords, Refs
  <2> QED
    BY <2>2, <2>3, <2>4, ChatCalm
<1>9. CASE /\ flush.pc = "patch" /\ flush.card # 0
           /\ chat' = [chat EXCEPT ![flush.card].status = flush.status]
           /\ FlushGoes("over", 0)
  BY <1>2, <1>3, <1>9, FlushWrites
<1>10. CASE /\ flush.pc = "patch" /\ flush.card = 0
            /\ chat' = Append(chat, Message(flush.status))
            /\ card' = [card EXCEPT !.sent = Len(chat')]
            /\ flush' = [flush EXCEPT !.pc = "over"]
  <2> DEFINE n == Len(chat) + 1
  <2>1. n \in Nat /\ Len(chat') = n
    BY <1>1, <1>10
  <2> HIDE DEF n
  <2>2. card' = [card EXCEPT !.sent = n]
    BY <1>10, <2>1
  <2>3. card' \in CardTypes /\ card'.entity = card.entity /\ card'.sent = n /\ card'.terminal = card.terminal /\ card'.timer = card.timer
    BY <1>1, <2>1, <2>2 DEF CardTypes
  <2>4. flush' = [flush EXCEPT !.pc = "over", !.card = flush.card]
    BY <1>1, <1>10 DEF FlushTypes
  <2>5. flush.pc # "none" /\ chat' = Append(chat, Message(flush.status))
    BY <1>10
  <2>6. card'.sent \in {card.sent, Len(chat) + 1}
    BY <2>3 DEF n
  <2> QED
    BY <1>2, <2>3, <2>4, <2>5, <2>6, FlushAppends
<1>11. CASE flush.pc = "text" /\ chat' = Append(chat, Message(flush.status)) /\ FlushGoes("over", 0)
  <2>1. flush' = [flush EXCEPT !.pc = "over", !.card = 0] /\ card' = card
    BY <1>11 DEF FlushGoes
  <2> QED
    BY <1>1, <1>2, <1>11, <2>1, FlushAppends
<1> QED
  BY <1>2, <1>4, <1>5, <1>6, <1>7, <1>8, <1>9, <1>10, <1>11, Zenon DEF FlushCall

LEMMA FlushFailSteps ==
  ASSUME ReplyInv, FlushFails
  PROVE  ReplyInv' /\ StaysEnded
<1>1. ReplyRecords /\ card \in CardTypes /\ opening \in OpeningTypes /\ flush \in FlushTypes /\ sink \in SinkTypes
  BY DEF ReplyInv, ReplyRecords
<1>2. /\ UNCHANGED <<sink, opening, chat>> /\ flush.pc # "none"
      /\ \/ \E d \in {ToPatch(card), ToText(card)} : Proceed(d, flush.status)
         \/ FlushGoes("over", 0)
  BY DEF FlushFails
<1>3. /\ card' \in CardTypes /\ card'.entity \in {card.entity, 0} /\ card'.sent = card.sent
      /\ card'.terminal = card.terminal /\ card'.timer = card.timer
      /\ \E q \in FlushPlaces, i \in Nat :
           /\ flush' = [flush EXCEPT !.pc = q, !.card = i]
           /\ q \in {"stream", "tools"} => flush.status = "running"
           /\ i \in {card.entity, card.sent, 0}
  <2>1. ASSUME NEW d \in {ToPatch(card), ToText(card)}, Proceed(d, flush.status)
        PROVE  /\ card' \in CardTypes /\ card'.entity \in {card.entity, 0} /\ card'.sent = card.sent
               /\ card'.terminal = card.terminal /\ card'.timer = card.timer
               /\ \E q \in FlushPlaces, i \in Nat :
                    /\ flush' = [flush EXCEPT !.pc = q, !.card = i]
                    /\ q \in {"stream", "tools"} => flush.status = "running"
                    /\ i \in {card.entity, card.sent, 0}
    <3>1. d \in CardTypes /\ d.sent = card.sent /\ d.entity \in {card.entity, 0} /\ d.terminal = card.terminal /\ d.timer = card.timer
      BY <1>1, ToPatchFacts
    <3>2. /\ card' \in CardTypes /\ card'.entity = d.entity /\ card'.sent = d.sent
          /\ card'.terminal = d.terminal /\ card'.timer = d.timer
          /\ \E q \in FlushPlaces, i \in Nat :
               /\ flush' = [flush EXCEPT !.pc = q, !.card = i]
               /\ q \in {"stream", "tools"} => flush.status = "running"
               /\ i \in {d.entity, d.sent, 0}
      BY <1>1, <2>1, <3>1, ProceedFacts
    <3>3. {d.entity, d.sent, 0} \subseteq {card.entity, card.sent, 0}
      BY <3>1
    <3> QED
      BY <3>1, <3>2, <3>3
  <2>2. CASE FlushGoes("over", 0)
    <3>1. flush' = [flush EXCEPT !.pc = "over", !.card = 0] /\ card' = card /\ "over" \in FlushPlaces
      BY <2>2 DEF FlushGoes, FlushPlaces
    <3> QED
      BY <3>1, <1>1
  <2> QED
    BY <1>2, <2>1, <2>2
<1>4. PICK q \in FlushPlaces, i \in Nat :
        /\ flush' = [flush EXCEPT !.pc = q, !.card = i]
        /\ q \in {"stream", "tools"} => flush.status = "running"
        /\ i \in {card.entity, card.sent, 0}
  BY <1>3
<1>5. flush' \in FlushTypes /\ flush'.card = i /\ CardOver' /\ LastFlush' /\ (Live' => Live)
  BY <1>2, <1>3, <1>4, FlushMoves
<1>6. ReplyRecords' /\ Refs' \subseteq Refs \cup {0}
  BY <1>1, <1>2, <1>3, <1>4, <1>5 DEF ReplyRecords, Refs
<1> QED
  BY <1>2, <1>5, <1>6, ChatCalm

LEMMA FlushOverSteps ==
  ASSUME ReplyInv, FlushOver
  PROVE  ReplyInv' /\ StaysEnded
<1> DEFINE again == card.reflush /\ ~card.terminal
           timer == card.timer \/ again
           reflush == card.reflush /\ ~again
           c == [card EXCEPT !.urgent = FALSE, !.timer = timer, !.reflush = reflush]
           s == [sink EXCEPT !.delivery = "delivered"]
<1>1. ReplyRecords /\ card \in CardTypes /\ opening \in OpeningTypes /\ flush \in FlushTypes /\ sink \in SinkTypes
  BY DEF ReplyInv, ReplyRecords
<1>2. flush' = NoFlush /\ card' = c /\ (sink' = s \/ sink' = sink) /\ UNCHANGED <<opening, chat>> /\ flush.pc = "over"
  BY DEF FlushOver, FlushAgain
<1>3. timer \in BOOLEAN /\ reflush \in BOOLEAN /\ (card.terminal => timer = card.timer)
  BY <1>1 DEF CardTypes
<1> HIDE DEF again, timer, reflush
<1>4. c \in CardTypes /\ c.terminal = card.terminal /\ c.timer = timer /\ c.entity = card.entity /\ c.sent = card.sent
  BY <1>1, <1>3 DEF CardTypes
<1>5. s \in SinkTypes /\ s.completed = sink.completed /\ s.stopped = sink.stopped
  BY <1>1 DEF SinkTypes
<1>6. NoFlush \in FlushTypes /\ NoFlush.by = "nobody" /\ NoFlush.pc = "none" /\ NoFlush.status = "running" /\ NoFlush.card = 0
  BY DEF NoFlush, FlushTypes, FlushPlaces, ReplyStatuses
<1> HIDE DEF c, s
<1>7. ReplyRecords'
  BY <1>1, <1>2, <1>4, <1>5, <1>6 DEF ReplyRecords
<1>8. CardOver'
  BY <1>2, <1>3, <1>4, <1>5 DEF ReplyInv, CardOver
<1>9. LastFlush'
  BY <1>2, <1>6 DEF LastFlush, Busy
<1>10. Live' => Live
  BY <1>2, <1>4, <1>6 DEF ReplyInv, LastFlush, Live, Busy
<1>11. Refs' \subseteq Refs \cup {0}
  BY <1>2, <1>4, <1>6 DEF Refs
<1> QED
  BY <1>2, <1>7, <1>8, <1>9, <1>10, <1>11, ChatCalm

(* The first card. *)
LEMMA OpeningCalm ==
  ASSUME ReplyInv, opening' \in OpeningTypes, card' \in CardTypes, card'.terminal = card.terminal, card'.timer = card.timer,
         UNCHANGED <<sink, flush>>, chat' \in Seq(CardStatuses)
  PROVE  ReplyRecords' /\ CardOver' /\ LastFlush' /\ (Live' => Live)
BY DEF ReplyInv, ReplyRecords, CardOver, LastFlush, Busy, Live

LEMMA OpeningSteps ==
  ASSUME ReplyInv, OpeningCall
  PROVE  ReplyInv' /\ StaysEnded
<1> DEFINE n == Len(chat) + 1
           m == [status |-> "running", shown |-> FALSE]
           w == Message("running")
<1>1. chat \in Seq(CardStatuses) /\ card \in CardTypes /\ opening \in OpeningTypes /\ UNCHANGED <<sink, flush>>
  BY DEF ReplyInv, ReplyRecords, OpeningCall
<1>2. n \in Nat /\ m \in CardStatuses /\ m.status = "running" /\ w \in CardStatuses /\ w.status = "running" /\ opening.card \in Nat
  BY <1>1 DEF CardStatuses, ReplyStatuses, Message, OpeningTypes
<1>3. Created = Append(chat, m) /\ Len(Created) = n /\ Len(Append(chat, w)) = n
  BY <1>1, <1>2 DEF Created
<1>4. Created \in Seq(CardStatuses) /\ Append(chat, w) \in Seq(CardStatuses)
  BY <1>1, <1>2, <1>3
<1>5. {"send", "over"} \subseteq FlushPlaces
  BY DEF FlushPlaces
<1> HIDE DEF n, m, w
<1>6. CASE /\ opening.pc = "create" /\ chat' = Created
           /\ card' = [card EXCEPT !.entity = Len(Created)]
           /\ OpeningGoes("send", Len(Created))
  <2>1. chat' = Append(chat, m) /\ card' = [card EXCEPT !.entity = n] /\ opening' = [pc |-> "send", card |-> n]
    BY <1>3, <1>6 DEF OpeningGoes
  <2>2. /\ card' \in CardTypes /\ card'.entity = n /\ card'.sent = card.sent
        /\ card'.terminal = card.terminal /\ card'.timer = card.timer
    BY <1>1, <1>2, <2>1 DEF CardTypes
  <2>3. opening' \in OpeningTypes /\ opening'.card = n
    BY <1>2, <1>5, <2>1 DEF OpeningTypes
  <2>4. ReplyRecords' /\ CardOver' /\ LastFlush' /\ (Live' => Live)
    BY <1>1, <1>4, <1>6, <2>2, <2>3, OpeningCalm
  <2>5. Refs' \subseteq Refs \cup {0, Len(chat) + 1}
    BY <1>1, <2>2, <2>3 DEF Refs, n
  <2> QED
    BY <1>2, <2>1, <2>4, <2>5, ChatGrows
<1>7. CASE /\ opening.pc = "send" /\ chat' = [chat EXCEPT ![opening.card].shown = TRUE]
           /\ card' = Sent(card, opening.card)
           /\ OpeningGoes("over", 0)
  <2>1. /\ card' \in CardTypes /\ card'.sent = opening.card /\ card'.entity = card.entity
        /\ card'.terminal = card.terminal /\ card'.timer = card.timer
    BY <1>1, <1>2, <1>7, SentFacts
  <2>2. opening' = [pc |-> "over", card |-> 0]
    BY <1>7 DEF OpeningGoes
  <2>3. opening' \in OpeningTypes /\ opening'.card = 0
    BY <1>5, <2>2 DEF OpeningTypes
  <2> DEFINE x == [chat[opening.card] EXCEPT !.shown = TRUE]
  <2>4. chat' = [chat EXCEPT ![opening.card] = x]
    BY <1>7
  <2>5. opening.card \in DOMAIN chat => x \in CardStatuses /\ x.status = chat[opening.card].status
    <3>1. opening.card \in DOMAIN chat => chat[opening.card] \in CardStatuses
      BY <1>1, ElementOfSeq
    <3> QED
      BY <3>1 DEF CardStatuses
  <2> HIDE DEF x
  <2>6. chat' \in Seq(CardStatuses) /\ (opening.card \notin DOMAIN chat => chat' = chat)
    <3>1. CASE opening.card \in DOMAIN chat
      BY <3>1, <1>1, <2>4, <2>5, ExceptSeq
    <3>2. CASE opening.card \notin DOMAIN chat
      <4>1. chat' = chat
        BY <3>2, <1>1, <2>4
      <4> QED
        BY <4>1, <1>1
    <3> QED
      BY <3>1, <3>2
  <2>7. ReplyRecords' /\ CardOver' /\ LastFlush' /\ (Live' => Live)
    BY <1>1, <2>1, <2>3, <2>6, OpeningCalm
  <2>8. Refs' \subseteq Refs \cup {0}
    BY <1>1, <2>1, <2>3 DEF Refs
  <2>9. CASE opening.card # 0
    BY <1>2, <2>4, <2>5, <2>7, <2>8, <2>9, ChatChanges
  <2>10. CASE opening.card = 0
    <3>1. chat' = chat
      BY <1>1, <2>6, <2>10
    <3> QED
      BY <3>1, <2>7, <2>8, ChatCalm
  <2> QED
    BY <2>9, <2>10
<1>8. CASE /\ opening.pc = "patch" /\ chat' = Append(chat, Message("running"))
           /\ card' = Sent(card, Len(chat'))
           /\ OpeningGoes("over", 0)
  <2>1. chat' = Append(chat, w) /\ Len(chat') = n
    BY <1>3, <1>8 DEF w
  <2>2. /\ card' \in CardTypes /\ card'.sent = n /\ card'.entity = card.entity
        /\ card'.terminal = card.terminal /\ card'.timer = card.timer
    BY <1>1, <1>2, <1>8, <2>1, SentFacts
  <2>3. opening' = [pc |-> "over", card |-> 0]
    BY <1>8 DEF OpeningGoes
  <2>4. opening' \in OpeningTypes /\ opening'.card = 0
    BY <1>5, <2>3 DEF OpeningTypes
  <2>5. ReplyRecords' /\ CardOver' /\ LastFlush' /\ (Live' => Live)
    BY <1>1, <1>4, <2>1, <2>2, <2>4, OpeningCalm
  <2>6. Refs' \subseteq Refs \cup {0, Len(chat) + 1}
    BY <1>1, <2>2, <2>4 DEF Refs, n
  <2> QED
    BY <1>2, <2>1, <2>5, <2>6, ChatGrows
<1>9. CASE opening.pc = "note" /\ card' = [card EXCEPT !.urgent = FALSE] /\ OpeningGoes("over", 0) /\ UNCHANGED chat
  <2>1. /\ card' \in CardTypes /\ card'.sent = card.sent /\ card'.entity = card.entity
        /\ card'.terminal = card.terminal /\ card'.timer = card.timer
    BY <1>1, <1>9 DEF CardTypes
  <2>2. opening' = [pc |-> "over", card |-> 0]
    BY <1>9 DEF OpeningGoes
  <2>3. opening' \in OpeningTypes /\ opening'.card = 0
    BY <1>5, <2>2 DEF OpeningTypes
  <2>4. ReplyRecords' /\ CardOver' /\ LastFlush' /\ (Live' => Live)
    BY <1>1, <1>9, <2>1, <2>3, OpeningCalm
  <2>5. Refs' \subseteq Refs \cup {0}
    BY <1>1, <2>1, <2>3 DEF Refs
  <2> QED
    BY <1>9, <2>4, <2>5, ChatCalm
<1> QED
  BY <1>6, <1>7, <1>8, <1>9, Zenon DEF OpeningCall

LEMMA OpeningFailSteps ==
  ASSUME ReplyInv, OpeningFails
  PROVE  ReplyInv' /\ StaysEnded
<1> DEFINE u == card.urgent /\ ~card.noted
           t == ToText(card)
           d == [t EXCEPT !.noted = TRUE, !.urgent = u]
<1>1. chat \in Seq(CardStatuses) /\ card \in CardTypes /\ opening \in OpeningTypes /\ UNCHANGED <<sink, flush, chat>>
  BY DEF ReplyInv, ReplyRecords, OpeningFails
<1>2. PICK q \in {"patch", "over", "note"} : opening' = [pc |-> q, card |-> 0]
  BY DEF OpeningFails, PatchOpening, OpeningGoes
<1>3. opening' \in OpeningTypes /\ opening'.card = 0
  BY <1>2 DEF OpeningTypes, FlushPlaces
<1>4. card' = ToPatch(card) \/ card' = d
  BY DEF OpeningFails, ToText
<1>5. \A c \in {ToPatch(card), t} : /\ c \in CardTypes /\ c.sent = card.sent /\ c.entity \in {card.entity, 0}
                                    /\ c.terminal = card.terminal /\ c.timer = card.timer
  BY <1>1, ToPatchFacts
<1>6. u \in BOOLEAN
  BY <1>1 DEF CardTypes
<1> HIDE DEF u, t
<1>7. d \in CardTypes /\ d.sent = t.sent /\ d.entity = t.entity /\ d.terminal = t.terminal /\ d.timer = t.timer
  <2>1. t \in CardTypes
    BY <1>5
  <2> QED
    BY <1>6, <2>1 DEF CardTypes
<1> HIDE DEF d
<1>8. /\ card' \in CardTypes /\ card'.sent = card.sent /\ card'.entity \in {card.entity, 0}
      /\ card'.terminal = card.terminal /\ card'.timer = card.timer
  BY <1>4, <1>5, <1>7
<1>9. ReplyRecords' /\ CardOver' /\ LastFlush' /\ (Live' => Live)
  BY <1>1, <1>3, <1>8, OpeningCalm
<1>10. Refs' \subseteq Refs \cup {0}
  BY <1>1, <1>3, <1>8 DEF Refs
<1> QED
  BY <1>1, <1>9, <1>10, ChatCalm

LEMMA ReplyInitHolds ==
  ReplyInit => ReplyInv
<1> SUFFICES ASSUME ReplyInit PROVE ReplyInv
  OBVIOUS
<1>1. sink \in SinkTypes /\ ~sink.completed /\ ~sink.stopped
  BY DEF ReplyInit, SinkTypes, ReplyStatuses
<1>2. card \in CardTypes /\ card.entity = 0 /\ card.sent = 0 /\ ~card.terminal
  <2>1. card \in [transport : {"cardkit", "patch"}, entity : {0}, sent : {0}, noted : {FALSE},
                  terminal : {FALSE}, reflush : {FALSE}, timer : {FALSE}, urgent : {TRUE}]
    BY DEF ReplyInit
  <2>2. card.entity = 0 /\ card.sent = 0 /\ ~card.terminal /\ ~card.noted /\ ~card.reflush /\ ~card.timer /\ card.urgent
    BY <2>1, Zenon
  <2>3. 0 \in Nat /\ \A x \in {"cardkit", "patch"} : x \in {"cardkit", "patch", "text"}
    OBVIOUS
  <2>4. {0} \subseteq Nat /\ {FALSE} \subseteq BOOLEAN /\ {TRUE} \subseteq BOOLEAN
    OBVIOUS
  <2>5. card \in CardTypes
    BY <2>1, <2>3, <2>4, Zenon DEF CardTypes
  <2> QED
    BY <2>2, <2>5
<1>3. flush \in FlushTypes /\ flush.by = "nobody" /\ flush.pc = "none" /\ flush.status = "running" /\ flush.card = 0
  BY DEF ReplyInit, NoFlush, FlushTypes, FlushPlaces, ReplyStatuses
<1>4. opening \in OpeningTypes /\ opening.card = 0
  BY DEF ReplyInit, OpeningTypes, FlushPlaces
<1>5. chat \in Seq(CardStatuses) /\ chat = <<>> /\ Len(chat) = 0
  BY DEF ReplyInit
<1>6. ReplyRecords
  BY <1>1, <1>2, <1>3, <1>4, <1>5 DEF ReplyRecords
<1>7. ShowsRunning
  BY <1>2, <1>3, <1>4, <1>5 DEF ShowsRunning, Refs
<1>8. CardOver /\ LastFlush
  BY <1>1, <1>2, <1>3 DEF CardOver, LastFlush, Busy
<1> QED
  BY <1>6, <1>7, <1>8 DEF ReplyInv

LEMMA ReplyStepHolds ==
  ReplyInv /\ [ReplyNext]_replyVars => ReplyInv' /\ StaysEnded
<1> SUFFICES ASSUME ReplyInv, [ReplyNext]_replyVars PROVE ReplyInv' /\ StaysEnded
  OBVIOUS
<1>1. CASE SinkStep
  BY <1>1, SinkSteps, StopSteps, FallbackSteps, ResultSteps, Zenon DEF SinkStep
<1>2. CASE CardStep
  BY <1>2, FlushCallSteps, FlushFailSteps, FlushOverSteps, OpeningSteps, OpeningFailSteps, Zenon DEF CardStep
<1>3. ASSUME NEW l \in Lines, LineStep(l) PROVE ReplyInv' /\ StaysEnded
  BY <1>3, SinkSteps, EventSteps, ResultSteps, Zenon DEF LineStep
<1>4. CASE UNCHANGED replyVars
  <2>1. UNCHANGED <<card, flush, opening, chat, sink>> /\ sink \in SinkTypes /\ opening \in OpeningTypes
    BY <1>4 DEF replyVars, ReplyInv, ReplyRecords
  <2> QED
    BY <2>1, SinkCalm
<1> QED
  BY <1>1, <1>2, <1>3, <1>4 DEF ReplyNext

(* The invariant of a reply: what its calls under way refer to shows the turn as running until the flush of its end. *)
THEOREM ReplyInvariance == ReplySpec => []ReplyInv
<1> QED
  BY ReplyInitHolds, ReplyStepHolds, PTL DEF ReplySpec

(* A card that shows the end of its turn never shows it as running again, whatever calls, timers and failures are under
   way when the reply ends (terminal and reflush in streaming-card-controller.ts): NeverBackToRunning. *)
THEOREM CardsStayEnded == ReplySpec => NeverBackToRunning
<1>1. ReplyInv /\ [ReplyNext]_replyVars => [StaysEnded]_replyVars
  BY ReplyStepHolds
<1>2. [StaysEnded]_replyVars => [\A i \in DOMAIN chat : chat[i].status # "running" => chat'[i].status # "running"]_replyVars
  BY DEF StaysEnded
<1> QED
  BY <1>1, <1>2, ReplyInvariance, PTL DEF ReplySpec, NeverBackToRunning

=============================================================================
