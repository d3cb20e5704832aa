------------------------ MODULE PermissionRequests ------------------------
(***************************************************************************)
(* Permission requests of opencode/src/permission/next.ts: a tool call     *)
(* asks, the rules allow or deny it or a person is asked, who replies      *)
(* once, always or reject.  Aborts, the five-minute time-out, overlapping  *)
(* replies and the awaits of a reply "always" interleave with each other.  *)
(*                                                                         *)
(* A pattern stands for a permission with one of its patterns; a session   *)
(* grant is such a pattern, and the wildcard match is equality.            *)
(***************************************************************************)
EXTENDS Integers, Sequences, FiniteSets

CONSTANTS
  Asks,          \* the calls of ask()
  Replies,           \* the calls of reply()
  AskSessions,
  Patterns,
  AskedIn,         \* the session of each request
  PatternsOf,        \* its patterns, in order
  Rules,             \* what its ruleset says of each pattern
  AlwaysOf,          \* the patterns that a reply "always" grants
  AutoAllowed,       \* requests that autonomous mode allows: it is on and the permission is not critical
  ProfileSnapshots   \* the feature flag of session profiles

ASSUME PermissionAssumption ==
  /\ AskedIn \in [Asks -> AskSessions]
  /\ PatternsOf \in [Asks -> Seq(Patterns)]
  /\ Rules \in [Asks -> [Patterns -> {"allow", "deny", "ask"}]]
  /\ AlwaysOf \in [Asks -> SUBSET Patterns]
  /\ AutoAllowed \subseteq Asks
  /\ ProfileSnapshots \in BOOLEAN
  /\ IsFiniteSet(Asks)

VARIABLES
  ask,       \* the calls of ask()
  pending,   \* state().pending
  reply,     \* the calls of reply()
  grants,    \* the grants in each session's profile
  events     \* what was published about each request

askVars == <<ask, pending, reply, grants, events>>

AskInit ==
  /\ ask = [r \in Asks |-> [pc |-> "none", seen |-> {}, aborted |-> FALSE]]
  /\ pending = {}
  /\ reply = [p \in Replies |-> [pc |-> "none", to |-> "none", seen |-> {}]]
  /\ grants = [s \in AskSessions |-> {}]
  /\ events = [r \in Asks |-> <<>>]

-----------------------------------------------------------------------------
(* evaluateWithSessionGrants(): a grant does not override a rule that denies. *)
Rule(r, pattern, granted) ==
  IF Rules[r][pattern] # "deny" /\ pattern \in granted THEN "allow" ELSE Rules[r][pattern]

Blocks(r, i, granted) ==
  \/ Rule(r, PatternsOf[r][i], granted) = "deny"
  \/ Rule(r, PatternsOf[r][i], granted) = "ask" /\ r \notin AutoAllowed

(* The loop over the patterns ends at the first one that is denied or must be asked for. *)
Verdict(r, granted) ==
  LET stops == {i \in DOMAIN PatternsOf[r] : Blocks(r, i, granted)}
  IN IF stops = {} THEN "allow"
     ELSE Rule(r, PatternsOf[r][CHOOSE i \in stops : \A j \in stops : i <= j], granted)

Publish(r, event) == Append(events[r], event)

Granted(s) == IF ProfileSnapshots THEN grants[s] ELSE {}

\* Mutant: a resolution does not look whether the request was cancelled meanwhile.
UnsettledThoughCancelled(r) == ask[r].pc \in {"pending", "cancelled"}

(* A request is settled once; whoever comes later changes nothing. *)
Unsettled(r) == ask[r].pc = "pending"

(* ask() reads the session's grants ... *)
Ask(r) ==
  /\ ask[r].pc = "none"
  /\ ask' = [ask EXCEPT ![r].pc = "evaluating", ![r].seen = Granted(AskedIn[r])]
  /\ UNCHANGED <<pending, reply, grants, events>>

(* ... and after the await evaluates the rules, and registers what must be asked for.  A signal that is already
   aborted settles the request at once. *)
Evaluate(r) ==
  /\ ask[r].pc = "evaluating"
  /\ LET verdict == Verdict(r, ask[r].seen) IN
     \/ /\ verdict # "ask"
        /\ ask' = [ask EXCEPT ![r].pc = IF verdict = "deny" THEN "denied" ELSE "allowed"]
        /\ UNCHANGED <<pending, events>>
     \/ /\ verdict = "ask" /\ ~ask[r].aborted
        /\ ask' = [ask EXCEPT ![r].pc = "pending"]
        /\ pending' = pending \cup {r}
        /\ events' = [events EXCEPT ![r] = Publish(r, "asked")]
     \/ /\ verdict = "ask" /\ ask[r].aborted
        /\ ask' = [ask EXCEPT ![r].pc = "cancelled"]
        /\ events' = [events EXCEPT ![r] = @ \o <<"asked", "cancelled">>]
        /\ UNCHANGED pending
  /\ UNCHANGED <<reply, grants>>

\* Mutant: a request that was cancelled stays in the list.
PendingAfterCancelKept(r) == pending

PendingAfterCancel(r) == pending \ {r}

Cancel(r) ==
  /\ pending' = PendingAfterCancel(r)
  /\ events' = [events EXCEPT ![r] = Publish(r, "cancelled")]

(* The caller's signal is aborted. *)
Abort(r) ==
  /\ ~ask[r].aborted /\ ask[r].pc # "none"
  /\ IF Unsettled(r)
     THEN /\ ask' = [ask EXCEPT ![r].pc = "cancelled", ![r].aborted = TRUE]
          /\ Cancel(r)
     ELSE ask' = [ask EXCEPT ![r].aborted = TRUE] /\ UNCHANGED <<pending, events>>
  /\ UNCHANGED <<reply, grants>>

\* Mutant: the timer looks at the list of pending requests.
ExpiresIfListed(r) == r \in pending

Expires(r) == Unsettled(r)

TimeOut(r) ==
  /\ Expires(r)
  /\ ask' = [ask EXCEPT ![r].pc = "cancelled"]
  /\ Cancel(r)
  /\ UNCHANGED <<reply, grants>>

-----------------------------------------------------------------------------
SameSession(r) == {q \in pending : AskedIn[q] = AskedIn[r]}

\* Mutant: a rejection leaves the other requests of the session to be answered.
RejectedWithAlone(r) == {r}

(* A rejection takes every other pending request of the session with it. *)
RejectedWith(r) == {r} \cup SameSession(r)

(* What the settlement of a set of requests makes of their callers. *)
Settled(rs, outcome) == [r \in Asks |-> IF r \in rs /\ Unsettled(r) THEN [ask[r] EXCEPT !.pc = outcome] ELSE ask[r]]

Announced(rs, event) == [r \in Asks |-> IF r \in rs THEN Publish(r, event) ELSE events[r]]

(* A reply to a request that is not pending is ignored. *)
Answerable(r) == r \in pending

ReplyReject(p, r) ==
  /\ reply[p].pc = "none" /\ Answerable(r)
  /\ reply' = [reply EXCEPT ![p].pc = "done", ![p].to = r]
  /\ pending' = pending \ RejectedWith(r)
  /\ ask' = Settled(RejectedWith(r), "rejected")
  /\ events' = Announced(RejectedWith(r), "rejected")
  /\ UNCHANGED grants

ReplyOnce(p, r) ==
  /\ reply[p].pc = "none" /\ Answerable(r)
  /\ reply' = [reply EXCEPT ![p].pc = "done", ![p].to = r]
  /\ pending' = pending \ {r}
  /\ ask' = Settled({r}, "allowed")
  /\ events' = Announced({r}, "once")
  /\ UNCHANGED grants

(* A reply "always" takes its request off the list and announces it before it stores the grant. *)
ReplyAlways(p, r) ==
  /\ reply[p].pc = "none" /\ Answerable(r)
  /\ reply' = [reply EXCEPT ![p].pc = IF ProfileSnapshots THEN "granting" ELSE "granted", ![p].to = r]
  /\ pending' = pending \ {r}
  /\ events' = Announced({r}, "always")
  /\ UNCHANGED <<ask, grants>>

(* The grant is added under the lock of the stored profile; a session without a profile has nowhere to keep it. *)
GrantStored(p) ==
  /\ reply[p].pc = "granting"
  /\ reply' = [reply EXCEPT ![p].pc = "granted"]
  /\ LET s == AskedIn[reply[p].to] IN
       \/ grants' = [grants EXCEPT ![s] = @ \cup AlwaysOf[reply[p].to]]
       \/ UNCHANGED grants
  /\ UNCHANGED <<ask, pending, events>>

(* Any other failure of the storage ends the reply, and its request is left to its time-out. *)
GrantFails(p) ==
  /\ reply[p].pc = "granting"
  /\ reply' = [reply EXCEPT ![p].pc = "done"]
  /\ UNCHANGED <<ask, pending, grants, events>>

(* The caller goes on, and the grants are read for the session's other requests. *)
ResumeAfterGrant(p) ==
  /\ reply[p].pc = "granted"
  /\ ask' = Settled({reply[p].to}, "allowed")
  /\ reply' = [reply EXCEPT ![p].pc = "cascading", ![p].seen = Granted(AskedIn[reply[p].to])]
  /\ UNCHANGED <<pending, grants, events>>

\* Mutant: one granted pattern is enough.
NowAllowedInPart(q, granted) ==
  \E i \in DOMAIN PatternsOf[q] : PatternsOf[q][i] \in ask[q].seen \/ Rule(q, PatternsOf[q][i], granted) = "allow"

(* The ruleset kept with a pending request ends with the grants that its session had when it was made: here they come
   before a rule that denies. *)
NowAllowed(q, granted) ==
  \A i \in DOMAIN PatternsOf[q] : PatternsOf[q][i] \in ask[q].seen \/ Rule(q, PatternsOf[q][i], granted) = "allow"

(* Every pending request of the session that the grants now allow is approved with it. *)
Cascade(p) ==
  /\ reply[p].pc = "cascading"
  /\ LET approved == {q \in SameSession(reply[p].to) : NowAllowed(q, reply[p].seen)} IN
     /\ pending' = pending \ approved
     /\ ask' = Settled(approved, "allowed")
     /\ events' = Announced(approved, "always")
  /\ reply' = [reply EXCEPT ![p].pc = "done"]
  /\ UNCHANGED grants

-----------------------------------------------------------------------------
ReplyStep(p) == GrantStored(p) \/ GrantFails(p) \/ ResumeAfterGrant(p) \/ Cascade(p)

AskNext ==
  \/ \E r \in Asks : Ask(r) \/ Evaluate(r) \/ Abort(r) \/ TimeOut(r)
  \/ \E p \in Replies, r \in Asks : ReplyReject(p, r) \/ ReplyOnce(p, r) \/ ReplyAlways(p, r)
  \/ \E p \in Replies : ReplyStep(p)

AskSpec == AskInit /\ [][AskNext]_askVars

(* The promises of ask() and reply() settle, and the timer of a request fires. *)
AskFairSpec ==
  /\ AskSpec
  /\ \A r \in Asks : WF_askVars(Evaluate(r)) /\ WF_askVars(TimeOut(r))
  /\ \A p \in Replies : WF_askVars(ReplyStep(p))

-----------------------------------------------------------------------------
AskTypeOK ==
  /\ ask \in [Asks -> [pc : {"none", "evaluating", "pending", "allowed", "denied", "rejected", "cancelled"},
                           seen : SUBSET Patterns, aborted : BOOLEAN]]
  /\ pending \subseteq Asks
  /\ reply \in [Replies -> [pc : {"none", "granting", "granted", "cascading", "done"}, to : Asks \cup {"none"},
                            seen : SUBSET Patterns]]
  /\ grants \in [AskSessions -> SUBSET Patterns]
  /\ events \in [Asks -> UNION {[1..n -> {"asked", "once", "always", "rejected", "cancelled"}] : n \in 0..3}]

Replied(r) == {i \in DOMAIN events[r] : events[r][i] \in {"once", "always", "rejected"}}

(* Whoever lists the pending requests sees those that wait for an answer, and no other: a request that left the list
   has ended, or its reply "always" is being stored, or could not be. *)
ListIsHonest ==
  /\ \A r \in pending : Unsettled(r)
  /\ \A r \in Asks : Unsettled(r) /\ r \notin pending => Replied(r) # {}

(* What the caller of ask() gets is what was announced: permission that was asked for is given only after a reply that
   approves, an error only after a rejection or a cancellation. *)
OutcomeIsAnnounced ==
  \A r \in Asks :
    /\ ask[r].pc = "allowed" /\ events[r] # <<>> => events[r] \in {<<"asked", "once">>, <<"asked", "always">>}
    /\ ask[r].pc = "rejected" => events[r] = <<"asked", "rejected">>
    /\ ask[r].pc = "cancelled" => events[r] \in {<<"asked", "cancelled">>, <<"asked", "always", "cancelled">>}

(* Requests are settled once and in the open. *)
SettledInTheOpen == ListIsHonest /\ OutcomeIsAnnounced

Cascaded(p, q) ==
  /\ reply[p].pc = "cascading" /\ reply'[p].pc = "done"
  /\ ask[q].pc = "pending" /\ ask'[q].pc = "allowed"

(* A request is approved along with another one only if a grant of its session or a rule allows each of its patterns,
   although grants, replies and cancellations come between the await that read the grants and the approval. *)
ApprovedOnlyIfAllowed ==
  [][\A p \in Replies, q \in Asks : Cascaded(p, q) =>
       \A i \in DOMAIN PatternsOf[q] : PatternsOf[q][i] \in grants[AskedIn[q]] \/ Rules[q][PatternsOf[q][i]] = "allow"]_askVars

(* 08-resource-resolver-implementation-design.md:337 says that a grant never overrides a rule that denies. *)
GrantsNeverOverrideDeny ==
  [][\A p \in Replies, q \in Asks : Cascaded(p, q) =>
       \A i \in DOMAIN PatternsOf[q] : Rules[q][PatternsOf[q][i]] # "deny"]_askVars

(* A rejection ends the session's other requests: none of them is left in the list, where a later reply could approve it. *)
RejectionSticks ==
  [][\A r, q \in Asks :
       ask[r].pc # "rejected" /\ ask'[r].pc = "rejected" /\ AskedIn[q] = AskedIn[r] => q \notin pending']_askVars

(* What a person replies settles what it should, and nothing that the rules do not allow. *)
RepliesAreKept == ApprovedOnlyIfAllowed /\ RejectionSticks

(* Nobody waits for ever: a request that was registered ends, even when its reply fails half-way. *)
AsksEnd == \A r \in Asks : (ask[r].pc = "evaluating") ~> (ask[r].pc \notin {"evaluating", "pending"})

=============================================================================
