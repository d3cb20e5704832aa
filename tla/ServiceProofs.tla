---------------------------- MODULE ServiceProofs ----------------------------
(***************************************************************************)
(* The services that start work by themselves, and the relay.              *)
(*                                                                         *)
(* GuardsHold of WebhookTriggers, for any number of deliveries, keys and   *)
(* restarts and any limits.  The lock lets one delivery at a time go by    *)
(* the guards (OneInside), so each guard can be read as what the ones that *)
(* went by it before have left there (RateLeft, DedupeLeft, CooldownLeft). *)
(*                                                                         *)
(* SlotsAreKept and MissedIsSkipped of Schedule, in the second part, have  *)
(* an invariant of their own (ScheduleInv).                                *)
(*                                                                         *)
(* RelayIsTrue of BrowserRelay, for any number of connections, commands    *)
(* and tabs.  The list of pending commands names each waiting command once *)
(* (Listed), an id is never used again, so that an answer that is on its   *)
(* way finds its own command or none (OnItsWay), and there is an id for    *)
(* every command (IdsLast).                                                *)
(***************************************************************************)
EXTENDS WebhookTriggers, Schedule, BrowserRelay, SequenceTheorems, FiniteSetTheorems, TLAPS

(* Where a delivery that holds the lock may be. *)
AfterGuards == {"session", "sending", "response", "recording", "cooling", "unaccepted", "finishing", "catch", "failing"}
Early == {"rate", "dedupe", "cooldown", "admitted"}
Inside == Early \cup AfterGuards

Worked == {"accepted", "running", "succeeded", "failed"}

Places == Inside \cup {"new", "waiting", "done", "lost"}

DeliveryTypes ==
  [pc : Places, at : Nat, accepted : BOOLEAN,
   seen : {"none", "succeeded", "failed"}, marked : Nat]

RunTypes ==
  [status : Worked \cup {"none", "rejected"}, monitor : {"none", "watching", "finished"},
   session : {"none", "running", "over"}, terminal : {"none", "succeeded", "failed"}, pending : BOOLEAN]

GuardTypes == [started : Nat, count : Nat, expires : [DedupeKeys -> Nat], cooling : Nat]

WebhookRecords ==
  /\ now \in Nat \ {0}
  /\ guards \in GuardTypes
  /\ delivery \in [Deliveries -> DeliveryTypes]
  /\ webhookRun \in [Deliveries -> RunTypes]
  /\ sourceLock \in Seq(Deliveries)

Queued(d, queue) == \E i \in 1..Len(queue) : queue[i] = d

OneInside ==
  \A d \in Deliveries :
    /\ delivery[d].pc = "waiting" => Queued(d, sourceLock)
    /\ delivery[d].pc \in Inside => sourceLock # <<>> /\ Head(sourceLock) = d

(* How the status of a run goes with the place of its delivery. *)
Fate(d) ==
  /\ delivery[d].at <= now /\ delivery[d].marked <= now
  /\ delivery[d].pc = "new" => delivery[d].at = 0
  /\ delivery[d].pc \in Inside => delivery[d].at > 0
  /\ delivery[d].pc \in Early \cup {"new", "waiting"} => webhookRun[d].status = "none"
  /\ delivery[d].pc \in AfterGuards => webhookRun[d].status \in Worked
  /\ webhookRun[d].monitor = "watching" \/ webhookRun[d].session = "running" \/ webhookRun[d].pending =>
       webhookRun[d].status \in Worked
  /\ webhookRun[d].pending => webhookRun[d].terminal # "none"

(* The deliveries that went by the rate limit, and those that went by the deduplication as well. *)
Counted == Admitted \cup {d \in Deliveries : delivery[d].pc \in Inside \ {"rate"}}
Marked == Admitted \cup {d \in Deliveries : delivery[d].pc \in Inside \ {"rate", "dedupe"}}

(* Those of them whose guards were evaluated from the time s on, and before the time t. *)
Within(s, t) == {d \in Counted : delivery[d].at >= s /\ delivery[d].at < t}

(* The window counts those that are in it, and before it there was a whole one: at most MaxRequests less the first one of
   that window are as near to this window as a window is long. *)
RateLeft ==
  /\ guards.started <= now
  /\ guards.started = 0 => Counted = {}
  /\ guards.count <= MaxRequests
  /\ guards.started > 0 =>
       /\ \A d \in Counted : delivery[d].at < guards.started + Window
       /\ Cardinality({d \in Counted : delivery[d].at >= guards.started}) <= guards.count
       /\ Cardinality({d \in Counted : delivery[d].at > guards.started}) <= guards.count - 1
  /\ Cardinality(Within(guards.started - Window + 1, guards.started)) <= MaxRequests - 1
  /\ \A t \in Nat : Cardinality(Within(t, t + Window)) < 2 * MaxRequests
  /\ \A d \in Deliveries : delivery[d].pc = "rate" => delivery[d].at >= guards.started

(* Whoever comes by the guards named in the phases comes at t or later. *)
NotBefore(t, phases) ==
  now >= t /\ \A d \in Deliveries : delivery[d].pc \in phases => delivery[d].at >= t

DedupeLeft ==
  /\ \A d \in Marked :
       \/ guards.expires[KeyOf[d]] >= delivery[d].at + DedupeTTL
       \/ NotBefore(delivery[d].at + DedupeTTL, {"rate", "dedupe"})
  /\ \A d, e \in Marked : KeyOf[d] = KeyOf[e] /\ delivery[d].at <= delivery[e].at /\ d # e =>
       delivery[e].at - delivery[d].at >= DedupeTTL

CooldownLeft ==
  /\ \A d \in Deliveries : delivery[d].marked > 0 =>
       \/ guards.cooling >= delivery[d].marked + CooldownTime
       \/ NotBefore(delivery[d].marked + CooldownTime, {"rate", "dedupe", "cooldown"})
  /\ CooldownIsKept

GuardInv ==
  /\ WebhookRecords /\ OneInside /\ \A d \in Deliveries : Fate(d)
  /\ RateLeft /\ DedupeLeft /\ CooldownLeft

-----------------------------------------------------------------------------
LEMMA WebhookFacts ==
  ASSUME GuardInv
  PROVE  /\ WebhookRecords /\ OneInside /\ \A d \in Deliveries : Fate(d)
         /\ IsFiniteSet(Deliveries)
         /\ MaxRequests \in Nat \ {0} /\ Window \in Nat \ {0} /\ DedupeTTL \in Nat \ {0} /\ CooldownTime \in Nat
         /\ \A d \in Deliveries : delivery[d] \in DeliveryTypes /\ delivery[d].at \in Nat /\ delivery[d].marked \in Nat
         /\ \A d \in Deliveries : webhookRun[d] \in RunTypes
         /\ now \in Nat /\ guards.started \in Nat /\ guards.count \in Nat /\ guards.cooling \in Nat
         /\ \A d \in Deliveries : KeyOf[d] \in DedupeKeys
         /\ \A k \in DedupeKeys : guards.expires[k] \in Nat
BY WebhookAssumption DEF GuardInv, WebhookRecords, DeliveryTypes, GuardTypes

(* Only one delivery is between the guards and its end. *)
LEMMA Alone ==
  ASSUME GuardInv, NEW d \in Deliveries, NEW e \in Deliveries, delivery[d].pc \in Inside, delivery[e].pc \in Inside
  PROVE  d = e
BY DEF GuardInv, OneInside

LEMMA TailQueued ==
  ASSUME NEW S, NEW q \in Seq(S), NEW d \in S, Queued(d, q), d # Head(q)
  PROVE  Tail(q) \in Seq(S) /\ Queued(d, Tail(q))
<1>1. PICK i \in 1..Len(q) : q[i] = d
  BY DEF Queued
<1>2. q # <<>> /\ Len(q) \in Nat
  BY <1>1, EmptySeq, LenProperties
<1>3. Head(q) = q[1]
  BY <1>2
<1>4. i \in 2..Len(q)
  BY <1>1, <1>2, <1>3
<1>5. Len(Tail(q)) = Len(q) - 1 /\ Tail(q) \in Seq(S) /\ \A j \in 1..Len(Tail(q)) : Tail(q)[j] = q[j + 1]
  BY <1>2, HeadTailProperties
<1>6. i - 1 \in 1..Len(Tail(q)) /\ (i - 1) + 1 = i
  BY <1>2, <1>4, <1>5
<1> QED BY <1>1, <1>5, <1>6 DEF Queued

LEMMA AppendQueued ==
  ASSUME NEW S, NEW q \in Seq(S), NEW d \in S
  PROVE  /\ Append(q, d) \in Seq(S) /\ Append(q, d) # <<>>
         /\ q # <<>> => Head(Append(q, d)) = Head(q)
         /\ Queued(d, Append(q, d))
         /\ \A e \in S : Queued(e, q) => Queued(e, Append(q, d))
<1>1. /\ Append(q, d) \in Seq(S) /\ Append(q, d) # <<>> /\ Len(Append(q, d)) = Len(q) + 1
      /\ \A i \in 1..Len(q) : Append(q, d)[i] = q[i]
      /\ Append(q, d)[Len(q) + 1] = d
  BY AppendProperties
<1>2. Len(q) \in Nat
  BY LenProperties
<1>3. q # <<>> => Head(Append(q, d)) = Head(q)
  BY HeadTailAppend
<1>4. Queued(d, Append(q, d))
  <2>1. Len(q) + 1 \in 1..Len(Append(q, d))
    BY <1>1, <1>2
  <2> QED BY <1>1, <2>1 DEF Queued
<1>5. ASSUME NEW e \in S, Queued(e, q) PROVE Queued(e, Append(q, d))
  <2>1. PICK i \in 1..Len(q) : q[i] = e
    BY <1>5 DEF Queued
  <2>2. i \in 1..Len(Append(q, d)) /\ Append(q, d)[i] = e
    BY <1>1, <1>2, <2>1
  <2> QED BY <2>2 DEF Queued
<1> QED BY <1>1, <1>3, <1>4, <1>5

(* Numbers of deliveries. *)
LEMMA Fewer ==
  ASSUME NEW S \in SUBSET Deliveries, NEW T \in SUBSET S
  PROVE  Cardinality(S) \in Nat /\ Cardinality(T) \in Nat /\ Cardinality(T) <= Cardinality(S)
<1>1. IsFiniteSet(S) /\ IsFiniteSet(T)
  BY WebhookAssumption, FS_Subset
<1> QED BY <1>1, FS_Subset, FS_CardinalityType

LEMMA OneMore ==
  ASSUME NEW S \in SUBSET Deliveries, NEW d \in Deliveries, NEW T \in SUBSET (S \cup {d})
  PROVE  Cardinality(S) \in Nat /\ Cardinality(T) \in Nat /\ Cardinality(T) <= Cardinality(S) + 1
<1>1. IsFiniteSet(S)
  BY WebhookAssumption, FS_Subset
<1>2. Cardinality(S) \in Nat /\ Cardinality(S \cup {d}) <= Cardinality(S) + 1
  BY <1>1, FS_AddElement, FS_CardinalityType
<1>3. Cardinality(T) \in Nat /\ Cardinality(T) <= Cardinality(S \cup {d}) /\ Cardinality(S \cup {d}) \in Nat
  BY Fewer
<1> QED BY <1>2, <1>3

LEMMA TwoParts ==
  ASSUME NEW S \in SUBSET Deliveries, NEW R \in SUBSET Deliveries, NEW T \in SUBSET (S \cup R)
  PROVE  /\ Cardinality(S) \in Nat /\ Cardinality(R) \in Nat /\ Cardinality(T) \in Nat
         /\ Cardinality(T) <= Cardinality(S) + Cardinality(R)
<1>1. IsFiniteSet(S) /\ IsFiniteSet(R)
  BY WebhookAssumption, FS_Subset
<1>2. /\ Cardinality(S) \in Nat /\ Cardinality(R) \in Nat /\ Cardinality(S \cap R) \in Nat
      /\ Cardinality(S \cup R) = Cardinality(S) + Cardinality(R) - Cardinality(S \cap R)
  BY <1>1, FS_Union, FS_Intersection, FS_CardinalityType
<1>3. Cardinality(T) \in Nat /\ Cardinality(T) <= Cardinality(S \cup R) /\ Cardinality(S \cup R) \in Nat
  BY Fewer
<1> QED BY <1>2, <1>3

-----------------------------------------------------------------------------
(* Steps that leave the guards alone: no delivery comes nearer to them, and none goes by. *)
Calm ==
  /\ guards' = guards /\ now' \in Nat /\ now' >= now
  /\ \A d \in Deliveries :
       /\ delivery'[d].at = delivery[d].at /\ delivery'[d].marked = delivery[d].marked
       /\ delivery'[d].pc \in Early => delivery'[d].pc = delivery[d].pc
       /\ delivery'[d].pc \in AfterGuards => delivery[d].pc \in AfterGuards \cup {"admitted"}
       /\ webhookRun'[d].status \in Worked =>
            webhookRun[d].status \in Worked \/ delivery[d].pc \in AfterGuards \cup {"admitted"} \/ delivery[d].at = 0

(* The rate limit goes by the deliveries it has counted and by nothing else. *)
LEMMA RateKept ==
  ASSUME GuardInv, guards'.started = guards.started, guards'.count = guards.count, now' \in Nat, now' >= now,
         Counted' \subseteq Counted,
         \A d \in Deliveries : delivery'[d].at = delivery[d].at /\ (delivery'[d].pc = "rate" => delivery[d].pc = "rate")
  PROVE  RateLeft'
<1> USE WebhookFacts
<1>1. /\ guards'.started = guards.started /\ guards'.count = guards.count /\ now' \in Nat /\ now' >= now
      /\ \A d \in Deliveries : delivery'[d].at = delivery[d].at
  OBVIOUS
<1>2. Counted' \subseteq Counted /\ Counted \subseteq Deliveries
  BY DEF Counted, Admitted
<1> DEFINE from(t) == {d \in Counted : delivery[d].at >= t}
           after(t) == {d \in Counted : delivery[d].at > t}
<1>3. \A t \in Int : /\ Cardinality(from(t)) \in Nat /\ Cardinality(from(t)') <= Cardinality(from(t))
                     /\ Cardinality(after(t)) \in Nat /\ Cardinality(after(t)') <= Cardinality(after(t))
                     /\ Cardinality(from(t)') \in Nat /\ Cardinality(after(t)') \in Nat
  <2> TAKE t \in Int
  <2>1. from(t)' \subseteq from(t) /\ after(t)' \subseteq after(t) /\ from(t) \subseteq Deliveries /\ after(t) \subseteq Deliveries
    BY <1>1, <1>2
  <2> HIDE DEF from, after
  <2> QED BY <2>1, Fewer
<1>4. \A s, t \in Int : Cardinality(Within(s, t)) \in Nat /\ Cardinality(Within(s, t)') \in Nat
                        /\ Cardinality(Within(s, t)') <= Cardinality(Within(s, t))
  <2> TAKE s, t \in Int
  <2>1. Within(s, t)' \subseteq Within(s, t) /\ Within(s, t) \subseteq Deliveries
    BY <1>1, <1>2 DEF Within
  <2> QED BY <2>1, Fewer
<1>5. PICK s \in Nat : s = guards.started
  OBVIOUS
<1>6. guards'.started = s /\ guards'.count = guards.count
  BY <1>1, <1>5
<1>7. /\ s <= now' /\ (s = 0 => Counted' = {}) /\ guards.count <= MaxRequests
      /\ s > 0 => \A d \in Counted' : delivery'[d].at < s + Window
      /\ \A d \in Deliveries : delivery'[d].pc = "rate" => delivery'[d].at >= s
  BY <1>1, <1>2, <1>5 DEF GuardInv, RateLeft
<1>8. s > 0 => Cardinality(from(s)') <= guards.count /\ Cardinality(after(s)') <= guards.count - 1
  <2>1. s > 0 => Cardinality(from(s)) <= guards.count /\ Cardinality(after(s)) <= guards.count - 1
    BY <1>5 DEF GuardInv, RateLeft
  <2> HIDE DEF from, after
  <2> QED BY <1>3, <2>1
<1>9. Cardinality(Within(s - Window + 1, s)') <= MaxRequests - 1
  <2>1. Cardinality(Within(s - Window + 1, s)) <= MaxRequests - 1 /\ s - Window + 1 \in Int /\ s \in Int
    BY <1>5 DEF GuardInv, RateLeft
  <2>2. /\ Cardinality(Within(s - Window + 1, s)) \in Nat /\ Cardinality(Within(s - Window + 1, s)') \in Nat
        /\ Cardinality(Within(s - Window + 1, s)') <= Cardinality(Within(s - Window + 1, s))
    BY <1>4, <2>1
  <2> QED BY <2>1, <2>2
<1>10. ASSUME NEW t \in Nat PROVE Cardinality(Within(t, t + Window)') < 2 * MaxRequests
  <2>1. Cardinality(Within(t, t + Window)) < 2 * MaxRequests /\ t \in Int /\ t + Window \in Int
    BY DEF GuardInv, RateLeft
  <2>2. /\ Cardinality(Within(t, t + Window)) \in Nat /\ Cardinality(Within(t, t + Window)') \in Nat
        /\ Cardinality(Within(t, t + Window)') <= Cardinality(Within(t, t + Window))
    BY <1>4, <2>1
  <2> QED BY <2>1, <2>2
<1> QED BY <1>6, <1>7, <1>8, <1>9, <1>10 DEF RateLeft, Within

LEMMA CalmKeepsGuards ==
  ASSUME GuardInv, Calm
  PROVE  RateLeft' /\ DedupeLeft' /\ CooldownLeft'
<1> USE WebhookFacts
<1>1. /\ guards' = guards /\ now' \in Nat /\ now' >= now
      /\ \A d \in Deliveries : delivery'[d].at = delivery[d].at /\ delivery'[d].marked = delivery[d].marked
      /\ \A d \in Deliveries : delivery'[d].pc \in Early => delivery'[d].pc = delivery[d].pc
  BY DEF Calm
<1>2. Counted' \subseteq Counted /\ Marked' \subseteq Marked /\ Marked \subseteq Deliveries /\ Counted \subseteq Deliveries
  <2>1. ASSUME NEW d \in Deliveries
        PROVE  /\ delivery'[d].at > 0 /\ webhookRun'[d].status \in Worked =>
                    (delivery[d].at > 0 /\ webhookRun[d].status \in Worked) \/ delivery[d].pc \in Inside \ {"rate", "dedupe"}
               /\ delivery'[d].pc \in Inside \ {"rate"} => delivery[d].pc \in Inside \ {"rate"}
               /\ delivery'[d].pc \in Inside \ {"rate", "dedupe"} => delivery[d].pc \in Inside \ {"rate", "dedupe"}
    <3>1. delivery'[d].at = delivery[d].at /\ delivery[d].at \in Nat
      BY <1>1
    <3>2. AfterGuards \cup {"admitted"} \subseteq Inside \ {"rate", "dedupe"} /\ Inside = Early \cup AfterGuards
      BY DEF Inside, Early, AfterGuards
    <3> QED BY <3>1, <3>2 DEF Calm
  <2>2. /\ Counted = {d \in Deliveries : (delivery[d].at > 0 /\ webhookRun[d].status \in Worked)
                                         \/ delivery[d].pc \in Inside \ {"rate"}}
        /\ Marked = {d \in Deliveries : (delivery[d].at > 0 /\ webhookRun[d].status \in Worked)
                                        \/ delivery[d].pc \in Inside \ {"rate", "dedupe"}}
    BY DEF Counted, Marked, Admitted, Worked
  <2>3. /\ Counted' = {d \in Deliveries : (delivery'[d].at > 0 /\ webhookRun'[d].status \in Worked)
                                         \/ delivery'[d].pc \in Inside \ {"rate"}}
        /\ Marked' = {d \in Deliveries : (delivery'[d].at > 0 /\ webhookRun'[d].status \in Worked)
                                        \/ delivery'[d].pc \in Inside \ {"rate", "dedupe"}}
    BY DEF Counted, Marked, Admitted, Worked
  <2> QED BY <2>1, <2>2, <2>3
<1>3. RateLeft'
  BY <1>1, <1>2, RateKept DEF Early
<1>4. \A t \in Nat, phases \in SUBSET Early : NotBefore(t, phases) => NotBefore(t, phases)'
  BY <1>1 DEF NotBefore
<1>5. DedupeLeft'
  <2>1. \A d \in Deliveries : delivery[d].at + DedupeTTL \in Nat
    OBVIOUS
  <2>2. {"rate", "dedupe"} \in SUBSET Early
    BY DEF Early
  <2>3. ASSUME NEW d \in Marked'
        PROVE  \/ guards'.expires[KeyOf[d]] >= delivery'[d].at + DedupeTTL
               \/ NotBefore(delivery[d].at + DedupeTTL, {"rate", "dedupe"})'
    <3>1. \/ guards.expires[KeyOf[d]] >= delivery[d].at + DedupeTTL
          \/ NotBefore(delivery[d].at + DedupeTTL, {"rate", "dedupe"})
      BY <1>2 DEF GuardInv, DedupeLeft
    <3>2. d \in Deliveries /\ delivery'[d].at = delivery[d].at /\ guards' = guards
      BY <1>1, <1>2
    <3>3. NotBefore(delivery[d].at + DedupeTTL, {"rate", "dedupe"}) =>
            now' >= delivery'[d].at + DedupeTTL
              /\ \A e \in Deliveries : delivery'[e].pc \in {"rate", "dedupe"} => delivery'[e].at >= delivery'[d].at + DedupeTTL
      BY <1>1, <2>1, <3>2 DEF NotBefore, Early
    <3> QED BY <3>1, <3>2, <3>3 DEF NotBefore
  <2>4. \A d, e \in Marked' : KeyOf[d] = KeyOf[e] /\ delivery'[d].at <= delivery'[e].at /\ d # e =>
          delivery'[e].at - delivery'[d].at >= DedupeTTL
    BY <1>1, <1>2 DEF GuardInv, DedupeLeft
  <2> QED BY <2>3, <2>4 DEF DedupeLeft, NotBefore
<1>6. CooldownLeft'
  <2>1. CooldownIsKept'
    BY <1>1 DEF GuardInv, CooldownLeft, CooldownIsKept, Is, Early
  <2>2. ASSUME NEW d \in Deliveries, delivery'[d].marked > 0
        PROVE  \/ guards'.cooling >= delivery'[d].marked + CooldownTime
               \/ now' >= delivery'[d].marked + CooldownTime
                    /\ \A e \in Deliveries : delivery'[e].pc \in {"rate", "dedupe", "cooldown"} =>
                         delivery'[e].at >= delivery'[d].marked + CooldownTime
    BY <1>1, <2>2 DEF GuardInv, CooldownLeft, NotBefore, Early
  <2> QED BY <2>1, <2>2 DEF CooldownLeft, NotBefore
<1> QED BY <1>3, <1>5, <1>6

-----------------------------------------------------------------------------
(* What one step changes. *)
LEMMA DeliveryUpdate ==
  ASSUME GuardInv, NEW d \in Deliveries, NEW new \in DeliveryTypes, delivery' = [delivery EXCEPT ![d] = new]
  PROVE  /\ delivery' \in [Deliveries -> DeliveryTypes] /\ delivery'[d] = new
         /\ \A e \in Deliveries : e # d => delivery'[e] = delivery[e]
BY DEF GuardInv, WebhookRecords

LEMMA MovesUpdate ==
  ASSUME GuardInv, NEW d \in Deliveries, NEW pc \in Places, Moves(d, pc)
  PROVE  /\ delivery' \in [Deliveries -> DeliveryTypes]
         /\ delivery'[d].pc = pc /\ delivery'[d].at = delivery[d].at /\ delivery'[d].marked = delivery[d].marked
         /\ delivery'[d].accepted = delivery[d].accepted /\ delivery'[d].seen = delivery[d].seen
         /\ \A e \in Deliveries : e # d => delivery'[e] = delivery[e]
<1> DEFINE new == [delivery[d] EXCEPT !.pc = pc]
<1>1. delivery[d] \in DeliveryTypes
  BY WebhookFacts
<1>2. /\ new \in DeliveryTypes /\ new.pc = pc /\ new.at = delivery[d].at /\ new.marked = delivery[d].marked
      /\ new.accepted = delivery[d].accepted /\ new.seen = delivery[d].seen
  BY <1>1 DEF DeliveryTypes
<1>3. delivery' = [delivery EXCEPT ![d] = new]
  BY DEF Moves
<1> HIDE DEF new
<1> QED BY <1>2, <1>3, DeliveryUpdate

LEMMA RunUpdate ==
  ASSUME GuardInv, NEW d \in Deliveries, NEW new \in RunTypes, webhookRun' = [webhookRun EXCEPT ![d] = new]
  PROVE  /\ webhookRun' \in [Deliveries -> RunTypes] /\ webhookRun'[d] = new
         /\ \A e \in Deliveries : e # d => webhookRun'[e] = webhookRun[e]
BY DEF GuardInv, WebhookRecords

LEMMA StatusUpdate ==
  ASSUME GuardInv, NEW d \in Deliveries, NEW status \in Worked \cup {"none", "rejected"}, RecordStatus(d, status)
  PROVE  /\ webhookRun' \in [Deliveries -> RunTypes]
         /\ webhookRun'[d].status = status /\ webhookRun'[d].monitor = webhookRun[d].monitor
         /\ webhookRun'[d].session = webhookRun[d].session /\ webhookRun'[d].pending = webhookRun[d].pending
         /\ webhookRun'[d].terminal = webhookRun[d].terminal
         /\ \A e \in Deliveries : e # d => webhookRun'[e] = webhookRun[e]
<1> DEFINE new == [webhookRun[d] EXCEPT !.status = status]
<1>1. webhookRun[d] \in RunTypes
  BY WebhookFacts
<1>2. /\ new \in RunTypes /\ new.status = status /\ new.monitor = webhookRun[d].monitor
      /\ new.session = webhookRun[d].session /\ new.pending = webhookRun[d].pending /\ new.terminal = webhookRun[d].terminal
  BY <1>1 DEF RunTypes
<1>3. webhookRun' = [webhookRun EXCEPT ![d] = new]
  BY DEF RecordStatus
<1> HIDE DEF new
<1> QED BY <1>2, <1>3, RunUpdate

LEMMA FinishedOnce ==
  ASSUME NEW r \in RunTypes, NEW status \in {"succeeded", "failed"}
  PROVE  /\ FinishOnce(r, status) \in RunTypes /\ FinishOnce(r, status).status = r.status
         /\ FinishOnce(r, status).session = r.session /\ FinishOnce(r, status).monitor # "watching"
         /\ r.monitor = "watching" => FinishOnce(r, status).terminal = status
         /\ r.monitor # "watching" => FinishOnce(r, status) = r
BY DEF FinishOnce, RunTypes

(* A step of the delivery d alone. *)
OneMoves(d) ==
  /\ now' = now
  /\ delivery' \in [Deliveries -> DeliveryTypes] /\ webhookRun' \in [Deliveries -> RunTypes]
  /\ \A e \in Deliveries : e # d => delivery'[e] = delivery[e] /\ webhookRun'[e] = webhookRun[e]

(* It works on with the lock, or gives it back. *)
WorksOrReturns(d) ==
  \/ delivery'[d].pc \in Inside /\ sourceLock' = sourceLock
  \/ delivery'[d].pc = "done" /\ sourceLock' = Tail(sourceLock)

LEMMA FatesKept ==
  ASSUME GuardInv, NEW d \in Deliveries, OneMoves(d), Fate(d)'
  PROVE  \A e \in Deliveries : Fate(e)'
BY WebhookFacts DEF OneMoves, Fate

LEMMA LockKept ==
  ASSUME GuardInv, NEW d \in Deliveries, OneMoves(d), WorksOrReturns(d), sourceLock # <<>>, Head(sourceLock) = d
  PROVE  OneInside' /\ sourceLock' \in Seq(Deliveries)
<1>1. sourceLock \in Seq(Deliveries) /\ OneInside
  BY DEF GuardInv, WebhookRecords
<1>2. "waiting" \notin Inside /\ "done" \notin Inside
  BY DEF Inside, Early, AfterGuards
<1>3. CASE delivery'[d].pc \in Inside /\ sourceLock' = sourceLock
  <2>1. ASSUME NEW e \in Deliveries
        PROVE  /\ delivery'[e].pc = "waiting" => Queued(e, sourceLock)
               /\ delivery'[e].pc \in Inside => Head(sourceLock) = e
    BY <1>1, <1>2, <1>3 DEF OneInside, OneMoves
  <2> QED BY <1>1, <1>3, <2>1 DEF OneInside
<1>4. CASE delivery'[d].pc = "done" /\ sourceLock' = Tail(sourceLock)
  <2>1. Tail(sourceLock) \in Seq(Deliveries)
    BY <1>1, HeadTailProperties
  <2>2. ASSUME NEW e \in Deliveries, delivery'[e].pc = "waiting" PROVE Queued(e, Tail(sourceLock))
    <3>1. e # d /\ Queued(e, sourceLock)
      BY <1>1, <1>4, <2>2 DEF OneInside, OneMoves
    <3> QED BY <1>1, <3>1, TailQueued
  <2>3. \A e \in Deliveries : delivery'[e].pc \notin Inside
    BY <1>1, <1>2, <1>4 DEF OneInside, OneMoves
  <2> QED BY <1>4, <2>1, <2>2, <2>3 DEF OneInside
<1> QED BY <1>3, <1>4 DEF WorksOrReturns

(* The work of a delivery that was admitted. *)
LEMMA WorkStep ==
  ASSUME GuardInv, NEW d \in Deliveries, OneMoves(d), WorksOrReturns(d), guards' = guards,
         delivery[d].pc \in AfterGuards \cup {"admitted"}, delivery'[d].pc \in AfterGuards \cup {"done"},
         delivery'[d].at = delivery[d].at, delivery'[d].marked = delivery[d].marked,
         webhookRun'[d].status \in Worked,
         webhookRun'[d].pending => webhookRun'[d].terminal # "none"
  PROVE  GuardInv'
<1>1. WebhookRecords /\ OneInside /\ Fate(d) /\ delivery[d].at \in Nat
  BY WebhookFacts
<1>2. delivery[d].pc \in Inside
  BY DEF Inside, Early
<1>3. sourceLock # <<>> /\ Head(sourceLock) = d
  BY <1>1, <1>2 DEF OneInside
<1>4. OneInside' /\ sourceLock' \in Seq(Deliveries)
  BY <1>3, LockKept
<1>5. WebhookRecords'
  BY <1>1, <1>4 DEF WebhookRecords, OneMoves
<1>6. Fate(d)'
  <2>1. delivery'[d].pc \notin Early \cup {"new", "waiting"}
    BY DEF Early, AfterGuards
  <2> QED BY <1>1, <1>2, <2>1 DEF Fate, OneMoves
<1>7. Calm
  <2>1. delivery'[d].pc \notin Early
    BY DEF Early, AfterGuards
  <2> QED BY <1>1, <2>1 DEF OneMoves, Calm, WebhookRecords
<1> QED BY <1>4, <1>5, <1>6, <1>7, FatesKept, CalmKeepsGuards DEF GuardInv

(* A step of the run of d, beside its delivery. *)
LEMMA BesideStep ==
  ASSUME GuardInv, NEW d \in Deliveries, UNCHANGED <<now, guards, delivery, sourceLock>>,
         webhookRun' \in [Deliveries -> RunTypes], \A e \in Deliveries : e # d => webhookRun'[e] = webhookRun[e],
         webhookRun[d].status \in Worked, webhookRun'[d].status \in Worked,
         webhookRun'[d].pending => webhookRun'[d].terminal # "none"
  PROVE  GuardInv'
<1>1. WebhookRecords /\ OneInside /\ Fate(d)
  BY WebhookFacts
<1>2. WebhookRecords' /\ OneInside'
  BY <1>1 DEF WebhookRecords, OneInside
<1>3. OneMoves(d) /\ Calm
  BY <1>1, <1>2 DEF OneMoves, Calm, WebhookRecords
<1>4. Fate(d)'
  <2>1. webhookRun[d].status # "none"
    BY DEF Worked
  <2> QED BY <1>1, <2>1 DEF Fate
<1> QED BY <1>2, <1>3, <1>4, FatesKept, CalmKeepsGuards DEF GuardInv

-----------------------------------------------------------------------------
(* The steps of an admitted delivery. *)
LEMMA WorkPlaces ==
  /\ AfterGuards \cup {"admitted", "done"} \subseteq Places /\ AfterGuards \subseteq Inside
  /\ Worked \subseteq Worked \cup {"none", "rejected"}
BY DEF Places, Inside, Early

(* It moves on, its run stays. *)
LEMMA WorkMoves ==
  ASSUME GuardInv, NEW d \in Deliveries, NEW pc \in AfterGuards \cup {"done"}, Moves(d, pc),
         UNCHANGED <<now, guards, webhookRun>>, delivery[d].pc \in AfterGuards,
         (pc # "done" /\ sourceLock' = sourceLock) \/ (pc = "done" /\ sourceLock' = Tail(sourceLock))
  PROVE  GuardInv'
<1>1. pc \in Places /\ (pc # "done" => pc \in Inside)
  BY WorkPlaces
<1>2. /\ delivery' \in [Deliveries -> DeliveryTypes]
      /\ delivery'[d].pc = pc /\ delivery'[d].at = delivery[d].at /\ delivery'[d].marked = delivery[d].marked
      /\ \A e \in Deliveries : e # d => delivery'[e] = delivery[e]
  BY <1>1, MovesUpdate
<1>3. Fate(d) /\ webhookRun \in [Deliveries -> RunTypes]
  BY WebhookFacts DEF WebhookRecords
<1>4. webhookRun'[d].status \in Worked /\ (webhookRun'[d].pending => webhookRun'[d].terminal # "none")
  BY <1>3 DEF Fate
<1>5. OneMoves(d) /\ WorksOrReturns(d)
  BY <1>1, <1>2, <1>3 DEF OneMoves, WorksOrReturns
<1> QED BY <1>2, <1>4, <1>5, WorkStep

(* It moves on with its run. *)
LEMMA WorkRuns ==
  ASSUME GuardInv, NEW d \in Deliveries, NEW pc \in AfterGuards \cup {"done"}, Moves(d, pc),
         NEW new \in RunTypes, webhookRun' = [webhookRun EXCEPT ![d] = new],
         new.status \in Worked, new.pending => new.terminal # "none",
         UNCHANGED <<now, guards>>, delivery[d].pc \in AfterGuards \cup {"admitted"},
         (pc # "done" /\ sourceLock' = sourceLock) \/ (pc = "done" /\ sourceLock' = Tail(sourceLock))
  PROVE  GuardInv'
<1>1. pc \in Places /\ (pc # "done" => pc \in Inside)
  BY WorkPlaces
<1>2. /\ delivery' \in [Deliveries -> DeliveryTypes]
      /\ delivery'[d].pc = pc /\ delivery'[d].at = delivery[d].at /\ delivery'[d].marked = delivery[d].marked
      /\ \A e \in Deliveries : e # d => delivery'[e] = delivery[e]
  BY <1>1, MovesUpdate
<1>3. /\ webhookRun' \in [Deliveries -> RunTypes] /\ webhookRun'[d] = new
      /\ \A e \in Deliveries : e # d => webhookRun'[e] = webhookRun[e]
  BY RunUpdate
<1>4. OneMoves(d) /\ WorksOrReturns(d)
  BY <1>1, <1>2, <1>3 DEF OneMoves, WorksOrReturns
<1> QED BY <1>2, <1>3, <1>4, WorkStep

LEMMA StatusRuns ==
  ASSUME GuardInv, NEW d \in Deliveries, NEW pc \in AfterGuards \cup {"done"}, Moves(d, pc),
         NEW status \in Worked, RecordStatus(d, status),
         UNCHANGED <<now, guards>>, delivery[d].pc \in AfterGuards \cup {"admitted"},
         (pc # "done" /\ sourceLock' = sourceLock) \/ (pc = "done" /\ sourceLock' = Tail(sourceLock))
  PROVE  GuardInv'
<1> DEFINE new == [webhookRun[d] EXCEPT !.status = status]
<1>1. webhookRun[d] \in RunTypes /\ Fate(d)
  BY WebhookFacts
<1>2. new \in RunTypes /\ new.status = status /\ new.pending = webhookRun[d].pending /\ new.terminal = webhookRun[d].terminal
  BY <1>1 DEF RunTypes
<1>3. webhookRun' = [webhookRun EXCEPT ![d] = new]
  BY DEF RecordStatus
<1>4. webhookRun[d].pending => webhookRun[d].terminal # "none"
  BY <1>1 DEF Fate
<1> HIDE DEF new
<1> QED BY <1>2, <1>3, <1>4, WorkRuns

LEMMA FinishRuns ==
  ASSUME GuardInv, NEW d \in Deliveries, NEW pc \in AfterGuards, Moves(d, pc),
         NEW status \in {"succeeded", "failed"}, webhookRun' = [webhookRun EXCEPT ![d] = FinishOnce(@, status)],
         UNCHANGED <<now, guards, sourceLock>>, delivery[d].pc \in AfterGuards
  PROVE  GuardInv'
<1>1. webhookRun[d] \in RunTypes /\ Fate(d)
  BY WebhookFacts
<1>2. PICK new : new = FinishOnce(webhookRun[d], status)
  OBVIOUS
<1>3. new \in RunTypes /\ new.status \in Worked /\ (new.pending => new.terminal # "none")
  BY <1>1, <1>2, FinishedOnce DEF Fate
<1>4. webhookRun' = [webhookRun EXCEPT ![d] = new] /\ pc # "done" /\ pc \in AfterGuards \cup {"done"}
  BY <1>2 DEF AfterGuards
<1> QED BY <1>3, <1>4, WorkRuns

LEMMA WorkHolds ==
  ASSUME GuardInv, NEW d \in Deliveries,
         \/ CreateWebhookRun(d) \/ OpenSession(d) \/ SendMessage(d) \/ SendingFails(d) \/ StartResponseUpdate(d)
         \/ RecordWebhookResponse(d) \/ ResponseUpdateFails(d) \/ FinishUnaccepted(d) \/ ReturnUnaccepted(d) \/ CatchError(d)
  PROVE  GuardInv'
<1>0. /\ {"session", "sending", "response", "recording", "cooling", "unaccepted", "finishing", "catch", "failing"} = AfterGuards
      /\ "done" \notin AfterGuards /\ {"accepted", "running", "failed", "succeeded"} = Worked
  BY DEF AfterGuards, Worked
<1>1. webhookRun[d] \in RunTypes /\ Fate(d) /\ delivery[d] \in DeliveryTypes
  BY WebhookFacts
<1>2. CASE CreateWebhookRun(d)
  BY <1>0, <1>2, StatusRuns DEF CreateWebhookRun, Is
<1>3. CASE OpenSession(d)
  <2>1. CASE Moves(d, "catch") /\ UNCHANGED webhookRun
    BY <1>0, <1>3, <2>1, WorkMoves DEF OpenSession, Is
  <2>2. CASE webhookRun' = [webhookRun EXCEPT ![d].monitor = "watching"] /\ Moves(d, "sending")
    <3>1. PICK new : new = [webhookRun[d] EXCEPT !.monitor = "watching"]
      OBVIOUS
    <3>2. /\ new \in RunTypes /\ new.status = webhookRun[d].status
          /\ new.pending = webhookRun[d].pending /\ new.terminal = webhookRun[d].terminal
      BY <1>1, <3>1 DEF RunTypes
    <3>3. webhookRun' = [webhookRun EXCEPT ![d] = new]
      BY <2>2, <3>1
    <3>4. delivery[d].pc = "session" /\ UNCHANGED <<now, guards, sourceLock>>
      BY <1>3 DEF OpenSession, Is
    <3>5. new.status \in Worked /\ (new.pending => new.terminal # "none")
      BY <1>0, <1>1, <3>2, <3>4 DEF Fate
    <3> QED BY <1>0, <2>2, <3>2, <3>3, <3>4, <3>5, WorkRuns
  <2> QED BY <1>3, <2>1, <2>2 DEF OpenSession
<1>4. CASE SendMessage(d)
  <2>0. delivery[d].pc = "sending" /\ UNCHANGED <<now, guards, sourceLock>>
    BY <1>4 DEF SendMessage, Is
  <2>1. CASE Moves(d, "response") /\ UNCHANGED webhookRun
    BY <1>0, <2>0, <2>1, WorkMoves
  <2>2. CASE /\ webhookRun' = [webhookRun EXCEPT ![d].session = "running"]
             /\ delivery' = [delivery EXCEPT ![d].pc = "response", ![d].accepted = TRUE]
    <3>1. PICK new : new = [webhookRun[d] EXCEPT !.session = "running"]
      OBVIOUS
    <3>2. PICK moved : moved = [delivery[d] EXCEPT !.pc = "response", !.accepted = TRUE]
      OBVIOUS
    <3>3. /\ new \in RunTypes /\ new.status = webhookRun[d].status
          /\ new.pending = webhookRun[d].pending /\ new.terminal = webhookRun[d].terminal
      BY <1>1, <3>1 DEF RunTypes
    <3>4. moved \in DeliveryTypes /\ moved.pc = "response" /\ moved.at = delivery[d].at /\ moved.marked = delivery[d].marked
      <4>1. "response" \in Places
        BY DEF Places, Inside, AfterGuards
      <4> QED BY <1>1, <3>2, <4>1 DEF DeliveryTypes
    <3>5. /\ webhookRun' \in [Deliveries -> RunTypes] /\ webhookRun'[d] = new
          /\ \A e \in Deliveries : e # d => webhookRun'[e] = webhookRun[e]
      BY <2>2, <3>1, <3>3, RunUpdate
    <3>6. /\ delivery' \in [Deliveries -> DeliveryTypes] /\ delivery'[d] = moved
          /\ \A e \in Deliveries : e # d => delivery'[e] = delivery[e]
      BY <2>2, <3>2, <3>4, DeliveryUpdate
    <3>7. new.status \in Worked /\ (new.pending => new.terminal # "none")
      BY <1>0, <1>1, <2>0, <3>3 DEF Fate
    <3>8. OneMoves(d) /\ WorksOrReturns(d)
      BY <1>0, <2>0, <3>4, <3>5, <3>6 DEF OneMoves, WorksOrReturns, Inside
    <3> QED BY <1>0, <2>0, <3>4, <3>5, <3>6, <3>7, <3>8, WorkStep
  <2> QED BY <1>4, <2>1, <2>2 DEF SendMessage
<1>5. CASE SendingFails(d)
  <2>1. delivery[d].pc = "sending" /\ UNCHANGED <<now, guards, sourceLock>>
    BY <1>5 DEF SendingFails, Is
  <2>2. \E status \in {"succeeded", "failed"}, pc \in {"failing", "catch"} :
          webhookRun' = [webhookRun EXCEPT ![d] = FinishOnce(@, status)] /\ Moves(d, pc)
    BY <1>5 DEF SendingFails
  <2> QED BY <1>0, <2>1, <2>2, FinishRuns
<1>6. CASE StartResponseUpdate(d)
  <2>0. delivery[d].pc = "response" /\ UNCHANGED <<now, guards, sourceLock, webhookRun>>
    BY <1>6 DEF StartResponseUpdate, Is
  <2>1. PICK moved : moved = [delivery[d] EXCEPT !.pc = "recording", !.seen = webhookRun[d].terminal]
    OBVIOUS
  <2>2. moved \in DeliveryTypes /\ moved.pc = "recording" /\ moved.at = delivery[d].at /\ moved.marked = delivery[d].marked
    <3>1. "recording" \in Places
      BY DEF Places, Inside, AfterGuards
    <3>2. webhookRun[d].terminal \in {"none", "succeeded", "failed"}
      BY <1>1 DEF RunTypes
    <3> QED BY <1>1, <2>1, <3>1, <3>2 DEF DeliveryTypes
  <2>3. /\ delivery' \in [Deliveries -> DeliveryTypes] /\ delivery'[d] = moved
        /\ \A e \in Deliveries : e # d => delivery'[e] = delivery[e]
    <3>1. delivery' = [delivery EXCEPT ![d] = moved]
      BY <1>6, <2>1 DEF StartResponseUpdate
    <3> QED BY <2>2, <3>1, DeliveryUpdate
  <2>4. webhookRun[d].status \in Worked /\ (webhookRun[d].pending => webhookRun[d].terminal # "none")
    BY <1>0, <1>1, <2>0 DEF Fate
  <2>5. OneMoves(d) /\ WorksOrReturns(d)
    BY <1>0, <2>0, <2>2, <2>3, WebhookFacts DEF OneMoves, WorksOrReturns, Inside, WebhookRecords
  <2> QED BY <1>0, <2>0, <2>2, <2>3, <2>4, <2>5, WorkStep
<1>7. CASE RecordWebhookResponse(d)
  <2>1. delivery[d].pc = "recording" /\ UNCHANGED <<now, guards, sourceLock>> /\ RecordStatus(d, ResponseStatus(d))
    BY <1>7 DEF RecordWebhookResponse, Is
  <2>2. ResponseStatus(d) \in Worked
    BY <1>0, <1>1 DEF ResponseStatus, DeliveryTypes
  <2>3. \E pc \in {"cooling", "unaccepted"} : Moves(d, pc)
    BY <1>7 DEF RecordWebhookResponse
  <2> QED BY <1>0, <2>1, <2>2, <2>3, StatusRuns
<1>8. CASE ResponseUpdateFails(d)
  BY <1>0, <1>8, WorkMoves DEF ResponseUpdateFails, Is
<1>9. CASE FinishUnaccepted(d)
  BY <1>0, <1>9, FinishRuns DEF FinishUnaccepted, Is
<1>10. CASE ReturnUnaccepted(d)
  BY <1>0, <1>10, WorkMoves DEF ReturnUnaccepted, Is, Returns
<1>11. CASE CatchError(d)
  BY <1>0, <1>11, StatusRuns DEF CatchError, Is, Returns
<1> QED BY <1>2, <1>3, <1>4, <1>5, <1>6, <1>7, <1>8, <1>9, <1>10, <1>11

(* The steps of its run. *)
LEMMA RunHolds ==
  ASSUME GuardInv, NEW d \in Deliveries, SessionEnds(d) \/ RunTimesOut(d) \/ RecordEnd(d)
  PROVE  GuardInv'
<1>1. webhookRun[d] \in RunTypes /\ Fate(d)
  BY WebhookFacts
<1>2. UNCHANGED <<now, guards, delivery, sourceLock>> /\ webhookRun[d].status \in Worked
  BY <1>1 DEF SessionEnds, RunTimesOut, RecordEnd, Fate
<1>3. ASSUME NEW new \in RunTypes, webhookRun' = [webhookRun EXCEPT ![d] = new],
             new.status \in Worked, new.pending => new.terminal # "none"
      PROVE  GuardInv'
  <2>1. /\ webhookRun' \in [Deliveries -> RunTypes] /\ webhookRun'[d] = new
        /\ \A e \in Deliveries : e # d => webhookRun'[e] = webhookRun[e]
    BY <1>3, RunUpdate
  <2> QED BY <1>2, <1>3, <2>1, BesideStep
<1>4. ASSUME NEW status \in {"succeeded", "failed"}, NEW session \in {"none", "running", "over"},
             webhookRun' = [webhookRun EXCEPT ![d] = [FinishOnce(webhookRun[d], status) EXCEPT !.session = session]]
      PROVE  GuardInv'
  <2>1. PICK finished : finished = FinishOnce(webhookRun[d], status)
    OBVIOUS
  <2>2. finished \in RunTypes /\ finished.status \in Worked /\ (finished.pending => finished.terminal # "none")
    BY <1>1, <1>2, <2>1, FinishedOnce DEF Fate
  <2>3. PICK new : new = [finished EXCEPT !.session = session]
    OBVIOUS
  <2>4. new \in RunTypes /\ new.status = finished.status /\ new.pending = finished.pending /\ new.terminal = finished.terminal
    BY <2>2, <2>3 DEF RunTypes
  <2> QED BY <1>3, <1>4, <2>1, <2>2, <2>3, <2>4
<1>5. CASE SessionEnds(d)
  BY <1>4, <1>5 DEF SessionEnds
<1>6. CASE RunTimesOut(d)
  <2>2. PICK session \in {"none", "running", "over"} :
          session = IF webhookRun[d].session = "running" THEN "over" ELSE webhookRun[d].session
    BY <1>1 DEF RunTypes
  <2>3. webhookRun' = [webhookRun EXCEPT ![d] = [FinishOnce(webhookRun[d], "failed") EXCEPT !.session = session]]
    BY <1>6, <2>2 DEF RunTimesOut
  <2> QED BY <1>4, <2>3
<1>7. CASE RecordEnd(d)
  <2>1. PICK new : new = [webhookRun[d] EXCEPT !.status = webhookRun[d].terminal, !.pending = FALSE]
    OBVIOUS
  <2>2. webhookRun[d].terminal \in {"succeeded", "failed"}
    BY <1>1, <1>7 DEF RecordEnd, Fate, RunTypes
  <2>3. new \in RunTypes /\ new.status \in Worked /\ ~new.pending
    BY <1>1, <2>1, <2>2 DEF RunTypes, Worked
  <2>4. webhookRun' = [webhookRun EXCEPT ![d] = new]
    BY <1>7, <2>1 DEF RecordEnd
  <2> QED BY <1>3, <2>3, <2>4
<1> QED BY <1>5, <1>6, <1>7

-----------------------------------------------------------------------------
(* The steps of the guards. *)
LEMMA Holder ==
  ASSUME GuardInv, NEW d \in Deliveries, delivery[d].pc \in Inside
  PROVE  /\ sourceLock # <<>> /\ Head(sourceLock) = d
         /\ \A e \in Deliveries : e # d => delivery[e].pc \notin Inside
BY DEF GuardInv, OneInside

(* Whoever is turned down has nothing to do with the guards any more. *)
LEMMA TurnedDown ==
  ASSUME GuardInv, NEW d \in Deliveries, Reject(d), now' = now, guards' \in GuardTypes,
         sourceLock # <<>>, Head(sourceLock) = d, delivery[d].pc \in Early \cup {"waiting"}
  PROVE  /\ WebhookRecords' /\ OneInside' /\ \A e \in Deliveries : Fate(e)'
         /\ delivery'[d].pc = "done" /\ webhookRun'[d].status = "rejected"
         /\ \A e \in Deliveries : delivery'[e].at = delivery[e].at /\ delivery'[e].marked = delivery[e].marked
         /\ \A e \in Deliveries : e # d => delivery'[e] = delivery[e] /\ webhookRun'[e] = webhookRun[e]
         /\ Counted' \subseteq Counted /\ Marked' \subseteq Marked
<1>1. /\ delivery' \in [Deliveries -> DeliveryTypes] /\ delivery'[d].pc = "done"
      /\ delivery'[d].at = delivery[d].at /\ delivery'[d].marked = delivery[d].marked
      /\ \A e \in Deliveries : e # d => delivery'[e] = delivery[e]
  BY MovesUpdate DEF Reject, Returns, Places
<1>2. /\ webhookRun' \in [Deliveries -> RunTypes] /\ webhookRun'[d].status = "rejected"
      /\ webhookRun'[d].monitor = webhookRun[d].monitor /\ webhookRun'[d].session = webhookRun[d].session
      /\ webhookRun'[d].pending = webhookRun[d].pending /\ webhookRun'[d].terminal = webhookRun[d].terminal
      /\ \A e \in Deliveries : e # d => webhookRun'[e] = webhookRun[e]
  BY StatusUpdate DEF Reject
<1>3. OneMoves(d) /\ WorksOrReturns(d)
  BY <1>1, <1>2 DEF OneMoves, WorksOrReturns, Reject, Returns
<1>4. OneInside' /\ sourceLock' \in Seq(Deliveries)
  BY <1>3, LockKept
<1>5. WebhookRecords /\ Fate(d)
  BY WebhookFacts
<1>6. WebhookRecords'
  BY <1>3, <1>4, <1>5 DEF WebhookRecords, OneMoves
<1>7. "done" \notin Inside /\ "done" \notin Early /\ "done" \notin AfterGuards /\ "rejected" \notin Worked /\ "none" \notin Worked
  BY DEF Inside, Early, AfterGuards, Worked
<1>8. Fate(d)'
  <2>1. webhookRun[d].status \notin Worked
    BY <1>5, <1>7 DEF Fate
  <2> QED BY <1>1, <1>2, <1>3, <1>5, <1>7, <2>1 DEF Fate, OneMoves
<1>9. Counted' \subseteq Counted /\ Marked' \subseteq Marked
  BY <1>1, <1>2, <1>7 DEF Counted, Marked, Admitted, Worked
<1> QED BY <1>1, <1>2, <1>3, <1>4, <1>6, <1>8, <1>9, FatesKept

LEMMA RejectHolds ==
  ASSUME GuardInv, NEW d \in Deliveries, Reject(d), UNCHANGED <<now, guards>>,
         sourceLock # <<>>, Head(sourceLock) = d, delivery[d].pc \in Early \cup {"waiting"}
  PROVE  GuardInv'
<1>1. WebhookRecords
  BY WebhookFacts
<1>2. /\ WebhookRecords' /\ OneInside' /\ \A e \in Deliveries : Fate(e)'
      /\ delivery'[d].pc = "done" /\ webhookRun'[d].status = "rejected"
      /\ \A e \in Deliveries : delivery'[e].at = delivery[e].at /\ delivery'[e].marked = delivery[e].marked
      /\ \A e \in Deliveries : e # d => delivery'[e] = delivery[e] /\ webhookRun'[e] = webhookRun[e]
  BY <1>1, TurnedDown DEF WebhookRecords
<1>3. "done" \notin Early /\ "done" \notin AfterGuards /\ "rejected" \notin Worked
  BY DEF Early, AfterGuards, Worked
<1>4. Calm
  BY <1>1, <1>2, <1>3 DEF Calm, WebhookRecords
<1> QED BY <1>2, <1>4, CalmKeepsGuards DEF GuardInv

(* The lock was got: time has gone by since the guards were left. *)
LEMMA EvaluateHolds ==
  ASSUME GuardInv, NEW d \in Deliveries, EvaluateGuards(d)
  PROVE  GuardInv'
<1>1. delivery[d].pc = "waiting" /\ Head(sourceLock) = d /\ UNCHANGED <<now, guards>>
  BY DEF EvaluateGuards, Is
<1>2. WebhookRecords /\ OneInside /\ Fate(d) /\ delivery[d] \in DeliveryTypes /\ now \in Nat \ {0}
  BY WebhookFacts DEF WebhookRecords
<1>3. sourceLock # <<>>
  <2>1. Queued(d, sourceLock) /\ sourceLock \in Seq(Deliveries)
    BY <1>1, <1>2 DEF OneInside, WebhookRecords
  <2> QED BY <2>1, EmptySeq DEF Queued
<1>4. CASE Reject(d)
  BY <1>1, <1>3, <1>4, RejectHolds
<1>5. CASE delivery' = [delivery EXCEPT ![d].pc = "rate", ![d].at = now] /\ UNCHANGED <<webhookRun, sourceLock>>
  <2>1. PICK new : new = [delivery[d] EXCEPT !.pc = "rate", !.at = now]
    OBVIOUS
  <2>2. new \in DeliveryTypes /\ new.pc = "rate" /\ new.at = now /\ new.marked = delivery[d].marked
    <3>1. "rate" \in Places
      BY DEF Places, Inside, Early
    <3> QED BY <1>2, <2>1, <3>1 DEF DeliveryTypes
  <2>3. /\ delivery' \in [Deliveries -> DeliveryTypes] /\ delivery'[d] = new
        /\ \A e \in Deliveries : e # d => delivery'[e] = delivery[e]
    BY <1>5, <2>1, <2>2, DeliveryUpdate
  <2>4. OneMoves(d) /\ WorksOrReturns(d) /\ "rate" \in Inside /\ "rate" \in Early
    BY <1>1, <1>2, <1>5, <2>2, <2>3 DEF OneMoves, WorksOrReturns, WebhookRecords, Inside, Early
  <2>5. OneInside' /\ WebhookRecords'
    BY <1>1, <1>2, <1>3, <2>3, <2>4, <1>5, LockKept DEF WebhookRecords
  <2>6. Fate(d)'
    BY <1>1, <1>2, <1>5, <2>2, <2>3 DEF Fate, Early, AfterGuards
  <2>7. "waiting" \notin Inside /\ webhookRun[d].status = "none" /\ "none" \notin Worked
    BY <1>1, <1>2 DEF Inside, Early, AfterGuards, Fate, Worked
  <2>8. Counted' = Counted /\ Marked' = Marked /\ d \notin Counted /\ d \notin Marked
    BY <1>1, <1>5, <2>2, <2>3, <2>7 DEF Counted, Marked, Admitted, Worked
  <2>9. \A e \in Deliveries : e # d => delivery'[e] = delivery[e] /\ e \in Deliveries
    BY <2>3
  <2>10. RateLeft'
    <3>1. /\ {e \in Counted : delivery[e].at >= guards.started}' = {e \in Counted : delivery[e].at >= guards.started}
          /\ {e \in Counted : delivery[e].at > guards.started}' = {e \in Counted : delivery[e].at > guards.started}
      BY <1>1, <2>8, <2>9 DEF Counted, Admitted
    <3>2. \A s, t \in Int : {e \in Counted' : delivery'[e].at >= s /\ delivery'[e].at < t} = Within(s, t)
      BY <2>8, <2>9 DEF Counted, Admitted, Within
    <3>3. PICK s \in Nat : s = guards.started /\ s = guards'.started
      BY <1>1, WebhookFacts
    <3>4. s <= now /\ delivery'[d].at = now /\ (\A e \in Deliveries : delivery[e].pc = "rate" => delivery[e].at >= s)
      BY <2>2, <2>3, <3>3 DEF GuardInv, RateLeft
    <3>5. \A e \in Deliveries : delivery'[e].pc = "rate" => delivery'[e].at >= s
      BY <2>9, <3>3, <3>4
    <3>6. s > 0 => \A e \in Counted' : delivery'[e].at < s + Window
      BY <2>8, <2>9, <3>3 DEF GuardInv, RateLeft, Counted, Admitted
    <3>7. Cardinality({e \in Counted' : delivery'[e].at >= s - Window + 1 /\ delivery'[e].at < s}) <= MaxRequests - 1
      <4>1. s - Window + 1 \in Int /\ s \in Int
        BY WebhookFacts
      <4>2. {e \in Counted' : delivery'[e].at >= s - Window + 1 /\ delivery'[e].at < s} = Within(s - Window + 1, s)
        BY <3>2, <4>1
      <4>3. Cardinality(Within(s - Window + 1, s)) <= MaxRequests - 1
        BY <3>3 DEF GuardInv, RateLeft
      <4> QED BY <4>2, <4>3
    <3>8. \A t \in Nat : Cardinality({e \in Counted' : delivery'[e].at >= t /\ delivery'[e].at < t + Window}) < 2 * MaxRequests
      <4>1. \A t \in Nat : Within(t, t + Window) = {e \in Counted' : delivery'[e].at >= t /\ delivery'[e].at < t + Window}
        BY <3>2, WebhookFacts
      <4> QED BY <4>1 DEF GuardInv, RateLeft
    <3> QED BY <1>1, <2>8, <3>1, <3>3, <3>4, <3>5, <3>6, <3>7, <3>8 DEF GuardInv, RateLeft, Within
  <2>11. \A t \in Nat, phases \in SUBSET Early : NotBefore(t, phases) =>
           now' >= t /\ \A e \in Deliveries : delivery'[e].pc \in phases => delivery'[e].at >= t
    BY <1>1, <2>2, <2>3 DEF NotBefore
  <2>12. DedupeLeft'
    <3>1. \A e \in Marked : e \in Deliveries /\ delivery'[e] = delivery[e] /\ delivery[e].at + DedupeTTL \in Nat
      BY <2>8, <2>9, WebhookFacts DEF Marked, Admitted
    <3>2. {"rate", "dedupe"} \in SUBSET Early
      BY DEF Early
    <3> QED BY <1>1, <2>8, <2>11, <3>1, <3>2 DEF GuardInv, DedupeLeft, NotBefore
  <2>13. CooldownLeft'
    <3>1. \A e \in Deliveries : delivery'[e].marked = delivery[e].marked /\ delivery[e].marked + CooldownTime \in Nat
      BY <2>2, <2>3, WebhookFacts
    <3>2. {"rate", "dedupe", "cooldown"} \in SUBSET Early
      BY DEF Early
    <3>3. CooldownIsKept'
      BY <2>2, <2>3, <3>1 DEF GuardInv, CooldownLeft, CooldownIsKept, Is
    <3> QED BY <1>1, <2>11, <3>1, <3>2, <3>3 DEF GuardInv, CooldownLeft, NotBefore
  <2> QED BY <2>4, <2>5, <2>6, <2>10, <2>12, <2>13, FatesKept DEF GuardInv
<1> QED BY <1>4, <1>5 DEF EvaluateGuards

(* What the guards leave alone when d moves on from one to the next, as far as the other ones are concerned. *)
LEMMA PassesOn ==
  ASSUME GuardInv, NEW d \in Deliveries, NEW pc \in {"dedupe", "cooldown", "admitted"}, Moves(d, pc),
         delivery[d].pc \in {"rate", "dedupe", "cooldown"}, guards' \in GuardTypes,
         UNCHANGED <<now, webhookRun, sourceLock>>
  PROVE  /\ WebhookRecords' /\ OneInside' /\ \A e \in Deliveries : Fate(e)'
         /\ delivery'[d].pc = pc
         /\ \A e \in Deliveries : delivery'[e].at = delivery[e].at /\ delivery'[e].marked = delivery[e].marked
         /\ \A e \in Deliveries : e # d => delivery'[e] = delivery[e] /\ delivery'[e].pc \notin Inside
         /\ Admitted' = Admitted
<1>0. pc \in Places /\ pc \in Inside /\ pc \in Early /\ delivery[d].pc \in Inside /\ delivery[d].pc \in Early /\ pc \notin AfterGuards
  BY DEF Places, Inside, Early, AfterGuards
<1>1. /\ delivery' \in [Deliveries -> DeliveryTypes] /\ delivery'[d].pc = pc
      /\ delivery'[d].at = delivery[d].at /\ delivery'[d].marked = delivery[d].marked
      /\ \A e \in Deliveries : e # d => delivery'[e] = delivery[e]
  BY <1>0, MovesUpdate
<1>2. WebhookRecords /\ OneInside /\ Fate(d)
  BY WebhookFacts
<1>3. sourceLock # <<>> /\ Head(sourceLock) = d /\ \A e \in Deliveries : e # d => delivery[e].pc \notin Inside
  BY <1>0, Holder
<1>4. OneMoves(d) /\ WorksOrReturns(d)
  BY <1>0, <1>1, <1>2 DEF OneMoves, WorksOrReturns, WebhookRecords
<1>5. OneInside' /\ WebhookRecords'
  BY <1>1, <1>2, <1>3, <1>4, LockKept DEF WebhookRecords
<1>6. Fate(d)'
  BY <1>0, <1>1, <1>2 DEF Fate
<1>7. Admitted' = Admitted
  BY <1>1 DEF Admitted
<1> QED BY <1>1, <1>3, <1>4, <1>5, <1>6, <1>7, FatesKept

(* The limit counts one more request, or begins a window with it. *)
LEMMA RateHolds ==
  ASSUME GuardInv, NEW d \in Deliveries, ConsumeRateLimit(d)
  PROVE  GuardInv'
<1> DEFINE at == delivery[d].at
<1>0. delivery[d].pc = "rate" /\ UNCHANGED now /\ "rate" \in Inside /\ "rate" \in Early
  BY DEF ConsumeRateLimit, Is, Inside, Early
<1>1. at \in Nat /\ at > 0 /\ at <= now /\ now \in Nat
  BY <1>0, WebhookFacts DEF Fate
<1>2. CASE Reject(d) /\ UNCHANGED guards
  BY <1>0, <1>2, Holder, RejectHolds
<1>3. ASSUME NEW s \in Nat, NEW n \in Nat, guards' = [guards EXCEPT !.started = s, !.count = n],
             Moves(d, "dedupe"), UNCHANGED <<webhookRun, sourceLock>>,
             \/ WindowOver(at) /\ s = at /\ n = 1
             \/ ~WindowOver(at) /\ guards.count < MaxRequests /\ s = guards.started /\ n = guards.count + 1
      PROVE  GuardInv'
  <2>1. guards \in GuardTypes
    BY WebhookFacts DEF WebhookRecords
  <2>2. /\ guards' \in GuardTypes /\ guards'.started = s /\ guards'.count = n
        /\ guards'.expires = guards.expires /\ guards'.cooling = guards.cooling
    BY <1>3, <2>1 DEF GuardTypes
  <2>3. /\ WebhookRecords' /\ OneInside' /\ \A e \in Deliveries : Fate(e)'
        /\ delivery'[d].pc = "dedupe"
        /\ \A e \in Deliveries : delivery'[e].at = delivery[e].at /\ delivery'[e].marked = delivery[e].marked
        /\ \A e \in Deliveries : e # d => delivery'[e] = delivery[e] /\ delivery'[e].pc \notin Inside
        /\ Admitted' = Admitted
    BY <1>0, <1>3, <2>2, PassesOn
  <2>4. Counted' \subseteq Counted \cup {d} /\ Counted \subseteq Deliveries /\ Marked' = Marked
    BY <1>0, <2>3 DEF Counted, Marked, Admitted
  <2>5. PICK old \in Nat : old = guards.started
    BY WebhookFacts
  <2>6. PICK count \in Nat : count = guards.count
    BY WebhookFacts
  <2>7. Window \in Nat \ {0} /\ MaxRequests \in Nat \ {0} /\ \A e \in Deliveries : delivery[e].at \in Nat
    BY WebhookFacts
  <2>8. /\ old <= now /\ (old = 0 => Counted = {}) /\ count <= MaxRequests
        /\ old > 0 =>
             /\ \A e \in Counted : delivery[e].at < old + Window
             /\ Cardinality({e \in Counted : delivery[e].at >= old}) <= count
             /\ Cardinality({e \in Counted : delivery[e].at > old}) <= count - 1
        /\ \A t \in Nat : Cardinality(Within(t, t + Window)) < 2 * MaxRequests
        /\ at >= old
    BY <1>0, <2>5, <2>6 DEF GuardInv, RateLeft
  <2>9. Cardinality(Within(old - Window + 1, old)) <= MaxRequests - 1
    BY <2>5 DEF GuardInv, RateLeft
  <2> DEFINE from(t) == {e \in Counted : delivery[e].at >= t}
             after(t) == {e \in Counted : delivery[e].at > t}
             from2(t) == {e \in Counted' : delivery'[e].at >= t}
             after2(t) == {e \in Counted' : delivery'[e].at > t}
             within2(x, y) == {e \in Counted' : delivery'[e].at >= x /\ delivery'[e].at < y}
  <2>10. \A t \in Int : from(t) \in SUBSET Deliveries /\ after(t) \in SUBSET Deliveries
    BY <2>4
  <2>11. \A t \in Int : from2(t) \in SUBSET (from(t) \cup {d}) /\ after2(t) \in SUBSET (after(t) \cup {d})
    BY <2>3, <2>4
  <2>12. \A x, y \in Int : /\ Within(x, y) \in SUBSET Deliveries
                           /\ within2(x, y) \in SUBSET (Within(x, y) \cup {d})
                           /\ ~(at >= x /\ at < y) => within2(x, y) \in SUBSET Within(x, y)
    BY <2>3, <2>4 DEF Within
  <2>13. /\ s <= now' /\ s > 0 /\ n <= MaxRequests /\ n >= 1
         /\ \A e \in Counted' : delivery'[e].at < s + Window
         /\ Cardinality(from2(s)) <= n
         /\ Cardinality(after2(s)) <= n - 1
         /\ Cardinality(within2(s - Window + 1, s)) <= MaxRequests - 1
         /\ \A t \in Nat : Cardinality(within2(t, t + Window)) < 2 * MaxRequests
    <3>1. CASE WindowOver(at) /\ s = at /\ n = 1
      <4>1. \A e \in Counted : delivery[e].at < at
        BY <2>4, <2>5, <2>7, <2>8, <3>1 DEF WindowOver
      <4>2. from(at) = {} /\ after2(at) = {}
        BY <2>3, <2>4, <2>7, <4>1
      <4>3. Cardinality(from2(at)) <= 1 /\ Cardinality(after2(at)) = 0
        <5>1. from2(at) \in SUBSET ({} \cup {d})
          BY <1>1, <2>11, <4>2
        <5> HIDE DEF from2, after2
        <5> QED BY <4>2, <5>1, OneMore, FS_EmptySet
      <4>4. \A t \in Nat : t > at - Window => Cardinality(Within(t, at)) \in Nat /\ Cardinality(Within(t, at)) <= MaxRequests - 1
        <5> TAKE t \in Nat
        <5> SUFFICES ASSUME t > at - Window
                     PROVE  Cardinality(Within(t, at)) \in Nat /\ Cardinality(Within(t, at)) <= MaxRequests - 1
          OBVIOUS
        <5>1. CASE old = 0
          <6>1. Within(t, at) = {}
            BY <2>8, <5>1 DEF Within
          <6> QED BY <2>7, <6>1, FS_EmptySet
        <5>2. CASE old > 0
          <6>1. Within(t, at) \in SUBSET after(old)
            BY <2>4, <2>5, <2>7, <3>1, <5>2 DEF WindowOver, Within
          <6>2. Cardinality(after(old)) <= count - 1 /\ after(old) \in SUBSET Deliveries
            BY <2>8, <2>10, <5>2
          <6> HIDE DEF after
          <6> QED BY <2>6, <2>7, <2>8, <6>1, <6>2, Fewer
        <5> QED BY <5>1, <5>2
      <4>5. Cardinality(within2(at - Window + 1, at)) <= MaxRequests - 1
        <5>1. CASE at - Window + 1 > 0
          <6>1. within2(at - Window + 1, at) \in SUBSET Within(at - Window + 1, at)
            BY <1>1, <2>7, <2>12
          <6>2. at - Window + 1 \in Nat /\ at - Window + 1 > at - Window
            BY <1>1, <2>7, <5>1
          <6>3. Within(at - Window + 1, at) \in SUBSET Deliveries /\ Cardinality(Within(at - Window + 1, at)) <= MaxRequests - 1
            BY <1>1, <2>12, <4>4, <6>2
          <6> HIDE DEF within2
          <6> QED BY <2>7, <6>1, <6>3, Fewer
        <5>2. CASE at - Window + 1 <= 0
          <6>1. within2(at - Window + 1, at) \in SUBSET Within(0, at)
            BY <1>1, <2>3, <2>4, <2>7, <5>2 DEF Within
          <6>2. 0 > at - Window
            BY <1>1, <2>7, <5>2
          <6>3. Within(0, at) \in SUBSET Deliveries /\ Cardinality(Within(0, at)) <= MaxRequests - 1
            BY <1>1, <2>12, <4>4, <6>2
          <6> HIDE DEF within2
          <6> QED BY <2>7, <6>1, <6>3, Fewer
        <5> QED BY <1>1, <2>7, <5>1, <5>2
      <4>6. ASSUME NEW t \in Nat PROVE Cardinality(within2(t, t + Window)) < 2 * MaxRequests
        <5>1. CASE at >= t /\ at < t + Window
          <6>1. within2(t, t + Window) \in SUBSET (Within(t, at) \cup {d})
            BY <1>1, <2>3, <2>4, <2>7, <4>1 DEF Within
          <6>2. t > at - Window
            BY <1>1, <2>7, <5>1
          <6>3. Within(t, at) \in SUBSET Deliveries /\ Cardinality(Within(t, at)) <= MaxRequests - 1
            BY <1>1, <2>12, <4>4, <6>2
          <6> HIDE DEF within2
          <6> QED BY <2>7, <6>1, <6>3, OneMore
        <5>2. CASE ~(at >= t /\ at < t + Window)
          <6>1. within2(t, t + Window) \in SUBSET Within(t, t + Window) /\ Within(t, t + Window) \in SUBSET Deliveries
            BY <2>7, <2>12, <5>2
          <6>2. Cardinality(Within(t, t + Window)) < 2 * MaxRequests
            BY <2>8
          <6> HIDE DEF within2
          <6> QED BY <2>7, <6>1, <6>2, Fewer
        <5> QED BY <5>1, <5>2
      <4>7. \A e \in Counted' : delivery'[e].at < at + Window
        BY <1>1, <2>3, <2>4, <2>7, <4>1
      <4> HIDE DEF from2, after2, within2
      <4> QED BY <1>0, <1>1, <2>7, <3>1, <4>3, <4>5, <4>6, <4>7
    <3>2. CASE ~WindowOver(at) /\ guards.count < MaxRequests /\ s = guards.started /\ n = guards.count + 1
      <4>1. s = old /\ n = count + 1 /\ count < MaxRequests /\ old > 0 /\ at < old + Window /\ at >= old
        BY <1>1, <2>5, <2>6, <2>7, <2>8, <3>2 DEF WindowOver
      <4>2. Cardinality(from2(old)) <= count + 1 /\ Cardinality(after2(old)) <= count
        <5>1. /\ from2(old) \in SUBSET (from(old) \cup {d}) /\ after2(old) \in SUBSET (after(old) \cup {d})
              /\ from(old) \in SUBSET Deliveries /\ after(old) \in SUBSET Deliveries
          BY <2>10, <2>11
        <5>2. Cardinality(from(old)) <= count /\ Cardinality(after(old)) <= count - 1
          BY <2>8, <4>1
        <5> HIDE DEF from, after, from2, after2
        <5> QED BY <2>6, <5>1, <5>2, OneMore
      <4>3. Cardinality(within2(old - Window + 1, old)) <= MaxRequests - 1
        <5>1. /\ within2(old - Window + 1, old) \in SUBSET Within(old - Window + 1, old)
              /\ Within(old - Window + 1, old) \in SUBSET Deliveries
          BY <1>1, <2>7, <2>12, <4>1
        <5> HIDE DEF within2
        <5> QED BY <2>7, <2>9, <5>1, Fewer
      <4>4. ASSUME NEW t \in Nat PROVE Cardinality(within2(t, t + Window)) < 2 * MaxRequests
        <5>1. CASE at >= t /\ at < t + Window
          <6>1. within2(t, t + Window) \in SUBSET (Within(old - Window + 1, old) \cup from2(old))
            <7>1. t >= old - Window + 1
              BY <1>1, <2>7, <4>1, <5>1
            <7> QED BY <2>3, <2>4, <2>7, <4>1, <7>1 DEF Within
          <6>2. Within(old - Window + 1, old) \in SUBSET Deliveries /\ from2(old) \in SUBSET Deliveries
            <7>1. old - Window + 1 \in Int /\ old \in Int
              BY <2>7
            <7>2. from2(old) \in SUBSET (from(old) \cup {d}) /\ from(old) \in SUBSET Deliveries
              BY <2>10, <2>11, <7>1
            <7> HIDE DEF from2, from
            <7> QED BY <2>12, <7>1, <7>2
          <6> HIDE DEF within2, from2
          <6> QED BY <2>6, <2>7, <2>9, <4>1, <4>2, <6>1, <6>2, TwoParts
        <5>2. CASE ~(at >= t /\ at < t + Window)
          <6>1. within2(t, t + Window) \in SUBSET Within(t, t + Window) /\ Within(t, t + Window) \in SUBSET Deliveries
            BY <2>7, <2>12, <5>2
          <6>2. Cardinality(Within(t, t + Window)) < 2 * MaxRequests
            BY <2>8
          <6> HIDE DEF within2
          <6> QED BY <2>7, <6>1, <6>2, Fewer
        <5> QED BY <5>1, <5>2
      <4>5. \A e \in Counted' : delivery'[e].at < old + Window
        BY <2>3, <2>4, <2>8, <4>1
      <4> HIDE DEF from2, after2, within2
      <4> QED BY <1>0, <2>6, <2>7, <2>8, <4>1, <4>2, <4>3, <4>4, <4>5
    <3> QED BY <1>3, <3>1, <3>2
  <2>14. RateLeft'
    <3>1. \A e \in Deliveries : delivery'[e].pc # "rate"
      BY <1>0, <2>3
    <3> QED BY <2>2, <2>13, <3>1 DEF RateLeft, Within
  <2>15. DedupeLeft'
    <3>1. \A e \in Marked : e \in Deliveries /\ delivery'[e].at = delivery[e].at
      BY <2>3 DEF Marked, Admitted
    <3>2. \A t \in Nat : NotBefore(t, {"rate", "dedupe"}) =>
            now' >= t /\ \A e \in Deliveries : delivery'[e].pc \in {"rate", "dedupe"} => delivery'[e].at >= t
      <4>1. \A e \in Deliveries : delivery'[e].pc \in {"rate", "dedupe"} => e = d
        BY <2>3 DEF Inside, Early
      <4> QED BY <1>0, <2>3, <4>1 DEF NotBefore
    <3>3. \A e \in Deliveries : delivery[e].at + DedupeTTL \in Nat
      BY WebhookFacts
    <3> QED BY <2>2, <2>4, <3>1, <3>2, <3>3 DEF GuardInv, DedupeLeft, NotBefore
  <2>16. CooldownLeft'
    <3>1. \A t \in Nat : NotBefore(t, {"rate", "dedupe", "cooldown"}) =>
            now' >= t /\ \A e \in Deliveries : delivery'[e].pc \in {"rate", "dedupe", "cooldown"} => delivery'[e].at >= t
      <4>1. \A e \in Deliveries : delivery'[e].pc \in {"rate", "dedupe", "cooldown"} => e = d
        BY <2>3 DEF Inside, Early
      <4> QED BY <1>0, <2>3, <4>1 DEF NotBefore
    <3>2. \A e \in Deliveries : delivery[e].marked + CooldownTime \in Nat
      BY WebhookFacts
    <3>3. CooldownIsKept'
      <4>1. \A e \in Deliveries : delivery'[e].pc # "admitted"
        BY <2>3 DEF Inside, Early
      <4> QED BY <4>1 DEF CooldownIsKept, Is
    <3> QED BY <2>2, <2>3, <3>1, <3>2, <3>3 DEF GuardInv, CooldownLeft, NotBefore
  <2> QED BY <2>3, <2>14, <2>15, <2>16 DEF GuardInv
<1> QED
  <2>1. guards.count + 1 \in Nat /\ guards.started \in Nat /\ 1 \in Nat
    BY WebhookFacts
  <2>2. CASE /\ WindowOver(at)
             /\ guards' = [guards EXCEPT !.started = at, !.count = 1]
             /\ Moves(d, "dedupe") /\ UNCHANGED <<webhookRun, sourceLock>>
    BY <1>1, <1>3, <2>1, <2>2
  <2>3. CASE /\ ~WindowOver(at) /\ guards.count < MaxRequests
             /\ guards' = [guards EXCEPT !.count = @ + 1]
             /\ Moves(d, "dedupe") /\ UNCHANGED <<webhookRun, sourceLock>>
    <3>1. guards' = [guards EXCEPT !.started = guards.started, !.count = guards.count + 1]
      BY <2>3, WebhookFacts DEF WebhookRecords, GuardTypes
    <3> QED BY <1>3, <2>1, <2>3, <3>1
  <2> QED BY <1>2, <2>2, <2>3 DEF ConsumeRateLimit

(* The cooldown goes by the time at which it was marked and by nothing else. *)
LEMMA CooldownKept ==
  ASSUME GuardInv, guards'.cooling = guards.cooling, now' = now,
         \A e \in Deliveries :
           /\ delivery'[e].at = delivery[e].at /\ delivery'[e].marked = delivery[e].marked
           /\ delivery'[e].pc \in {"rate", "dedupe", "cooldown"} => delivery[e].pc \in {"rate", "dedupe", "cooldown"}
           /\ delivery'[e].pc # "admitted"
  PROVE  CooldownLeft'
<1>1. CooldownIsKept'
  BY DEF CooldownIsKept, Is
<1>2. ASSUME NEW e \in Deliveries, delivery'[e].marked > 0
      PROVE  \/ guards'.cooling >= delivery'[e].marked + CooldownTime
             \/ now' >= delivery'[e].marked + CooldownTime
                  /\ \A x \in Deliveries : delivery'[x].pc \in {"rate", "dedupe", "cooldown"} =>
                       delivery'[x].at >= delivery'[e].marked + CooldownTime
  BY <1>2 DEF GuardInv, CooldownLeft, NotBefore
<1> QED BY <1>1, <1>2 DEF CooldownLeft, NotBefore

(* A key is stored with its time, and a stored key is removed only after its time. *)
LEMMA DedupeHolds ==
  ASSUME GuardInv, NEW d \in Deliveries, ConsumeDedupe(d)
  PROVE  GuardInv'
<1> DEFINE at == delivery[d].at
           kept == [j \in DedupeKeys |-> IF KeyKnown(j, at) THEN guards.expires[j] ELSE 0]
<1>1. /\ delivery[d].pc = "dedupe" /\ UNCHANGED now
      /\ "dedupe" \in Inside /\ "dedupe" \in Early /\ "rate" \in Inside /\ "cooldown" \in Inside /\ "admitted" \in Inside
  BY DEF ConsumeDedupe, Is, Inside, Early
<1>2. at \in Nat /\ at > 0 /\ at <= now /\ now \in Nat
  BY <1>1, WebhookFacts DEF Fate
<1>3. /\ guards \in GuardTypes /\ DedupeTTL \in Nat \ {0} /\ KeyOf[d] \in DedupeKeys
      /\ \A j \in DedupeKeys : guards.expires[j] \in Nat
  BY WebhookFacts DEF WebhookRecords
<1>4. /\ kept \in [DedupeKeys -> Nat]
      /\ \A j \in DedupeKeys : kept[j] \in Nat /\ (kept[j] = guards.expires[j] \/ guards.expires[j] <= at)
  BY <1>2, <1>3 DEF KeyKnown
<1>5. sourceLock # <<>> /\ Head(sourceLock) = d /\ \A e \in Deliveries : e # d => delivery[e].pc \notin Inside
  BY <1>1, Holder
<1>6. \A e \in Marked : /\ e \in Deliveries /\ delivery[e].at \in Nat /\ KeyOf[e] \in DedupeKeys
                        /\ \/ guards.expires[KeyOf[e]] >= delivery[e].at + DedupeTTL
                           \/ now >= delivery[e].at + DedupeTTL /\ at >= delivery[e].at + DedupeTTL
  <2>1. \A e \in Marked : e \in Deliveries
    BY DEF Marked, Admitted
  <2> QED BY <1>1, <2>1, WebhookFacts DEF GuardInv, DedupeLeft, NotBefore
(* Of the keys that are forgotten, nobody can come before the time any more. *)
<1>7. ASSUME NEW expires \in [DedupeKeys -> Nat], guards' = [guards EXCEPT !.expires = expires],
             \A j \in DedupeKeys : expires[j] >= guards.expires[j] \/ guards.expires[j] <= at
      PROVE  /\ guards' \in GuardTypes /\ guards'.expires = expires /\ guards'.cooling = guards.cooling
             /\ guards'.started = guards.started /\ guards'.count = guards.count
             /\ \A e \in Marked : expires[KeyOf[e]] >= delivery[e].at + DedupeTTL \/ now >= delivery[e].at + DedupeTTL
  <2>1. /\ guards' \in GuardTypes /\ guards'.expires = expires /\ guards'.cooling = guards.cooling
        /\ guards'.started = guards.started /\ guards'.count = guards.count
    BY <1>3, <1>7 DEF GuardTypes
  <2>2. ASSUME NEW e \in Marked
        PROVE  expires[KeyOf[e]] >= delivery[e].at + DedupeTTL \/ now >= delivery[e].at + DedupeTTL
    <3>1. /\ expires[KeyOf[e]] \in Nat /\ guards.expires[KeyOf[e]] \in Nat /\ delivery[e].at \in Nat
          /\ expires[KeyOf[e]] >= guards.expires[KeyOf[e]] \/ guards.expires[KeyOf[e]] <= at
      BY <1>3, <1>6, <1>7
    <3>2. guards.expires[KeyOf[e]] >= delivery[e].at + DedupeTTL \/ now >= delivery[e].at + DedupeTTL
      BY <1>6
    <3> QED BY <1>2, <1>3, <3>1, <3>2
  <2> QED BY <2>1, <2>2
<1>8. CASE KeyKnown(KeyOf[d], at)
  <2>1. guards' = [guards EXCEPT !.expires = kept] /\ Reject(d)
    BY <1>8 DEF ConsumeDedupe
  <2>2. /\ guards' \in GuardTypes /\ guards'.expires = kept /\ guards'.cooling = guards.cooling
        /\ guards'.started = guards.started /\ guards'.count = guards.count
        /\ \A e \in Marked : kept[KeyOf[e]] >= delivery[e].at + DedupeTTL \/ now >= delivery[e].at + DedupeTTL
    <3>1. \A j \in DedupeKeys : kept[j] >= guards.expires[j] \/ guards.expires[j] <= at
      BY <1>3, <1>4
    <3> HIDE DEF kept
    <3> QED BY <1>4, <1>7, <2>1, <3>1
  <2> HIDE DEF kept
  <2>3. /\ WebhookRecords' /\ OneInside' /\ \A e \in Deliveries : Fate(e)'
        /\ delivery'[d].pc = "done"
        /\ \A e \in Deliveries : delivery'[e].at = delivery[e].at /\ delivery'[e].marked = delivery[e].marked
        /\ \A e \in Deliveries : e # d => delivery'[e] = delivery[e]
        /\ Counted' \subseteq Counted /\ Marked' \subseteq Marked
    BY <1>1, <1>5, <2>1, <2>2, TurnedDown
  <2>4. \A e \in Deliveries : delivery'[e].pc \notin {"rate", "dedupe", "cooldown", "admitted"}
    BY <1>1, <1>5, <2>3
  <2>5. RateLeft'
    BY <1>1, <1>2, <2>2, <2>3, <2>4, RateKept
  <2>6. CooldownLeft'
    BY <1>1, <2>2, <2>3, <2>4, CooldownKept
  <2>7. DedupeLeft'
    <3>1. ASSUME NEW e \in Marked'
          PROVE  guards'.expires[KeyOf[e]] >= delivery'[e].at + DedupeTTL \/ now' >= delivery'[e].at + DedupeTTL
      BY <1>1, <1>6, <2>2, <2>3
    <3>2. \A e, f \in Marked' : KeyOf[e] = KeyOf[f] /\ delivery'[e].at <= delivery'[f].at /\ e # f =>
            delivery'[f].at - delivery'[e].at >= DedupeTTL
      BY <1>6, <2>3 DEF GuardInv, DedupeLeft
    <3> QED BY <2>4, <3>1, <3>2 DEF DedupeLeft, NotBefore
  <2> QED BY <2>3, <2>5, <2>6, <2>7 DEF GuardInv
<1>9. CASE ~KeyKnown(KeyOf[d], at)
  <2>1. PICK expires : expires = [kept EXCEPT ![KeyOf[d]] = at + DedupeTTL]
    OBVIOUS
  <2>2. guards' = [guards EXCEPT !.expires = expires] /\ Moves(d, "cooldown") /\ UNCHANGED <<webhookRun, sourceLock>>
    BY <1>9, <2>1 DEF ConsumeDedupe
  <2>3. guards.expires[KeyOf[d]] <= at
    BY <1>2, <1>3, <1>9 DEF KeyKnown
  <2>4. /\ expires \in [DedupeKeys -> Nat] /\ expires[KeyOf[d]] = at + DedupeTTL
        /\ \A j \in DedupeKeys : expires[j] >= guards.expires[j] \/ guards.expires[j] <= at
    <3> HIDE DEF kept
    <3>1. expires \in [DedupeKeys -> Nat] /\ expires[KeyOf[d]] = at + DedupeTTL
      BY <1>2, <1>3, <1>4, <2>1
    <3>2. \A j \in DedupeKeys : j # KeyOf[d] => expires[j] = kept[j]
      BY <1>4, <2>1
    <3> QED BY <1>3, <1>4, <2>3, <3>1, <3>2
  <2>5. /\ guards' \in GuardTypes /\ guards'.expires = expires /\ guards'.cooling = guards.cooling
        /\ guards'.started = guards.started /\ guards'.count = guards.count
        /\ \A e \in Marked : expires[KeyOf[e]] >= delivery[e].at + DedupeTTL \/ now >= delivery[e].at + DedupeTTL
    BY <1>7, <2>2, <2>4
  <2>6. /\ WebhookRecords' /\ OneInside' /\ \A e \in Deliveries : Fate(e)'
        /\ delivery'[d].pc = "cooldown"
        /\ \A e \in Deliveries : delivery'[e].at = delivery[e].at /\ delivery'[e].marked = delivery[e].marked
        /\ \A e \in Deliveries : e # d => delivery'[e] = delivery[e] /\ delivery'[e].pc \notin Inside
        /\ Admitted' = Admitted
    BY <1>1, <2>2, <2>5, PassesOn
  <2>7. Counted' \subseteq Counted /\ Marked' \subseteq Marked \cup {d}
    BY <1>1, <2>6 DEF Counted, Marked, Admitted
  <2>8. \A e \in Deliveries : /\ delivery'[e].pc \notin {"rate", "dedupe", "admitted"}
                              /\ delivery'[e].pc = "cooldown" => delivery[e].pc = "dedupe"
    BY <1>1, <2>6
  <2>9. RateLeft'
    BY <1>1, <1>2, <2>5, <2>6, <2>7, <2>8, RateKept
  <2>10. CooldownLeft'
    BY <1>1, <2>5, <2>6, <2>8, CooldownKept
  <2>11. DedupeLeft'
    <3>1. ASSUME NEW e \in Marked'
          PROVE  guards'.expires[KeyOf[e]] >= delivery'[e].at + DedupeTTL \/ now' >= delivery'[e].at + DedupeTTL
      <4>1. CASE e \in Marked
        BY <1>1, <1>6, <2>5, <2>6, <4>1
      <4>2. CASE e = d
        BY <1>2, <1>3, <2>4, <2>5, <2>6, <4>2
      <4> QED BY <2>7, <4>1, <4>2
    <3>2. ASSUME NEW e \in Marked, KeyOf[e] = KeyOf[d]
          PROVE  at >= delivery[e].at + DedupeTTL
      <4>1. delivery[e].at \in Nat /\ (guards.expires[KeyOf[d]] >= delivery[e].at + DedupeTTL \/ at >= delivery[e].at + DedupeTTL)
        BY <1>6, <3>2
      <4> QED BY <1>2, <1>3, <2>3, <4>1
    <3>3. ASSUME NEW e \in Marked', NEW f \in Marked', KeyOf[e] = KeyOf[f], delivery'[e].at <= delivery'[f].at, e # f
          PROVE  delivery'[f].at - delivery'[e].at >= DedupeTTL
      <4>1. delivery[e].at <= delivery[f].at /\ delivery'[f].at = delivery[f].at /\ delivery'[e].at = delivery[e].at
        BY <1>6, <2>6, <2>7, <3>3
      <4>2. CASE e \in Marked /\ f \in Marked
        BY <3>3, <4>1, <4>2 DEF GuardInv, DedupeLeft
      <4>3. CASE e \in Marked /\ f = d
        BY <1>2, <1>3, <1>6, <3>2, <3>3, <4>1, <4>3
      <4>4. CASE e = d /\ f \in Marked
        BY <1>2, <1>3, <1>6, <3>2, <3>3, <4>1, <4>4
      <4> QED BY <2>7, <3>3, <4>2, <4>3, <4>4
    <3> QED BY <2>8, <3>1, <3>3 DEF DedupeLeft, NotBefore
  <2> QED BY <2>6, <2>9, <2>10, <2>11 DEF GuardInv
<1> QED BY <1>8, <1>9

LEMMA DedupeKept ==
  ASSUME GuardInv, guards'.expires = guards.expires, now' = now, Marked' \subseteq Marked,
         \A e \in Deliveries :
           /\ delivery'[e].at = delivery[e].at
           /\ delivery'[e].pc \in {"rate", "dedupe"} => delivery[e].pc \in {"rate", "dedupe"}
  PROVE  DedupeLeft'
<1>1. \A e \in Marked : e \in Deliveries
  BY DEF Marked, Admitted
<1>2. ASSUME NEW e \in Marked'
      PROVE  \/ guards'.expires[KeyOf[e]] >= delivery'[e].at + DedupeTTL
             \/ now' >= delivery'[e].at + DedupeTTL
                  /\ \A x \in Deliveries : delivery'[x].pc \in {"rate", "dedupe"} => delivery'[x].at >= delivery'[e].at + DedupeTTL
  BY <1>1 DEF GuardInv, DedupeLeft, NotBefore
<1>3. \A e, f \in Marked' : KeyOf[e] = KeyOf[f] /\ delivery'[e].at <= delivery'[f].at /\ e # f =>
        delivery'[f].at - delivery'[e].at >= DedupeTTL
  BY <1>1 DEF GuardInv, DedupeLeft
<1> QED BY <1>2, <1>3 DEF DedupeLeft, NotBefore

(* Whoever is let in comes after the cooldown, so that the mark may be forgotten. *)
LEMMA CooldownHolds ==
  ASSUME GuardInv, NEW d \in Deliveries, CheckCooldown(d)
  PROVE  GuardInv'
<1> DEFINE at == delivery[d].at
<1>1. /\ delivery[d].pc = "cooldown" /\ UNCHANGED now
      /\ "cooldown" \in Inside /\ "cooldown" \in Early /\ "rate" \in Inside /\ "dedupe" \in Inside /\ "admitted" \in Inside
  BY DEF CheckCooldown, Is, Inside, Early
<1>2. at \in Nat /\ at <= now /\ now \in Nat /\ guards.cooling \in Nat /\ CooldownTime \in Nat /\ guards \in GuardTypes
  BY WebhookFacts DEF Fate, WebhookRecords
<1>3. CASE guards.cooling > at
  BY <1>1, <1>3, Holder, RejectHolds DEF CheckCooldown
<1>4. CASE ~(guards.cooling > at)
  <2>1. Moves(d, "admitted") /\ guards' = [guards EXCEPT !.cooling = 0] /\ UNCHANGED <<webhookRun, sourceLock>>
    BY <1>4 DEF CheckCooldown
  <2>2. /\ guards' \in GuardTypes /\ guards'.expires = guards.expires
        /\ guards'.started = guards.started /\ guards'.count = guards.count
    BY <1>2, <2>1 DEF GuardTypes
  <2>3. /\ WebhookRecords' /\ OneInside' /\ \A e \in Deliveries : Fate(e)'
        /\ delivery'[d].pc = "admitted"
        /\ \A e \in Deliveries : delivery'[e].at = delivery[e].at /\ delivery'[e].marked = delivery[e].marked
        /\ \A e \in Deliveries : e # d => delivery'[e] = delivery[e] /\ delivery'[e].pc \notin Inside
        /\ Admitted' = Admitted
    BY <1>1, <2>1, <2>2, PassesOn
  <2>4. Counted' \subseteq Counted /\ Marked' \subseteq Marked
    BY <1>1, <2>3 DEF Counted, Marked, Admitted
  <2>5. \A e \in Deliveries : delivery'[e].pc \notin {"rate", "dedupe", "cooldown"} /\ (delivery'[e].pc = "admitted" => e = d)
    BY <1>1, <2>3
  <2>6. RateLeft'
    BY <1>1, <1>2, <2>2, <2>3, <2>4, <2>5, RateKept
  <2>7. DedupeLeft'
    BY <1>1, <2>2, <2>3, <2>4, <2>5, DedupeKept
  <2>8. ASSUME NEW e \in Deliveries, delivery[e].marked > 0
        PROVE  at >= delivery[e].marked + CooldownTime
    <3>1. delivery[e].marked \in Nat
      BY WebhookFacts
    <3>2. \/ guards.cooling >= delivery[e].marked + CooldownTime
          \/ at >= delivery[e].marked + CooldownTime
      BY <1>1, <2>8 DEF GuardInv, CooldownLeft, NotBefore
    <3> QED BY <1>2, <1>4, <3>1, <3>2
  <2>9. CooldownIsKept'
    BY <2>3, <2>5, <2>8 DEF CooldownIsKept, Is
  <2>10. CooldownLeft'
    <3>1. ASSUME NEW e \in Deliveries, delivery'[e].marked > 0 PROVE now' >= delivery'[e].marked + CooldownTime
      <4>1. delivery[e].marked \in Nat /\ delivery'[e].marked = delivery[e].marked
        BY <2>3, WebhookFacts
      <4> QED BY <1>1, <1>2, <2>8, <3>1, <4>1
    <3> QED BY <2>5, <2>9, <3>1 DEF CooldownLeft, NotBefore
  <2> QED BY <2>3, <2>6, <2>7, <2>10 DEF GuardInv
<1> QED BY <1>3, <1>4

LEMMA MarkHolds ==
  ASSUME GuardInv, NEW d \in Deliveries, MarkCooldown(d)
  PROVE  GuardInv'
<1>1. /\ delivery[d].pc = "cooling" /\ UNCHANGED <<now, webhookRun>> /\ sourceLock' = Tail(sourceLock)
      /\ "cooling" \in AfterGuards /\ "cooling" \in Inside /\ "cooling" \notin {"rate", "dedupe"}
      /\ "done" \notin Inside /\ "done" \notin Early /\ "done" \notin AfterGuards /\ "done" \in Places
      /\ {"rate", "dedupe", "cooldown", "admitted"} \subseteq Inside
  BY DEF MarkCooldown, Is, Inside, Early, AfterGuards, Places
<1>2. WebhookRecords /\ Fate(d) /\ delivery[d] \in DeliveryTypes /\ now \in Nat \ {0} /\ CooldownTime \in Nat /\ guards \in GuardTypes
  BY WebhookFacts DEF WebhookRecords
<1>3. sourceLock # <<>> /\ Head(sourceLock) = d /\ \A e \in Deliveries : e # d => delivery[e].pc \notin Inside
  BY <1>1, Holder
<1>4. PICK new : new = [delivery[d] EXCEPT !.pc = "done", !.marked = now]
  OBVIOUS
<1>5. new \in DeliveryTypes /\ new.pc = "done" /\ new.at = delivery[d].at /\ new.marked = now
  BY <1>1, <1>2, <1>4 DEF DeliveryTypes
<1>6. /\ delivery' \in [Deliveries -> DeliveryTypes] /\ delivery'[d] = new
      /\ \A e \in Deliveries : e # d => delivery'[e] = delivery[e]
  BY <1>4, <1>5, DeliveryUpdate DEF MarkCooldown
<1>7. /\ guards' \in GuardTypes /\ guards'.expires = guards.expires /\ guards'.cooling = now + CooldownTime
      /\ guards'.started = guards.started /\ guards'.count = guards.count
  <2>1. guards' = [guards EXCEPT !.cooling = now + CooldownTime] /\ now + CooldownTime \in Nat
    BY <1>2 DEF MarkCooldown
  <2> QED BY <1>2, <2>1 DEF GuardTypes
<1>8. OneMoves(d) /\ WorksOrReturns(d)
  BY <1>1, <1>2, <1>5, <1>6 DEF OneMoves, WorksOrReturns, WebhookRecords
<1>9. OneInside' /\ WebhookRecords'
  BY <1>1, <1>2, <1>3, <1>7, <1>8, LockKept DEF WebhookRecords, OneMoves
<1>10. Fate(d)'
  <2>1. "done" # "new" /\ "done" \notin Early \cup {"new", "waiting"}
    BY <1>1
  <2> QED BY <1>1, <1>2, <1>5, <1>6, <2>1 DEF Fate
<1>11. \A e \in Deliveries : Fate(e)'
  BY <1>8, <1>10, FatesKept
<1>12. \A e \in Deliveries : delivery'[e].at = delivery[e].at /\ delivery'[e].pc \notin Inside
  BY <1>1, <1>3, <1>5, <1>6
<1>13. Counted' \subseteq Counted /\ Marked' \subseteq Marked
  <2>1. Admitted' = Admitted
    BY <1>1, <1>12 DEF Admitted
  <2> QED BY <1>12, <2>1 DEF Counted, Marked
<1>14. \A e \in Deliveries : delivery'[e].pc \notin {"rate", "dedupe", "cooldown", "admitted"}
  BY <1>1, <1>12
<1>15. RateLeft' /\ DedupeLeft'
  BY <1>1, <1>2, <1>7, <1>12, <1>13, <1>14, RateKept, DedupeKept
<1>16. CooldownLeft'
  <2>1. CooldownIsKept'
    BY <1>14 DEF CooldownIsKept, Is
  <2>2. \A e \in Deliveries : delivery'[e].marked \in Nat /\ delivery'[e].marked <= now
    <3>1. \A e \in Deliveries : delivery[e].marked \in Nat /\ delivery[e].marked <= now
      BY WebhookFacts DEF Fate
    <3> QED BY <1>2, <1>5, <1>6, <3>1
  <2>3. \A e \in Deliveries : guards'.cooling >= delivery'[e].marked + CooldownTime
    BY <1>2, <1>7, <2>2
  <2> QED BY <2>1, <2>3 DEF CooldownLeft
<1> QED BY <1>9, <1>11, <1>15, <1>16 DEF GuardInv

-----------------------------------------------------------------------------
(* A request comes, and what goes on beside the lock. *)
LEMMA ReceiveHolds ==
  ASSUME GuardInv, NEW d \in Deliveries, Receive(d)
  PROVE  GuardInv'
<1>1. delivery[d].pc = "new" /\ UNCHANGED <<now, guards>>
  BY DEF Receive, Is
<1>2. WebhookRecords /\ OneInside /\ Fate(d) /\ delivery[d].at = 0 /\ webhookRun[d].status = "none"
  BY <1>1, WebhookFacts DEF Fate
<1>3. /\ {"waiting", "done"} \subseteq Places /\ {"waiting", "done"} \cap Inside = {} /\ {"waiting", "done"} \cap Early = {}
      /\ {"waiting", "done"} \cap AfterGuards = {} /\ "new" \notin Inside /\ "none" \notin Worked /\ "rejected" \notin Worked
  BY DEF Places, Inside, Early, AfterGuards, Worked
<1>4. CASE Moves(d, "waiting") /\ sourceLock' = Append(sourceLock, d) /\ UNCHANGED webhookRun
  <2>1. /\ delivery' \in [Deliveries -> DeliveryTypes] /\ delivery'[d].pc = "waiting"
        /\ delivery'[d].at = delivery[d].at /\ delivery'[d].marked = delivery[d].marked
        /\ \A e \in Deliveries : e # d => delivery'[e] = delivery[e]
    BY <1>3, <1>4, MovesUpdate
  <2>2. /\ sourceLock' \in Seq(Deliveries) /\ sourceLock' # <<>> /\ (sourceLock # <<>> => Head(sourceLock') = Head(sourceLock))
        /\ Queued(d, sourceLock') /\ \A e \in Deliveries : Queued(e, sourceLock) => Queued(e, sourceLock')
    <3>1. sourceLock \in Seq(Deliveries)
      BY <1>2 DEF WebhookRecords
    <3> QED BY <1>4, <3>1, AppendQueued
  <2>3. OneInside'
    <3>1. ASSUME NEW e \in Deliveries
          PROVE  /\ delivery'[e].pc = "waiting" => Queued(e, sourceLock')
                 /\ delivery'[e].pc \in Inside => sourceLock' # <<>> /\ Head(sourceLock') = e
      BY <1>2, <1>3, <2>1, <2>2 DEF OneInside
    <3> QED BY <3>1 DEF OneInside
  <2>4. OneMoves(d) /\ WebhookRecords' /\ Calm
    BY <1>1, <1>2, <1>3, <1>4, <2>1, <2>2 DEF OneMoves, WebhookRecords, Calm
  <2>5. Fate(d)'
    BY <1>1, <1>2, <1>3, <1>4, <2>1 DEF Fate
  <2> QED BY <2>3, <2>4, <2>5, FatesKept, CalmKeepsGuards DEF GuardInv
<1>5. ASSUME NEW status \in {"rejected", "failed"}, RecordStatus(d, status), Moves(d, "done"), UNCHANGED sourceLock
      PROVE  GuardInv'
  <2>1. /\ delivery' \in [Deliveries -> DeliveryTypes] /\ delivery'[d].pc = "done"
        /\ delivery'[d].at = delivery[d].at /\ delivery'[d].marked = delivery[d].marked
        /\ \A e \in Deliveries : e # d => delivery'[e] = delivery[e]
    BY <1>3, <1>5, MovesUpdate
  <2>2. /\ webhookRun' \in [Deliveries -> RunTypes] /\ webhookRun'[d].status = status
        /\ webhookRun'[d].monitor = webhookRun[d].monitor /\ webhookRun'[d].session = webhookRun[d].session
        /\ webhookRun'[d].pending = webhookRun[d].pending /\ webhookRun'[d].terminal = webhookRun[d].terminal
        /\ \A e \in Deliveries : e # d => webhookRun'[e] = webhookRun[e]
    <3>1. status \in Worked \cup {"none", "rejected"}
      BY DEF Worked
    <3> QED BY <1>5, <3>1, StatusUpdate
  <2>3. OneInside'
    <3>1. ASSUME NEW e \in Deliveries
          PROVE  /\ delivery'[e].pc = "waiting" => Queued(e, sourceLock)
                 /\ delivery'[e].pc \in Inside => sourceLock # <<>> /\ Head(sourceLock) = e
      BY <1>2, <1>3, <2>1 DEF OneInside
    <3> QED BY <1>5, <3>1 DEF OneInside
  <2>4. OneMoves(d) /\ WebhookRecords'
    BY <1>1, <1>2, <1>5, <2>1, <2>2 DEF OneMoves, WebhookRecords
  <2>5. Calm
    BY <1>1, <1>2, <1>3, <2>1, <2>2 DEF WebhookRecords, Calm
  <2>6. Fate(d)'
    BY <1>1, <1>2, <1>3, <2>1, <2>2 DEF Fate
  <2> QED BY <2>3, <2>4, <2>5, <2>6, FatesKept, CalmKeepsGuards DEF GuardInv
<1> QED BY <1>4, <1>5 DEF Receive

LEMMA OutsideHolds ==
  ASSUME GuardInv, UNCHANGED <<guards, delivery, webhookRun, sourceLock>>, now' \in Nat, now' >= now
  PROVE  GuardInv'
<1>1. WebhookRecords /\ OneInside /\ (\A d \in Deliveries : Fate(d)) /\ now \in Nat \ {0}
      /\ \A d \in Deliveries : delivery[d].at \in Nat /\ delivery[d].marked \in Nat
  BY WebhookFacts DEF WebhookRecords
<1>2. WebhookRecords' /\ OneInside'
  BY <1>1 DEF WebhookRecords, OneInside
<1>3. \A d \in Deliveries : Fate(d)'
  BY <1>1 DEF Fate
<1>4. Calm
  BY DEF Calm
<1> QED BY <1>2, <1>3, <1>4, CalmKeepsGuards DEF GuardInv

(* A restart keeps what the guards have stored and forgets who was on the way to them. *)
LEMMA RestartHolds ==
  ASSUME GuardInv, Restart
  PROVE  GuardInv'
<1>1. UNCHANGED <<now, guards>> /\ sourceLock' = <<>>
  BY DEF Restart
<1>2. WebhookRecords /\ \A d \in Deliveries : Fate(d) /\ delivery[d] \in DeliveryTypes /\ webhookRun[d] \in RunTypes
  BY WebhookFacts
<1>3. /\ {"lost", "new", "done"} \subseteq Places /\ {"lost", "new", "done"} \cap Inside = {}
      /\ {"lost", "new", "done"} \cap Early = {} /\ {"lost", "new", "done"} \cap AfterGuards = {}
  BY DEF Places, Inside, Early, AfterGuards
<1>4. ASSUME NEW d \in Deliveries
      PROVE  /\ delivery'[d] \in DeliveryTypes /\ delivery'[d].at = delivery[d].at /\ delivery'[d].marked = delivery[d].marked
             /\ delivery'[d].pc = "lost" \/ delivery'[d].pc = delivery[d].pc
             /\ delivery'[d].pc \in {"lost", "new", "done"}
  <2>1. delivery'[d] = IF delivery[d].pc \in {"new", "done"} THEN delivery[d] ELSE [delivery[d] EXCEPT !.pc = "lost"]
    BY DEF Restart
  <2> QED BY <1>2, <1>3, <2>1 DEF DeliveryTypes
<1>5. ASSUME NEW d \in Deliveries
      PROVE  /\ webhookRun'[d] \in RunTypes /\ webhookRun'[d].status = webhookRun[d].status
             /\ webhookRun'[d].monitor = "none" /\ webhookRun'[d].session # "running" /\ ~webhookRun'[d].pending
  <2>1. PICK session \in {"none", "over"} :
          webhookRun'[d] = [webhookRun[d] EXCEPT !.monitor = "none", !.pending = FALSE, !.session = session]
    <3>1. webhookRun'[d] = [webhookRun[d] EXCEPT !.monitor = "none", !.pending = FALSE,
                              !.session = IF webhookRun[d].session = "running" THEN "over" ELSE webhookRun[d].session]
      BY <1>2 DEF Restart, RunTypes
    <3>2. webhookRun[d].session \in {"none", "running", "over"}
      BY <1>2 DEF RunTypes
    <3> QED BY <3>1, <3>2
  <2> QED BY <1>2, <2>1 DEF RunTypes
<1>6. WebhookRecords'
  <2>1. delivery' \in [Deliveries -> DeliveryTypes]
    <3>1. delivery' = [d \in Deliveries |-> delivery'[d]]
      BY DEF Restart
    <3> QED BY <1>4, <3>1
  <2>2. webhookRun' \in [Deliveries -> RunTypes]
    <3>1. webhookRun' = [d \in Deliveries |-> webhookRun'[d]]
      BY DEF Restart
    <3> QED BY <1>5, <3>1
  <2>3. sourceLock' \in Seq(Deliveries)
    BY <1>1
  <2> QED BY <1>1, <1>2, <2>1, <2>2, <2>3 DEF WebhookRecords
<1>7. OneInside'
  BY <1>3, <1>4 DEF OneInside
<1>8. ASSUME NEW d \in Deliveries PROVE Fate(d)'
  BY <1>1, <1>2, <1>3, <1>4, <1>5 DEF Fate
<1>9. Calm
  BY <1>1, <1>2, <1>3, <1>4, <1>5 DEF Calm, WebhookRecords
<1> QED BY <1>6, <1>7, <1>8, <1>9, CalmKeepsGuards DEF GuardInv

-----------------------------------------------------------------------------
LEMMA GuardsBegin == WebhookInit => GuardInv
<1> SUFFICES ASSUME WebhookInit PROVE GuardInv
  OBVIOUS
<1>1. /\ now = 1 /\ guards = [started |-> 0, count |-> 0, expires |-> [k \in DedupeKeys |-> 0], cooling |-> 0]
      /\ delivery = [d \in Deliveries |-> NewDelivery] /\ webhookRun = [d \in Deliveries |-> NoRun] /\ sourceLock = <<>>
  BY DEF WebhookInit
<1>2. NewDelivery \in DeliveryTypes /\ NoRun \in RunTypes
  BY DEF NewDelivery, NoRun, DeliveryTypes, RunTypes, Places
<1>3. guards \in GuardTypes
  BY <1>1 DEF GuardTypes
<1>4. WebhookRecords
  BY <1>1, <1>2, <1>3 DEF WebhookRecords
<1>5. \A d \in Deliveries : /\ delivery[d].pc = "new" /\ delivery[d].at = 0 /\ delivery[d].marked = 0 /\ webhookRun[d].status = "none"
                            /\ webhookRun[d].monitor = "none" /\ webhookRun[d].session = "none" /\ ~webhookRun[d].pending
  BY <1>1 DEF NewDelivery, NoRun
<1>6. "new" \notin Inside /\ "new" \notin AfterGuards /\ "none" \notin Worked
  BY DEF Inside, Early, AfterGuards, Worked
<1>7. OneInside /\ \A d \in Deliveries : Fate(d)
  BY <1>1, <1>5, <1>6 DEF OneInside, Fate
<1>8. Counted = {} /\ Marked = {}
  BY <1>5, <1>6 DEF Counted, Marked, Admitted
<1>9. RateLeft
  <2>1. \A s, t \in Int : Within(s, t) = {}
    BY <1>8 DEF Within
  <2>2. MaxRequests \in Nat \ {0} /\ Window \in Nat \ {0}
    BY WebhookAssumption
  <2>3. \A s, t \in Int : Cardinality(Within(s, t)) = 0
    BY <2>1, FS_EmptySet
  <2>4. guards.started = 0 /\ guards.count = 0
    BY <1>1
  <2>5. Cardinality(Within(guards.started - Window + 1, guards.started)) = 0 /\ \A t \in Nat : Cardinality(Within(t, t + Window)) = 0
    BY <2>2, <2>3, <2>4
  <2> QED BY <1>1, <1>5, <1>8, <2>2, <2>4, <2>5 DEF RateLeft
<1>10. DedupeLeft /\ CooldownLeft
  BY <1>5, <1>8 DEF DedupeLeft, CooldownLeft, CooldownIsKept, Is
<1> QED BY <1>4, <1>7, <1>9, <1>10 DEF GuardInv

LEMMA GuardsStep ==
  ASSUME GuardInv, [WebhookNext]_webhookVars
  PROVE  GuardInv'
<1> USE GuardInv
<1>1. CASE UNCHANGED webhookVars
  BY <1>1, OutsideHolds, WebhookFacts DEF webhookVars
<1>2. ASSUME NEW d \in Deliveries, Receive(d) PROVE GuardInv'
  BY <1>2, ReceiveHolds
<1>3. ASSUME NEW d \in Deliveries, Handles(d) PROVE GuardInv'
  BY <1>3, EvaluateHolds, RateHolds, DedupeHolds, CooldownHolds, MarkHolds, WorkHolds DEF Handles
<1>4. ASSUME NEW d \in Deliveries, SessionEnds(d) \/ RunTimesOut(d) \/ RecordEnd(d) PROVE GuardInv'
  BY <1>4, RunHolds
<1>5. CASE EditSource
  BY <1>5, OutsideHolds, WebhookFacts DEF EditSource
<1>6. CASE ClockTicks
  <2>1. now \in Nat /\ now' = now + 1
    BY <1>6, WebhookFacts DEF ClockTicks
  <2> QED BY <1>6, <2>1, OutsideHolds DEF ClockTicks
<1>7. CASE Restart
  BY <1>7, RestartHolds
<1> QED BY <1>1, <1>2, <1>3, <1>4, <1>5, <1>6, <1>7 DEF WebhookNext

(* What the guards have stored covers all that went by them, whatever is stopped by a restart (webhook.ts:425-691, under
   the lock of webhooks.ts:412). *)
THEOREM GuardInvariance == WebhookSpec => []GuardInv
<1>1. GuardInv /\ [WebhookNext]_webhookVars => GuardInv'
  BY GuardsStep
<1> QED BY <1>1, GuardsBegin, PTL DEF WebhookSpec

LEMMA GuardInvSuffices ==
  ASSUME GuardInv
  PROVE  GuardsHold
<1>1. Admitted \subseteq Counted /\ Admitted \subseteq Marked /\ Counted \subseteq Deliveries
  BY DEF Counted, Marked, Admitted
<1>2. AdmittedOncePerKey
  BY <1>1 DEF GuardInv, DedupeLeft, AdmittedOncePerKey
<1>3. RateIsLimited
  <2>1. ASSUME NEW d \in Admitted
        PROVE  Cardinality({e \in Admitted : delivery[e].at - delivery[d].at \in 0..(Window - 1)}) < 2 * MaxRequests
    <3>1. PICK t \in Nat : t = delivery[d].at
      BY <1>1, WebhookFacts
    <3> DEFINE near == {e \in Admitted : delivery[e].at - t \in 0..(Window - 1)}
    <3>2. near \in SUBSET Within(t, t + Window) /\ Within(t, t + Window) \in SUBSET Deliveries
      BY <1>1, WebhookFacts DEF Within
    <3>3. Cardinality(Within(t, t + Window)) < 2 * MaxRequests /\ MaxRequests \in Nat
      BY WebhookFacts DEF GuardInv, RateLeft
    <3>4. Cardinality(near) < 2 * MaxRequests
      <4> HIDE DEF near
      <4> QED BY <3>2, <3>3, Fewer
    <3> QED BY <3>1, <3>4
  <2> QED BY <2>1 DEF RateIsLimited
<1> QED BY <1>2, <1>3 DEF GuardInv, CooldownLeft, GuardsHold

(* A key is admitted once in its time, any stretch of time as long as a window admits less than two windows' worth of
   requests, and none is admitted while the source cools down, for any number of deliveries, limits and restarts
   (webhook.ts:425-691 and 486, under the lock of webhooks.ts:412). *)
THEOREM GuardsAreKept == WebhookSpec => []GuardsHold
<1>1. GuardInv => GuardsHold
  BY GuardInvSuffices
<1> QED BY <1>1, GuardInvariance, PTL

-----------------------------------------------------------------------------
(***************************************************************************)
(* SlotsAreKept and MissedIsSkipped of Schedule, for any number of tasks,  *)
(* calls, edits and outages.  One call at a time is behind the lock of a   *)
(* task (Standing); the next slot of a task is past all that were          *)
(* triggered, or the call that triggered it will still move it on, or the  *)
(* pass at startup will (SlotsFit).                                        *)
(***************************************************************************)
Working == {"session", "sending", "response", "failing", "triggered"}
Advancing == Working \cup {"overlap", "misfire", "advance"}
Behind == Advancing \cup {"due", "create", "disabled"}

WorkerTypes ==
  [pc : Behind \cup {"idle", "next", "waiting"}, kind : {"none", "startup", "tick", "manual"}, now : Nat,
   todo : SUBSET Tasks, task : Tasks \cup {NoTask}, slot : Nat, run : Nat]

RunRecords ==
  [task : Tasks, status : Statuses, reason : {"due", "manual", "overlap", "misfire", "disabled"}, slot : Nat,
   monitor : {"none", "watching", "finished"}, session : {"none", "running", "over"}, ending : {"none", "succeeded", "failed"}]

TaskRecords == [enabled : BOOLEAN, deleted : BOOLEAN, project : BOOLEAN, rule : {"interval", "once"}, next : Nat]

ScheduleRecords ==
  /\ clock \in Nat /\ startedAt \in Nat /\ startedAt <= clock
  /\ task \in [Tasks -> TaskRecords]
  /\ runs \in Seq(RunRecords)
  /\ worker \in [Workers -> WorkerTypes]
  /\ taskLock \in [Tasks -> Seq(Workers)]

Triggered(t) == {i \in DOMAIN runs : runs[i].task = t /\ runs[i].reason = "due"}

(* Where a call is, with the lock and the run that it has there. *)
Standing(w) ==
  LET c == worker[w] IN
  /\ c.pc # "idle" => startedAt <= c.now /\ c.now <= clock
  /\ c.kind = "tick" => scanning
  /\ c.pc \in {"idle", "next"} <=> c.task = NoTask
  /\ c.pc = "waiting" => Queued(w, taskLock[c.task])
  /\ c.pc \in Behind => taskLock[c.task] # <<>> /\ Head(taskLock[c.task]) = w
  /\ c.pc \in Working <=> c.run # 0
  /\ c.pc \in Working => c.run \in DOMAIN runs /\ runs[c.run].task = c.task
  /\ c.pc \in {"session", "sending", "failing"} => runs[c.run].session # "running"
  /\ c.pc = "idle" <=> c.kind = "none"
  /\ c.pc \in {"due", "overlap", "misfire", "advance"} => c.kind # "manual"
  /\ c.pc \in {"due", "create", "disabled"} => c.kind # "startup"

(* The slot that a call has read for its task. *)
SlotHeld(w) ==
  LET c == worker[w]
      t == task[c.task]
  IN c.pc \in Behind /\ c.kind # "manual" =>
       /\ 0 < c.slot /\ c.slot <= c.now
       /\ c.kind # "startup" => startedAt < c.slot
       /\ t.next # 0 => t.next >= c.slot
       /\ t.next = c.slot => t.enabled /\ ~t.deleted
       /\ \A i \in Triggered(c.task) : runs[i].slot <= c.slot /\ (c.pc \in {"due", "create"} => runs[i].slot < c.slot)

(* A call will move the task on to its next slot, or the pass at startup has it still before it. *)
WillAdvance(t) == \E w \in Workers : worker[w].pc \in Advancing /\ worker[w].kind # "manual" /\ worker[w].task = t

PassWillSkip(t) ==
  /\ ~scanning
  /\ \A w \in Workers : worker[w].kind = "startup" =>
       t \in worker[w].todo \/ (worker[w].pc = "waiting" /\ worker[w].task = t)

SlotsFit(t) ==
  /\ \A i \in Triggered(t) :
       /\ 0 < runs[i].slot /\ runs[i].slot <= clock
       /\ task[t].next # 0 => task[t].next >= runs[i].slot
       /\ task[t].next = runs[i].slot =>
            task[t].enabled /\ ~task[t].deleted /\ (runs[i].slot <= startedAt \/ WillAdvance(t))
  /\ task[t].enabled /\ ~task[t].deleted /\ task[t].next # 0 /\ task[t].next <= startedAt =>
       WillAdvance(t) \/ PassWillSkip(t)

(* A session that runs is to be seen in the stored run, unless its call has still to store that. *)
Shown(i) ==
  runs[i].session = "running" =>
    \/ runs[i].status \in ActiveStatus /\ runs[i].ending = "none"
    \/ \E w \in Workers : worker[w].run = i /\ worker[w].pc = "response"

(* Whoever is about to create a run after it has looked for an active one is right about that. *)
Cleared(w) ==
  worker[w].pc = "create" /\ worker[w].kind = "tick" => \A i \in DOMAIN runs : runs[i].task = worker[w].task => ~Works(i)

ScheduleInv ==
  /\ ScheduleRecords
  /\ \A w \in Workers : Standing(w) /\ SlotHeld(w) /\ Cleared(w)
  /\ \A t \in Tasks : SlotsFit(t)
  /\ \A i \in DOMAIN runs : Shown(i)
  /\ SlotsAreKept

-----------------------------------------------------------------------------
LEMMA ScheduleFacts ==
  ASSUME ScheduleInv
  PROVE  /\ ScheduleRecords
         /\ \A w \in Workers : Standing(w) /\ SlotHeld(w) /\ Cleared(w)
         /\ \A t \in Tasks : SlotsFit(t)
         /\ \A i \in DOMAIN runs : Shown(i)
         /\ SlotsAreKept
         /\ NoTask \notin Tasks
         /\ clock \in Nat /\ startedAt \in Nat /\ startedAt <= clock
         /\ \A w \in Workers : worker[w] \in WorkerTypes /\ worker[w].now \in Nat /\ worker[w].slot \in Nat
         /\ \A t \in Tasks : task[t] \in TaskRecords /\ task[t].next \in Nat /\ taskLock[t] \in Seq(Workers)
         /\ DOMAIN runs = 1..Len(runs) /\ Len(runs) \in Nat
         /\ \A i \in DOMAIN runs : runs[i] \in RunRecords /\ runs[i].slot \in Nat /\ runs[i].task \in Tasks
<1>1. ScheduleRecords
  BY DEF ScheduleInv
<1>2. \A w \in Workers : worker[w] \in WorkerTypes /\ worker[w].now \in Nat /\ worker[w].slot \in Nat
  BY <1>1 DEF ScheduleRecords, WorkerTypes
<1>3. \A t \in Tasks : task[t] \in TaskRecords /\ task[t].next \in Nat /\ taskLock[t] \in Seq(Workers)
  BY <1>1 DEF ScheduleRecords, TaskRecords
<1>4. DOMAIN runs = 1..Len(runs) /\ Len(runs) \in Nat /\ \A i \in DOMAIN runs : runs[i] \in RunRecords
  BY <1>1, LenProperties, ElementOfSeq DEF ScheduleRecords
<1>5. \A i \in DOMAIN runs : runs[i].slot \in Nat /\ runs[i].task \in Tasks
  BY <1>4 DEF RunRecords
<1> QED BY <1>1, <1>2, <1>3, <1>4, <1>5, ScheduleAssumption DEF ScheduleInv, ScheduleRecords

LEMMA SchedulePlaces ==
  /\ Working \subseteq Advancing /\ Advancing \subseteq Behind
  /\ {"idle", "next", "waiting"} \cap Behind = {} /\ {"due", "create", "disabled"} \cap Advancing = {}
  /\ {"due", "create", "disabled", "overlap", "misfire", "advance"} \cap Working = {}
  /\ "response" \in Working /\ {"session", "sending", "failing", "triggered"} \subseteq Working
  /\ {"overlap", "misfire", "advance"} \subseteq Advancing /\ {"due", "create", "disabled"} \subseteq Behind
BY DEF Working, Advancing, Behind

(* A call behind the lock of a task is the only one there. *)
LEMMA AloneBehind ==
  ASSUME ScheduleInv, NEW v \in Workers, NEW w \in Workers,
         worker[v].pc \in Behind, worker[w].pc \in Behind, worker[v].task = worker[w].task
  PROVE  v = w
BY DEF ScheduleInv, Standing

LEMMA BehindTask ==
  ASSUME ScheduleInv, NEW w \in Workers, worker[w].pc \in Behind \cup {"waiting"}
  PROVE  worker[w].task \in Tasks
<1>1. Standing(w) /\ worker[w] \in WorkerTypes
  BY ScheduleFacts
<1> QED BY <1>1, SchedulePlaces DEF Standing, WorkerTypes

LEMMA RunOfCall ==
  ASSUME ScheduleInv, NEW w \in Workers, NEW i \in DOMAIN runs, worker[w].run = i
  PROVE  worker[w].pc \in Working /\ worker[w].pc \in Behind /\ worker[w].task = runs[i].task
<1>1. Standing(w) /\ i # 0
  BY ScheduleFacts
<1> QED BY <1>1, SchedulePlaces DEF Standing

LEMMA OneCallPerRun ==
  ASSUME ScheduleInv, NEW v \in Workers, NEW w \in Workers, NEW i \in DOMAIN runs, worker[v].run = i, worker[w].run = i
  PROVE  v = w
BY RunOfCall, AloneBehind

-----------------------------------------------------------------------------
(* What a step leaves as it is, conjunct by conjunct.  New runs are neither triggered nor at work. *)
RunsLast ==
  /\ runs' \in Seq(RunRecords)
  /\ \A i \in DOMAIN runs : i \in DOMAIN runs' /\ runs'[i].task = runs[i].task /\ runs'[i].reason = runs[i].reason /\ runs'[i].slot = runs[i].slot

RunsAlike ==
  /\ RunsLast
  /\ \A i \in DOMAIN runs' \ DOMAIN runs : runs'[i].reason # "due" /\ runs'[i].session = "none"

(* Nobody but the call of a run sets its session going. *)
SessionSpared(v) == \A i \in DOMAIN runs : runs'[i].session = "running" => runs[i].session = "running" \/ worker[v].run # i

SessionsAlike(w) == \A i \in DOMAIN runs : runs'[i].session = "running" => runs[i].session = "running" \/ worker[w].run = i

WorksAlike(t) == \A i \in DOMAIN runs' : runs'[i].task = t /\ Works(i)' => i \in DOMAIN runs /\ Works(i)

TriggeredAlike(t) ==
  \A i \in DOMAIN runs' : runs'[i].task = t /\ runs'[i].reason = "due" => i \in Triggered(t) /\ runs'[i].slot = runs[i].slot

(* The schedule of a task is the same, or it is switched off, or it is set to begin after this moment. *)
TaskOnward(t) ==
  \/ task'[t].next = task[t].next /\ task'[t].enabled = task[t].enabled /\ task'[t].deleted = task[t].deleted
  \/ task'[t].next = 0
  \/ task'[t].next = clock + 1

LEMMA AlikeTriggered ==
  ASSUME ScheduleInv, RunsAlike, NEW t
  PROVE  TriggeredAlike(t)
BY DEF RunsAlike, RunsLast, Triggered, TriggeredAlike

LEMMA SparedByOther ==
  ASSUME ScheduleInv, NEW v \in Workers, NEW w \in Workers, v # w, SessionsAlike(w)
  PROVE  SessionSpared(v)
BY OneCallPerRun DEF SessionsAlike, SessionSpared

LEMMA StandKept ==
  ASSUME ScheduleInv, NEW v \in Workers, worker'[v] = worker[v],
         clock' \in Nat, clock' >= clock, startedAt' = startedAt, scanning => scanning',
         RunsLast, SessionSpared(v),
         \A t \in Tasks : /\ Queued(v, taskLock[t]) => Queued(v, taskLock'[t])
                          /\ taskLock[t] # <<>> /\ Head(taskLock[t]) = v => taskLock'[t] # <<>> /\ Head(taskLock'[t]) = v
  PROVE  Standing(v)'
<1> DEFINE c == worker[v]
<1>1. Standing(v) /\ c \in WorkerTypes /\ c.now \in Nat /\ clock \in Nat /\ startedAt \in Nat
  BY ScheduleFacts
<1>2. c.pc \in Behind \cup {"waiting"} => c.task \in Tasks
  BY BehindTask
<1>3. c.pc # "idle" => startedAt' <= c.now /\ c.now <= clock'
  BY <1>1 DEF Standing
<1>4. c.kind = "tick" => scanning'
  BY <1>1 DEF Standing
<1>5. /\ c.pc = "waiting" => Queued(v, taskLock'[c.task])
      /\ c.pc \in Behind => taskLock'[c.task] # <<>> /\ Head(taskLock'[c.task]) = v
  BY <1>1, <1>2 DEF Standing
<1>6. c.pc \in Working => c.run \in DOMAIN runs' /\ runs'[c.run].task = c.task
  BY <1>1 DEF Standing, RunsLast
<1>7. c.pc \in {"session", "sending", "failing"} => runs'[c.run].session # "running"
  <2>1. SUFFICES ASSUME c.pc \in {"session", "sending", "failing"} PROVE runs'[c.run].session # "running"
    OBVIOUS
  <2>2. c.run \in DOMAIN runs /\ runs[c.run].session # "running"
    BY <1>1, <2>1, SchedulePlaces DEF Standing
  <2> QED BY <2>2 DEF SessionSpared
<1>8. worker'[v] = c
  OBVIOUS
<1> HIDE DEF c
<1> QED BY <1>1, <1>3, <1>4, <1>5, <1>6, <1>7, <1>8 DEF Standing, c

LEMMA HeldKept ==
  ASSUME ScheduleInv, NEW v \in Workers, worker'[v] = worker[v], startedAt' = startedAt,
         worker[v].pc \in Behind => TaskOnward(worker[v].task) /\ TriggeredAlike(worker[v].task)
  PROVE  SlotHeld(v)'
<1> DEFINE c == worker[v]
<1>1. SUFFICES ASSUME c.pc \in Behind, c.kind # "manual"
      PROVE  /\ 0 < c.slot /\ c.slot <= c.now
             /\ c.kind # "startup" => startedAt < c.slot
             /\ task'[c.task].next # 0 => task'[c.task].next >= c.slot
             /\ task'[c.task].next = c.slot => task'[c.task].enabled /\ ~task'[c.task].deleted
             /\ \A i \in Triggered(c.task)' : runs'[i].slot <= c.slot /\ (c.pc \in {"due", "create"} => runs'[i].slot < c.slot)
  BY <1>1 DEF SlotHeld
<1>2. /\ SlotHeld(v) /\ Standing(v) /\ c.now \in Nat /\ c.slot \in Nat /\ clock \in Nat /\ c.task \in Tasks /\ TaskOnward(c.task)
      /\ TriggeredAlike(c.task)
  BY <1>1, ScheduleFacts, BehindTask
<1>3. 0 < c.slot /\ c.slot <= c.now /\ c.now <= clock /\ (c.kind # "startup" => startedAt < c.slot)
  BY <1>1, <1>2, SchedulePlaces DEF SlotHeld, Standing
<1>4. /\ task'[c.task].next # 0 => task'[c.task].next >= c.slot
      /\ task'[c.task].next = c.slot => task'[c.task].enabled /\ ~task'[c.task].deleted
  BY <1>1, <1>2, <1>3 DEF SlotHeld, TaskOnward
<1>5. \A i \in Triggered(c.task)' : runs'[i].slot <= c.slot /\ (c.pc \in {"due", "create"} => runs'[i].slot < c.slot)
  BY <1>1, <1>2 DEF SlotHeld, TriggeredAlike, Triggered
<1> QED BY <1>3, <1>4, <1>5

LEMMA FitKept ==
  ASSUME ScheduleInv, NEW t \in Tasks, TaskOnward(t), TriggeredAlike(t), startedAt' = startedAt, clock' \in Nat, clock' >= clock,
         WillAdvance(t) => WillAdvance(t)', PassWillSkip(t) => PassWillSkip(t)'
  PROVE  SlotsFit(t)'
<1>1. SlotsFit(t) /\ clock \in Nat /\ startedAt \in Nat /\ startedAt <= clock /\ \A i \in DOMAIN runs : runs[i].slot \in Nat
  BY ScheduleFacts
<1>2. ASSUME NEW i \in Triggered(t)'
      PROVE  /\ 0 < runs'[i].slot /\ runs'[i].slot <= clock'
             /\ task'[t].next # 0 => task'[t].next >= runs'[i].slot
             /\ task'[t].next = runs'[i].slot =>
                  task'[t].enabled /\ ~task'[t].deleted /\ (runs'[i].slot <= startedAt \/ WillAdvance(t)')
  <2>1. i \in Triggered(t) /\ i \in DOMAIN runs /\ runs'[i].slot = runs[i].slot
    BY <1>2 DEF TriggeredAlike, Triggered
  <2>2. 0 < runs[i].slot /\ runs[i].slot <= clock /\ runs[i].slot \in Nat
    BY <1>1, <2>1 DEF SlotsFit
  <2>3. CASE task'[t].next = task[t].next /\ task'[t].enabled = task[t].enabled /\ task'[t].deleted = task[t].deleted
    <3> HIDE DEF WillAdvance
    <3> QED BY <1>1, <2>1, <2>2, <2>3 DEF SlotsFit
  <2>4. CASE task'[t].next = 0
    BY <1>1, <2>1, <2>2, <2>4
  <2>5. CASE task'[t].next = clock + 1
    BY <1>1, <2>1, <2>2, <2>5
  <2> QED BY <2>3, <2>4, <2>5 DEF TaskOnward
<1>3. task'[t].enabled /\ ~task'[t].deleted /\ task'[t].next # 0 /\ task'[t].next <= startedAt =>
        WillAdvance(t)' \/ PassWillSkip(t)'
  <2>1. SUFFICES ASSUME task'[t].enabled, ~task'[t].deleted, task'[t].next # 0, task'[t].next <= startedAt
        PROVE  WillAdvance(t) \/ PassWillSkip(t)
    OBVIOUS
  <2>2. task'[t].next = task[t].next /\ task'[t].enabled = task[t].enabled /\ task'[t].deleted = task[t].deleted
    <3>1. task'[t].next # 0 /\ task'[t].next # clock + 1
      BY ONLY <1>1, <2>1, startedAt' = startedAt
    <3> QED BY ONLY <3>1, TaskOnward(t), Zenon DEF TaskOnward
  <2>3. task[t].next # 0 /\ task[t].next <= startedAt
    BY <2>1, <2>2
  <2>4. task[t].enabled /\ ~task[t].deleted
    BY ONLY <2>1, <2>2, Zenon
  <2> HIDE DEF WillAdvance, PassWillSkip
  <2> QED BY <1>1, <2>3, <2>4 DEF SlotsFit
<1> QED BY <1>2, <1>3 DEF SlotsFit, Triggered

LEMMA ClearKept ==
  ASSUME ScheduleInv, NEW v \in Workers, worker'[v] = worker[v], RunsLast, worker[v].pc = "create" => WorksAlike(worker[v].task)
  PROVE  Cleared(v)'
<1>1. Cleared(v)
  BY ScheduleFacts
<1>2. SUFFICES ASSUME worker[v].pc = "create", worker[v].kind = "tick", NEW i \in DOMAIN runs', runs'[i].task = worker[v].task, Works(i)'
      PROVE  FALSE
  BY DEF Cleared
<1>3. i \in DOMAIN runs /\ Works(i) /\ runs[i].task = worker[v].task
  BY <1>2 DEF WorksAlike, RunsLast
<1> QED BY <1>1, <1>2, <1>3 DEF Cleared

LEMMA SlotsKept ==
  ASSUME ScheduleInv, RunsAlike, \A t : WorksAlike(t)
  PROVE  SlotsAreKept'
<1>1. SlotTriggeredOnce /\ DueRunsDoNotOverlap
  BY ScheduleFacts DEF SlotsAreKept
<1>2. ASSUME NEW i \in DOMAIN runs', runs'[i].reason = "due"
      PROVE  i \in DOMAIN runs /\ runs[i].reason = "due" /\ runs'[i].task = runs[i].task /\ runs'[i].slot = runs[i].slot
  BY <1>2 DEF RunsAlike, RunsLast
<1>3. SlotTriggeredOnce'
  BY <1>1, <1>2 DEF SlotTriggeredOnce
<1>4. DueRunsDoNotOverlap'
  BY <1>1, <1>2 DEF DueRunsDoNotOverlap, WorksAlike
<1> QED BY <1>3, <1>4 DEF SlotsAreKept

-----------------------------------------------------------------------------
(* A step of the call w. *)
OthersAlike(w) ==
  /\ clock' = clock /\ startedAt' = startedAt /\ (scanning => scanning')
  /\ RunsAlike /\ SessionsAlike(w) /\ worker'[w].run \in {0, worker[w].run}
  /\ \A v \in Workers : v # w =>
       /\ worker'[v] = worker[v]
       /\ \A t \in Tasks : /\ Queued(v, taskLock[t]) => Queued(v, taskLock'[t])
                           /\ taskLock[t] # <<>> /\ Head(taskLock[t]) = v => taskLock'[t] # <<>> /\ Head(taskLock'[t]) = v
  /\ \A t \in Tasks : TaskOnward(t) \/ (worker[w].pc \in Behind /\ worker[w].task = t)

LEMMA WorksAlikeFrom ==
  ASSUME ScheduleInv, NEW w \in Workers, OthersAlike(w)
  PROVE  \A t : WorksAlike(t)
<1>1. SUFFICES ASSUME NEW i \in DOMAIN runs', Works(i)' PROVE i \in DOMAIN runs /\ Works(i)
  BY DEF WorksAlike
<1>2. CASE runs'[i].session = "running"
  <2>1. i \in DOMAIN runs
    BY <1>2 DEF OthersAlike, RunsAlike, RunsLast
  <2> QED BY <1>2, <2>1 DEF OthersAlike, SessionsAlike, Works
<1>3. CASE \E v \in Workers : worker'[v].run = i
  <2>1. PICK v \in Workers : worker'[v].run = i
    BY <1>3
  <2>2. i # 0
    BY ElementOfSeq, LenProperties DEF OthersAlike, RunsAlike, RunsLast
  <2>3. worker[v].run = i
    BY <2>1, <2>2 DEF OthersAlike
  <2>4. i \in DOMAIN runs
    BY <2>2, <2>3, ScheduleFacts DEF Standing
  <2> QED BY <2>3, <2>4 DEF Works
<1> QED BY <1>1, <1>2, <1>3 DEF Works

LEMMA OthersKept ==
  ASSUME ScheduleInv, NEW w \in Workers, OthersAlike(w), NEW v \in Workers, v # w
  PROVE  Standing(v)' /\ SlotHeld(v)' /\ Cleared(v)'
<1>1. /\ worker'[v] = worker[v] /\ clock' = clock /\ startedAt' = startedAt /\ (scanning => scanning') /\ RunsAlike /\ RunsLast
      /\ \A t \in Tasks : /\ Queued(v, taskLock[t]) => Queued(v, taskLock'[t])
                          /\ taskLock[t] # <<>> /\ Head(taskLock[t]) = v => taskLock'[t] # <<>> /\ Head(taskLock'[t]) = v
  BY DEF OthersAlike, RunsAlike
<1>2. clock \in Nat
  BY ScheduleFacts
<1>3. SessionSpared(v)
  BY SparedByOther DEF OthersAlike
<1>4. Standing(v)'
  BY <1>1, <1>2, <1>3, StandKept
<1>5. worker[v].pc \in Behind => TaskOnward(worker[v].task) /\ TriggeredAlike(worker[v].task)
  BY <1>1, AloneBehind, BehindTask, AlikeTriggered DEF OthersAlike
<1>6. SlotHeld(v)'
  BY <1>1, <1>5, HeldKept
<1>7. Cleared(v)'
  BY <1>1, WorksAlikeFrom, ClearKept
<1> QED BY <1>4, <1>6, <1>7

LEMMA CallStep ==
  ASSUME ScheduleInv, NEW w \in Workers, OthersAlike(w), ScheduleRecords', Standing(w)', SlotHeld(w)', Cleared(w)',
         \A t \in Tasks : SlotsFit(t)', \A i \in DOMAIN runs' : Shown(i)'
  PROVE  ScheduleInv'
<1>1. \A v \in Workers : Standing(v)' /\ SlotHeld(v)' /\ Cleared(v)'
  BY OthersKept
<1>2. SlotsAreKept'
  BY WorksAlikeFrom, SlotsKept DEF OthersAlike
<1> QED BY <1>1, <1>2 DEF ScheduleInv

LEMMA ShownKept ==
  ASSUME ScheduleInv, NEW w \in Workers, OthersAlike(w), NEW i \in DOMAIN runs',
         i \in DOMAIN runs => runs'[i] = runs[i] /\ ~(worker[w].pc = "response" /\ worker[w].run = i)
  PROVE  Shown(i)'
<1>1. SUFFICES ASSUME runs'[i].session = "running"
      PROVE  \/ runs'[i].status \in ActiveStatus /\ runs'[i].ending = "none"
             \/ \E v \in Workers : worker'[v].run = i /\ worker'[v].pc = "response"
  BY DEF Shown
<1>2. i \in DOMAIN runs
  BY <1>1 DEF OthersAlike, RunsAlike, RunsLast
<1>3. Shown(i)
  BY <1>2, ScheduleFacts
<1> QED BY <1>1, <1>2, <1>3 DEF Shown, OthersAlike

LEMMA FitByCall ==
  ASSUME ScheduleInv, NEW w \in Workers, OthersAlike(w), NEW t \in Tasks, TaskOnward(t),
         worker[w].pc \in Advancing /\ worker[w].kind # "manual" /\ worker[w].task = t =>
           worker'[w].pc \in Advancing /\ worker'[w].kind # "manual" /\ worker'[w].task = t,
         PassWillSkip(t) => ~scanning' /\ (worker'[w].kind = "startup" =>
           t \in worker'[w].todo \/ (worker'[w].pc = "waiting" /\ worker'[w].task = t))
  PROVE  SlotsFit(t)'
<1>1. WillAdvance(t) => WillAdvance(t)'
  BY DEF WillAdvance, OthersAlike
<1>2. PassWillSkip(t) => PassWillSkip(t)'
  BY DEF PassWillSkip, OthersAlike
<1>3. TriggeredAlike(t) /\ startedAt' = startedAt /\ clock' \in Nat /\ clock' >= clock
  BY ScheduleFacts, AlikeTriggered DEF OthersAlike
<1> QED BY <1>1, <1>2, <1>3, FitKept

(* A call that goes on behind the lock it holds. *)
LEMMA WorksOn ==
  ASSUME ScheduleInv, NEW w \in Workers, OthersAlike(w), UNCHANGED <<clock, task, taskLock, scanning, startedAt>>,
         worker' \in [Workers -> WorkerTypes],
         worker[w].pc \in Behind, worker'[w].pc \in Behind,
         worker'[w].kind = worker[w].kind, worker'[w].now = worker[w].now, worker'[w].todo = worker[w].todo,
         worker'[w].task = worker[w].task, worker'[w].slot = worker[w].slot,
         worker[w].pc \in Advancing => worker'[w].pc \in Advancing,
         worker'[w].pc \in Working <=> worker'[w].run # 0,
         worker'[w].pc \in {"session", "sending", "failing"} => runs'[worker'[w].run].session # "running",
         worker'[w].pc \in {"overlap", "misfire", "advance"} => worker[w].kind # "manual",
         worker'[w].pc \in {"due", "create", "disabled"} => worker[w].pc = "due",
         Cleared(w)', \A i \in DOMAIN runs' : Shown(i)'
  PROVE  ScheduleInv'
<1> DEFINE c == worker[w]
           d == worker'[w]
<1>1. Standing(w) /\ SlotHeld(w) /\ c \in WorkerTypes /\ d \in WorkerTypes /\ c.task \in Tasks
  BY ScheduleFacts, BehindTask
<1>2. ScheduleRecords'
  BY ScheduleFacts DEF ScheduleRecords, OthersAlike, RunsAlike, RunsLast
<1>3. Standing(w)'
  <2>1. d.pc # "idle" => startedAt' <= d.now /\ d.now <= clock'
    BY <1>1, SchedulePlaces DEF Standing
  <2>2. d.kind = "tick" => scanning'
    BY <1>1 DEF Standing
  <2>3. d.pc \in {"idle", "next"} <=> d.task = NoTask
    BY <1>1, SchedulePlaces, ScheduleAssumption
  <2>4. d.pc = "waiting" => Queued(w, taskLock'[d.task])
    BY SchedulePlaces
  <2>5. d.pc \in Behind => taskLock'[d.task] # <<>> /\ Head(taskLock'[d.task]) = w
    BY <1>1 DEF Standing
  <2>6. d.pc \in Working => d.run \in DOMAIN runs' /\ runs'[d.run].task = d.task
    <3>1. SUFFICES ASSUME d.pc \in Working PROVE c.run \in DOMAIN runs' /\ runs'[c.run].task = c.task /\ d.run = c.run
      OBVIOUS
    <3>2. d.run # 0 /\ d.run = c.run
      BY <3>1 DEF OthersAlike
    <3>3. c.run \in DOMAIN runs /\ runs[c.run].task = c.task
      BY <3>2, <1>1 DEF Standing
    <3> QED BY <3>2, <3>3 DEF OthersAlike, RunsAlike, RunsLast
  <2>7. d.pc # "idle" /\ d.kind # "none"
    BY <1>1, SchedulePlaces DEF Standing
  <2>8. d.pc \in {"due", "overlap", "misfire", "advance"} => d.kind # "manual"
    BY <1>1 DEF Standing
  <2>9. d.pc \in {"due", "create", "disabled"} => d.kind # "startup"
    BY <1>1 DEF Standing
  <2>10. d.pc \in Working <=> d.run # 0
    OBVIOUS
  <2>11. d.pc \in {"session", "sending", "failing"} => runs'[d.run].session # "running"
    OBVIOUS
  <2> HIDE DEF d
  <2> QED BY <2>1, <2>2, <2>3, <2>4, <2>5, <2>6, <2>7, <2>8, <2>9, <2>10, <2>11 DEF Standing, d
<1>4. SlotHeld(w)'
  <2>1. SUFFICES ASSUME c.kind # "manual"
        PROVE  /\ 0 < c.slot /\ c.slot <= c.now
               /\ c.kind # "startup" => startedAt < c.slot
               /\ task[c.task].next # 0 => task[c.task].next >= c.slot
               /\ task[c.task].next = c.slot => task[c.task].enabled /\ ~task[c.task].deleted
               /\ \A i \in Triggered(c.task)' : runs'[i].slot <= c.slot /\ (d.pc \in {"due", "create"} => runs'[i].slot < c.slot)
    BY <2>1 DEF SlotHeld
  <2>2. \A i \in Triggered(c.task)' : i \in Triggered(c.task) /\ runs'[i].slot = runs[i].slot
    BY AlikeTriggered DEF OthersAlike, TriggeredAlike, Triggered
  <2> QED BY <1>1, <2>1, <2>2 DEF SlotHeld
<1>5. ASSUME NEW t \in Tasks PROVE SlotsFit(t)'
  <2>1. TaskOnward(t)
    BY DEF TaskOnward
  <2>2. c.pc # "waiting" /\ d.pc # "waiting"
    BY SchedulePlaces
  <2>3. PassWillSkip(t) => ~scanning' /\ (d.kind = "startup" => t \in d.todo \/ (d.pc = "waiting" /\ d.task = t))
    BY <2>2 DEF PassWillSkip
  <2> QED BY <2>1, <2>3, FitByCall
<1> QED BY <1>2, <1>3, <1>4, <1>5, CallStep

LEMMA RunUpdated ==
  ASSUME ScheduleInv, NEW i \in DOMAIN runs, NEW run \in RunRecords, UpdateRun(i, run),
         run.task = runs[i].task, run.reason = runs[i].reason, run.slot = runs[i].slot
  PROVE  /\ RunsAlike /\ DOMAIN runs' = DOMAIN runs /\ runs'[i] = run
         /\ \A j \in DOMAIN runs : j # i => runs'[j] = runs[j]
<1>1. runs \in Seq(RunRecords) /\ DOMAIN runs = 1..Len(runs)
  BY ScheduleFacts DEF ScheduleRecords
<1>2. runs' = [runs EXCEPT ![i] = run]
  BY DEF UpdateRun
<1>3. runs' \in Seq(RunRecords)
  BY <1>1, <1>2, ExceptSeq
<1>4. DOMAIN runs' = DOMAIN runs /\ runs'[i] = run /\ \A j \in DOMAIN runs : j # i => runs'[j] = runs[j]
  BY <1>2
<1> HIDE DEF RunRecords
<1> QED BY <1>3, <1>4 DEF RunsAlike, RunsLast

LEMMA RunCreated ==
  ASSUME ScheduleInv, NEW run \in RunRecords, Create(run)
  PROVE  /\ runs' \in Seq(RunRecords) /\ Len(runs) + 1 \notin DOMAIN runs
         /\ DOMAIN runs' = DOMAIN runs \cup {Len(runs) + 1} /\ runs'[Len(runs) + 1] = run
         /\ \A i \in DOMAIN runs : runs'[i] = runs[i]
<1>1. runs \in Seq(RunRecords) /\ DOMAIN runs = 1..Len(runs) /\ Len(runs) \in Nat
  BY ScheduleFacts DEF ScheduleRecords
<1>2. runs' = Append(runs, run)
  BY DEF Create
<1>3. /\ runs' \in Seq(RunRecords) /\ Len(runs') = Len(runs) + 1
      /\ \A i \in 1..Len(runs) : runs'[i] = runs[i]
      /\ runs'[Len(runs) + 1] = run
  BY <1>1, <1>2, AppendProperties
<1>4. DOMAIN runs' = 1..(Len(runs) + 1)
  BY <1>3, LenProperties
<1> QED BY <1>1, <1>3, <1>4

LEMMA GoneTo ==
  ASSUME ScheduleInv, NEW w \in Workers, NEW pc \in Behind \cup {"idle", "next", "waiting"}, WorkerGoto(w, pc)
  PROVE  /\ worker' \in [Workers -> WorkerTypes] /\ worker'[w] = [worker[w] EXCEPT !.pc = pc]
         /\ \A v \in Workers : v # w => worker'[v] = worker[v]
<1>1. worker[w] \in WorkerTypes /\ worker \in [Workers -> WorkerTypes]
  BY ScheduleFacts DEF ScheduleRecords
<1>2. worker' = [worker EXCEPT ![w].pc = pc]
  BY DEF WorkerGoto
<1>3. [worker[w] EXCEPT !.pc = pc] \in WorkerTypes
  BY <1>1 DEF WorkerTypes
<1> QED BY <1>1, <1>2, <1>3

(* A call that works on, in terms of the place it goes to. *)
LEMMA WorksOnTo ==
  ASSUME ScheduleInv, NEW w \in Workers, NEW pc \in Behind, WorkerGoto(w, pc), RunsAlike, SessionsAlike(w),
         UNCHANGED <<clock, task, taskLock, scanning, startedAt>>,
         worker[w].pc \in Behind,
         worker[w].pc \in Advancing => pc \in Advancing,
         pc \in Working <=> worker[w].pc \in Working,
         pc \in {"session", "sending", "failing"} => runs'[worker[w].run].session # "running",
         pc \in {"overlap", "misfire", "advance"} => worker[w].kind # "manual",
         pc \in {"due", "create", "disabled"} => worker[w].pc = "due",
         Cleared(w)', \A i \in DOMAIN runs' : Shown(i)'
  PROVE  ScheduleInv'
<1> DEFINE c == worker[w]
           d == worker'[w]
<1>1. worker' \in [Workers -> WorkerTypes] /\ d = [c EXCEPT !.pc = pc] /\ \A v \in Workers : v # w => worker'[v] = worker[v]
  BY GoneTo
<1>2. c \in WorkerTypes /\ (c.pc \in Working <=> c.run # 0)
  BY ScheduleFacts DEF Standing
<1>3. /\ d.pc = pc /\ d.kind = c.kind /\ d.now = c.now /\ d.todo = c.todo /\ d.task = c.task /\ d.slot = c.slot /\ d.run = c.run
  BY <1>1, <1>2 DEF WorkerTypes
<1>4. OthersAlike(w)
  BY <1>1, <1>3 DEF OthersAlike, TaskOnward
<1> QED BY <1>1, <1>2, <1>3, <1>4, WorksOn

LEMMA CheckOverlapStep ==
  ASSUME ScheduleInv, NEW w \in Workers, CheckOverlap(w)
  PROVE  ScheduleInv'
<1> DEFINE c == worker[w]
           pc == IF HasActiveRun(c.task) THEN "overlap" ELSE "create"
<1>1. c.pc = "due" /\ WorkerGoto(w, pc) /\ UNCHANGED <<clock, task, runs, taskLock, scanning, startedAt>>
  BY DEF CheckOverlap, WorkerAt
<1>2. pc \in Behind /\ pc \notin Working /\ c.pc \in Behind /\ c.pc \notin Advancing /\ c.pc \notin Working
  BY <1>1, SchedulePlaces
<1>3. c \in WorkerTypes /\ c.kind # "manual" /\ \A i \in DOMAIN runs : Shown(i)
  BY <1>1, ScheduleFacts DEF Standing
<1>4. RunsAlike /\ SessionsAlike(w) /\ runs \in Seq(RunRecords)
  BY <1>1, ScheduleFacts DEF RunsAlike, RunsLast, SessionsAlike, ScheduleRecords
<1>5. worker'[w] = [c EXCEPT !.pc = pc] /\ \A v \in Workers : v # w => worker'[v] = worker[v]
  BY <1>1, <1>2, GoneTo
<1>6. worker'[w].run = c.run /\ worker'[w].pc = pc /\ worker'[w].task = c.task
  BY <1>3, <1>5 DEF WorkerTypes
<1>7. OthersAlike(w)
  BY <1>1, <1>4, <1>5, <1>6 DEF OthersAlike, TaskOnward
<1>8. ASSUME NEW i \in DOMAIN runs' PROVE Shown(i)'
  BY <1>1, <1>7, ShownKept
<1>9. Cleared(w)'
  <2>1. SUFFICES ASSUME ~HasActiveRun(c.task), NEW i \in DOMAIN runs', runs'[i].task = c.task, Works(i)' PROVE FALSE
    BY <1>6 DEF Cleared
  <2>2. i \in DOMAIN runs /\ Works(i) /\ runs[i].task = c.task
    BY <1>1, <1>7, <2>1, WorksAlikeFrom DEF WorksAlike
  <2>3. runs[i].status \notin ActiveStatus
    BY <2>1, <2>2 DEF HasActiveRun
  <2>4. PICK v \in Workers : worker[v].run = i
    BY <1>3, <2>2, <2>3 DEF Works, Shown
  <2>5. v = w
    BY <1>2, <2>2, <2>4, RunOfCall, AloneBehind
  <2> QED BY <1>2, <2>2, <2>4, <2>5, RunOfCall
<1> HIDE DEF pc
<1> QED
  <2>1. pc \in {"overlap", "create"}
    BY DEF pc
  <2> QED BY <1>1, <1>2, <1>3, <1>4, <1>8, <1>9, <2>1, WorksOnTo

LEMMA SkipRunStep ==
  ASSUME ScheduleInv, NEW w \in Workers, SkipRun(w)
  PROVE  ScheduleInv'
<1> DEFINE c == worker[w]
           run == NewRun(w, "skipped", c.pc, c.slot)
<1>1. /\ c.pc \in {"overlap", "misfire"} /\ WorkerGoto(w, "advance") /\ Create(run)
      /\ UNCHANGED <<clock, task, taskLock, scanning, startedAt>>
  BY DEF SkipRun
<1>2. c.pc \in Behind /\ c.pc \notin Working /\ "advance" \in Behind /\ "advance" \in Advancing /\ "advance" \notin Working
  BY <1>1, SchedulePlaces
<1>3. c \in WorkerTypes /\ c.kind # "manual" /\ c.task \in Tasks /\ (c.pc \in Working <=> c.run # 0)
  BY <1>1, <1>2, ScheduleFacts, BehindTask DEF Standing
<1>4. run \in RunRecords /\ run.reason # "due" /\ run.session = "none"
  BY <1>1, <1>3 DEF NewRun, RunRecords, WorkerTypes, Statuses
<1>5. RunsAlike /\ SessionsAlike(w) /\ \A i \in DOMAIN runs : runs'[i] = runs[i]
  <2> HIDE DEF run
  <2> QED BY <1>1, <1>4, RunCreated DEF RunsAlike, RunsLast, SessionsAlike
<1>6. worker'[w] = [c EXCEPT !.pc = "advance"] /\ \A v \in Workers : v # w => worker'[v] = worker[v]
  BY <1>1, <1>2, GoneTo
<1>7. worker'[w].run = c.run /\ worker'[w].pc = "advance"
  BY <1>3, <1>6 DEF WorkerTypes
<1>8. OthersAlike(w)
  BY <1>1, <1>5, <1>6, <1>7 DEF OthersAlike, TaskOnward
<1>9. ASSUME NEW i \in DOMAIN runs' PROVE Shown(i)'
  BY <1>1, <1>5, <1>8, ShownKept
<1>10. Cleared(w)'
  BY <1>7 DEF Cleared
<1> QED BY <1>1, <1>2, <1>3, <1>5, <1>9, <1>10, WorksOnTo

(* A call updates the stored run that it has triggered. *)
LEMMA RunStep ==
  ASSUME ScheduleInv, NEW w \in Workers, worker[w].pc \in Working, NEW pc \in Working, NEW run \in RunRecords,
         UpdateRun(worker[w].run, run), WorkerGoto(w, pc), UNCHANGED <<clock, task, taskLock, scanning, startedAt>>,
         run.task = runs[worker[w].run].task, run.reason = runs[worker[w].run].reason, run.slot = runs[worker[w].run].slot,
         pc \in {"session", "sending", "failing"} => run.session # "running",
         run.session = "running" => pc = "response" \/ (run.status \in ActiveStatus /\ run.ending = "none")
  PROVE  ScheduleInv'
<1> DEFINE c == worker[w]
<1>1. c \in WorkerTypes /\ c.run \in DOMAIN runs
  BY ScheduleFacts DEF Standing
<1>2. pc \in Behind /\ c.pc \in Behind /\ pc \in Advancing /\ pc \notin {"due", "create", "disabled", "overlap", "misfire", "advance"}
  BY SchedulePlaces
<1>3. RunsAlike /\ DOMAIN runs' = DOMAIN runs /\ runs'[c.run] = run /\ \A j \in DOMAIN runs : j # c.run => runs'[j] = runs[j]
  BY <1>1, RunUpdated
<1>4. SessionsAlike(w)
  BY <1>3 DEF SessionsAlike
<1>5. worker'[w] = [c EXCEPT !.pc = pc] /\ \A v \in Workers : v # w => worker'[v] = worker[v]
  BY <1>2, GoneTo
<1>6. worker'[w].run = c.run /\ worker'[w].pc = pc
  BY <1>1, <1>5 DEF WorkerTypes
<1>7. OthersAlike(w)
  BY <1>3, <1>4, <1>5, <1>6 DEF OthersAlike, TaskOnward
<1>8. ASSUME NEW i \in DOMAIN runs' PROVE Shown(i)'
  <2>1. CASE i = c.run
    BY <1>3, <1>6, <2>1 DEF Shown
  <2>2. CASE i # c.run
    BY <1>3, <1>7, <2>2, ShownKept
  <2> QED BY <2>1, <2>2
<1>9. Cleared(w)'
  BY <1>2, <1>6 DEF Cleared
<1> QED BY <1>2, <1>3, <1>4, <1>8, <1>9, WorksOnTo

LEMMA WorkingRun ==
  ASSUME ScheduleInv, NEW w \in Workers, worker[w].pc \in Working
  PROVE  /\ worker[w].run \in DOMAIN runs /\ runs[worker[w].run] \in RunRecords
         /\ worker[w].pc \in {"session", "sending", "failing"} => runs[worker[w].run].session # "running"
BY ScheduleFacts DEF Standing

LEMMA FinishedRun ==
  ASSUME NEW run \in RunRecords, NEW status \in {"succeeded", "failed"}
  PROVE  /\ Finished(run, status) \in RunRecords
         /\ Finished(run, status).task = run.task /\ Finished(run, status).reason = run.reason
         /\ Finished(run, status).slot = run.slot /\ Finished(run, status).session = run.session
BY DEF Finished, RunRecords

LEMMA RunStatusSet ==
  ASSUME NEW run \in RunRecords, NEW status \in Statuses
  PROVE  /\ [run EXCEPT !.status = status] \in RunRecords
         /\ [run EXCEPT !.status = status].task = run.task /\ [run EXCEPT !.status = status].reason = run.reason
         /\ [run EXCEPT !.status = status].slot = run.slot /\ [run EXCEPT !.status = status].session = run.session
         /\ [run EXCEPT !.status = status].status = status /\ [run EXCEPT !.status = status].ending = run.ending
BY DEF RunRecords

LEMMA RunSessionSet ==
  ASSUME NEW run \in RunRecords, NEW session \in {"none", "running", "over"}
  PROVE  /\ [run EXCEPT !.session = session] \in RunRecords
         /\ [run EXCEPT !.session = session].task = run.task /\ [run EXCEPT !.session = session].reason = run.reason
         /\ [run EXCEPT !.session = session].slot = run.slot /\ [run EXCEPT !.session = session].session = session
BY DEF RunRecords

LEMMA RunMonitored ==
  ASSUME NEW run \in RunRecords
  PROVE  /\ [run EXCEPT !.monitor = "watching"] \in RunRecords
         /\ [run EXCEPT !.monitor = "watching"].task = run.task /\ [run EXCEPT !.monitor = "watching"].reason = run.reason
         /\ [run EXCEPT !.monitor = "watching"].slot = run.slot /\ [run EXCEPT !.monitor = "watching"].session = run.session
BY DEF RunRecords

LEMMA ScheduleStatuses == {"skipped", "succeeded", "failed", "accepted", "running"} \subseteq Statuses /\ "running" \in ActiveStatus
BY DEF Statuses, ActiveStatus

LEMMA RunSteps ==
  ASSUME ScheduleInv, NEW w \in Workers,
         SessionCreated(w) \/ SessionFails(w) \/ MessageAccepted(w) \/ SendFails(w) \/ RecordFailure(w) \/ RecordResponse(w)
  PROVE  ScheduleInv'
<1> DEFINE c == worker[w]
<1>1. {"session", "sending", "response", "failing", "triggered"} \subseteq Working
  BY SchedulePlaces
<1>2. CASE SessionCreated(w)
  <2>1. c.pc = "session" /\ UpdateRun(c.run, [runs[c.run] EXCEPT !.monitor = "watching"]) /\ WorkerGoto(w, "sending")
    BY <1>2 DEF SessionCreated, WorkerAt
  <2>2. UNCHANGED <<clock, task, taskLock, scanning, startedAt>>
    BY <1>2 DEF SessionCreated
  <2>3. c.pc \in Working /\ "sending" \in Working /\ runs[c.run] \in RunRecords /\ runs[c.run].session # "running"
    BY <1>1, <2>1, WorkingRun
  <2> QED BY <2>1, <2>2, <2>3, RunMonitored, RunStep
<1>3. CASE SessionFails(w)
  <2>1. c.pc = "session" /\ UpdateRun(c.run, [runs[c.run] EXCEPT !.status = "failed"]) /\ WorkerGoto(w, "triggered")
    BY <1>3 DEF SessionFails, WorkerAt
  <2>2. UNCHANGED <<clock, task, taskLock, scanning, startedAt>>
    BY <1>3 DEF SessionFails
  <2>3. c.pc \in Working /\ "triggered" \in Working /\ runs[c.run] \in RunRecords /\ runs[c.run].session # "running"
    BY <1>1, <2>1, WorkingRun
  <2>4. "failed" \in Statuses /\ "running" \in ActiveStatus
    BY ScheduleStatuses
  <2> DEFINE run == [runs[c.run] EXCEPT !.status = "failed"]
  <2>5. /\ run \in RunRecords /\ run.task = runs[c.run].task /\ run.reason = runs[c.run].reason /\ run.slot = runs[c.run].slot
        /\ run.session = runs[c.run].session /\ run.status = "failed" /\ run.ending = runs[c.run].ending
    BY <2>3, <2>4, RunStatusSet
  <2>6. UpdateRun(c.run, run)
    BY <2>1
  <2> HIDE DEF run
  <2> QED BY <2>1, <2>2, <2>3, <2>4, <2>5, <2>6, RunStep
<1>4. CASE MessageAccepted(w)
  <2>1. c.pc = "sending" /\ UpdateRun(c.run, [runs[c.run] EXCEPT !.session = "running"]) /\ WorkerGoto(w, "response")
    BY <1>4 DEF MessageAccepted, WorkerAt
  <2>2. UNCHANGED <<clock, task, taskLock, scanning, startedAt>>
    BY <1>4 DEF MessageAccepted
  <2>3. c.pc \in Working /\ "response" \in Working /\ runs[c.run] \in RunRecords
    BY <1>1, <2>1, WorkingRun
  <2> QED BY <2>1, <2>2, <2>3, RunSessionSet, RunStep
<1>5. CASE SendFails(w)
  <2>1. PICK status \in {"succeeded", "failed"} : UpdateRun(c.run, Finished(runs[c.run], status))
    BY <1>5 DEF SendFails
  <2>2. c.pc = "sending" /\ WorkerGoto(w, "failing") /\ UNCHANGED <<clock, task, taskLock, scanning, startedAt>>
    BY <1>5 DEF SendFails, WorkerAt
  <2>3. c.pc \in Working /\ "failing" \in Working /\ runs[c.run] \in RunRecords /\ runs[c.run].session # "running"
    BY <1>1, <2>2, WorkingRun
  <2> QED BY <2>1, <2>2, <2>3, FinishedRun, RunStep
<1>6. CASE RecordFailure(w)
  <2>1. c.pc = "failing" /\ UpdateRun(c.run, [runs[c.run] EXCEPT !.status = "failed"]) /\ WorkerGoto(w, "triggered")
    BY <1>6 DEF RecordFailure, WorkerAt
  <2>2. UNCHANGED <<clock, task, taskLock, scanning, startedAt>>
    BY <1>6 DEF RecordFailure
  <2>3. c.pc \in Working /\ "triggered" \in Working /\ runs[c.run] \in RunRecords /\ runs[c.run].session # "running"
    BY <1>1, <2>1, WorkingRun
  <2>4. "failed" \in Statuses /\ "running" \in ActiveStatus
    BY ScheduleStatuses
  <2> DEFINE run == [runs[c.run] EXCEPT !.status = "failed"]
  <2>5. /\ run \in RunRecords /\ run.task = runs[c.run].task /\ run.reason = runs[c.run].reason /\ run.slot = runs[c.run].slot
        /\ run.session = runs[c.run].session /\ run.status = "failed" /\ run.ending = runs[c.run].ending
    BY <2>3, <2>4, RunStatusSet
  <2>6. UpdateRun(c.run, run)
    BY <2>1
  <2> HIDE DEF run
  <2> QED BY <2>1, <2>2, <2>3, <2>4, <2>5, <2>6, RunStep
<1>7. CASE RecordResponse(w)
  <2>1. /\ c.pc = "response" /\ UpdateRun(c.run, [runs[c.run] EXCEPT !.status = "running"]) /\ WorkerGoto(w, "triggered")
        /\ runs[c.run].ending = "none"
    BY <1>7 DEF RecordResponse, WorkerAt, NothingPending
  <2>2. UNCHANGED <<clock, task, taskLock, scanning, startedAt>>
    BY <1>7 DEF RecordResponse
  <2>3. c.pc \in Working /\ "triggered" \in Working /\ runs[c.run] \in RunRecords
    BY <1>1, <2>1, WorkingRun
  <2>4. "running" \in Statuses /\ "running" \in ActiveStatus
    BY ScheduleStatuses
  <2> DEFINE run == [runs[c.run] EXCEPT !.status = "running"]
  <2>5. /\ run \in RunRecords /\ run.task = runs[c.run].task /\ run.reason = runs[c.run].reason /\ run.slot = runs[c.run].slot
        /\ run.session = runs[c.run].session /\ run.status = "running" /\ run.ending = runs[c.run].ending
    BY <2>3, <2>4, RunStatusSet
  <2>6. UpdateRun(c.run, run)
    BY <2>1
  <2> HIDE DEF run
  <2> QED BY <2>1, <2>2, <2>3, <2>4, <2>5, <2>6, RunStep
<1> QED BY <1>2, <1>3, <1>4, <1>5, <1>6, <1>7

-----------------------------------------------------------------------------
(* Leaving the lock. *)
LEMMA LockLeft ==
  ASSUME ScheduleInv, NEW w \in Workers, worker[w].pc \in Behind \cup {"waiting"}, Head(taskLock[worker[w].task]) = w,
         taskLock' = AfterUnlock(w)
  PROVE  /\ taskLock' \in [Tasks -> Seq(Workers)]
         /\ \A v \in Workers : v # w => \A t \in Tasks :
              /\ Queued(v, taskLock[t]) => Queued(v, taskLock'[t])
              /\ taskLock[t] # <<>> /\ Head(taskLock[t]) = v => taskLock'[t] # <<>> /\ Head(taskLock'[t]) = v
<1> DEFINE own == worker[w].task
           q == taskLock[own]
<1>1. own \in Tasks /\ q \in Seq(Workers) /\ taskLock \in [Tasks -> Seq(Workers)]
  BY BehindTask, ScheduleFacts DEF ScheduleRecords
<1>2. q # <<>>
  <2>1. worker[w].pc \in Behind \/ Queued(w, q)
    BY ScheduleFacts DEF Standing
  <2>2. ~Queued(w, <<>>)
    BY DEF Queued
  <2> QED BY <2>1, <2>2, ScheduleFacts DEF Standing
<1>3. taskLock' = [taskLock EXCEPT ![own] = Tail(q)]
  BY DEF AfterUnlock
<1>4. Tail(q) \in Seq(Workers)
  BY <1>1, <1>2, HeadTailProperties
<1>5. taskLock'[own] = Tail(q) /\ \A t \in Tasks : t # own => taskLock'[t] = taskLock[t]
  BY <1>1, <1>3
<1>6. ASSUME NEW v \in Workers, v # w, NEW t \in Tasks
      PROVE  /\ Queued(v, taskLock[t]) => Queued(v, taskLock'[t])
             /\ taskLock[t] # <<>> /\ Head(taskLock[t]) = v => taskLock'[t] # <<>> /\ Head(taskLock'[t]) = v
  <2>1. CASE t = own
    <3>1. v # Head(q) /\ taskLock[t] = q
      BY <1>6, <2>1
    <3>2. Queued(v, q) => Queued(v, Tail(q))
      BY <1>1, <3>1, TailQueued
    <3> HIDE DEF q
    <3> QED BY <1>5, <2>1, <3>1, <3>2
  <2>2. CASE t # own
    BY <1>5, <2>2
  <2> QED BY <2>1, <2>2
<1> HIDE DEF q
<1> QED BY <1>1, <1>3, <1>4, <1>6

LEMMA LeftTo ==
  ASSUME ScheduleInv, NEW w \in Workers, NEW failed \in BOOLEAN, Leave(w, failed)
  PROVE  /\ worker' \in [Workers -> WorkerTypes]
         /\ worker'[w].pc = "next" /\ worker'[w].task = NoTask /\ worker'[w].run = 0
         /\ worker'[w].kind = worker[w].kind /\ worker'[w].now = worker[w].now
         /\ ~failed => worker'[w].todo = worker[w].todo
         /\ \A v \in Workers : v # w => worker'[v] = worker[v]
<1> DEFINE c == worker[w]
           d == [c EXCEPT !.pc = "next", !.task = NoTask, !.slot = 0, !.run = 0, !.todo = IF failed THEN {} ELSE @]
<1>1. c \in WorkerTypes /\ worker \in [Workers -> WorkerTypes]
  BY ScheduleFacts DEF ScheduleRecords
<1>2. worker' = [worker EXCEPT ![w] = d]
  BY DEF Leave, Continue
<1>3. /\ d \in WorkerTypes /\ d.pc = "next" /\ d.task = NoTask /\ d.run = 0 /\ d.kind = c.kind /\ d.now = c.now
      /\ ~failed => d.todo = c.todo
  BY <1>1 DEF WorkerTypes
<1> HIDE DEF d
<1> QED BY <1>1, <1>2, <1>3

LEMMA LeaveAlike ==
  ASSUME ScheduleInv, NEW w \in Workers, NEW failed \in BOOLEAN, Leave(w, failed),
         worker[w].pc \in Behind \cup {"waiting"}, Head(taskLock[worker[w].task]) = w,
         UNCHANGED <<clock, scanning, startedAt>>,
         RunsAlike, \A i \in DOMAIN runs : runs'[i] = runs[i],
         \A t \in Tasks : TaskOnward(t) \/ (worker[w].pc \in Behind /\ worker[w].task = t)
  PROVE  OthersAlike(w)
<1>1. taskLock' = AfterUnlock(w)
  BY DEF Leave
<1>2. SessionsAlike(w)
  BY DEF SessionsAlike
<1>3. worker'[w].run \in {0, worker[w].run} /\ \A v \in Workers : v # w => worker'[v] = worker[v]
  BY LeftTo
<1> QED BY <1>1, <1>2, <1>3, LockLeft DEF OthersAlike

LEMMA LeaveStep ==
  ASSUME ScheduleInv, NEW w \in Workers, NEW failed \in BOOLEAN, Leave(w, failed), NEW own \in Tasks, worker[w].task = own,
         worker[w].pc \in Behind \cup {"waiting"}, Head(taskLock[worker[w].task]) = w,
         UNCHANGED <<clock, scanning, startedAt>>,
         RunsAlike, \A i \in DOMAIN runs : runs'[i] = runs[i],
         task' \in [Tasks -> TaskRecords],
         \A t \in Tasks : TaskOnward(t) \/ (worker[w].pc \in Behind /\ worker[w].task = t),
         worker[w].kind = "startup" => ~failed,
         worker[w].pc # "response",
         SlotsFit(own)'
  PROVE  ScheduleInv'
<1> DEFINE c == worker[w]
           d == worker'[w]
<1>1. OthersAlike(w)
  BY LeaveAlike
<1>2. /\ worker' \in [Workers -> WorkerTypes] /\ d.pc = "next" /\ d.task = NoTask /\ d.run = 0 /\ d.kind = c.kind /\ d.now = c.now
      /\ ~failed => d.todo = c.todo
  BY LeftTo
<1>3. ScheduleRecords'
  <2>1. taskLock' \in [Tasks -> Seq(Workers)]
    <3>1. taskLock' = AfterUnlock(w)
      BY DEF Leave
    <3> QED BY <3>1, LockLeft
  <2> QED BY <1>2, <2>1, ScheduleFacts DEF ScheduleRecords, RunsAlike, RunsLast
<1>4. d.pc \notin Behind /\ d.pc \notin Working /\ d.pc \notin {"idle", "waiting", "session", "sending", "failing"}
  BY <1>2, SchedulePlaces
<1>5. Standing(w)'
  <2>1. c.pc # "idle" /\ Standing(w) /\ d.kind # "none"
    BY <1>2, SchedulePlaces, ScheduleFacts DEF Standing
  <2> HIDE DEF d
  <2> QED BY <1>2, <1>4, <2>1 DEF Standing, d
<1>6. SlotHeld(w)' /\ Cleared(w)'
  BY <1>2, <1>4 DEF SlotHeld, Cleared
<1>7. \A i \in DOMAIN runs' : Shown(i)'
  BY <1>1, ShownKept
<1>8. ASSUME NEW t \in Tasks PROVE SlotsFit(t)'
  <2>1. CASE t = own
    BY <2>1
  <2>2. CASE t # own
    <3>1. TaskOnward(t)
      BY <2>2
    <3>2. PassWillSkip(t) => ~scanning' /\ (d.kind = "startup" => t \in d.todo \/ (d.pc = "waiting" /\ d.task = t))
      BY <1>2, <2>2 DEF PassWillSkip
    <3> QED BY <1>1, <2>2, <3>1, <3>2, FitByCall
  <2> QED BY <2>1, <2>2
<1> QED BY <1>1, <1>3, <1>5, <1>6, <1>7, <1>8, CallStep

(* Those who leave the task as it is. *)
LEMMA LeaveAsIs ==
  ASSUME ScheduleInv, NEW w \in Workers, NEW failed \in BOOLEAN, Leave(w, failed),
         worker[w].pc \in Behind \cup {"waiting"}, Head(taskLock[worker[w].task]) = w,
         UNCHANGED <<clock, task, scanning, startedAt>>,
         RunsAlike, \A i \in DOMAIN runs : runs'[i] = runs[i],
         worker[w].kind # "startup", worker[w].pc # "response",
         worker[w].pc \in Advancing => worker[w].kind = "manual"
  PROVE  ScheduleInv'
<1>1. PICK t \in Tasks : worker[w].task = t
  BY BehindTask
<1>2. task' \in [Tasks -> TaskRecords] /\ \A u \in Tasks : TaskOnward(u)
  BY ScheduleFacts DEF ScheduleRecords, TaskOnward
<1>3. OthersAlike(w)
  BY <1>2, LeaveAlike
<1>4. worker'[w].kind # "startup"
  BY LeftTo
<1>5. PassWillSkip(t) => ~scanning' /\ (worker'[w].kind = "startup" =>
         t \in worker'[w].todo \/ (worker'[w].pc = "waiting" /\ worker'[w].task = t))
  BY <1>4 DEF PassWillSkip
<1>6. SlotsFit(t)'
  BY <1>1, <1>2, <1>3, <1>5, FitByCall
<1> QED BY <1>1, <1>2, <1>6, LeaveStep

LEMMA HolderWaits ==
  ASSUME ScheduleInv, NEW w \in Workers, HoldsLock(w)
  PROVE  /\ worker[w].pc = "waiting" /\ Head(taskLock[worker[w].task]) = w /\ taskLock[worker[w].task] # <<>>
         /\ worker[w].task \in Tasks /\ worker[w].pc \notin Behind /\ worker[w].run = 0 /\ worker[w].kind # "none"
         /\ ~WillAdvance(worker[w].task)
<1>1. worker[w].pc = "waiting" /\ Head(taskLock[worker[w].task]) = w
  BY DEF HoldsLock, WorkerAt
<1>2. worker[w].pc \notin Behind /\ worker[w].pc \notin Working
  BY <1>1, SchedulePlaces
<1>3. Standing(w)
  BY ScheduleFacts
<1>4. worker[w].task \in Tasks
  BY <1>1, BehindTask
<1>5. taskLock[worker[w].task] # <<>>
  <2>1. ~Queued(w, <<>>)
    BY DEF Queued
  <2> QED BY <1>1, <1>3, <2>1 DEF Standing
<1>6. ASSUME NEW v \in Workers, worker[v].pc \in Advancing, worker[v].task = worker[w].task PROVE FALSE
  <2>1. worker[v].pc \in Behind /\ Standing(v)
    BY <1>6, SchedulePlaces, ScheduleFacts
  <2>2. v = w
    BY <1>1, <1>6, <2>1 DEF Standing
  <2> QED BY <1>2, <2>1, <2>2
<1> QED BY <1>1, <1>2, <1>3, <1>4, <1>5, <1>6 DEF Standing, WillAdvance

LEMMA RunsUnchanged ==
  ASSUME ScheduleInv, runs' = runs
  PROVE  RunsAlike /\ (\A i \in DOMAIN runs : runs'[i] = runs[i]) /\ \A w : SessionsAlike(w)
BY ScheduleFacts DEF RunsAlike, RunsLast, SessionsAlike, ScheduleRecords

LEMMA NotDueStep ==
  ASSUME ScheduleInv, NEW w \in Workers, NotDue(w)
  PROVE  ScheduleInv'
<1> DEFINE c == worker[w]
<1>1. HoldsLock(w) /\ c.kind # "manual" /\ ~StillDue(w) /\ Leave(w, FALSE) /\ UNCHANGED <<clock, task, runs, scanning, startedAt>>
  BY DEF NotDue
<1>2. c.pc = "waiting" /\ Head(taskLock[c.task]) = w /\ c.pc # "response" /\ c.pc \notin Advancing
  BY <1>1, HolderWaits, SchedulePlaces
<1>3. RunsAlike /\ \A i \in DOMAIN runs : runs'[i] = runs[i]
  BY <1>1, RunsUnchanged
<1>4. PICK t \in Tasks : c.task = t
  BY <1>1, HolderWaits
<1>5. CASE c.kind # "startup"
  BY <1>1, <1>2, <1>3, <1>5, LeaveAsIs
<1>6. CASE c.kind = "startup"
  <2>1. ~(task[t].enabled /\ ~task[t].deleted /\ task[t].next # 0 /\ task[t].next <= startedAt)
    <3>1. startedAt <= c.now /\ c.now \in Nat /\ startedAt \in Nat /\ task[t].next \in Nat
      BY <1>2, ScheduleFacts DEF Standing
    <3> QED BY <1>1, <1>4, <3>1 DEF StillDue, Due
  <2>2. SlotsFit(t) /\ ~WillAdvance(t)
    BY <1>1, <1>4, HolderWaits, ScheduleFacts
  <2>3. SlotsFit(t)'
    <3>1. task' = task /\ runs' = runs /\ clock' = clock /\ startedAt' = startedAt /\ Triggered(t)' = Triggered(t)
      BY <1>1 DEF Triggered
    <3> HIDE DEF WillAdvance, PassWillSkip
    <3> QED BY <2>1, <2>2, <3>1 DEF SlotsFit
  <2>4. task' \in [Tasks -> TaskRecords] /\ \A u \in Tasks : TaskOnward(u)
    BY <1>1, ScheduleFacts DEF ScheduleRecords, TaskOnward
  <2> QED BY <1>1, <1>2, <1>3, <1>4, <2>3, <2>4, LeaveStep
<1> QED BY <1>5, <1>6

(* A call that gets the lock. *)
LEMMA Entered ==
  ASSUME ScheduleInv, NEW w \in Workers, HoldsLock(w), NEW slot \in Nat, NEW pc \in Behind, pc \notin Working,
         Continue(w, [worker[w] EXCEPT !.slot = slot, !.pc = pc]), UNCHANGED <<clock, task, runs, taskLock, scanning, startedAt>>
  PROVE  /\ OthersAlike(w) /\ worker' \in [Workers -> WorkerTypes]
         /\ worker'[w].pc = pc /\ worker'[w].slot = slot /\ worker'[w].kind = worker[w].kind /\ worker'[w].now = worker[w].now
         /\ worker'[w].todo = worker[w].todo /\ worker'[w].task = worker[w].task /\ worker'[w].run = 0
         /\ \A v \in Workers : v # w => worker'[v] = worker[v]
<1> DEFINE d == [worker[w] EXCEPT !.slot = slot, !.pc = pc]
<1>1. worker[w] \in WorkerTypes /\ worker \in [Workers -> WorkerTypes] /\ worker[w].run = 0
  BY ScheduleFacts, HolderWaits DEF ScheduleRecords
<1>2. /\ d \in WorkerTypes /\ d.pc = pc /\ d.slot = slot /\ d.kind = worker[w].kind /\ d.now = worker[w].now
      /\ d.todo = worker[w].todo /\ d.task = worker[w].task /\ d.run = 0
  BY <1>1 DEF WorkerTypes
<1>3. worker' = [worker EXCEPT ![w] = d]
  BY DEF Continue
<1> HIDE DEF d
<1>4. worker' \in [Workers -> WorkerTypes] /\ worker'[w] = d /\ \A v \in Workers : v # w => worker'[v] = worker[v]
  BY <1>1, <1>2, <1>3
<1>5. OthersAlike(w)
  BY <1>2, <1>4, RunsUnchanged DEF OthersAlike, TaskOnward
<1> QED BY <1>2, <1>4, <1>5

LEMMA EnterStep ==
  ASSUME ScheduleInv, NEW w \in Workers, HoldsLock(w), NEW slot \in Nat, NEW pc \in Behind, pc \notin Working,
         Continue(w, [worker[w] EXCEPT !.slot = slot, !.pc = pc]), UNCHANGED <<clock, task, runs, taskLock, scanning, startedAt>>,
         pc \in {"due", "overlap", "misfire", "advance"} => worker[w].kind # "manual",
         pc \in {"due", "create", "disabled"} => worker[w].kind # "startup", pc = "create" => worker[w].kind = "manual",
         SlotHeld(w)', NEW t \in Tasks, worker[w].task = t, SlotsFit(t)'
  PROVE  ScheduleInv'
<1> DEFINE c == worker[w]
           d == worker'[w]
<1>1. /\ OthersAlike(w) /\ worker' \in [Workers -> WorkerTypes] /\ d.pc = pc /\ d.kind = c.kind /\ d.now = c.now
      /\ d.todo = c.todo /\ d.task = t /\ d.run = 0
  BY Entered
<1>2. c.pc = "waiting" /\ taskLock[t] # <<>> /\ Head(taskLock[t]) = w /\ Standing(w) /\ c.kind # "none"
  BY HolderWaits, ScheduleFacts
<1>3. pc \notin {"idle", "next", "waiting", "session", "sending", "failing", "response"}
  BY SchedulePlaces
<1>4. ScheduleRecords'
  BY <1>1, ScheduleFacts DEF ScheduleRecords
<1>5. Standing(w)'
  <2>1. c.pc # "idle" /\ t # NoTask
    BY <1>2, ScheduleAssumption
  <2> HIDE DEF d
  <2> QED BY <1>1, <1>2, <1>3, <2>1 DEF Standing, d
<1>6. Cleared(w)'
  BY <1>1 DEF Cleared
<1>7. \A i \in DOMAIN runs' : Shown(i)'
  BY <1>1, <1>2, ShownKept
<1>8. ASSUME NEW u \in Tasks PROVE SlotsFit(u)'
  <2>1. CASE u = t
    BY <2>1
  <2>2. CASE u # t
    <3>1. TaskOnward(u)
      BY DEF TaskOnward
    <3>2. PassWillSkip(u) => ~scanning' /\ (d.kind = "startup" => u \in d.todo \/ (d.pc = "waiting" /\ d.task = u))
      BY <1>1, <2>2 DEF PassWillSkip
    <3> QED BY <1>1, <2>2, <3>1, <3>2, FitByCall
  <2> QED BY <2>1, <2>2
<1> QED BY <1>1, <1>4, <1>5, <1>6, <1>7, <1>8, CallStep

LEMMA TaskRequestedStep ==
  ASSUME ScheduleInv, NEW w \in Workers, TaskRequested(w)
  PROVE  ScheduleInv'
<1> DEFINE c == worker[w]
<1>1. HoldsLock(w) /\ c.kind = "manual" /\ UNCHANGED <<clock, task, runs, scanning, startedAt>>
  BY DEF TaskRequested
<1>2. PICK t \in Tasks : c.task = t
  BY <1>1, HolderWaits
<1>3. c.pc = "waiting" /\ Head(taskLock[t]) = w /\ c.now \in Nat
  BY <1>1, <1>2, HolderWaits, ScheduleFacts
<1>4. CASE Leave(w, TRUE)
  BY <1>1, <1>2, <1>3, <1>4, RunsUnchanged, LeaveAsIs
<1>5. ASSUME NEW pc \in {"create", "disabled"}, Continue(w, [c EXCEPT !.slot = c.now, !.pc = pc]), UNCHANGED taskLock
      PROVE  ScheduleInv'
  <2>1. pc \in Behind /\ pc \notin Working /\ pc \notin {"due", "overlap", "misfire", "advance"}
    BY SchedulePlaces
  <2>2. OthersAlike(w) /\ worker'[w].kind = "manual"
    BY <1>1, <1>3, <1>5, <2>1, Entered
  <2>3. SlotHeld(w)'
    BY <2>2 DEF SlotHeld
  <2>4. TaskOnward(t)
    BY <1>1 DEF TaskOnward
  <2>5. PassWillSkip(t) => ~scanning' /\ (worker'[w].kind = "startup" =>
           t \in worker'[w].todo \/ (worker'[w].pc = "waiting" /\ worker'[w].task = t))
    BY <1>1, <2>2 DEF PassWillSkip
  <2>6. SlotsFit(t)'
    BY <1>1, <2>2, <2>4, <2>5, FitByCall
  <2> QED BY <1>1, <1>2, <1>3, <1>5, <2>1, <2>3, <2>6, EnterStep
<1> QED BY <1>4, <1>5 DEF TaskRequested

LEMMA TaskDueStep ==
  ASSUME ScheduleInv, NEW w \in Workers, TaskDue(w)
  PROVE  ScheduleInv'
<1> DEFINE c == worker[w]
           slot == task[c.task].next
           pc == IF c.kind = "tick" THEN "due" ELSE "misfire"
<1>1. /\ HoldsLock(w) /\ c.kind # "manual" /\ StillDue(w) /\ Continue(w, [c EXCEPT !.slot = slot, !.pc = pc])
      /\ UNCHANGED <<clock, task, runs, taskLock, scanning, startedAt>>
  BY DEF TaskDue
<1>2. PICK t \in Tasks : c.task = t
  BY <1>1, HolderWaits
<1>3. /\ c.pc = "waiting" /\ c.now \in Nat /\ clock \in Nat /\ startedAt \in Nat /\ c.now <= clock /\ slot \in Nat
      /\ SlotsFit(t) /\ ~WillAdvance(t) /\ (c.kind = "tick" => scanning) /\ c.kind # "none" /\ c.kind \in {"none", "startup", "tick", "manual"}
  BY <1>1, <1>2, HolderWaits, ScheduleFacts DEF Standing, WorkerTypes
<1>4. slot = task[t].next /\ task[t].enabled /\ ~task[t].deleted /\ slot # 0 /\ slot <= c.now
  BY <1>1, <1>2 DEF StillDue, Due
<1>5. pc \in Behind /\ pc \notin Working /\ pc # "create" /\ (pc = "due" => c.kind = "tick") /\ (pc # "due" => pc = "misfire" /\ c.kind = "startup")
  BY <1>1, <1>3, SchedulePlaces
<1>6. c.kind = "tick" => startedAt < slot
  <2>1. c.kind = "tick" => ~PassWillSkip(t)
    BY <1>3 DEF PassWillSkip
  <2> HIDE DEF slot, WillAdvance, PassWillSkip
  <2> QED BY <1>3, <1>4, <2>1 DEF SlotsFit
<1>7. \A i \in Triggered(t) : runs[i].slot \in Nat /\ runs[i].slot <= slot /\ (pc = "due" => runs[i].slot < slot)
  <2>1. \A i \in Triggered(t) : runs[i].slot \in Nat
    BY ScheduleFacts DEF Triggered
  <2>2. \A i \in Triggered(t) : runs[i].slot <= slot
    BY <1>3, <1>4, <2>1 DEF SlotsFit
  <2>3. ASSUME c.kind = "tick", NEW i \in Triggered(t), runs[i].slot = slot PROVE FALSE
    BY <1>3, <1>4, <1>6, <2>1, <2>3 DEF SlotsFit
  <2> HIDE DEF slot, pc
  <2> QED BY <1>5, <1>3, <2>1, <2>2, <2>3
<1> HIDE DEF slot, pc
<1>8. /\ OthersAlike(w) /\ worker'[w].pc = pc /\ worker'[w].slot = slot /\ worker'[w].kind = c.kind
      /\ worker'[w].now = c.now /\ worker'[w].task = t
  BY <1>1, <1>2, <1>3, <1>5, Entered
<1>9. Triggered(t)' = Triggered(t) /\ runs' = runs /\ task' = task /\ clock' = clock /\ startedAt' = startedAt
  BY <1>1 DEF Triggered
<1>10. SlotHeld(w)'
  <2>1. /\ 0 < slot /\ slot <= c.now
        /\ c.kind # "startup" => startedAt < slot
        /\ task[t].next >= slot
        /\ \A i \in Triggered(t) : runs[i].slot <= slot /\ (pc \in {"due", "create"} => runs[i].slot < slot)
    BY <1>3, <1>4, <1>5, <1>6, <1>7
  <2>2. worker'[w].task = t /\ worker'[w].slot = slot /\ worker'[w].now = c.now /\ worker'[w].kind = c.kind /\ worker'[w].pc = pc
    BY <1>8
  <2>3. /\ 0 < worker'[w].slot /\ worker'[w].slot <= worker'[w].now
        /\ worker'[w].kind # "startup" => startedAt' < worker'[w].slot
        /\ task'[worker'[w].task].next >= worker'[w].slot
    BY <1>9, <2>1, <2>2
  <2>4. task'[worker'[w].task].enabled /\ ~task'[worker'[w].task].deleted
    BY ONLY <1>4, <1>9, <2>2, Zenon
  <2>5. \A i \in DOMAIN runs' : runs'[i].task = worker'[w].task /\ runs'[i].reason = "due" =>
          runs'[i].slot <= worker'[w].slot /\ (worker'[w].pc \in {"due", "create"} => runs'[i].slot < worker'[w].slot)
    BY <1>9, <2>1, <2>2 DEF Triggered
  <2> QED BY <2>3, <2>4, <2>5 DEF SlotHeld, Triggered
<1>11. SlotsFit(t)'
  <2>1. CASE pc = "due"
    <3>1. TaskOnward(t)
      BY <1>9 DEF TaskOnward
    <3>2. ~PassWillSkip(t)
      BY <1>3, <1>5, <2>1 DEF PassWillSkip
    <3>3. ~(c.pc \in Advancing)
      BY <1>3, SchedulePlaces
    <3> QED BY <1>8, <3>1, <3>2, <3>3, FitByCall
  <2>2. CASE pc # "due"
    <3>1. WillAdvance(t)'
      <4>1. worker'[w].pc \in Advancing /\ worker'[w].kind # "manual" /\ worker'[w].task = t
        BY <1>1, <1>5, <1>8, <2>2, SchedulePlaces
      <4> QED BY <4>1 DEF WillAdvance
    <3> HIDE DEF WillAdvance, PassWillSkip
    <3> QED BY <1>3, <1>4, <1>9, <3>1 DEF SlotsFit
  <2> QED BY <2>1, <2>2
<1> QED BY <1>1, <1>2, <1>3, <1>5, <1>10, <1>11, EnterStep

LEMMA HolderBehind ==
  ASSUME ScheduleInv, NEW w \in Workers, worker[w].pc \in Behind
  PROVE  /\ Head(taskLock[worker[w].task]) = w /\ worker[w].task \in Tasks /\ worker[w] \in WorkerTypes
         /\ Standing(w) /\ SlotHeld(w) /\ worker[w].kind # "none"
BY SchedulePlaces, ScheduleFacts, BehindTask DEF Standing

LEMMA SkipDisabledStep ==
  ASSUME ScheduleInv, NEW w \in Workers, SkipDisabled(w)
  PROVE  ScheduleInv'
<1> DEFINE c == worker[w]
           run == NewRun(w, "skipped", "disabled", c.slot)
<1>1. c.pc = "disabled" /\ Create(run) /\ Leave(w, FALSE) /\ UNCHANGED <<clock, task, scanning, startedAt>>
  BY DEF SkipDisabled, WorkerAt
<1>2. c.pc \in Behind /\ c.pc \notin Advancing /\ c.pc # "response"
  BY <1>1, SchedulePlaces
<1>3. Head(taskLock[c.task]) = w /\ c.task \in Tasks /\ c \in WorkerTypes /\ c.kind # "startup"
  BY <1>1, <1>2, HolderBehind DEF Standing
<1>4. run \in RunRecords /\ run.reason # "due" /\ run.session = "none"
  BY <1>3 DEF NewRun, RunRecords, WorkerTypes, Statuses
<1>5. RunsAlike /\ \A i \in DOMAIN runs : runs'[i] = runs[i]
  <2> HIDE DEF run
  <2> QED BY <1>1, <1>4, RunCreated DEF RunsAlike, RunsLast
<1> QED BY <1>1, <1>2, <1>3, <1>5, LeaveAsIs

LEMMA LeavesAsIs ==
  ASSUME ScheduleInv, NEW w \in Workers, NoProject(w) \/ RunRequested(w)
  PROVE  ScheduleInv'
<1> DEFINE c == worker[w]
<1>1. CASE NoProject(w)
  <2>1. c.pc = "create" /\ Leave(w, TRUE) /\ UNCHANGED <<clock, task, runs, scanning, startedAt>>
    BY <1>1 DEF NoProject, WorkerAt
  <2>2. c.pc \in Behind /\ c.pc \notin Advancing /\ c.pc # "response"
    BY <2>1, SchedulePlaces
  <2>3. Head(taskLock[c.task]) = w /\ c.kind # "startup"
    BY <2>1, <2>2, HolderBehind DEF Standing
  <2> QED BY <2>1, <2>2, <2>3, RunsUnchanged, LeaveAsIs
<1>2. CASE RunRequested(w)
  <2>1. c.pc = "triggered" /\ c.kind = "manual" /\ Leave(w, FALSE) /\ UNCHANGED <<clock, task, runs, scanning, startedAt>>
    BY <1>2 DEF RunRequested, WorkerAt
  <2>2. c.pc \in Behind
    BY <2>1, SchedulePlaces
  <2> QED BY <2>1, <2>2, HolderBehind, RunsUnchanged, LeaveAsIs
<1> QED BY <1>1, <1>2

LEMMA AdvanceStep ==
  ASSUME ScheduleInv, NEW w \in Workers, Advance(w)
  PROVE  ScheduleInv'
<1> DEFINE c == worker[w]
           next == NextSlot(w)
<1>1. /\ c.pc \in {"advance", "triggered"} /\ (c.pc = "triggered" => c.kind # "manual")
      /\ task' = [task EXCEPT ![c.task].next = next] /\ Leave(w, FALSE) /\ UNCHANGED <<clock, runs, scanning, startedAt>>
  BY DEF Advance, WorkerAt
<1>2. c.pc \in Behind /\ c.pc # "response"
  BY <1>1, SchedulePlaces
<1>3. Head(taskLock[c.task]) = w /\ Standing(w) /\ SlotHeld(w) /\ c.kind # "manual"
  BY <1>1, <1>2, HolderBehind DEF Standing
<1>4. PICK t \in Tasks : c.task = t
  BY <1>2, HolderBehind
<1>5. /\ 0 < c.slot /\ c.slot <= c.now /\ startedAt <= c.now /\ c.now \in Nat /\ c.slot \in Nat /\ startedAt \in Nat
      /\ \A i \in Triggered(t) : runs[i].slot <= c.slot
  BY <1>1, <1>2, <1>3, <1>4, ScheduleFacts DEF Standing, SlotHeld
<1>6. next \in {0, c.now + 1}
  BY <1>5 DEF NextSlot, NextRunAfter, LaterOf
<1>7. task \in [Tasks -> TaskRecords] /\ task[t] \in TaskRecords
  BY ScheduleFacts DEF ScheduleRecords
<1>8. [task[t] EXCEPT !.next = next] \in TaskRecords /\ [task[t] EXCEPT !.next = next].next = next
  <2>1. next \in Nat
    BY <1>5, <1>6
  <2> HIDE DEF next
  <2> QED BY <1>7, <2>1 DEF TaskRecords
<1> HIDE DEF next
<1>9. /\ task' \in [Tasks -> TaskRecords] /\ task'[t].next = next
      /\ \A u \in Tasks : u # t => task'[u] = task[u]
  BY <1>1, <1>4, <1>7, <1>8
<1>10. \A u \in Tasks : TaskOnward(u) \/ (c.pc \in Behind /\ c.task = u)
  BY <1>2, <1>4, <1>9 DEF TaskOnward
<1>11. SlotsFit(t)'
  <2>1. Triggered(t)' = Triggered(t) /\ runs' = runs /\ clock' = clock /\ startedAt' = startedAt
    BY <1>1 DEF Triggered
  <2>2. \A i \in Triggered(t) : 0 < runs[i].slot /\ runs[i].slot <= clock /\ runs[i].slot \in Nat
    BY ScheduleFacts DEF SlotsFit, Triggered
  <2>3. \A i \in Triggered(t) : (task'[t].next # 0 => task'[t].next >= runs[i].slot) /\ task'[t].next # runs[i].slot
    BY <1>5, <1>6, <1>9, <2>2
  <2>4. ~(task'[t].next # 0 /\ task'[t].next <= startedAt)
    BY <1>5, <1>6, <1>9
  <2> QED BY <2>1, <2>2, <2>3, <2>4 DEF SlotsFit
<1> QED BY <1>1, <1>2, <1>3, <1>4, <1>9, <1>10, <1>11, RunsUnchanged, LeaveStep

-----------------------------------------------------------------------------
(* Steps outside the lock. *)
LEMMA OutsideStep ==
  ASSUME ScheduleInv, NEW w \in Workers, NEW d \in WorkerTypes, Continue(w, d),
         worker[w].pc \in {"idle", "next"}, d.pc \in {"idle", "next", "waiting"}, d.run = 0,
         UNCHANGED <<clock, task, runs, startedAt>>, scanning => scanning',
         taskLock' \in [Tasks -> Seq(Workers)],
         \A v \in Workers : v # w => \A t \in Tasks :
           /\ Queued(v, taskLock[t]) => Queued(v, taskLock'[t])
           /\ taskLock[t] # <<>> /\ Head(taskLock[t]) = v => taskLock'[t] # <<>> /\ Head(taskLock'[t]) = v,
         d.pc # "idle" => startedAt <= d.now /\ d.now <= clock, d.kind = "tick" => scanning',
         d.pc \in {"idle", "next"} <=> d.task = NoTask, d.pc = "waiting" => Queued(w, taskLock'[d.task]),
         d.pc = "idle" <=> d.kind = "none",
         \A t \in Tasks : Due(t, startedAt) /\ PassWillSkip(t) =>
           ~scanning' /\ (d.kind = "startup" => t \in d.todo \/ (d.pc = "waiting" /\ d.task = t))
  PROVE  ScheduleInv'
<1>1. worker \in [Workers -> WorkerTypes] /\ worker[w].run = 0 /\ worker[w].pc \notin Behind /\ worker[w].pc \notin Advancing
  BY SchedulePlaces, ScheduleFacts DEF ScheduleRecords, Standing
<1>2. worker' \in [Workers -> WorkerTypes] /\ worker'[w] = d /\ \A v \in Workers : v # w => worker'[v] = worker[v]
  BY <1>1 DEF Continue
<1>3. OthersAlike(w)
  BY <1>2, RunsUnchanged DEF OthersAlike, TaskOnward
<1>4. ScheduleRecords'
  BY <1>2, ScheduleFacts DEF ScheduleRecords
<1>5. d.pc \notin Behind /\ d.pc \notin Working /\ d.pc \notin {"session", "sending", "failing", "create"}
  BY SchedulePlaces
<1>6. Standing(w)'
  <2>1. /\ d.pc # "idle" => startedAt' <= d.now /\ d.now <= clock'
        /\ d.pc \notin {"due", "overlap", "misfire", "advance", "create", "disabled"}
    BY <1>5, SchedulePlaces
  <2> QED BY <1>2, <1>5, <2>1 DEF Standing
<1>7. SlotHeld(w)' /\ Cleared(w)'
  BY <1>2, <1>5 DEF SlotHeld, Cleared
<1>8. \A i \in DOMAIN runs' : Shown(i)'
  BY <1>1, <1>3, ShownKept
<1>9. ASSUME NEW t \in Tasks PROVE SlotsFit(t)'
  <2>1. TaskOnward(t)
    BY DEF TaskOnward
  <2>2. CASE Due(t, startedAt)
    <3>1. PassWillSkip(t) => ~scanning' /\ (worker'[w].kind = "startup" =>
             t \in worker'[w].todo \/ (worker'[w].pc = "waiting" /\ worker'[w].task = t))
      BY <1>2, <2>2
    <3> QED BY <1>1, <1>3, <2>1, <3>1, FitByCall
  <2>3. CASE ~Due(t, startedAt)
    <3>1. SlotsFit(t) /\ (WillAdvance(t) => WillAdvance(t)')
      BY <1>1, <1>2, ScheduleFacts DEF WillAdvance
    <3>2. ~(task[t].enabled /\ ~task[t].deleted /\ task[t].next # 0 /\ task[t].next <= startedAt)
      BY <2>3 DEF Due
    <3>3. task' = task /\ runs' = runs /\ clock' = clock /\ startedAt' = startedAt /\ Triggered(t)' = Triggered(t)
      BY DEF Triggered
    <3> HIDE DEF WillAdvance, PassWillSkip
    <3> QED BY <3>1, <3>2, <3>3 DEF SlotsFit
  <2> QED BY <2>2, <2>3
<1> QED BY <1>3, <1>4, <1>6, <1>7, <1>8, <1>9, CallStep

LEMMA IdleTypes ==
  /\ IdleWorker \in WorkerTypes
  /\ IdleWorker.pc = "idle" /\ IdleWorker.kind = "none" /\ IdleWorker.task = NoTask /\ IdleWorker.run = 0
BY DEF IdleWorker, WorkerTypes

LEMMA LocksKept ==
  ASSUME ScheduleInv, taskLock' = taskLock
  PROVE  /\ taskLock' \in [Tasks -> Seq(Workers)]
         /\ \A w \in Workers : \A v \in Workers : v # w => \A t \in Tasks :
              /\ Queued(v, taskLock[t]) => Queued(v, taskLock'[t])
              /\ taskLock[t] # <<>> /\ Head(taskLock[t]) = v => taskLock'[t] # <<>> /\ Head(taskLock'[t]) = v
BY ScheduleFacts DEF ScheduleRecords

(* A call begins. *)
LEMMA BeginStep ==
  ASSUME ScheduleInv, NEW w \in Workers, worker[w].pc = "idle", NEW kind \in {"startup", "tick", "manual"}, NEW todo \in SUBSET Tasks,
         Continue(w, [IdleWorker EXCEPT !.pc = "next", !.kind = kind, !.now = clock, !.todo = todo]),
         UNCHANGED <<clock, task, runs, taskLock, scanning, startedAt>>,
         kind = "tick" => scanning,
         kind = "startup" => \A t \in Tasks : Due(t, startedAt) => t \in todo
  PROVE  ScheduleInv'
<1> DEFINE d == [IdleWorker EXCEPT !.pc = "next", !.kind = kind, !.now = clock, !.todo = todo]
<1>1. clock \in Nat /\ startedAt <= clock
  BY ScheduleFacts
<1>2. d \in WorkerTypes /\ d.pc = "next" /\ d.kind = kind /\ d.now = clock /\ d.todo = todo /\ d.task = NoTask /\ d.run = 0
  <2>1. ASSUME NEW moment \in Nat, moment = clock
        PROVE  d \in WorkerTypes /\ d.pc = "next" /\ d.kind = kind /\ d.now = clock /\ d.todo = todo /\ d.task = NoTask /\ d.run = 0
    BY <2>1 DEF IdleWorker, WorkerTypes
  <2> QED BY <1>1, <2>1
<1>3. Continue(w, d)
  OBVIOUS
<1> HIDE DEF d
<1>4. \A t \in Tasks : Due(t, startedAt) /\ PassWillSkip(t) =>
         ~scanning' /\ (d.kind = "startup" => t \in d.todo \/ (d.pc = "waiting" /\ d.task = t))
  BY <1>2 DEF PassWillSkip
<1>5. /\ d.pc # "idle" => startedAt <= d.now /\ d.now <= clock
      /\ d.pc \in {"idle", "next"} <=> d.task = NoTask
      /\ d.pc = "idle" <=> d.kind = "none"
  BY <1>1, <1>2
<1> QED BY <1>2, <1>3, <1>4, <1>5, LocksKept, OutsideStep

LEMMA DueLater ==
  ASSUME ScheduleInv, NEW t \in Tasks, Due(t, startedAt)
  PROVE  Due(t, clock)
<1>1. task[t].next <= clock
  BY ScheduleFacts DEF Due
<1> QED BY <1>1 DEF Due

LEMMA BeginSteps ==
  ASSUME ScheduleInv, NEW w \in Workers, Startup(w) \/ Tick(w) \/ RunTaskNow(w)
  PROVE  ScheduleInv'
<1>1. {t \in Tasks : Due(t, clock)} \in SUBSET Tasks /\ \A t \in Tasks : Due(t, startedAt) => t \in {u \in Tasks : Due(u, clock)}
  BY DueLater
<1>2. CASE Startup(w)
  <2>1. /\ worker[w].pc = "idle" /\ UNCHANGED <<clock, task, runs, taskLock, scanning, startedAt>>
        /\ Continue(w, [IdleWorker EXCEPT !.pc = "next", !.kind = "startup", !.now = clock, !.todo = {t \in Tasks : Due(t, clock)}])
    BY <1>2 DEF Startup, WorkerAt
  <2> DEFINE todo == {t \in Tasks : Due(t, clock)}
  <2>2. Continue(w, [IdleWorker EXCEPT !.pc = "next", !.kind = "startup", !.now = clock, !.todo = todo])
    BY <2>1
  <2>3. todo \in SUBSET Tasks /\ \A t \in Tasks : Due(t, startedAt) => t \in todo
    BY <1>1
  <2> HIDE DEF todo
  <2> QED BY <2>1, <2>2, <2>3, BeginStep
<1>3. CASE Tick(w)
  <2>1. /\ worker[w].pc = "idle" /\ scanning /\ UNCHANGED <<clock, task, runs, taskLock, scanning, startedAt>>
        /\ Continue(w, [IdleWorker EXCEPT !.pc = "next", !.kind = "tick", !.now = clock, !.todo = {t \in Tasks : Due(t, clock)}])
    BY <1>3 DEF Tick, WorkerAt, MayTick
  <2> DEFINE todo == {t \in Tasks : Due(t, clock)}
  <2>2. Continue(w, [IdleWorker EXCEPT !.pc = "next", !.kind = "tick", !.now = clock, !.todo = todo])
    BY <2>1
  <2>3. todo \in SUBSET Tasks
    BY <1>1
  <2> HIDE DEF todo
  <2> QED BY <2>1, <2>2, <2>3, BeginStep
<1>4. CASE RunTaskNow(w)
  <2>1. PICK t \in Tasks : Continue(w, [IdleWorker EXCEPT !.pc = "next", !.kind = "manual", !.now = clock, !.todo = {t}])
    BY <1>4 DEF RunTaskNow
  <2>2. worker[w].pc = "idle" /\ UNCHANGED <<clock, task, runs, taskLock, scanning, startedAt>>
    BY <1>4 DEF RunTaskNow, WorkerAt
  <2>3. {t} \in SUBSET Tasks
    OBVIOUS
  <2> QED BY <2>1, <2>2, <2>3, BeginStep
<1> QED BY <1>2, <1>3, <1>4

LEMMA AskForLockStep ==
  ASSUME ScheduleInv, NEW w \in Workers, AskForLock(w)
  PROVE  ScheduleInv'
<1> DEFINE c == worker[w]
<1>1. PICK t \in c.todo : /\ Continue(w, [c EXCEPT !.pc = "waiting", !.task = t, !.todo = @ \ {t}])
                          /\ taskLock' = [taskLock EXCEPT ![t] = Append(@, w)]
  BY DEF AskForLock
<1>2. c.pc = "next" /\ UNCHANGED <<clock, task, runs, scanning, startedAt>>
  BY DEF AskForLock, WorkerAt
<1>3. c \in WorkerTypes /\ t \in Tasks /\ Standing(w) /\ c.run = 0
  BY <1>1, <1>2, SchedulePlaces, ScheduleFacts DEF WorkerTypes, Standing
<1> DEFINE d == [c EXCEPT !.pc = "waiting", !.task = t, !.todo = @ \ {t}]
<1>4. /\ d \in WorkerTypes /\ d.pc = "waiting" /\ d.task = t /\ d.todo = c.todo \ {t} /\ d.run = 0 /\ d.now = c.now /\ d.kind = c.kind
  BY <1>3 DEF WorkerTypes
<1>5. Continue(w, d)
  BY <1>1
<1> HIDE DEF d
<1>6. taskLock \in [Tasks -> Seq(Workers)] /\ taskLock[t] \in Seq(Workers)
  BY <1>3, ScheduleFacts DEF ScheduleRecords
<1>7. /\ Append(taskLock[t], w) \in Seq(Workers) /\ Append(taskLock[t], w) # <<>>
      /\ taskLock[t] # <<>> => Head(Append(taskLock[t], w)) = Head(taskLock[t])
      /\ Queued(w, Append(taskLock[t], w))
      /\ \A v \in Workers : Queued(v, taskLock[t]) => Queued(v, Append(taskLock[t], w))
  BY <1>6, AppendQueued
<1>8. taskLock'[t] = Append(taskLock[t], w) /\ \A u \in Tasks : u # t => taskLock'[u] = taskLock[u]
  BY <1>1, <1>3, <1>6
<1>9. taskLock' \in [Tasks -> Seq(Workers)]
  BY <1>1, <1>6, <1>7
<1>10. \A v \in Workers : v # w => \A u \in Tasks :
         /\ Queued(v, taskLock[u]) => Queued(v, taskLock'[u])
         /\ taskLock[u] # <<>> /\ Head(taskLock[u]) = v => taskLock'[u] # <<>> /\ Head(taskLock'[u]) = v
  BY <1>7, <1>8
<1>11. /\ startedAt <= d.now /\ d.now <= clock /\ (d.kind = "tick" => scanning') /\ d.kind # "none" /\ d.task # NoTask
       /\ Queued(w, taskLock'[d.task])
  BY <1>2, <1>3, <1>4, <1>7, <1>8, ScheduleAssumption DEF Standing
<1>12. \A u \in Tasks : Due(u, startedAt) /\ PassWillSkip(u) =>
         ~scanning' /\ (d.kind = "startup" => u \in d.todo \/ (d.pc = "waiting" /\ d.task = u))
  BY <1>2, <1>4 DEF PassWillSkip
<1>13. (d.pc \in {"idle", "next"} <=> d.task = NoTask) /\ (d.pc = "idle" <=> d.kind = "none")
  BY <1>4, <1>11
<1> QED BY <1>2, <1>4, <1>5, <1>9, <1>10, <1>11, <1>12, <1>13, OutsideStep

LEMMA CallEndsStep ==
  ASSUME ScheduleInv, NEW w \in Workers, CallEnds(w)
  PROVE  ScheduleInv'
<1> DEFINE c == worker[w]
           d == IdleWorker
<1>1. /\ c.pc = "next" /\ c.todo = {} /\ Continue(w, d) /\ scanning' = (scanning \/ c.kind = "startup")
      /\ UNCHANGED <<clock, task, runs, taskLock, startedAt>>
  BY DEF CallEnds, WorkerAt
<1>2. d \in WorkerTypes /\ d.pc = "idle" /\ d.kind = "none" /\ d.task = NoTask /\ d.run = 0
  BY IdleTypes
<1>3. \A t \in Tasks : Due(t, startedAt) /\ PassWillSkip(t) =>
         ~scanning' /\ (d.kind = "startup" => t \in d.todo \/ (d.pc = "waiting" /\ d.task = t))
  BY <1>1, <1>2 DEF PassWillSkip
<1>4. scanning => scanning'
  BY <1>1
<1>5. /\ d.pc # "idle" => startedAt <= d.now /\ d.now <= clock
      /\ d.pc \in {"idle", "next"} <=> d.task = NoTask
      /\ d.pc = "waiting" => Queued(w, taskLock'[d.task])
      /\ d.pc = "idle" <=> d.kind = "none"
      /\ d.kind = "tick" => scanning'
  BY <1>2
<1> HIDE DEF d
<1> QED BY <1>1, <1>2, <1>3, <1>4, <1>5, LocksKept, OutsideStep

-----------------------------------------------------------------------------
(* The run that a call creates: by a tick, it is for a slot past all others and nothing works on the task. *)
LEMMA CreateRunStep ==
  ASSUME ScheduleInv, NEW w \in Workers, CreateRun(w)
  PROVE  /\ ScheduleInv'
         /\ \A i \in DOMAIN runs' \ DOMAIN runs : runs'[i].reason = "due" => runs'[i].slot > startedAt
<1> DEFINE c == worker[w]
           n == Len(runs) + 1
           reason == IF c.kind = "manual" THEN "manual" ELSE "due"
           run == NewRun(w, "accepted", reason, c.slot)
           d == [c EXCEPT !.pc = "session", !.run = n]
<1>1. c.pc = "create" /\ Create(run) /\ Continue(w, d) /\ UNCHANGED <<clock, task, taskLock, scanning, startedAt>>
  BY DEF CreateRun, WorkerAt
<1>2. c.pc \in Behind /\ c.pc \notin Advancing /\ c.pc # "response" /\ "session" \in Working /\ "session" \in Advancing /\ "session" \in Behind
  BY <1>1, SchedulePlaces
<1>3. PICK t \in Tasks : c.task = t
  BY <1>2, HolderBehind
<1>4. /\ c \in WorkerTypes /\ Standing(w) /\ SlotHeld(w) /\ Cleared(w) /\ c.kind # "startup" /\ c.kind # "none" /\ Head(taskLock[t]) = w
      /\ taskLock[t] # <<>> /\ c.slot \in Nat /\ clock \in Nat /\ startedAt \in Nat /\ c.now \in Nat
  BY <1>1, <1>2, <1>3, HolderBehind, ScheduleFacts DEF Standing
<1>5. c.kind \in {"tick", "manual"}
  BY <1>4 DEF WorkerTypes
<1>6. run \in RunRecords /\ run.task = t /\ run.reason = reason /\ run.slot = c.slot /\ run.session = "none"
  BY <1>3, <1>4 DEF NewRun, RunRecords, WorkerTypes, Statuses, ActiveStatus
<1>7. n \in Nat /\ n # 0 /\ DOMAIN runs = 1..Len(runs)
  BY ScheduleFacts
<1>8. /\ d \in WorkerTypes /\ d.pc = "session" /\ d.run = n /\ d.kind = c.kind /\ d.now = c.now /\ d.todo = c.todo /\ d.task = t /\ d.slot = c.slot
  <2>1. ASSUME NEW k \in Nat
        PROVE  LET e == [c EXCEPT !.pc = "session", !.run = k]
               IN  /\ e \in WorkerTypes /\ e.pc = "session" /\ e.run = k /\ e.kind = c.kind /\ e.now = c.now
                   /\ e.todo = c.todo /\ e.task = c.task /\ e.slot = c.slot
    <3>1. c \in WorkerTypes /\ "session" \in Behind
      BY <1>2, <1>4
    <3> HIDE DEF c
    <3> QED BY ONLY <3>1, k \in Nat DEF WorkerTypes
  <2>2. n \in Nat
    BY <1>7
  <2> QED BY <1>3, <2>1, <2>2
<1> HIDE DEF run, d
<1>9. /\ runs' \in Seq(RunRecords) /\ n \notin DOMAIN runs /\ DOMAIN runs' = DOMAIN runs \cup {n} /\ runs'[n] = run
      /\ \A i \in DOMAIN runs : runs'[i] = runs[i]
  BY <1>1, <1>6, RunCreated
<1> HIDE DEF n
<1>10. worker' \in [Workers -> WorkerTypes] /\ worker'[w] = d /\ \A v \in Workers : v # w => worker'[v] = worker[v]
  BY <1>1, <1>8, ScheduleFacts DEF Continue, ScheduleRecords
<1>11. RunsLast /\ \A v : SessionSpared(v)
  BY <1>9 DEF RunsLast, SessionSpared
<1>12. \A u \in Tasks : TaskOnward(u)
  BY <1>1 DEF TaskOnward
<1>13. ASSUME NEW u \in Tasks, u # t \/ reason # "due" PROVE TriggeredAlike(u)
  BY <1>6, <1>9, <1>13 DEF TriggeredAlike, Triggered
<1>14. ASSUME NEW i \in DOMAIN runs, Works(i)' PROVE Works(i)
  <2>1. ASSUME NEW v \in Workers, worker'[v].run = i PROVE worker[v].run = i
    BY <1>8, <1>9, <1>10, <2>1
  <2> QED BY <1>9, <1>14, <2>1 DEF Works
<1>15. ASSUME NEW v \in Workers, v # w PROVE Standing(v)' /\ SlotHeld(v)' /\ Cleared(v)'
  <2>1. worker'[v] = worker[v]
    BY <1>10, <1>15
  <2>2. worker[v].pc \in Behind => worker[v].task \in Tasks /\ worker[v].task # t
    BY <1>2, <1>3, <1>15, AloneBehind, BehindTask
  <2>3. Standing(v)'
    BY <1>1, <1>4, <1>11, <2>1, StandKept
  <2>4. SlotHeld(v)'
    BY <1>1, <1>12, <1>13, <2>1, <2>2, HeldKept
  <2>5. worker[v].pc = "create" => WorksAlike(worker[v].task)
    BY <1>6, <1>9, <1>14, <2>2, SchedulePlaces DEF WorksAlike
  <2>6. Cleared(v)'
    BY <1>11, <2>1, <2>5, ClearKept
  <2> QED BY <2>3, <2>4, <2>6
<1>16. Standing(w)'
  <2>1. /\ startedAt <= c.now /\ c.now <= clock /\ (c.kind = "tick" => scanning) /\ t # NoTask
    BY <1>1, <1>4, ScheduleAssumption DEF Standing
  <2>2. n \in DOMAIN runs' /\ runs'[n].task = t /\ runs'[n].session # "running"
    BY <1>6, <1>9
  <2>3. worker'[w].pc = "session" /\ worker'[w].run = n /\ worker'[w].kind = c.kind /\ worker'[w].now = c.now /\ worker'[w].task = t
    BY <1>8, <1>10
  <2> QED BY <1>1, <1>2, <1>4, <1>7, <2>1, <2>2, <2>3 DEF Standing
<1>17. SlotHeld(w)'
  <2>1. SUFFICES ASSUME c.kind # "manual"
        PROVE  /\ 0 < c.slot /\ c.slot <= c.now /\ startedAt < c.slot
               /\ task[t].next # 0 => task[t].next >= c.slot
               /\ task[t].next = c.slot => task[t].enabled /\ ~task[t].deleted
               /\ \A i \in DOMAIN runs' : runs'[i].task = t /\ runs'[i].reason = "due" => runs'[i].slot <= c.slot
    BY <1>1, <1>2, <1>8, <1>10 DEF SlotHeld, Triggered
  <2>2. /\ 0 < c.slot /\ c.slot <= c.now /\ startedAt < c.slot
        /\ task[t].next # 0 => task[t].next >= c.slot
        /\ task[t].next = c.slot => task[t].enabled /\ ~task[t].deleted
        /\ \A i \in Triggered(t) : runs[i].slot <= c.slot
    BY <1>2, <1>3, <1>4, <2>1 DEF SlotHeld
  <2>3. \A i \in DOMAIN runs' : runs'[i].task = t /\ runs'[i].reason = "due" => runs'[i].slot <= c.slot
    BY <1>4, <1>6, <1>9, <2>2 DEF Triggered
  <2> QED BY <2>2, <2>3
<1>18. Cleared(w)'
  BY <1>8, <1>10 DEF Cleared
<1>19. ASSUME NEW u \in Tasks PROVE SlotsFit(u)'
  <2>1. WillAdvance(u) => WillAdvance(u)'
    BY <1>2, <1>10 DEF WillAdvance
  <2>2. PassWillSkip(u) => PassWillSkip(u)'
    BY <1>1, <1>4, <1>8, <1>10 DEF PassWillSkip
  <2>3. CASE u # t \/ c.kind = "manual"
    <3>1. TriggeredAlike(u)
      BY <1>13, <2>3
    <3> QED BY <1>1, <1>4, <1>12, <2>1, <2>2, <3>1, FitKept
  <2>4. CASE u = t /\ c.kind # "manual"
    <3>1. WillAdvance(u)'
      BY <1>2, <1>8, <1>10, <2>4 DEF WillAdvance
    <3>2. SlotsFit(u)
      BY ScheduleFacts
    <3>3. /\ 0 < c.slot /\ c.slot <= clock
          /\ task[u].next # 0 => task[u].next >= c.slot
          /\ task[u].next = c.slot => task[u].enabled /\ ~task[u].deleted
      BY <1>2, <1>3, <1>4, <2>4 DEF SlotHeld, Standing
    <3>4. ASSUME NEW i \in Triggered(u)'
          PROVE  /\ 0 < runs'[i].slot /\ runs'[i].slot <= clock
                 /\ task[u].next # 0 => task[u].next >= runs'[i].slot
                 /\ task[u].next = runs'[i].slot => task[u].enabled /\ ~task[u].deleted
      <4>1. i = n \/ (i \in Triggered(u) /\ runs'[i] = runs[i])
        BY <1>9, <3>4 DEF Triggered
      <4> HIDE DEF WillAdvance, PassWillSkip
      <4> QED BY <1>6, <1>9, <3>2, <3>3, <4>1 DEF SlotsFit
    <3> HIDE DEF WillAdvance, PassWillSkip
    <3> QED BY <1>1, <3>1, <3>4 DEF SlotsFit
  <2> QED BY <2>3, <2>4
<1>20. ASSUME NEW i \in DOMAIN runs' PROVE Shown(i)'
  <2>1. CASE i = n
    BY <1>6, <1>9, <2>1 DEF Shown
  <2>2. CASE i # n
    <3>1. i \in DOMAIN runs /\ Shown(i) /\ runs'[i] = runs[i]
      BY <1>9, <2>2, ScheduleFacts
    <3> QED BY <1>2, <1>10, <3>1 DEF Shown
  <2> QED BY <2>1, <2>2
<1>21. SlotsAreKept'
  <2>1. SlotTriggeredOnce /\ DueRunsDoNotOverlap
    BY ScheduleFacts DEF SlotsAreKept
  <2>2. ASSUME runs'[n].reason = "due"
        PROVE  \A i \in DOMAIN runs : runs[i].reason = "due" /\ runs[i].task = t => runs[i].slot < c.slot /\ ~Works(i)
    <3>1. c.kind = "tick"
      BY <1>5, <1>6, <1>9, <2>2
    <3>2. \A i \in Triggered(t) : runs[i].slot < c.slot
      BY <1>1, <1>2, <1>3, <1>4, <3>1 DEF SlotHeld
    <3>3. \A i \in DOMAIN runs : runs[i].task = t => ~Works(i)
      BY <1>1, <1>3, <1>4, <3>1 DEF Cleared
    <3> QED BY <3>2, <3>3 DEF Triggered
  <2>3. \A i \in DOMAIN runs' : i \in DOMAIN runs \/ i = n
    BY <1>9
  <2>4. runs'[n].task = t /\ runs'[n].slot = c.slot /\ \A i \in DOMAIN runs : runs'[i] = runs[i] /\ runs[i].slot \in Nat
    BY <1>6, <1>9, ScheduleFacts
  <2>5. SlotTriggeredOnce'
    BY <1>4, <2>1, <2>2, <2>3, <2>4 DEF SlotTriggeredOnce
  <2>6. DueRunsDoNotOverlap'
    BY <1>14, <2>1, <2>2, <2>3, <2>4 DEF DueRunsDoNotOverlap
  <2> QED BY <2>5, <2>6 DEF SlotsAreKept
<1>22. ScheduleRecords'
  BY <1>1, <1>9, <1>10, ScheduleFacts DEF ScheduleRecords
<1>23. ScheduleInv'
  BY <1>15, <1>16, <1>17, <1>18, <1>19, <1>20, <1>21, <1>22 DEF ScheduleInv
<1>24. ASSUME NEW i \in DOMAIN runs' \ DOMAIN runs, runs'[i].reason = "due" PROVE runs'[i].slot > startedAt
  <2>1. i = n /\ c.kind = "tick" /\ runs'[i].slot = c.slot
    BY <1>5, <1>6, <1>9, <1>24
  <2>2. startedAt < c.slot
    BY <1>2, <1>4, <2>1 DEF SlotHeld
  <2> QED BY <1>4, <2>1, <2>2
<1> QED BY <1>23, <1>24

-----------------------------------------------------------------------------
(* The steps of nobody's call: of the sessions and the monitors, of the user and of time. *)
LEMMA NobodyStep ==
  ASSUME ScheduleInv, UNCHANGED <<worker, taskLock, scanning, startedAt>>, RunsAlike, DOMAIN runs' = DOMAIN runs,
         \A i \in DOMAIN runs : runs'[i].session = "running" => runs[i].session = "running",
         task' \in [Tasks -> TaskRecords], \A t \in Tasks : TaskOnward(t), clock' \in Nat, clock' >= clock,
         \A i \in DOMAIN runs' : Shown(i)'
  PROVE  ScheduleInv'
<1>1. RunsLast /\ (\A v : SessionSpared(v)) /\ \A t : TriggeredAlike(t)
  BY AlikeTriggered DEF RunsAlike, SessionSpared
<1>2. \A t : WorksAlike(t)
  BY DEF WorksAlike, Works
<1>3. ASSUME NEW v \in Workers PROVE Standing(v)' /\ SlotHeld(v)' /\ Cleared(v)'
  <2>1. Standing(v)'
    BY <1>1, StandKept
  <2>2. SlotHeld(v)'
    BY <1>1, BehindTask, HeldKept
  <2>3. Cleared(v)'
    BY <1>1, <1>2, ClearKept
  <2> QED BY <2>1, <2>2, <2>3
<1>4. ASSUME NEW t \in Tasks PROVE SlotsFit(t)'
  <2>1. (WillAdvance(t) => WillAdvance(t)') /\ (PassWillSkip(t) => PassWillSkip(t)')
    BY DEF WillAdvance, PassWillSkip
  <2> QED BY <1>1, <2>1, FitKept
<1>5. SlotsAreKept'
  BY <1>2, SlotsKept
<1>6. ScheduleRecords'
  <2>1. clock \in Nat /\ startedAt \in Nat /\ startedAt <= clock /\ ScheduleRecords
    BY ScheduleFacts
  <2>2. startedAt' <= clock'
    BY <2>1
  <2> QED BY <1>1, <2>1, <2>2 DEF ScheduleRecords, RunsLast
<1> QED BY <1>3, <1>4, <1>5, <1>6 DEF ScheduleInv

LEMMA MonitorStep ==
  ASSUME ScheduleInv, NEW i \in DOMAIN runs, TurnEnds(i) \/ MonitorTimesOut(i) \/ EndingRecorded(i)
  PROVE  ScheduleInv'
<1>1. PICK run \in RunRecords :
        /\ UpdateRun(i, run) /\ run.task = runs[i].task /\ run.reason = runs[i].reason /\ run.slot = runs[i].slot
        /\ run.session = "running" => runs[i].session = "running" /\ run.ending = "none" /\ runs[i].ending # "none"
  <2>1. runs[i] \in RunRecords
    BY ScheduleFacts
  <2>2. CASE TurnEnds(i)
    <3>1. PICK status \in {"succeeded", "failed"} : UpdateRun(i, [Finished(runs[i], status) EXCEPT !.session = "over"])
      BY <2>2 DEF TurnEnds
    <3> DEFINE run == Finished(runs[i], status)
               over == [run EXCEPT !.session = "over"]
    <3>2. run \in RunRecords /\ run.task = runs[i].task /\ run.reason = runs[i].reason /\ run.slot = runs[i].slot
      BY <2>1, FinishedRun
    <3> HIDE DEF run
    <3>3. over \in RunRecords /\ over.task = run.task /\ over.reason = run.reason /\ over.slot = run.slot /\ over.session = "over"
      BY <3>2, RunSessionSet
    <3>4. UpdateRun(i, over)
      BY <3>1 DEF run
    <3> HIDE DEF over
    <3> QED BY <3>2, <3>3, <3>4
  <2>3. CASE MonitorTimesOut(i)
    <3> DEFINE run == Finished(runs[i], "failed")
               session == IF run.session = "running" THEN "over" ELSE run.session
    <3>1. UpdateRun(i, [run EXCEPT !.session = session])
      BY <2>3 DEF MonitorTimesOut
    <3>2. run \in RunRecords /\ run.task = runs[i].task /\ run.reason = runs[i].reason /\ run.slot = runs[i].slot
      BY <2>1, FinishedRun
    <3> HIDE DEF run
    <3>3. session \in {"none", "running", "over"} /\ session # "running"
      BY <3>2 DEF RunRecords
    <3> HIDE DEF session
    <3> DEFINE over == [run EXCEPT !.session = session]
    <3>4. over \in RunRecords /\ over.task = run.task /\ over.reason = run.reason /\ over.slot = run.slot /\ over.session = session
      BY <3>2, <3>3, RunSessionSet
    <3>5. UpdateRun(i, over)
      BY <3>1
    <3> HIDE DEF over
    <3> QED BY <3>2, <3>3, <3>4, <3>5
  <2>4. CASE EndingRecorded(i)
    <3> DEFINE run == [runs[i] EXCEPT !.status = runs[i].ending, !.ending = "none"]
    <3>1. runs[i].ending # "none" /\ UpdateRun(i, run)
      BY <2>4 DEF EndingRecorded
    <3>2. /\ run \in RunRecords /\ run.task = runs[i].task /\ run.reason = runs[i].reason /\ run.slot = runs[i].slot
          /\ run.session = runs[i].session /\ run.ending = "none"
      <4>1. runs[i].ending \in Statuses
        BY <2>1, <3>1 DEF RunRecords, Statuses
      <4> QED BY <2>1, <4>1 DEF RunRecords
    <3> HIDE DEF run
    <3> QED BY <3>1, <3>2
  <2> QED BY <2>2, <2>3, <2>4
<1>2. UNCHANGED <<clock, task, worker, taskLock, scanning, startedAt>>
  BY DEF TurnEnds, MonitorTimesOut, EndingRecorded
<1>3. RunsAlike /\ DOMAIN runs' = DOMAIN runs /\ runs'[i] = run /\ \A j \in DOMAIN runs : j # i => runs'[j] = runs[j]
  BY <1>1, RunUpdated
<1>4. \A j \in DOMAIN runs : runs'[j].session = "running" => runs[j].session = "running"
  BY <1>1, <1>3
<1>5. ASSUME NEW j \in DOMAIN runs' PROVE Shown(j)'
  <2>1. j \in DOMAIN runs /\ Shown(j)
    BY <1>3, ScheduleFacts
  <2> QED BY <1>1, <1>2, <1>3, <2>1 DEF Shown
<1>6. task' \in [Tasks -> TaskRecords] /\ (\A t \in Tasks : TaskOnward(t)) /\ clock' \in Nat /\ clock' >= clock
  BY <1>2, ScheduleFacts DEF ScheduleRecords, TaskOnward
<1> QED BY <1>2, <1>3, <1>4, <1>5, <1>6, NobodyStep

(* The rest of the world changes the task and the clock. *)
LEMMA WorldStep ==
  ASSUME ScheduleInv, UNCHANGED <<runs, worker, taskLock, scanning, startedAt>>,
         task' \in [Tasks -> TaskRecords], \A t \in Tasks : TaskOnward(t), clock' \in Nat, clock' >= clock
  PROVE  ScheduleInv'
<1>1. RunsAlike /\ DOMAIN runs' = DOMAIN runs /\ \A i \in DOMAIN runs : runs'[i].session = "running" => runs[i].session = "running"
  BY RunsUnchanged
<1>2. \A i \in DOMAIN runs' : Shown(i)'
  BY ScheduleFacts DEF Shown
<1> QED BY <1>1, <1>2, NobodyStep

LEMMA EditStep ==
  ASSUME ScheduleInv, NEW t \in Tasks, UpdateTask(t) \/ DeleteTask(t) \/ LoseProject(t)
  PROVE  ScheduleInv'
<1>1. task \in [Tasks -> TaskRecords] /\ task[t] \in TaskRecords /\ clock \in Nat
  BY ScheduleFacts DEF ScheduleRecords
<1>2. UNCHANGED <<clock, runs, worker, taskLock, scanning, startedAt>>
  BY DEF UpdateTask, DeleteTask, LoseProject
<1>3. PICK edited \in TaskRecords :
        /\ task' = [task EXCEPT ![t] = edited]
        /\ \/ edited.next \in {0, clock + 1}
           \/ edited.next = task[t].next /\ edited.enabled = task[t].enabled /\ edited.deleted = task[t].deleted
  <2>1. CASE task' = [task EXCEPT ![t].enabled = FALSE, ![t].next = 0]
    <3> DEFINE edited == [task[t] EXCEPT !.enabled = FALSE, !.next = 0]
    <3>1. edited \in TaskRecords /\ edited.next = 0
      BY <1>1 DEF TaskRecords
    <3>2. task' = [task EXCEPT ![t] = edited]
      BY <1>1, <2>1
    <3> QED BY <3>1, <3>2
  <2>2. CASE task' = [task EXCEPT ![t].enabled = TRUE, ![t].next = InitialNextRunAt(clock)]
    <3> DEFINE edited == [task[t] EXCEPT !.enabled = TRUE, !.next = clock + 1]
    <3>1. edited \in TaskRecords /\ edited.next = clock + 1
      BY <1>1, clock + 1 \in Nat DEF TaskRecords
    <3>2. task' = [task EXCEPT ![t] = edited]
      BY <1>1, <2>2 DEF InitialNextRunAt
    <3> QED BY <3>1, <3>2
  <2>3. ASSUME NEW rule \in {"interval", "once"}, task' = [task EXCEPT ![t].rule = rule, ![t].next = InitialNextRunAt(clock)]
        PROVE  \E edited \in TaskRecords : task' = [task EXCEPT ![t] = edited] /\ edited.next \in {0, clock + 1}
    <3> DEFINE edited == [task[t] EXCEPT !.rule = rule, !.next = clock + 1]
    <3>1. edited \in TaskRecords /\ edited.next = clock + 1
      BY <1>1, clock + 1 \in Nat DEF TaskRecords
    <3>2. task' = [task EXCEPT ![t] = edited]
      BY <1>1, <2>3 DEF InitialNextRunAt
    <3> QED BY <3>1, <3>2
  <2>4. CASE task' = [task EXCEPT ![t].enabled = FALSE, ![t].deleted = TRUE, ![t].next = 0]
    <3> DEFINE edited == [task[t] EXCEPT !.enabled = FALSE, !.deleted = TRUE, !.next = 0]
    <3>1. edited \in TaskRecords /\ edited.next = 0
      BY <1>1 DEF TaskRecords
    <3>2. task' = [task EXCEPT ![t] = edited]
      BY <1>1, <2>4
    <3> QED BY <3>1, <3>2
  <2>5. CASE task' = [task EXCEPT ![t].project = FALSE]
    <3> DEFINE edited == [task[t] EXCEPT !.project = FALSE]
    <3>1. edited \in TaskRecords /\ edited.next = task[t].next /\ edited.enabled = task[t].enabled /\ edited.deleted = task[t].deleted
      BY <1>1 DEF TaskRecords
    <3>2. task' = [task EXCEPT ![t] = edited]
      BY <1>1, <2>5
    <3> QED BY <3>1, <3>2
  <2> QED BY <2>1, <2>2, <2>3, <2>4, <2>5 DEF UpdateTask, DeleteTask, LoseProject
<1>4. task'[t] = edited /\ (\A u \in Tasks : u # t => task'[u] = task[u]) /\ task' \in [Tasks -> TaskRecords]
  BY <1>1, <1>3
<1>5. \A u \in Tasks : TaskOnward(u)
  BY <1>3, <1>4 DEF TaskOnward
<1> QED BY <1>1, <1>2, <1>4, <1>5, WorldStep

LEMMA TimeStep ==
  ASSUME ScheduleInv, TimePasses
  PROVE  ScheduleInv'
<1>1. clock' = clock + 1 /\ UNCHANGED <<task, runs, worker, taskLock, scanning, startedAt>>
  BY DEF TimePasses
<1>2. clock \in Nat /\ task \in [Tasks -> TaskRecords]
  BY ScheduleFacts DEF ScheduleRecords
<1> QED BY <1>1, <1>2, WorldStep DEF TaskOnward

(* A restart: the tasks that it finds due are left to the pass at startup. *)
LEMMA CrashStep ==
  ASSUME ScheduleInv, ScheduleCrash
  PROVE  ScheduleInv'
<1> DEFINE stopped(i) == [runs[i] EXCEPT !.monitor = "none", !.ending = "none",
                                         !.session = IF runs[i].session = "running" THEN "over" ELSE runs[i].session]
<1>1. /\ worker' = [w \in Workers |-> IdleWorker] /\ taskLock' = [t \in Tasks |-> <<>>] /\ runs' = [i \in DOMAIN runs |-> stopped(i)]
      /\ scanning' = FALSE /\ startedAt' = clock /\ clock' = clock /\ task' = task
  BY DEF ScheduleCrash
<1>2. ASSUME NEW i \in DOMAIN runs
      PROVE  /\ stopped(i) \in RunRecords /\ stopped(i).task = runs[i].task /\ stopped(i).reason = runs[i].reason
             /\ stopped(i).slot = runs[i].slot /\ stopped(i).session # "running"
  <2>1. runs[i] \in RunRecords
    BY ScheduleFacts
  <2> QED BY <2>1 DEF RunRecords
<1> HIDE DEF stopped
<1>3. /\ DOMAIN runs' = DOMAIN runs
      /\ \A i \in DOMAIN runs : /\ runs'[i].task = runs[i].task /\ runs'[i].reason = runs[i].reason
                                /\ runs'[i].slot = runs[i].slot /\ runs'[i].session # "running"
  BY <1>1, <1>2
<1>4. runs' \in Seq(RunRecords)
  <2>1. DOMAIN runs = 1..Len(runs) /\ Len(runs) \in Nat
    BY ScheduleFacts
  <2>2. runs' \in [1..Len(runs) -> RunRecords]
    BY <1>1, <1>2, <2>1
  <2> HIDE DEF RunRecords
  <2> QED BY <2>1, <2>2, SeqDef
<1>5. \A w \in Workers : worker'[w] = IdleWorker /\ IdleWorker.pc \notin Behind /\ IdleWorker.pc \notin Working
  BY <1>1, IdleTypes, SchedulePlaces
<1>6. clock \in Nat /\ task \in [Tasks -> TaskRecords]
  BY ScheduleFacts DEF ScheduleRecords
<1>7. ScheduleRecords'
  <2>1. worker' \in [Workers -> WorkerTypes]
    BY <1>1, IdleTypes
  <2>2. taskLock' \in [Tasks -> Seq(Workers)]
    BY <1>1, EmptySeq
  <2> QED BY <1>1, <1>4, <1>6, <2>1, <2>2 DEF ScheduleRecords
<1>8. ASSUME NEW w \in Workers PROVE Standing(w)' /\ SlotHeld(w)' /\ Cleared(w)'
  <2>1. Standing(w)'
    BY <1>5, IdleTypes, SchedulePlaces DEF Standing
  <2> QED BY <1>5, <2>1, IdleTypes DEF SlotHeld, Cleared
<1>9. ASSUME NEW t \in Tasks PROVE SlotsFit(t)'
  <2>1. PassWillSkip(t)'
    BY <1>1, <1>5, IdleTypes DEF PassWillSkip
  <2>2. Triggered(t)' = Triggered(t)
    BY <1>3 DEF Triggered
  <2>3. SlotsFit(t) /\ \A i \in Triggered(t) : runs'[i].slot = runs[i].slot
    BY <1>3, ScheduleFacts DEF Triggered
  <2> HIDE DEF WillAdvance, PassWillSkip
  <2> QED BY <1>1, <2>1, <2>2, <2>3 DEF SlotsFit
<1>10. \A i \in DOMAIN runs' : Shown(i)'
  BY <1>3 DEF Shown
<1>11. SlotsAreKept'
  <2>1. \A i \in DOMAIN runs' : ~Works(i)'
    <3>1. \A i \in DOMAIN runs' : i # 0
      BY <1>3, ScheduleFacts
    <3> QED BY <1>3, <1>5, <3>1, IdleTypes DEF Works
  <2>2. SlotTriggeredOnce
    BY ScheduleFacts DEF SlotsAreKept
  <2> QED BY <1>3, <2>1, <2>2 DEF SlotsAreKept, SlotTriggeredOnce, DueRunsDoNotOverlap
<1> QED BY <1>7, <1>8, <1>9, <1>10, <1>11 DEF ScheduleInv

LEMMA ScheduleInitially ==
  ASSUME ScheduleInit
  PROVE  ScheduleInv
<1>1. /\ clock = 1 /\ startedAt = 1 /\ runs = <<>> /\ scanning = FALSE
      /\ worker = [w \in Workers |-> IdleWorker] /\ taskLock = [t \in Tasks |-> <<>>]
  BY DEF ScheduleInit
<1>2. task \in [Tasks -> TaskRecords]
  <2>1. ASSUME NEW t \in StoredTask PROVE t \in TaskRecords
    BY <2>1, ScheduleAssumption DEF StoredTask, TaskRecords
  <2>2. task \in [Tasks -> StoredTask]
    BY DEF ScheduleInit
  <2> QED BY <2>1, <2>2
<1>3. DOMAIN runs = {} /\ runs \in Seq(RunRecords)
  BY <1>1, EmptySeq
<1>4. \A w \in Workers : worker[w] = IdleWorker /\ IdleWorker.pc \notin Behind /\ IdleWorker.pc \notin Working
  BY <1>1, IdleTypes, SchedulePlaces
<1>5. ScheduleRecords
  <2>1. worker \in [Workers -> WorkerTypes] /\ taskLock \in [Tasks -> Seq(Workers)]
    BY <1>1, IdleTypes, EmptySeq
  <2> QED BY <1>1, <1>2, <1>3, <2>1 DEF ScheduleRecords
<1>6. ASSUME NEW w \in Workers PROVE Standing(w) /\ SlotHeld(w) /\ Cleared(w)
  <2>1. Standing(w)
    BY <1>4, IdleTypes, SchedulePlaces DEF Standing
  <2> QED BY <1>4, <2>1, IdleTypes DEF SlotHeld, Cleared
<1>7. \A t \in Tasks : SlotsFit(t)
  BY <1>1, <1>3, <1>4, IdleTypes DEF SlotsFit, PassWillSkip, Triggered
<1>8. (\A i \in DOMAIN runs : Shown(i)) /\ SlotsAreKept
  BY <1>3 DEF SlotsAreKept, SlotTriggeredOnce, DueRunsDoNotOverlap
<1> QED BY <1>5, <1>6, <1>7, <1>8 DEF ScheduleInv

LEMMA ScheduleStuttering ==
  ASSUME ScheduleInv, UNCHANGED scheduleVars
  PROVE  ScheduleInv'
<1>1. UNCHANGED <<runs, worker, taskLock, scanning, startedAt>> /\ task' = task /\ clock' = clock
  BY DEF scheduleVars
<1>2. task' \in [Tasks -> TaskRecords] /\ (\A t \in Tasks : TaskOnward(t)) /\ clock' \in Nat /\ clock' >= clock
  BY <1>1, ScheduleFacts DEF ScheduleRecords, TaskOnward
<1> QED BY <1>1, <1>2, WorldStep

LEMMA ScheduleStep ==
  ASSUME ScheduleInv, [ScheduleNext]_scheduleVars
  PROVE  ScheduleInv'
<1>1. ASSUME NEW w \in Workers, Call(w) \/ RunTaskNow(w)
      PROVE  ScheduleInv'
  BY <1>1, BeginSteps DEF Call
<1>2. ASSUME NEW w \in Workers, WorkerStep(w)
      PROVE  ScheduleInv'
  BY <1>2, AskForLockStep, CallEndsStep, NotDueStep, TaskDueStep, TaskRequestedStep, CheckOverlapStep, SkipRunStep,
     SkipDisabledStep, LeavesAsIs, CreateRunStep, RunSteps, AdvanceStep DEF WorkerStep
<1>3. CASE UNCHANGED scheduleVars
  BY <1>3, ScheduleStuttering
<1> QED BY <1>1, <1>2, <1>3, MonitorStep, EditStep, TimeStep, CrashStep DEF ScheduleNext

(* Only what a tick triggers is due, and only CreateRun records it. *)
LEMMA TriggeredByTick ==
  ASSUME ScheduleInv, [ScheduleNext]_scheduleVars, NEW i \in DOMAIN runs' \ DOMAIN runs, runs'[i].reason = "due"
  PROVE  runs'[i].slot > startedAt
<1>1. ASSUME NEW w \in Workers, CreateRun(w) PROVE runs'[i].slot > startedAt
  BY <1>1, CreateRunStep
<1>2. ASSUME NEW w \in Workers, SkipRun(w) \/ SkipDisabled(w) PROVE FALSE
  <2>1. PICK reason \in {"overlap", "misfire", "disabled"} : Create(NewRun(w, "skipped", reason, worker[w].slot))
    BY <1>2 DEF SkipRun, SkipDisabled
  <2> DEFINE run == NewRun(w, "skipped", reason, worker[w].slot)
  <2>2. worker[w].pc \in Behind
    BY <1>2, SchedulePlaces DEF SkipRun, SkipDisabled, WorkerAt
  <2>3. run \in RunRecords /\ run.reason # "due"
    BY <2>2, HolderBehind DEF NewRun, RunRecords, WorkerTypes, Statuses
  <2>4. Create(run)
    BY <2>1
  <2> HIDE DEF run
  <2> QED BY <2>3, <2>4, RunCreated
<1>3. ASSUME NEW w \in Workers,
             SessionCreated(w) \/ SessionFails(w) \/ MessageAccepted(w) \/ SendFails(w) \/ RecordFailure(w) \/ RecordResponse(w)
      PROVE  FALSE
  <2>1. \E run : UpdateRun(worker[w].run, run)
    BY <1>3 DEF SessionCreated, SessionFails, MessageAccepted, SendFails, RecordFailure, RecordResponse
  <2> QED BY <2>1 DEF UpdateRun
<1>4. ASSUME NEW j \in DOMAIN runs, TurnEnds(j) \/ MonitorTimesOut(j) \/ EndingRecorded(j)
      PROVE  FALSE
  <2>1. \E run : UpdateRun(j, run)
    BY <1>4 DEF TurnEnds, MonitorTimesOut, EndingRecorded
  <2> QED BY <2>1 DEF UpdateRun
<1>5. ASSUME ScheduleCrash PROVE FALSE
  BY <1>5 DEF ScheduleCrash
<1>6. ASSUME runs' = runs PROVE FALSE
  BY <1>6
<1>7. ASSUME NEW w \in Workers,
             \/ Call(w) \/ RunTaskNow(w) \/ AskForLock(w) \/ CallEnds(w) \/ NotDue(w) \/ TaskDue(w) \/ TaskRequested(w)
             \/ CheckOverlap(w) \/ NoProject(w) \/ RunRequested(w) \/ Advance(w)
      PROVE  runs' = runs
  BY <1>7 DEF Call, Startup, Tick, RunTaskNow, AskForLock, CallEnds, NotDue, TaskDue, TaskRequested, CheckOverlap, NoProject,
     RunRequested, Advance
<1>8. ASSUME NEW t \in Tasks, UpdateTask(t) \/ DeleteTask(t) \/ LoseProject(t) PROVE runs' = runs
  BY <1>8 DEF UpdateTask, DeleteTask, LoseProject
<1>9. ASSUME TimePasses \/ UNCHANGED scheduleVars PROVE runs' = runs
  BY <1>9 DEF TimePasses, scheduleVars
<1>10. ASSUME NEW w \in Workers, WorkerStep(w) PROVE runs'[i].slot > startedAt
  BY <1>1, <1>2, <1>3, <1>6, <1>7, <1>10 DEF WorkerStep
<1> QED BY <1>4, <1>5, <1>6, <1>7, <1>8, <1>9, <1>10 DEF ScheduleNext

(* The state of the scheduler hangs together at every moment: one call at a time is behind the lock of a task
   (schedule.ts:424), and a slot that was triggered is in the past of its task, or its call will still move the task on. *)
THEOREM ScheduleInvariance == ScheduleSpec => []ScheduleInv
<1>1. ScheduleInit => ScheduleInv
  BY ScheduleInitially
<1>2. ScheduleInv /\ [ScheduleNext]_scheduleVars => ScheduleInv'
  BY ScheduleStep
<1> QED BY <1>1, <1>2, PTL DEF ScheduleSpec

(* For any number of tasks, overlapping ticks, edits and restarts: no slot of a task is triggered twice, and no two
   scheduled runs of a task work at once. *)
THEOREM SlotsStayKept == ScheduleSpec => []SlotsAreKept
<1>1. ScheduleInv => SlotsAreKept
  BY DEF ScheduleInv
<1> QED BY <1>1, ScheduleInvariance, PTL

(* A slot from before the last start is never made up for: skipMissedTasksAtStartup() comes before the first tick, and a
   tick triggers only what the pass has left. *)
THEOREM MissedStaysSkipped == ScheduleSpec => MissedIsSkipped
<1>1. ScheduleInv /\ [ScheduleNext]_scheduleVars =>
        [\A i \in DOMAIN runs' \ DOMAIN runs : runs'[i].reason = "due" => runs'[i].slot > startedAt]_scheduleVars
  BY TriggeredByTick
<1> QED BY <1>1, ScheduleInvariance, PTL DEF MissedIsSkipped, ScheduleSpec

-----------------------------------------------------------------------------
(* The relay: RelayIsTrue of BrowserRelay. *)

(* The list of pending commands: each of them waits, is there once, and has an id that was given out. *)
Listed ==
  /\ \A i \in Ids : pendingExtension[i] # Nothing =>
       command[pendingExtension[i]].state = "pending" /\ i < nextExtensionId
  /\ \A i, j \in Ids : pendingExtension[i] # Nothing /\ pendingExtension[i] = pendingExtension[j] => i = j
  /\ \A c \in Commands : command[c].state = "pending" => \E i \in Ids : pendingExtension[i] = c

OnItsWay == \A m \in sent : m.id < nextExtensionId /\ pendingExtension[m.id] \in {Nothing, m.for}

Begun == {c \in Commands : command[c].state # "new"}

IdsLast == nextExtensionId <= Cardinality(Begun) + 1

RelayInv == RelayTypeOK /\ Listed /\ OnItsWay /\ IdsLast /\ AnsweredByTheirOwn /\ ClientsKnowTargets

-----------------------------------------------------------------------------
CommandTypes == [state : {"new", "pending", "answered", "timedOut", "disconnected", "refused"},
                 answer : Commands \cup {Nothing}]

LEMMA CommandFacts ==
  ASSUME RelayInv
  PROVE  /\ command \in [Commands -> CommandTypes]
         /\ pendingExtension \in [Ids -> Commands \cup {Nothing}]
         /\ sent \subseteq [to : Sockets, id : Ids, for : Commands]
         /\ nextExtensionId \in Nat /\ nextExtensionId >= 1
         /\ Cardinality(Commands) \in Nat /\ Nothing \notin Commands
         /\ \A i \in Ids : i \in Nat
<1>1. Cardinality(Commands) \in Nat /\ Nothing \notin Commands
  BY FS_CardinalityType, RelayAssumption
<1> QED BY <1>1 DEF RelayInv, RelayTypeOK, CommandTypes, Ids

LEMMA BegunIsFinite ==
  /\ Begun \subseteq Commands /\ IsFiniteSet(Begun) /\ Cardinality(Begun) \in Nat
  /\ Cardinality(Begun) <= Cardinality(Commands)
<1>1. Begun \subseteq Commands
  BY DEF Begun
<1> QED BY <1>1, RelayAssumption, FS_Subset, FS_CardinalityType

(* The parts of the invariant that only commands, or only tabs and clients, can disturb. *)
LEMMA CommandsKept ==
  ASSUME RelayInv, UNCHANGED commandVars
  PROVE  Listed' /\ OnItsWay' /\ IdsLast' /\ AnsweredByTheirOwn'
BY DEF RelayInv, commandVars, Listed, OnItsWay, IdsLast, Begun, AnsweredByTheirOwn

LEMMA TabsKept ==
  ASSUME RelayInv, UNCHANGED tabVars, cdpClients' \subseteq cdpClients
  PROVE  ClientsKnowTargets'
BY DEF RelayInv, tabVars, ClientsKnowTargets

LEMMA ConnectionStep ==
  ASSUME RelayInv, NEW e \in Sockets, ExtensionAccepted(e) \/ ExtensionOpens(e) \/ ExtensionLost(e)
  PROVE  RelayInv'
<1>1. UNCHANGED <<client, cdpClients, tabVars, commandVars>>
  BY DEF ExtensionAccepted, ExtensionOpens, ExtensionLost
<1>2. socket' \in [Sockets -> {"new", "accepted", "open", "closing", "closed"}]
  BY DEF ExtensionAccepted, ExtensionOpens, ExtensionLost, RelayInv, RelayTypeOK
<1>3. extensionWs' \in Sockets \cup {Nothing}
  BY DEF ExtensionAccepted, ExtensionOpens, ExtensionLost, RelayInv, RelayTypeOK
<1>4. RelayTypeOK'
  BY <1>1, <1>2, <1>3 DEF RelayInv, RelayTypeOK, tabVars, commandVars
<1> QED BY <1>1, <1>4, CommandsKept, TabsKept DEF RelayInv

LEMMA ClientStep ==
  ASSUME RelayInv, NEW k \in Clients, ClientAccepted(k) \/ ClientOpens(k) \/ ClientCloses(k)
  PROVE  RelayInv'
<1>1. UNCHANGED <<socket, extensionWs, connectedTargets, commandVars>>
  BY DEF ClientAccepted, ClientOpens, ClientCloses, tabVars
<1>2. /\ client' \in [Clients -> {"new", "accepted", "open", "closed"}]
      /\ cdpClients' \subseteq Clients
      /\ known' \in [Clients -> [TabSessions -> Targets \cup {Nothing}]]
  BY DEF ClientAccepted, ClientOpens, ClientCloses, tabVars, RelayInv, RelayTypeOK
<1>3. RelayTypeOK'
  BY <1>1, <1>2 DEF RelayInv, RelayTypeOK, commandVars
<1>4. ClientsKnowTargets'
  <2>1. CASE ClientOpens(k)
    BY <2>1 DEF ClientOpens, RelayInv, RelayTypeOK, ClientsKnowTargets
  <2>2. CASE ClientAccepted(k) \/ ClientCloses(k)
    BY <2>2, TabsKept DEF ClientAccepted, ClientCloses
  <2> QED BY <2>1, <2>2
<1> QED BY <1>1, <1>3, <1>4, CommandsKept DEF RelayInv

LEMMA TabStep ==
  ASSUME RelayInv, NEW e \in Sockets, NEW s \in TabSessions, NEW t,
         TabDetached(e, s) \/ (t \in Targets /\ TabAttached(e, s, t))
  PROVE  RelayInv'
<1>1. UNCHANGED <<socket, extensionWs, client, cdpClients, commandVars>>
  BY DEF TabDetached, TabAttached
<1>2. /\ known \in [Clients -> [TabSessions -> Targets \cup {Nothing}]]
      /\ connectedTargets \in [TabSessions -> Targets \cup {Nothing}]
      /\ cdpClients \subseteq Clients
      /\ \A k \in cdpClients : known[k] = connectedTargets
      /\ Nothing \notin Targets
  BY RelayAssumption DEF RelayInv, RelayTypeOK, ClientsKnowTargets
<1>3. \A k \in Clients :
        /\ HearsDetached(known[k], s) = [known[k] EXCEPT ![s] = Nothing]
        /\ Retargeted(known[k], s, t) = [known[k] EXCEPT ![s] = t]
        /\ HearsAttached(known[k], s, t) = IF known[k][s] = Nothing THEN [known[k] EXCEPT ![s] = t] ELSE known[k]
  BY <1>2 DEF HearsDetached, HearsAttached, Retargeted
<1>4. /\ connectedTargets' \in [TabSessions -> Targets \cup {Nothing}]
      /\ known' \in [Clients -> [TabSessions -> Targets \cup {Nothing}]]
      /\ \A k \in cdpClients : known'[k] = connectedTargets'
  <2>1. CASE TabDetached(e, s)
    <3>1. /\ connectedTargets' = [connectedTargets EXCEPT ![s] = Nothing]
          /\ known' = [k \in Clients |-> IF k \in cdpClients THEN [known[k] EXCEPT ![s] = Nothing] ELSE known[k]]
      BY <1>3, <2>1 DEF TabDetached, Broadcast
    <3> QED BY <1>2, <3>1
  <2>2. CASE t \in Targets /\ TabAttached(e, s, t) /\ connectedTargets[s] = t
    <3>1. connectedTargets' = connectedTargets /\ known' = known
      BY <1>2, <2>2 DEF TabAttached
    <3> QED BY <1>2, <3>1
  <2>3. CASE t \in Targets /\ TabAttached(e, s, t) /\ connectedTargets[s] = Nothing
    <3>1. connectedTargets' = [connectedTargets EXCEPT ![s] = t]
      BY <2>3 DEF TabAttached
    <3>2. known' = [k \in Clients |-> IF k \in cdpClients THEN HearsAttached(known[k], s, t) ELSE known[k]]
      BY <1>2, <2>3 DEF TabAttached, Broadcast
    <3>3. \A k \in cdpClients : HearsAttached(known[k], s, t) = [known[k] EXCEPT ![s] = t]
      BY <1>2, <1>3, <2>3
    <3>4. [connectedTargets EXCEPT ![s] = t] \in [TabSessions -> Targets \cup {Nothing}]
      BY <1>2, <2>3
    <3>5. \A k \in cdpClients : known'[k] = [connectedTargets EXCEPT ![s] = t]
      BY <1>2, <3>2, <3>3
    <3>6. \A k \in Clients : known'[k] \in [TabSessions -> Targets \cup {Nothing}]
      BY <1>2, <3>2, <3>4, <3>5
    <3> QED BY <3>1, <3>2, <3>4, <3>5, <3>6
  <2>4. CASE t \in Targets /\ TabAttached(e, s, t) /\ connectedTargets[s] \notin {Nothing, t}
    <3>1. /\ connectedTargets' = [connectedTargets EXCEPT ![s] = t]
          /\ known' = [k \in Clients |-> IF k \in cdpClients THEN Retargeted(known[k], s, t) ELSE known[k]]
      BY <2>4 DEF TabAttached, Broadcast
    <3>4. [connectedTargets EXCEPT ![s] = t] \in [TabSessions -> Targets \cup {Nothing}]
      BY <1>2, <2>4
    <3>5. \A k \in cdpClients : known'[k] = [connectedTargets EXCEPT ![s] = t]
      BY <1>2, <1>3, <3>1
    <3>6. \A k \in Clients : known'[k] \in [TabSessions -> Targets \cup {Nothing}]
      BY <1>2, <3>1, <3>4, <3>5
    <3> QED BY <3>1, <3>4, <3>5, <3>6
  <2> QED BY <2>1, <2>2, <2>3, <2>4
<1>5. RelayTypeOK'
  BY <1>1, <1>4 DEF RelayInv, RelayTypeOK, commandVars
<1>6. ClientsKnowTargets'
  BY <1>1, <1>4 DEF ClientsKnowTargets
<1> QED BY <1>1, <1>5, <1>6, CommandsKept DEF RelayInv

-----------------------------------------------------------------------------
(* Whatever is pending when a connection ends is rejected, and nothing else changes. *)
LEMMA CleanupStep ==
  ASSUME RelayInv, CleanupExtension, sent' \subseteq sent,
         socket' \in [Sockets -> {"new", "accepted", "open", "closing", "closed"}]
  PROVE  RelayInv'
<1>1. /\ nextExtensionId' = nextExtensionId /\ known' = known /\ cdpClients' = {} /\ extensionWs' = Nothing
      /\ \A i \in Ids : pendingExtension'[i] = Nothing
      /\ connectedTargets' = NoTargets
  BY DEF CleanupExtension, IdAfterCleanup
<1>2. ASSUME NEW c \in Commands
      PROVE  command'[c] = IF command[c].state = "pending" THEN [command[c] EXCEPT !.state = "disconnected"] ELSE command[c]
  <2>1. command'[c] = Rejected(c)
    BY DEF CleanupExtension
  <2>2. (\E i \in Ids : pendingExtension[i] = c) <=> command[c].state = "pending"
    BY CommandFacts DEF RelayInv, Listed
  <2> QED BY <2>1, <2>2 DEF Rejected
<1>3. ASSUME NEW c \in Commands
      PROVE  /\ command'[c] \in CommandTypes
             /\ command'[c].state = IF command[c].state = "pending" THEN "disconnected" ELSE command[c].state
             /\ command'[c].answer = command[c].answer
  BY <1>2, CommandFacts DEF CommandTypes
<1>4. RelayTypeOK'
  <2>1. command' \in [Commands -> CommandTypes]
    BY <1>3 DEF CleanupExtension
  <2>2. /\ pendingExtension' \in [Ids -> Commands \cup {Nothing}]
        /\ connectedTargets' \in [TabSessions -> Targets \cup {Nothing}]
    BY DEF CleanupExtension, NoTargets
  <2>3. client' \in [Clients -> {"new", "accepted", "open", "closed"}]
    BY DEF CleanupExtension, RelayInv, RelayTypeOK
  <2>4. /\ known \in [Clients -> [TabSessions -> Targets \cup {Nothing}]]
        /\ nextExtensionId \in 1..Cardinality(Commands) + 1
        /\ sent \subseteq [to : Sockets, id : Ids, for : Commands]
    BY DEF RelayInv, RelayTypeOK
  <2> QED BY <1>1, <2>1, <2>2, <2>3, <2>4 DEF RelayTypeOK, CommandTypes
<1>5. Listed'
  BY <1>1, <1>3 DEF Listed
<1>6. OnItsWay'
  BY <1>1, CommandFacts DEF RelayInv, OnItsWay
<1>7. Begun' = Begun
  BY <1>3 DEF Begun
<1>8. IdsLast'
  BY <1>1, <1>7 DEF RelayInv, IdsLast
<1>9. AnsweredByTheirOwn'
  BY <1>3 DEF RelayInv, AnsweredByTheirOwn
<1>10. ClientsKnowTargets'
  BY <1>1 DEF ClientsKnowTargets
<1> QED BY <1>4, <1>5, <1>6, <1>8, <1>9, <1>10 DEF RelayInv

LEMMA CloseStep ==
  ASSUME RelayInv, StopRelay \/ \E e \in Sockets : ExtensionCloses(e)
  PROVE  RelayInv'
<1>1. CASE StopRelay
  BY <1>1, CleanupStep DEF StopRelay, RelayInv, RelayTypeOK
<1>2. ASSUME NEW e \in Sockets, ExtensionCloses(e) PROVE RelayInv'
  BY <1>2, CleanupStep DEF ExtensionCloses, RelayInv, RelayTypeOK
<1> QED BY <1>1, <1>2

-----------------------------------------------------------------------------
(* A command that begins leaves room for the ids of those that have not. *)
LEMMA BegunGrows ==
  ASSUME RelayInv, NEW c \in Commands, command[c].state = "new",
         \A d \in Commands \ {c} : command'[d] = command[d],
         command'[c].state # "new"
  PROVE  /\ Cardinality(Begun') = Cardinality(Begun) + 1
         /\ Cardinality(Begun) < Cardinality(Commands)
         /\ nextExtensionId \in Ids
<1>1. Begun' = Begun \cup {c} /\ c \notin Begun /\ Begun \cup {c} \subseteq Commands
  BY DEF Begun
<1>2. Cardinality(Begun \cup {c}) = Cardinality(Begun) + 1
  BY <1>1, BegunIsFinite, FS_AddElement
<1>3. Cardinality(Begun \cup {c}) <= Cardinality(Commands)
  BY <1>1, RelayAssumption, FS_Subset
<1>4. Cardinality(Begun) \in Nat
  BY BegunIsFinite
<1> QED BY <1>1, <1>2, <1>3, <1>4, CommandFacts DEF RelayInv, IdsLast, Ids

LEMMA RefuseStep ==
  ASSUME RelayInv, NEW c \in Commands, NEW s \in TabSessions \cup {Nothing}, RefuseCommand(c, s)
  PROVE  RelayInv'
<1>1. /\ UNCHANGED <<socket, extensionWs, client, cdpClients, tabVars, pendingExtension, sent>>
      /\ command[c].state = "new" /\ nextExtensionId' \in {nextExtensionId, nextExtensionId + 1}
      /\ command' = [command EXCEPT ![c] = [state |-> "refused", answer |-> Nothing]]
  BY DEF RefuseCommand, Settle
<1>2. /\ \A d \in Commands \ {c} : command'[d] = command[d]
      /\ command'[c] = [state |-> "refused", answer |-> Nothing]
      /\ command' \in [Commands -> CommandTypes]
  BY <1>1, CommandFacts DEF CommandTypes
<1>3. /\ Cardinality(Begun') = Cardinality(Begun) + 1 /\ Cardinality(Begun) < Cardinality(Commands)
      /\ Cardinality(Begun) \in Nat
  BY <1>1, <1>2, BegunGrows, BegunIsFinite
<1>4. IdsLast' /\ nextExtensionId' \in 1..Cardinality(Commands) + 1
  BY <1>1, <1>3, CommandFacts DEF RelayInv, IdsLast
<1>5. RelayTypeOK'
  BY <1>1, <1>2, <1>4 DEF RelayInv, RelayTypeOK, CommandTypes, tabVars
<1>6. Listed'
  <2>1. \A i \in Ids : pendingExtension[i] # c
    BY <1>1, CommandFacts DEF RelayInv, Listed
  <2> QED BY <1>1, <1>2, <2>1, CommandFacts DEF RelayInv, Listed
<1>7. OnItsWay'
  BY <1>1, CommandFacts DEF RelayInv, OnItsWay
<1>8. AnsweredByTheirOwn' /\ ClientsKnowTargets'
  BY <1>1, <1>2 DEF RelayInv, AnsweredByTheirOwn, ClientsKnowTargets, tabVars
<1> QED BY <1>4, <1>5, <1>6, <1>7, <1>8 DEF RelayInv

LEMMA ForwardStep ==
  ASSUME RelayInv, NEW c \in Commands, NEW s \in TabSessions \cup {Nothing}, ForwardCommand(c, s)
  PROVE  RelayInv'
<1> DEFINE m == [to |-> extensionWs, id |-> nextExtensionId, for |-> c]
<1>1. /\ UNCHANGED <<socket, extensionWs, client, cdpClients, tabVars>>
      /\ command[c].state = "new" /\ nextExtensionId' = nextExtensionId + 1
      /\ command' = [command EXCEPT ![c] = [state |-> "pending", answer |-> Nothing]]
      /\ pendingExtension' = [pendingExtension EXCEPT ![nextExtensionId] = c]
      /\ sent' = sent \cup {m}
      /\ extensionWs # Nothing
  BY DEF ForwardCommand, Settle, Routable, Connected
<1>2. /\ \A d \in Commands \ {c} : command'[d] = command[d]
      /\ command'[c] = [state |-> "pending", answer |-> Nothing]
      /\ command' \in [Commands -> CommandTypes]
  BY <1>1, CommandFacts DEF CommandTypes
<1>3. /\ Cardinality(Begun') = Cardinality(Begun) + 1 /\ Cardinality(Begun) < Cardinality(Commands)
      /\ Cardinality(Begun) \in Nat /\ nextExtensionId \in Ids
  BY <1>1, <1>2, BegunGrows, BegunIsFinite
<1>4. IdsLast' /\ nextExtensionId' \in 1..Cardinality(Commands) + 1
  BY <1>1, <1>3, CommandFacts DEF RelayInv, IdsLast
<1>5. /\ pendingExtension' \in [Ids -> Commands \cup {Nothing}]
      /\ pendingExtension'[nextExtensionId] = c
      /\ \A i \in Ids \ {nextExtensionId} : pendingExtension'[i] = pendingExtension[i]
  BY <1>1, <1>3, CommandFacts
<1>6. m \in [to : Sockets, id : Ids, for : Commands] /\ m.id = nextExtensionId /\ m.for = c
  BY <1>1, <1>3 DEF RelayInv, RelayTypeOK
<1> HIDE DEF m
<1>7. RelayTypeOK'
  BY <1>1, <1>2, <1>4, <1>5, <1>6 DEF RelayInv, RelayTypeOK, CommandTypes, tabVars
<1>8. Listed'
  <2>1. \A i \in Ids : pendingExtension[i] # c
    BY <1>1, CommandFacts DEF RelayInv, Listed
  <2>2. \A i \in Ids : pendingExtension'[i] # Nothing =>
          command'[pendingExtension'[i]].state = "pending" /\ i < nextExtensionId'
    BY <1>1, <1>2, <1>5, <2>1, CommandFacts DEF RelayInv, Listed
  <2>3. \A i, j \in Ids : pendingExtension'[i] # Nothing /\ pendingExtension'[i] = pendingExtension'[j] => i = j
    BY <1>5, <2>1 DEF RelayInv, Listed
  <2>4. ASSUME NEW d \in Commands, command'[d].state = "pending" PROVE \E i \in Ids : pendingExtension'[i] = d
    <3>1. CASE d = c
      BY <1>3, <1>5, <3>1
    <3>2. CASE d # c
      <4>1. PICK i \in Ids : pendingExtension[i] = d
        BY <1>2, <2>4, <3>2 DEF RelayInv, Listed
      <4>2. i # nextExtensionId
        BY <4>1, CommandFacts DEF RelayInv, Listed
      <4> QED BY <1>5, <4>1, <4>2
    <3> QED BY <3>1, <3>2
  <2> QED BY <2>2, <2>3, <2>4 DEF Listed
<1>9. OnItsWay'
  <2>1. ASSUME NEW n \in sent PROVE n.id < nextExtensionId' /\ pendingExtension'[n.id] \in {Nothing, n.for}
    <3>1. n.id \in Ids /\ n.id \in Nat /\ n.id < nextExtensionId /\ pendingExtension[n.id] \in {Nothing, n.for}
      BY CommandFacts DEF RelayInv, OnItsWay
    <3> QED BY <1>1, <1>5, <3>1, CommandFacts
  <2>2. m.id < nextExtensionId' /\ pendingExtension'[m.id] \in {Nothing, m.for}
    BY <1>1, <1>5, <1>6, CommandFacts
  <2> QED BY <1>1, <2>1, <2>2 DEF OnItsWay
<1>10. AnsweredByTheirOwn' /\ ClientsKnowTargets'
  BY <1>1, <1>2 DEF RelayInv, AnsweredByTheirOwn, ClientsKnowTargets, tabVars
<1> QED BY <1>4, <1>7, <1>8, <1>9, <1>10 DEF RelayInv

(* A command that leaves the list, by an answer of its own or by its timer. *)
LEMMA SettleStep ==
  ASSUME RelayInv, NEW i \in Ids, pendingExtension[i] # Nothing,
         NEW how \in {"answered", "timedOut"}, NEW answer \in Commands \cup {Nothing},
         how = "answered" => answer = pendingExtension[i],
         Settle(pendingExtension[i], how, answer),
         pendingExtension' = [pendingExtension EXCEPT ![i] = Nothing],
         sent' \subseteq sent,
         UNCHANGED <<socket, extensionWs, client, cdpClients, tabVars, nextExtensionId>>
  PROVE  RelayInv'
<1> DEFINE c == pendingExtension[i]
<1>1. c \in Commands /\ command[c].state = "pending"
  BY CommandFacts DEF RelayInv, Listed
<1>2. /\ \A d \in Commands \ {c} : command'[d] = command[d]
      /\ command'[c] = [state |-> how, answer |-> answer]
      /\ command' \in [Commands -> CommandTypes]
  BY <1>1, CommandFacts DEF Settle, CommandTypes
<1>3. /\ pendingExtension' \in [Ids -> Commands \cup {Nothing}]
      /\ pendingExtension'[i] = Nothing
      /\ \A j \in Ids \ {i} : pendingExtension'[j] = pendingExtension[j] /\ pendingExtension[j] # c
  BY CommandFacts DEF RelayInv, Listed
<1>4. RelayTypeOK'
  BY <1>2, <1>3 DEF RelayInv, RelayTypeOK, CommandTypes, tabVars
<1>5. Listed'
  <2>1. \A j \in Ids : pendingExtension'[j] # Nothing =>
          command'[pendingExtension'[j]].state = "pending" /\ j < nextExtensionId'
    BY <1>2, <1>3, CommandFacts DEF RelayInv, Listed
  <2>2. \A j, k \in Ids : pendingExtension'[j] # Nothing /\ pendingExtension'[j] = pendingExtension'[k] => j = k
    BY <1>3 DEF RelayInv, Listed
  <2>3. \A d \in Commands : command'[d].state = "pending" => \E j \in Ids : pendingExtension'[j] = d
    BY <1>2, <1>3 DEF RelayInv, Listed
  <2> QED BY <2>1, <2>2, <2>3 DEF Listed
<1>6. OnItsWay'
  BY <1>3, CommandFacts DEF RelayInv, OnItsWay
<1>7. Begun' = Begun
  BY <1>1, <1>2 DEF Begun
<1>8. IdsLast'
  BY <1>7 DEF RelayInv, IdsLast
<1>9. AnsweredByTheirOwn' /\ ClientsKnowTargets'
  BY <1>2 DEF RelayInv, AnsweredByTheirOwn, ClientsKnowTargets, tabVars
<1> QED BY <1>4, <1>5, <1>6, <1>8, <1>9 DEF RelayInv

LEMMA AnswerStep ==
  ASSUME RelayInv, NEW m \in sent, ExtensionAnswers(m)
  PROVE  RelayInv'
<1>1. /\ m.id \in Ids /\ m.for \in Commands
      /\ pendingExtension[m.id] \in {Nothing, m.for}
      /\ sent' \subseteq sent
      /\ UNCHANGED <<socket, extensionWs, client, cdpClients, tabVars, nextExtensionId>>
  BY CommandFacts DEF RelayInv, OnItsWay, ExtensionAnswers
<1>2. CASE pendingExtension[m.id] = Nothing
  <2>1. pendingExtension' = pendingExtension /\ command' = command
    BY <1>2 DEF ExtensionAnswers
  <2>2. RelayTypeOK'
    BY <1>1, <2>1 DEF RelayInv, RelayTypeOK, tabVars
  <2>3. Listed' /\ OnItsWay' /\ IdsLast' /\ AnsweredByTheirOwn' /\ ClientsKnowTargets'
    BY <1>1, <2>1 DEF RelayInv, Listed, OnItsWay, IdsLast, Begun, AnsweredByTheirOwn, ClientsKnowTargets, tabVars
  <2> QED BY <2>2, <2>3 DEF RelayInv
<1>3. CASE pendingExtension[m.id] # Nothing
  <2>1. /\ Settle(pendingExtension[m.id], "answered", m.for) /\ m.for = pendingExtension[m.id]
        /\ pendingExtension' = [pendingExtension EXCEPT ![m.id] = Nothing]
    BY <1>1, <1>3 DEF ExtensionAnswers
  <2> QED BY <1>1, <1>3, <2>1, SettleStep
<1> QED BY <1>2, <1>3

-----------------------------------------------------------------------------
LEMMA RelayInitHolds == RelayInit => RelayInv
<1> SUFFICES ASSUME RelayInit PROVE RelayInv
  OBVIOUS
<1>1. Cardinality(Commands) \in Nat /\ Cardinality(Begun) \in Nat
  BY FS_CardinalityType, RelayAssumption, BegunIsFinite
<1>2. RelayTypeOK
  BY <1>1 DEF RelayInit, RelayTypeOK, NoTargets
<1>3. Listed /\ OnItsWay /\ AnsweredByTheirOwn /\ ClientsKnowTargets
  BY DEF RelayInit, Listed, OnItsWay, AnsweredByTheirOwn, ClientsKnowTargets
<1>4. IdsLast
  BY <1>1 DEF RelayInit, IdsLast
<1> QED BY <1>2, <1>3, <1>4 DEF RelayInv

(* The inductive invariant of the relay (relay-routes.ts). *)
THEOREM RelayInvariance == RelaySpec => []RelayInv
<1>1. RelayInv /\ [RelayNext]_relayVars => RelayInv'
  <2> SUFFICES ASSUME RelayInv, [RelayNext]_relayVars PROVE RelayInv'
    OBVIOUS
  <2>1. ASSUME NEW e \in Sockets,
               \/ ExtensionAccepted(e) \/ ExtensionOpens(e) \/ ExtensionLost(e) \/ ExtensionCloses(e)
               \/ \E s \in TabSessions : TabDetached(e, s) \/ \E t \in Targets : TabAttached(e, s, t)
        PROVE  RelayInv'
    BY <2>1, ConnectionStep, CloseStep, TabStep
  <2>2. CASE StopRelay
    BY <2>2, CloseStep
  <2>3. ASSUME NEW k \in Clients, ClientAccepted(k) \/ ClientOpens(k) \/ ClientCloses(k) PROVE RelayInv'
    BY <2>3, ClientStep
  <2>4. ASSUME NEW c \in Commands, NEW s \in TabSessions \cup {Nothing}, RefuseCommand(c, s) \/ ForwardCommand(c, s)
        PROVE  RelayInv'
    BY <2>4, RefuseStep, ForwardStep
  <2>5. ASSUME NEW m \in sent, ExtensionAnswers(m) PROVE RelayInv'
    BY <2>5, AnswerStep
  <2>6. ASSUME NEW i \in Ids, CommandTimesOut(i) PROVE RelayInv'
    <3>1. /\ pendingExtension[i] # Nothing /\ Settle(pendingExtension[i], "timedOut", Nothing)
          /\ pendingExtension' = [pendingExtension EXCEPT ![i] = Nothing]
          /\ UNCHANGED <<socket, extensionWs, client, cdpClients, tabVars, nextExtensionId, sent>>
      BY <2>6 DEF CommandTimesOut, Forgotten
    <3> QED BY <3>1, SettleStep
  <2>7. CASE UNCHANGED relayVars
    <3>1. UNCHANGED <<client, cdpClients, tabVars, commandVars>> /\ socket' = socket /\ extensionWs' = extensionWs
      BY <2>7 DEF relayVars, tabVars, commandVars
    <3>2. RelayTypeOK'
      BY <3>1 DEF RelayInv, RelayTypeOK, tabVars, commandVars
    <3> QED BY <3>1, <3>2, CommandsKept, TabsKept DEF RelayInv
  <2> QED BY <2>1, <2>2, <2>3, <2>4, <2>5, <2>6, <2>7 DEF RelayNext
<1> QED BY <1>1, RelayInitHolds, PTL DEF RelaySpec

LEMMA ListedOnce == RelayInv => PendingIsHonest
<1> SUFFICES ASSUME RelayInv, NEW c \in Commands
             PROVE  Cardinality({i \in Ids : pendingExtension[i] = c}) = IF command[c].state = "pending" THEN 1 ELSE 0
  BY DEF PendingIsHonest
<1>1. CASE command[c].state = "pending"
  <2>1. PICK i \in Ids : pendingExtension[i] = c
    BY <1>1 DEF RelayInv, Listed
  <2>2. {j \in Ids : pendingExtension[j] = c} = {i}
    BY <2>1, CommandFacts DEF RelayInv, Listed
  <2> QED BY <1>1, <2>2, FS_Singleton
<1>2. CASE command[c].state # "pending"
  <2>1. {i \in Ids : pendingExtension[i] = c} = {}
    BY <1>2, CommandFacts DEF RelayInv, Listed
  <2> QED BY <1>2, <2>1, FS_EmptySet
<1> QED BY <1>1, <1>2

(* What passes the relay is true to both of its ends: a command is settled once and by its own answer, and a client knows
   the tabs that the relay knows, whatever connects, closes, times out or answers late (relay-routes.ts). *)
THEOREM RelayTells == RelaySpec => []RelayIsTrue
<1>1. RelayInv => RelayIsTrue
  BY ListedOnce DEF RelayInv, RelayIsTrue
<1> QED BY <1>1, RelayInvariance, PTL

=============================================================================
