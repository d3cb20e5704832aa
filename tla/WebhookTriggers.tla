--------------------------- MODULE WebhookTriggers ---------------------------
(***************************************************************************)
(* The deliveries to one webhook source: server/routes/webhooks.ts with    *)
(* the guards of opencode/src/webhook/webhook.ts and the monitor of        *)
(* automated runs (server/routes/automated-controller.ts).                 *)
(*                                                                         *)
(* A delivery is one request; redeliveries are deliveries with the same    *)
(* dedupe key.  Time is a counter; 0 stands for never.  The guards and the *)
(* runs are stored, all the rest is lost in a crash.                       *)
(***************************************************************************)
EXTENDS Integers, Sequences, FiniteSets

CONSTANTS
  Deliveries, DedupeKeys,
  KeyOf,                     \* what the key template makes of each delivery
  MaxRequests, Window,       \* the rate limit
  DedupeTTL, CooldownTime,
  MaxClock, MaxRestarts

ASSUME WebhookAssumption ==
  /\ IsFiniteSet(Deliveries)
  /\ KeyOf \in [Deliveries -> DedupeKeys]
  /\ {MaxRequests, Window, DedupeTTL} \subseteq Nat \ {0}
  /\ {CooldownTime, MaxClock, MaxRestarts} \subseteq Nat

VARIABLES
  now,         \* the time
  enabled,     \* the stored source
  guards,      \* its stored guards
  delivery,    \* where each delivery is, when its guards were evaluated, whether its message was accepted
  webhookRun,  \* the stored runs, with the monitor and the session of each
  sourceLock,  \* who holds and awaits the lock of the source
  restarts

webhookVars == <<now, enabled, guards, delivery, webhookRun, sourceLock, restarts>>

NewDelivery == [pc |-> "new", at |-> 0, accepted |-> FALSE, seen |-> "none", marked |-> 0]

NoRun == [status |-> "none", monitor |-> "none", session |-> "none", terminal |-> "none", pending |-> FALSE]

WebhookInit ==
  /\ now = 1
  /\ enabled = TRUE
  /\ guards = [started |-> 0, count |-> 0, expires |-> [k \in DedupeKeys |-> 0], cooling |-> 0]
  /\ delivery = [d \in Deliveries |-> NewDelivery]
  /\ webhookRun = [d \in Deliveries |-> NoRun]
  /\ sourceLock = <<>>
  /\ restarts = 0

Moves(d, pc) == delivery' = [delivery EXCEPT ![d].pc = pc]

Is(d, pc) == delivery[d].pc = pc

(* The end of the locked part. *)
Returns(d) == Moves(d, "done") /\ sourceLock' = Tail(sourceLock)

RecordStatus(d, status) == webhookRun' = [webhookRun EXCEPT ![d].status = status]

Reject(d) == Returns(d) /\ RecordStatus(d, "rejected")

-----------------------------------------------------------------------------
(* The source is read, and the secret, the body and the project are checked, before the lock is asked for. *)
Receive(d) ==
  /\ Is(d, "new")
  /\ \/ enabled /\ Moves(d, "waiting") /\ sourceLock' = Append(sourceLock, d) /\ UNCHANGED webhookRun
     \/ /\ \/ RecordStatus(d, "rejected")
           \/ enabled /\ RecordStatus(d, "failed")
        /\ Moves(d, "done") /\ UNCHANGED sourceLock
  /\ UNCHANGED <<now, enabled, guards, restarts>>

(* All guards go by the time at which the lock was got; a request with an old timestamp is rejected first of all. *)
EvaluateGuards(d) ==
  /\ Is(d, "waiting") /\ Head(sourceLock) = d
  /\ \/ delivery' = [delivery EXCEPT ![d].pc = "rate", ![d].at = now] /\ UNCHANGED <<webhookRun, sourceLock>>
     \/ Reject(d)
  /\ UNCHANGED <<now, enabled, guards, restarts>>

\* Mutant: the window ends one unit early.
WindowOverEarly(at) == guards.started = 0 \/ at - guards.started >= Window - 1

WindowOver(at) == guards.started = 0 \/ at - guards.started >= Window

ConsumeRateLimit(d) ==
  /\ Is(d, "rate")
  /\ LET at == delivery[d].at IN
     \/ /\ WindowOver(at)
        /\ guards' = [guards EXCEPT !.started = at, !.count = 1]
        /\ Moves(d, "dedupe") /\ UNCHANGED <<webhookRun, sourceLock>>
     \/ /\ ~WindowOver(at) /\ guards.count < MaxRequests
        /\ guards' = [guards EXCEPT !.count = @ + 1]
        /\ Moves(d, "dedupe") /\ UNCHANGED <<webhookRun, sourceLock>>
     \/ /\ ~WindowOver(at) /\ guards.count >= MaxRequests
        /\ Reject(d) /\ UNCHANGED guards
  /\ UNCHANGED <<now, enabled, restarts>>

(* Expired keys are removed, which makes no difference to what is known. *)
KeyKnown(k, at) == guards.expires[k] > at

ConsumeDedupe(d) ==
  /\ Is(d, "dedupe")
  /\ LET at == delivery[d].at
         k == KeyOf[d]
         kept == [j \in DedupeKeys |-> IF KeyKnown(j, at) THEN guards.expires[j] ELSE 0]
     IN IF KeyKnown(k, at) THEN guards' = [guards EXCEPT !.expires = kept] /\ Reject(d)
        ELSE /\ guards' = [guards EXCEPT !.expires = [kept EXCEPT ![k] = at + DedupeTTL]]
             /\ Moves(d, "cooldown") /\ UNCHANGED <<webhookRun, sourceLock>>
  /\ UNCHANGED <<now, enabled, restarts>>

(* The key stays consumed when the cooldown rejects its delivery. *)
CheckCooldown(d) ==
  /\ Is(d, "cooldown")
  /\ IF guards.cooling > delivery[d].at THEN Reject(d) /\ UNCHANGED guards
     ELSE Moves(d, "admitted") /\ guards' = [guards EXCEPT !.cooling = 0] /\ UNCHANGED <<webhookRun, sourceLock>>
  /\ UNCHANGED <<now, enabled, restarts>>

-----------------------------------------------------------------------------
CreateWebhookRun(d) ==
  /\ Is(d, "admitted")
  /\ RecordStatus(d, "accepted")
  /\ Moves(d, "session")
  /\ UNCHANGED <<now, enabled, guards, sourceLock, restarts>>

OpenSession(d) ==
  /\ Is(d, "session")
  /\ \/ webhookRun' = [webhookRun EXCEPT ![d].monitor = "watching"] /\ Moves(d, "sending")
     \/ Moves(d, "catch") /\ UNCHANGED webhookRun
  /\ UNCHANGED <<now, enabled, guards, sourceLock, restarts>>

(* The monitor finishes a run once; onFinished() notes the end and queues its update. *)
FinishOnce(r, status) ==
  IF r.monitor = "watching" THEN [r EXCEPT !.monitor = "finished", !.terminal = status, !.pending = TRUE] ELSE r

SendMessage(d) ==
  /\ Is(d, "sending")
  /\ \/ /\ webhookRun' = [webhookRun EXCEPT ![d].session = "running"]
        /\ delivery' = [delivery EXCEPT ![d].pc = "response", ![d].accepted = TRUE]
     \/ Moves(d, "response") /\ UNCHANGED webhookRun
  /\ UNCHANGED <<now, enabled, guards, sourceLock, restarts>>

(* The call fails: it ends the monitor and waits for that, unless the session was idle or timed out before. *)
SendingFails(d) ==
  /\ Is(d, "sending")
  /\ \/ /\ webhookRun' = [webhookRun EXCEPT ![d] = FinishOnce(@, "failed")]
        /\ Moves(d, IF webhookRun[d].monitor = "watching" THEN "failing" ELSE "catch")
     \/ /\ webhookRun' = [webhookRun EXCEPT ![d] = FinishOnce(@, "succeeded")]
        /\ Moves(d, "catch")
  /\ UNCHANGED <<now, enabled, guards, sourceLock, restarts>>

(* onControllerResponse(): its update, once its turn comes, looks at the end that was noted by then ... *)
StartResponseUpdate(d) ==
  /\ Is(d, "response")
  /\ delivery' = [delivery EXCEPT ![d].pc = "recording", ![d].seen = webhookRun[d].terminal]
  /\ UNCHANGED <<now, enabled, guards, webhookRun, sourceLock, restarts>>

\* Mutant: the response is recorded whatever the run has come to.
ResponseStatusOnly(d) == IF delivery[d].accepted THEN "running" ELSE "failed"

ResponseStatus(d) ==
  IF delivery[d].seen # "none" THEN delivery[d].seen ELSE IF delivery[d].accepted THEN "running" ELSE "failed"

(* ... and is written. *)
RecordWebhookResponse(d) ==
  /\ Is(d, "recording")
  /\ RecordStatus(d, ResponseStatus(d))
  /\ Moves(d, IF delivery[d].accepted THEN "cooling" ELSE "unaccepted")
  /\ UNCHANGED <<now, enabled, guards, sourceLock, restarts>>

ResponseUpdateFails(d) ==
  /\ Is(d, "recording") \/ Is(d, "cooling")
  /\ Moves(d, "catch")
  /\ UNCHANGED <<now, enabled, guards, webhookRun, sourceLock, restarts>>

MarkCooldown(d) ==
  /\ Is(d, "cooling")
  /\ guards' = [guards EXCEPT !.cooling = now + CooldownTime]
  /\ delivery' = [delivery EXCEPT ![d].pc = "done", ![d].marked = now]
  /\ sourceLock' = Tail(sourceLock)
  /\ UNCHANGED <<now, enabled, webhookRun, restarts>>

FinishUnaccepted(d) ==
  /\ Is(d, "unaccepted")
  /\ webhookRun' = [webhookRun EXCEPT ![d] = FinishOnce(@, "failed")]
  /\ Moves(d, "finishing")
  /\ UNCHANGED <<now, enabled, guards, sourceLock, restarts>>

ReturnUnaccepted(d) ==
  /\ Is(d, "finishing") /\ ~webhookRun[d].pending
  /\ Returns(d)
  /\ UNCHANGED <<now, enabled, guards, webhookRun, restarts>>

(* The failure is written beside the queue of updates. *)
CatchError(d) ==
  /\ Is(d, "catch") \/ (Is(d, "failing") /\ ~webhookRun[d].pending)
  /\ RecordStatus(d, "failed")
  /\ Returns(d)
  /\ UNCHANGED <<now, enabled, guards, restarts>>

-----------------------------------------------------------------------------
(* The session becomes idle or fails, or the monitor times out and cancels it. *)
SessionEnds(d) ==
  /\ webhookRun[d].session = "running"
  /\ \E status \in {"succeeded", "failed"} :
       webhookRun' = [webhookRun EXCEPT ![d] = [FinishOnce(@, status) EXCEPT !.session = "over"]]
  /\ UNCHANGED <<now, enabled, guards, delivery, sourceLock, restarts>>

RunTimesOut(d) ==
  /\ webhookRun[d].monitor = "watching"
  /\ LET session == webhookRun[d].session IN
     webhookRun' = [webhookRun EXCEPT ![d] = [FinishOnce(@, "failed") EXCEPT !.session = IF session = "running" THEN "over" ELSE session]]
  /\ UNCHANGED <<now, enabled, guards, delivery, sourceLock, restarts>>

(* The updates of a run are written one after the other. *)
RecordEnd(d) ==
  /\ webhookRun[d].pending /\ ~Is(d, "recording")
  /\ webhookRun' = [webhookRun EXCEPT ![d].status = webhookRun[d].terminal, ![d].pending = FALSE]
  /\ UNCHANGED <<now, enabled, guards, delivery, sourceLock, restarts>>

-----------------------------------------------------------------------------
(* updateSource() and deleteSource() do not take the lock of the source. *)
EditSource ==
  /\ enabled
  /\ enabled' = FALSE
  /\ UNCHANGED <<now, guards, delivery, webhookRun, sourceLock, restarts>>

ClockTicks ==
  /\ now < MaxClock
  /\ now' = now + 1
  /\ UNCHANGED <<enabled, guards, delivery, webhookRun, sourceLock, restarts>>

(* A restart forgets the deliveries under way and the monitors, and keeps the guards. *)
Restart ==
  /\ restarts < MaxRestarts
  /\ restarts' = restarts + 1
  /\ delivery' = [d \in Deliveries |-> IF delivery[d].pc \in {"new", "done"} THEN delivery[d] ELSE [delivery[d] EXCEPT !.pc = "lost"]]
  /\ webhookRun' = [d \in Deliveries |-> [webhookRun[d] EXCEPT !.monitor = "none", !.pending = FALSE,
                                                              !.session = IF @ = "running" THEN "over" ELSE @]]
  /\ sourceLock' = <<>>
  /\ UNCHANGED <<now, enabled, guards>>

Handles(d) ==
  \/ EvaluateGuards(d) \/ ConsumeRateLimit(d) \/ ConsumeDedupe(d) \/ CheckCooldown(d) \/ CreateWebhookRun(d)
  \/ OpenSession(d) \/ SendMessage(d) \/ SendingFails(d) \/ StartResponseUpdate(d) \/ RecordWebhookResponse(d)
  \/ ResponseUpdateFails(d) \/ MarkCooldown(d) \/ FinishUnaccepted(d) \/ ReturnUnaccepted(d) \/ CatchError(d)

WebhookNext ==
  \/ \E d \in Deliveries : Receive(d) \/ Handles(d) \/ SessionEnds(d) \/ RunTimesOut(d) \/ RecordEnd(d)
  \/ EditSource \/ ClockTicks \/ Restart

WebhookSpec == WebhookInit /\ [][WebhookNext]_webhookVars

(* What a delivery awaits settles, and the monitor of a run times out. *)
WebhookFairSpec ==
  WebhookSpec /\ \A d \in Deliveries : WF_webhookVars(Handles(d)) /\ WF_webhookVars(RunTimesOut(d) \/ RecordEnd(d))

-----------------------------------------------------------------------------
WebhookTypeOK ==
  /\ now \in 1..MaxClock
  /\ guards.count \in 0..MaxRequests /\ guards.started <= now
  /\ \A k \in DedupeKeys : guards.expires[k] <= now + DedupeTTL
  /\ guards.cooling <= now + CooldownTime
  /\ \A d \in Deliveries : delivery[d].at <= now /\ delivery[d].marked <= now
  /\ \A d \in Deliveries : webhookRun[d] \in
       [status : {"none", "rejected", "accepted", "running", "succeeded", "failed"}, monitor : {"none", "watching", "finished"},
        session : {"none", "running", "over"}, terminal : {"none", "succeeded", "failed"}, pending : BOOLEAN]

(* The deliveries that passed the guards. *)
Admitted == {d \in Deliveries : delivery[d].at > 0 /\ webhookRun[d].status \in {"accepted", "running", "succeeded", "failed"}}

(* A key is admitted once in its time, although redeliveries come while the first delivery is being worked on, fail and
   are cut off by a restart. *)
AdmittedOncePerKey ==
  \A d, e \in Admitted : KeyOf[d] = KeyOf[e] /\ delivery[d].at <= delivery[e].at /\ d # e =>
    delivery[e].at - delivery[d].at >= DedupeTTL

(* The windows of the rate limit are fixed, so that any stretch of time as long as a window sees less than two windows'
   worth of requests. *)
RateIsLimited ==
  \A d \in Admitted :
    Cardinality({e \in Admitted : delivery[e].at - delivery[d].at \in 0..(Window - 1)}) < 2 * MaxRequests

(* No delivery is admitted while the source cools down from another one whose message was accepted, although the
   cooldown starts only when the controller has answered. *)
CooldownIsKept ==
  \A d, e \in Deliveries : Is(d, "admitted") /\ delivery[e].marked > 0 => delivery[d].at >= delivery[e].marked + CooldownTime

GuardsHold == AdmittedOncePerKey /\ RateIsLimited /\ CooldownIsKept

(* Every run that was admitted is reported as ended and never as working again after that, although the response of the
   controller, the end of the session, the time-out and a late error are recorded in any order (webhooks.ts:475-511). *)
WebhookRunsEnd ==
  \A d \in Deliveries : (webhookRun[d].status \in {"accepted", "running"}) ~> (webhookRun[d].status \in {"succeeded", "failed"})

=============================================================================
