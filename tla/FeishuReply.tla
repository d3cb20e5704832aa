----------------------------- MODULE FeishuReply -----------------------------
(***************************************************************************)
(* The reply to one turn in a Feishu chat: the reply sink                  *)
(* (platform-feishu/src/im/reply-sink.ts) that follows the events of the   *)
(* turn, and the streaming card it shows them in                           *)
(* (streaming-card-controller.ts).  What a card says is left out but for   *)
(* its status; the requests for a permission or an answer are left out.    *)
(*                                                                         *)
(* Four lines of code await calls at the same time: the one that binds the *)
(* turn, the reader of its events and the timers that ask for its result.  *)
(***************************************************************************)
EXTENDS Naturals, Sequences

CONSTANTS
  Streams,          \* the events a turn may have, up to where their stream ends or breaks off
  MaxCardFaults,    \* failing calls of Feishu
  MaxPolls          \* times the result of the turn is asked for

EventKinds == {"text", "tool", "resource", "end", "fail"}

ASSUME FeishuAssumption ==
  /\ Streams \subseteq Seq(EventKinds)
  /\ MaxCardFaults \in Nat /\ MaxPolls \in Nat

VARIABLES
  stream,     \* the events still to come
  aside,      \* events that came before the turn was bound
  sink,       \* the reply sink
  line,       \* where the lines of code are
  card,       \* the streaming card controller
  flush,      \* its flush in progress, with the card that the call under way is about
  opening,    \* the first card, which start() shows beside the flushes
  chat,       \* the cards and messages at Feishu, by status
  cardFaults,
  polls

replyVars == <<stream, aside, sink, line, card, flush, opening, chat, cardFaults, polls>>

Lines == {"binder", "reader", "poll", "deferred"}

ReplyStatuses == {"running", "final", "error", "timeout"}

NoFlush == [by |-> "nobody", status |-> "running", pc |-> "none", card |-> 0]

ReplyInit ==
  /\ stream \in Streams /\ aside = <<>>
  /\ sink = [bound |-> FALSE, completed |-> FALSE, stopped |-> FALSE, done |-> "no",
             awaitsText |-> FALSE, tool |-> FALSE, postTool |-> FALSE,
             timeout |-> FALSE, deferred |-> FALSE, poll |-> FALSE, status |-> "running", delivery |-> "none"]
  /\ line = [l \in Lines |-> "idle"]
  /\ card \in [transport : {"cardkit", "patch"}, entity : {0}, sent : {0}, noted : {FALSE},
               terminal : {FALSE}, reflush : {FALSE}, timer : {FALSE}, urgent : {TRUE}]
  /\ flush = NoFlush
  /\ opening = [pc |-> "none", card |-> 0]
  /\ chat = <<>>
  /\ cardFaults = 0 /\ polls = 0

Goes(l, pc) == line' = [line EXCEPT ![l] = pc]

(* What a line does between two events. *)
Resting(l) == IF l = "binder" THEN "draining" ELSE "idle"

Busy == flush.by # "nobody"

(* The first call of a flush, and the card it is about. *)
FirstCall(c, status) ==
  IF c.transport = "cardkit" THEN [pc |-> IF c.entity = 0 THEN "create" ELSE IF status = "running" THEN "stream" ELSE "update", card |-> c.entity]
  ELSE IF c.transport = "patch" THEN [pc |-> "patch", card |-> c.sent]
  ELSE [pc |-> IF ~c.noted THEN "note" ELSE IF status = "running" THEN "over" ELSE "text", card |-> 0]

(* flushNow(): who comes while the card is being flushed asks for another flush, and does not wait. *)
FlushNow(c, by, status) ==
  LET call == FirstCall(c, status) IN
  IF Busy THEN card' = [c EXCEPT !.reflush = TRUE] /\ UNCHANGED flush
  ELSE /\ card' = [c EXCEPT !.reflush = FALSE, !.noted = @ \/ call.pc = "note"]
       /\ flush' = [by |-> by, status |-> status, pc |-> call.pc, card |-> call.card]

\* Mutant: finish() leaves the timer of the card.
CardFinishedTimed(c) == [c EXCEPT !.terminal = TRUE]

CardFinished(c) == [c EXCEPT !.terminal = TRUE, !.timer = FALSE]

(* finish(): the first one ends the reply; a card that was stopped stays as it is. *)
FinishReply(status) ==
  IF sink.completed THEN UNCHANGED <<sink, card, flush>>
  ELSE /\ sink' = [sink EXCEPT !.completed = TRUE, !.status = status, !.awaitsText = FALSE,
                               !.timeout = FALSE, !.deferred = FALSE, !.poll = FALSE,
                               !.delivery = IF card.terminal \/ Busy THEN "delivered" ELSE "delivering"]
       /\ IF card.terminal THEN UNCHANGED <<card, flush>> ELSE FlushNow(CardFinished(card), "finish", status)

-----------------------------------------------------------------------------
\* Mutant: the time-out starts with the first event only.
BoundUntimed(s) == [s EXCEPT !.bound = TRUE]

Bound(s) == [s EXCEPT !.bound = TRUE, !.timeout = TRUE]

(* bindTurnSnapshotId(): from here on the reader handles events, while the first card is on its way. *)
BindTurn ==
  /\ line["binder"] = "idle" /\ ~sink.bound /\ ~sink.stopped
  /\ sink' = Bound(sink)
  /\ opening' = [pc |-> IF card.transport = "cardkit" THEN "create" ELSE "patch", card |-> 0]
  /\ Goes("binder", "opening")
  /\ UNCHANGED <<stream, aside, card, flush, chat, cardFaults, polls>>

StartDraining ==
  /\ line["binder"] = "opening" /\ opening.pc = "over"
  /\ sink' = [sink EXCEPT !.poll = ~sink.completed /\ ~sink.stopped]
  /\ Goes("binder", "draining")
  /\ UNCHANGED <<stream, aside, card, flush, opening, chat, cardFaults, polls>>

PutAside ==
  /\ line["reader"] = "idle" /\ stream # <<>> /\ ~sink.bound
  /\ stream' = Tail(stream)
  /\ aside' = IF sink.stopped THEN aside ELSE Append(aside, Head(stream))
  /\ UNCHANGED <<sink, line, card, flush, opening, chat, cardFaults, polls>>

(* The next event of a line is e. *)
Takes(l, e) ==
  \/ /\ l = "reader" /\ line[l] = "idle" /\ sink.bound
     /\ stream # <<>> /\ e = Head(stream) /\ stream' = Tail(stream) /\ UNCHANGED aside
  \/ /\ l = "binder" /\ line[l] = "draining"
     /\ aside # <<>> /\ e = Head(aside) /\ aside' = Tail(aside) /\ UNCHANGED stream

Heard(l, e) == Takes(l, e) /\ ~sink.stopped /\ ~sink.completed

(* scheduleRunningFlush(): at once, or by a timer if the last flush was a moment ago. *)
ScheduleFlush(l, c, busy, next) ==
  \/ FlushNow([c EXCEPT !.timer = FALSE], l, "running") /\ Goes(l, IF Busy THEN next ELSE busy)
  \/ ~c.urgent /\ card' = [c EXCEPT !.timer = TRUE] /\ Goes(l, next) /\ UNCHANGED flush

DropEvent(l) ==
  /\ \E e \in EventKinds : Takes(l, e)
  /\ sink.stopped \/ sink.completed
  /\ UNCHANGED <<sink, line, card, flush, opening, chat, cardFaults, polls>>

HandleText(l) ==
  /\ Heard(l, "text")
  /\ sink' = [sink EXCEPT !.postTool = @ \/ sink.tool]
  /\ ScheduleFlush(l, card, "showing", "shown")
  /\ UNCHANGED <<opening, chat, cardFaults, polls>>

(* Text after a tool ends a turn whose end was put off. *)
TextShown(l) ==
  /\ line[l] = "shown" /\ Goes(l, Resting(l))
  /\ IF sink.awaitsText /\ sink.postTool THEN FinishReply("final") ELSE UNCHANGED <<sink, card, flush>>
  /\ UNCHANGED <<stream, aside, opening, chat, cardFaults, polls>>

HandleTool(l) ==
  /\ Heard(l, "tool")
  /\ sink' = [sink EXCEPT !.tool = TRUE]
  /\ ScheduleFlush(l, [card EXCEPT !.timer = FALSE, !.urgent = TRUE], "flushing", Resting(l))
  /\ UNCHANGED <<opening, chat, cardFaults, polls>>

HandleResource(l) ==
  /\ Heard(l, "resource")
  /\ FlushNow(card, l, "running") /\ Goes(l, IF Busy THEN Resting(l) ELSE "flushing")
  /\ UNCHANGED <<sink, opening, chat, cardFaults, polls>>

(* The end of a turn that used tools is put off until text comes after them. *)
HandleEnd(l) ==
  /\ Heard(l, "end")
  /\ IF sink.tool /\ ~sink.postTool
     THEN sink' = [sink EXCEPT !.awaitsText = TRUE] /\ Goes(l, "asking") /\ UNCHANGED <<card, flush>>
     ELSE FinishReply("final") /\ UNCHANGED line
  /\ UNCHANGED <<opening, chat, cardFaults, polls>>

HandleFail(l) ==
  /\ Heard(l, "fail")
  /\ FinishReply("error")
  /\ UNCHANGED <<line, opening, chat, cardFaults, polls>>

-----------------------------------------------------------------------------
Open == ~sink.completed /\ ~sink.stopped

(* The timers that ask for the result of the turn. *)
PollFires ==
  /\ sink.poll /\ line["poll"] = "idle" /\ polls < MaxPolls
  /\ polls' = polls + 1
  /\ sink' = [sink EXCEPT !.poll = FALSE]
  /\ Goes("poll", "asking")
  /\ UNCHANGED <<stream, aside, card, flush, opening, chat, cardFaults>>

DeferredFires ==
  /\ sink.deferred /\ line["deferred"] = "idle"
  /\ sink' = [sink EXCEPT !.deferred = FALSE]
  /\ Goes("deferred", IF Open THEN "asking" ELSE "idle")
  /\ UNCHANGED <<stream, aside, card, flush, opening, chat, cardFaults, polls>>

(* The latest answer in the session is complete or failed, be it of this turn or of an earlier step or turn. *)
ResultEnds(l) ==
  /\ line[l] = "asking" /\ Goes(l, Resting(l))
  /\ \E status \in {"final", "error"} : FinishReply(status)
  /\ UNCHANGED <<stream, aside, opening, chat, cardFaults, polls>>

(* It is still being written: the poll goes on, and an end that was put off comes after a moment. *)
ResultOpen(l) ==
  /\ line[l] = "asking" /\ Goes(l, Resting(l))
  /\ \/ l \in {"reader", "binder"} /\ sink' = [sink EXCEPT !.deferred = TRUE] /\ UNCHANGED <<card, flush>>
     \/ l = "poll" /\ sink' = [sink EXCEPT !.poll = Open] /\ UNCHANGED <<card, flush>>
     \/ l = "deferred" /\ FinishReply("final")
  /\ UNCHANGED <<stream, aside, opening, chat, cardFaults, polls>>

(* Nobody asks again but the poll. *)
ResultFails(l) ==
  /\ line[l] = "asking" /\ Goes(l, Resting(l))
  /\ sink' = IF l = "poll" THEN [sink EXCEPT !.poll = Open] ELSE sink
  /\ UNCHANGED <<stream, aside, card, flush, opening, chat, cardFaults, polls>>

ReplyTimesOut ==
  /\ sink.timeout
  /\ FinishReply("timeout")
  /\ UNCHANGED <<stream, aside, line, opening, chat, cardFaults, polls>>

(* Delivering the end takes too long: a message says it instead. *)
DeliveryTimesOut ==
  /\ sink.delivery = "delivering"
  /\ sink' = [sink EXCEPT !.delivery = "fallback"]
  /\ UNCHANGED <<stream, aside, line, card, flush, opening, chat, cardFaults, polls>>

Message(status) == [status |-> status, shown |-> TRUE]

SendFallback ==
  /\ sink.delivery = "fallback"
  /\ sink' = [sink EXCEPT !.delivery = "delivered"]
  /\ \/ chat' = Append(chat, Message(sink.status)) /\ UNCHANGED cardFaults
     \/ cardFaults < MaxCardFaults /\ cardFaults' = cardFaults + 1 /\ UNCHANGED chat
  /\ UNCHANGED <<stream, aside, line, card, flush, opening, polls>>

ReplyDone ==
  /\ sink.delivery = "delivered" /\ ~(sink.done # "no" /\ sink.stopped)
  /\ sink' = [sink EXCEPT !.stopped = TRUE, !.done = IF @ = "no" THEN sink.status ELSE @]
  /\ UNCHANGED <<stream, aside, line, card, flush, opening, chat, cardFaults, polls>>

(* The turn is aborted, or the platform stops. *)
StopReply ==
  /\ ~sink.stopped
  /\ sink' = [sink EXCEPT !.stopped = TRUE, !.timeout = FALSE, !.deferred = FALSE, !.poll = FALSE,
                           !.done = IF sink.completed THEN "final" ELSE "stopped"]
  /\ card' = [card EXCEPT !.terminal = TRUE, !.timer = FALSE]
  /\ UNCHANGED <<stream, aside, line, flush, opening, chat, cardFaults, polls>>

-----------------------------------------------------------------------------
CardTimerFires ==
  /\ card.timer
  /\ FlushNow([card EXCEPT !.timer = FALSE], "timer", "running")
  /\ UNCHANGED <<stream, aside, sink, line, opening, chat, cardFaults, polls>>

ToPatch(c) == [c EXCEPT !.transport = "patch", !.entity = 0]

ToText(c) == [c EXCEPT !.transport = "text"]

Proceed(c, status) ==
  LET call == FirstCall(c, status) IN
  /\ card' = [c EXCEPT !.noted = @ \/ call.pc = "note"]
  /\ flush' = [flush EXCEPT !.pc = call.pc, !.card = call.card]

FlushGoes(pc, i) == flush' = [flush EXCEPT !.pc = pc, !.card = i] /\ UNCHANGED card

(* A card is created and then sent; start() and a flush may both do so. *)
Created == Append(chat, [status |-> "running", shown |-> FALSE])

Sent(c, i) == [c EXCEPT !.sent = i, !.urgent = FALSE]

FlushCall ==
  \/ /\ flush.pc = "create" /\ chat' = Created
     /\ card' = [card EXCEPT !.entity = Len(Created)]
     /\ flush' = [flush EXCEPT !.pc = "send", !.card = Len(Created)]
  \/ /\ flush.pc = "send" /\ chat' = [chat EXCEPT ![flush.card].shown = TRUE]
     /\ LET c == Sent(card, flush.card) IN
        IF c.transport = "cardkit" THEN Proceed(c, flush.status)
        ELSE card' = c /\ flush' = [flush EXCEPT !.pc = "patch", !.card = c.sent]
  \/ /\ flush.pc \in {"stream", "tools"} /\ flush.card # 0
     /\ chat' = [chat EXCEPT ![flush.card].status = "running"]
     /\ FlushGoes(IF flush.pc = "stream" THEN "tools" ELSE "over", card.entity)
  \/ /\ flush.pc = "update"
     /\ chat' = [chat EXCEPT ![flush.card].status = flush.status]
     /\ FlushGoes("mode", card.entity)
  \/ flush.pc = "mode" /\ flush.card # 0 /\ FlushGoes("over", 0) /\ UNCHANGED chat
  \/ /\ flush.pc = "patch" /\ flush.card # 0
     /\ chat' = [chat EXCEPT ![flush.card].status = flush.status]
     /\ FlushGoes("over", 0)
  \/ /\ flush.pc = "patch" /\ flush.card = 0
     /\ chat' = Append(chat, Message(flush.status))
     /\ card' = [card EXCEPT !.sent = Len(chat')]
     /\ flush' = [flush EXCEPT !.pc = "over"]
  \/ flush.pc = "note" /\ FlushGoes(IF flush.status = "running" THEN "over" ELSE "text", 0) /\ UNCHANGED chat
  \/ flush.pc = "text" /\ chat' = Append(chat, Message(flush.status)) /\ FlushGoes("over", 0)

FlushCalls == FlushCall /\ UNCHANGED <<stream, aside, sink, line, opening, cardFaults, polls>>

CardFault == cardFaults < MaxCardFaults /\ cardFaults' = cardFaults + 1

(* Cards that fail are replaced by patched messages, and those by plain ones. *)
FlushFails ==
  /\ \/ /\ flush.pc \in {"create", "send", "stream", "tools", "update", "mode"}
        /\ IF flush.card = 0 /\ flush.pc \in {"tools", "mode"} THEN UNCHANGED cardFaults ELSE CardFault
        /\ Proceed(ToPatch(card), flush.status)
     \/ flush.pc = "patch" /\ CardFault /\ Proceed(ToText(card), flush.status)
     \/ flush.pc = "text" /\ CardFault /\ FlushGoes("over", 0)
  /\ UNCHANGED <<stream, aside, sink, line, opening, chat, polls>>

(* The flush that was asked for meanwhile is dropped when the reply has ended. *)
FlushAgain(c) == c.reflush /\ ~c.terminal

FlushOver ==
  /\ flush.pc = "over"
  /\ flush' = NoFlush
  /\ card' = [card EXCEPT !.urgent = FALSE, !.timer = @ \/ FlushAgain(card), !.reflush = @ /\ ~FlushAgain(card)]
  /\ line' = IF flush.by \in Lines THEN [line EXCEPT ![flush.by] = IF @ = "showing" THEN "shown" ELSE Resting(flush.by)] ELSE line
  /\ sink' = IF flush.by = "finish" /\ sink.delivery = "delivering" THEN [sink EXCEPT !.delivery = "delivered"] ELSE sink
  /\ UNCHANGED <<stream, aside, opening, chat, cardFaults, polls>>

(* The first card: start(). *)
OpeningGoes(pc, i) == opening' = [pc |-> pc, card |-> i]

PatchOpening(c) == IF c.transport = "patch" /\ c.sent = 0 THEN OpeningGoes("patch", 0) ELSE OpeningGoes("over", 0)

OpeningCall ==
  /\ \/ /\ opening.pc = "create" /\ chat' = Created
        /\ card' = [card EXCEPT !.entity = Len(Created)]
        /\ OpeningGoes("send", Len(Created))
     \/ /\ opening.pc = "send" /\ chat' = [chat EXCEPT ![opening.card].shown = TRUE]
        /\ card' = Sent(card, opening.card)
        /\ OpeningGoes("over", 0)
     \/ /\ opening.pc = "patch" /\ chat' = Append(chat, Message("running"))
        /\ card' = Sent(card, Len(chat'))
        /\ OpeningGoes("over", 0)
     \/ opening.pc = "note" /\ card' = [card EXCEPT !.urgent = FALSE] /\ OpeningGoes("over", 0) /\ UNCHANGED chat
  /\ UNCHANGED <<stream, aside, sink, line, flush, cardFaults, polls>>

OpeningFails ==
  /\ CardFault
  /\ \/ opening.pc \in {"create", "send"} /\ card' = ToPatch(card) /\ PatchOpening(ToPatch(card))
     \/ /\ opening.pc = "patch"
        /\ card' = [ToText(card) EXCEPT !.noted = TRUE, !.urgent = @ /\ ~card.noted]
        /\ OpeningGoes(IF card.noted THEN "over" ELSE "note", 0)
  /\ UNCHANGED <<stream, aside, sink, line, flush, chat, polls>>

-----------------------------------------------------------------------------
LineStep(l) ==
  \/ DropEvent(l) \/ HandleText(l) \/ TextShown(l) \/ HandleTool(l) \/ HandleResource(l) \/ HandleEnd(l) \/ HandleFail(l)
  \/ ResultEnds(l) \/ ResultOpen(l) \/ ResultFails(l)

CardStep == FlushCalls \/ FlushFails \/ FlushOver \/ OpeningCall \/ OpeningFails

SinkStep ==
  \/ BindTurn \/ StartDraining \/ PutAside \/ PollFires \/ DeferredFires \/ ReplyTimesOut
  \/ DeliveryTimesOut \/ SendFallback \/ ReplyDone \/ StopReply \/ CardTimerFires

ReplyNext == SinkStep \/ CardStep \/ \E l \in Lines : LineStep(l)

ReplySpec == ReplyInit /\ [][ReplyNext]_replyVars

(* Calls of Feishu and of the controller settle, and timers fire. *)
ReplyFairSpec ==
  /\ ReplySpec
  /\ WF_replyVars(ReplyTimesOut) /\ WF_replyVars(SendFallback) /\ WF_replyVars(ReplyDone)
  /\ WF_replyVars(FlushCalls \/ FlushFails \/ FlushOver)

-----------------------------------------------------------------------------
ReplyTypeOK ==
  /\ line \in [Lines -> {"idle", "opening", "draining", "showing", "shown", "flushing", "asking"}]
  /\ card.entity <= Len(chat) /\ card.sent <= Len(chat)
  /\ sink.status \in ReplyStatuses /\ flush.status \in ReplyStatuses
  /\ \A i \in DOMAIN chat : chat[i].status \in ReplyStatuses
  /\ sink.delivery = "delivering" => flush.by = "finish"

(* A card that shows the end of its turn never shows the turn as running again, whatever flushes, timers and calls that
   fail or take too long are under way when the reply ends (streaming-card-controller.ts:118-127, 215). *)
NeverBackToRunning ==
  [][\A i \in DOMAIN chat : chat[i].status # "running" => chat'[i].status # "running"]_replyVars

(* Every turn that was bound has its reply ended, although events are lost and results are not to be had. *)
RepliesEnd == sink.bound ~> (sink.done # "no")

(* A reply that has ended, and was not stopped, shows its end in a card or in a message, whatever flush is in progress
   at that moment (streaming-card-controller.ts:196-200, 215). *)
EndIsShown ==
  sink.done \in {"final", "error", "timeout"} /\ sink.delivery = "delivered" /\ ~Busy /\ cardFaults = 0 =>
    \E i \in DOMAIN chat : chat[i].shown /\ chat[i].status = sink.status

=============================================================================
