--------------------------- MODULE FeishuSessions ---------------------------
(***************************************************************************)
(* The messages of one chat on their way to the agent: the session manager *)
(* of platform-feishu/src/im/session-manager.ts with its message buffer    *)
(* (buffer/message-buffer.ts).  Everything it keeps is kept per route, so  *)
(* one route is modelled.                                                  *)
(*                                                                         *)
(* A turn is one call of flushRoute() with its batch; its number stands    *)
(* for the session that it creates, its turn snapshot and its reply sink.  *)
(* The gate, the history, the commands that only look and stop() are left  *)
(* out.                                                                    *)
(***************************************************************************)
EXTENDS Naturals, Sequences, FiniteSets

CONSTANTS
  ChatMessages,
  AbortCalls,     \* "/abort" and the button of a card
  ResetCalls,     \* "/new" and the commands that change the directory or the project
  NoSession

ASSUME RouteAssumption == IsFiniteSet(ChatMessages) /\ NoSession \notin ResetCalls \cup Nat

VARIABLES
  buffering,      \* messages are collected for a while
  buffer,         \* those of the route
  activeTurn,     \* the entry of the route in activeTurns
  turns,          \* the calls of flushRoute()
  binding,        \* the session that is stored for the route
  chatMessage,    \* what became of each message
  abortCall, resetCall

routeVars == <<buffering, buffer, activeTurn, turns, binding, chatMessage, abortCall, resetCall>>

Inactive == [on |-> FALSE, session |-> NoSession, snapshot |-> 0, sink |-> 0]

RouteInit ==
  /\ buffering \in BOOLEAN
  /\ buffer = {}
  /\ activeTurn = Inactive
  /\ turns = <<>>
  /\ binding = NoSession
  /\ chatMessage = [m \in ChatMessages |-> [handled |-> FALSE, told |-> {}]]
  /\ abortCall = [a \in AbortCalls |-> [pc |-> "new", sink |-> 0]]
  /\ resetCall = [r \in ResetCalls |-> "new"]

Tell(batch, what) ==
  chatMessage' = [m \in ChatMessages |-> IF m \in batch THEN [handled |-> TRUE, told |-> chatMessage[m].told \cup {what}]
                                         ELSE chatMessage[m]]

Take(m) == chatMessage' = [chatMessage EXCEPT ![m].handled = TRUE]

(* A patch of the entry, which is that of the turn that is active by then. *)
Patched(entry, field, value) == IF entry.on THEN [entry EXCEPT ![field] = value] ELSE entry

-----------------------------------------------------------------------------
\* Mutant: a batch that is sent stays in the buffer.
DrainedNever == buffer

(* drain() *)
Drained == {}

(* The start of a turn; a batch that finds the route busy is turned down. *)
FlushBatch(batch) ==
  /\ buffer' = Drained
  /\ activeTurn' = [Inactive EXCEPT !.on = TRUE]
  /\ turns' = Append(turns, [pc |-> "get", batch |-> batch, session |-> NoSession, sink |-> "none", reason |-> "none"])

\* Mutant: whether the route is busy is left to the flush.
TurnsDownNever == FALSE

TurnsDown == activeTurn.on

(* A message that is neither a command nor held back by the gate. *)
MessageArrives(m) ==
  /\ ~chatMessage[m].handled
  /\ \/ /\ TurnsDown
        /\ Tell({m}, "busy")
        /\ UNCHANGED <<buffer, activeTurn, turns>>
     \/ /\ ~TurnsDown /\ buffering
        /\ buffer' = buffer \cup {m}
        /\ Take(m)
        /\ UNCHANGED <<activeTurn, turns>>
     \/ /\ ~TurnsDown /\ ~buffering
        /\ FlushBatch({m})
        /\ Take(m)
  /\ UNCHANGED <<buffering, binding, abortCall, resetCall>>

(* One of the two timers of the buffer. *)
BufferIsDue ==
  /\ buffer # {}
  /\ IF activeTurn.on
     THEN buffer' = {} /\ Tell(buffer, "busy") /\ UNCHANGED <<activeTurn, turns>>
     ELSE FlushBatch(buffer) /\ UNCHANGED chatMessage
  /\ UNCHANGED <<buffering, binding, abortCall, resetCall>>

-----------------------------------------------------------------------------
(* resolveOrCreateSession(): the stored session if it still exists, or a new one that is stored. *)
RouteGoto(i, pc) == turns' = [turns EXCEPT ![i].pc = pc]

TurnAt(i, pc) == turns[i].pc = pc

HasSession(i, s) ==
  /\ turns' = [turns EXCEPT ![i].pc = "factory", ![i].session = s]
  /\ activeTurn' = Patched(activeTurn, "session", s)

GetBinding(i) ==
  /\ TurnAt(i, "get")
  /\ turns' = [turns EXCEPT ![i].pc = IF binding = NoSession THEN "create" ELSE "check", ![i].session = binding]
  /\ UNCHANGED <<activeTurn, binding>>

CheckBoundSession(i) ==
  /\ TurnAt(i, "check")
  /\ \/ HasSession(i, turns[i].session)
     \/ RouteGoto(i, "create") /\ UNCHANGED activeTurn
  /\ UNCHANGED binding

CreateBoundSession(i) ==
  /\ TurnAt(i, "create")
  /\ RouteGoto(i, "bind")
  /\ UNCHANGED <<activeTurn, binding>>

StoreBinding(i) ==
  /\ TurnAt(i, "bind")
  /\ binding' = i
  /\ HasSession(i, i)

(* The sink of the reply is made and started, and the batch is sent. *)
MakeSink(i) ==
  /\ TurnAt(i, "factory")
  /\ turns' = [turns EXCEPT ![i].pc = "start", ![i].sink = "live"]
  /\ activeTurn' = Patched(activeTurn, "sink", i)
  /\ UNCHANGED binding

SendBatch(i) ==
  /\ TurnAt(i, "start")
  /\ RouteGoto(i, "send")
  /\ UNCHANGED <<activeTurn, binding>>

StopSink(t) == IF t.sink = "live" THEN [t EXCEPT !.sink = "over"] ELSE t

BatchAccepted(i) ==
  /\ TurnAt(i, "send")
  /\ RouteGoto(i, "keep")
  /\ UNCHANGED <<activeTurn, binding>>

(* The session is stored for the route once more, whatever was stored meanwhile. *)
KeepBinding(i) ==
  /\ TurnAt(i, "keep")
  /\ binding' = turns[i].session
  /\ activeTurn' = Patched(activeTurn, "snapshot", i)
  /\ RouteGoto(i, "attach")

SinkBound(i) ==
  /\ TurnAt(i, "attach")
  /\ RouteGoto(i, "running")
  /\ UNCHANGED <<activeTurn, binding>>

(* The controller is busy, or something failed: the sink is stopped, the chat is told, and then the route is released. *)
TurnStops(i, reason) ==
  /\ turns' = [turns EXCEPT ![i] = [StopSink(@) EXCEPT !.pc = "stopping", !.reason = reason]]
  /\ UNCHANGED <<activeTurn, binding>>

BatchRefused(i) == TurnAt(i, "send") /\ TurnStops(i, "busy")

FlushFailed(i) ==
  /\ turns[i].pc \in {"get", "check", "create", "bind", "factory", "start", "send", "keep", "attach"}
  /\ TurnStops(i, "failed")

ChatIsTold(i) ==
  /\ TurnAt(i, "stopping")
  /\ RouteGoto(i, "told")
  /\ Tell(turns[i].batch, turns[i].reason)
  /\ UNCHANGED <<activeTurn, binding>>

\* Mutant: only an accepted turn releases the route.
AfterTurnIfAccepted(i) == IF TurnAt(i, "running") THEN Inactive ELSE activeTurn

AfterTurn(i) == Inactive

(* The end of a call that failed, or of the sink of an accepted turn. *)
TurnReleases(i) ==
  /\ TurnAt(i, "told") \/ (TurnAt(i, "running") /\ turns[i].sink = "over")
  /\ activeTurn' = AfterTurn(i)
  /\ RouteGoto(i, "done")
  /\ UNCHANGED binding

(* The reply is complete, or its time is over. *)
SinkEnds(i) ==
  /\ turns[i].pc \in {"attach", "running"}
  /\ turns[i].sink = "live"
  /\ turns' = [turns EXCEPT ![i].sink = "over"]
  /\ UNCHANGED <<activeTurn, binding>>

TurnStep(i) ==
  /\ \/ /\ \/ GetBinding(i) \/ CheckBoundSession(i) \/ CreateBoundSession(i) \/ StoreBinding(i) \/ MakeSink(i)
           \/ SendBatch(i) \/ BatchAccepted(i) \/ BatchRefused(i) \/ KeepBinding(i) \/ SinkBound(i) \/ TurnReleases(i)
           \/ FlushFailed(i) \/ SinkEnds(i)
        /\ UNCHANGED chatMessage
     \/ ChatIsTold(i)
  /\ UNCHANGED <<buffering, buffer, abortCall, resetCall>>

-----------------------------------------------------------------------------
(* An abort cancels what is buffered, or else the active turn once it has a session. *)
AbortBegins(a) ==
  /\ abortCall[a].pc = "new"
  /\ \/ /\ buffer # {}
        /\ buffer' = {}
        /\ Tell(buffer, "cancelled")
        /\ abortCall' = [abortCall EXCEPT ![a].pc = "done"]
     \/ /\ buffer = {} /\ activeTurn.session = NoSession
        /\ abortCall' = [abortCall EXCEPT ![a].pc = "done"]
        /\ UNCHANGED <<buffer, chatMessage>>
     \/ /\ buffer = {} /\ activeTurn.session # NoSession
        /\ abortCall' = [abortCall EXCEPT ![a] = [pc |-> "aborting", sink |-> activeTurn.sink]]
        /\ UNCHANGED <<buffer, chatMessage>>
  /\ UNCHANGED <<buffering, activeTurn, turns, binding, resetCall>>

(* The button of a card names the turn it belongs to, and does nothing once that is not the active one. *)
CardAborts(a, i) ==
  /\ activeTurn.snapshot = i
  /\ AbortBegins(a)

AbortAnswered(a) ==
  /\ abortCall[a].pc = "aborting"
  /\ \/ /\ abortCall' = [abortCall EXCEPT ![a].pc = "stopped"]
        /\ turns' = [i \in DOMAIN turns |-> IF i = abortCall[a].sink THEN StopSink(turns[i]) ELSE turns[i]]
     \/ abortCall' = [abortCall EXCEPT ![a].pc = "done"] /\ UNCHANGED turns
  /\ UNCHANGED <<buffering, buffer, activeTurn, binding, chatMessage, resetCall>>

AbortReleases(a) ==
  /\ abortCall[a].pc = "stopped"
  /\ activeTurn' = Inactive
  /\ abortCall' = [abortCall EXCEPT ![a].pc = "done"]
  /\ UNCHANGED <<buffering, buffer, turns, binding, chatMessage, resetCall>>

(* createAndBindSession(), which does not ask whether a turn is active. *)
ResetCreates(r) ==
  /\ resetCall[r] = "new"
  /\ resetCall' = [resetCall EXCEPT ![r] = "created"]
  /\ UNCHANGED <<buffering, buffer, activeTurn, turns, binding, chatMessage, abortCall>>

ResetBinds(r) ==
  /\ resetCall[r] = "created"
  /\ binding' = r
  /\ resetCall' = [resetCall EXCEPT ![r] = "done"]
  /\ UNCHANGED <<buffering, buffer, activeTurn, turns, chatMessage, abortCall>>

-----------------------------------------------------------------------------
RouteNext ==
  \/ \E m \in ChatMessages : MessageArrives(m)
  \/ BufferIsDue
  \/ \E i \in DOMAIN turns : TurnStep(i)
  \/ \E a \in AbortCalls : AbortBegins(a) \/ AbortAnswered(a) \/ AbortReleases(a)
  \/ \E a \in AbortCalls, i \in DOMAIN turns : CardAborts(a, i)
  \/ \E r \in ResetCalls : ResetCreates(r) \/ ResetBinds(r)

RouteSpec == RouteInit /\ [][RouteNext]_routeVars

-----------------------------------------------------------------------------
RouteSession == ResetCalls \cup 1..Len(turns) \cup {NoSession}

RouteTypeOK ==
  /\ buffering \in BOOLEAN
  /\ buffer \subseteq ChatMessages
  /\ activeTurn \in [on : BOOLEAN, session : RouteSession, snapshot : 0..Len(turns), sink : 0..Len(turns)]
  /\ turns \in Seq([pc : {"get", "check", "create", "bind", "factory", "start", "send", "keep", "attach", "running",
                          "stopping", "told", "done"},
                    batch : SUBSET ChatMessages \ {{}}, session : RouteSession, sink : {"none", "live", "over"},
                    reason : {"none", "busy", "failed"}])
  /\ binding \in RouteSession
  /\ chatMessage \in [ChatMessages -> [handled : BOOLEAN, told : SUBSET {"busy", "failed", "cancelled"}]]
  /\ abortCall \in [AbortCalls -> [pc : {"new", "aborting", "stopped", "done"}, sink : 0..Len(turns)]]
  /\ resetCall \in [ResetCalls -> {"new", "created", "done"}]

Batches(m) == {i \in DOMAIN turns : m \in turns[i].batch}

(* A message is buffered, is in the batch of one turn, or was turned down and the chat told so; what was cancelled is
   not sent (handleIncomingMessage, flushRoute, handleAbort). *)
MessagesAreKept ==
  \A m \in ChatMessages :
    /\ Cardinality(Batches(m)) <= 1
    /\ m \in buffer => Batches(m) = {} /\ chatMessage[m].told = {}
    /\ chatMessage[m].handled /\ m \notin buffer => Batches(m) # {} \/ chatMessage[m].told # {}
    /\ "cancelled" \in chatMessage[m].told => Batches(m) = {}

(* Nothing is buffered behind a turn: an abort that cancels what is buffered leaves no turn running that the person
   meant, and the button of a card cancels no message (handleAbort, handleCardAction). *)
BufferedMeansIdle == buffer # {} => ~activeTurn.on

(* A route that is busy has a turn that will release it, although aborts release it as well (flushRoute, the end of its
   sink, handleAbort). *)
BusyIsReleased == activeTurn.on => \E i \in DOMAIN turns : turns[i].pc # "done"

(* A route keeps its messages and comes free again, whatever fails, is aborted or reset meanwhile. *)
RouteIsKept == MessagesAreKept /\ BufferedMeansIdle /\ BusyIsReleased

=============================================================================
