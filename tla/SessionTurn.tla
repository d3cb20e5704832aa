---------------------------- MODULE SessionTurn ----------------------------
(***************************************************************************)
(* The turns of a session: SessionPrompt.prompt and promptAsync            *)
(* (opencode/src/session/prompt.ts) with the run lease (run-lease.ts), the *)
(* receipts of client-supplied message ids (request.ts), the binding of a  *)
(* turn to its session (runtime/controller/events.ts) and the removal of a *)
(* session (session/index.ts).                                             *)
(*                                                                         *)
(* A call is one request of a client; requests with the same message id    *)
(* are resends of each other.  Every accepted prompt is a turn, named      *)
(* after its call.  The server may crash between any two steps: messages,  *)
(* receipts and sessions are files, all the rest is lost.                  *)
(***************************************************************************)
EXTENDS Integers, Sequences, FiniteSets

CONSTANTS
  Prompts,         \* calls of promptAsync
  Removals,        \* calls of Session.remove
  Sessions, MessageIds, Nobody,
  SessionOf,       \* the session a call names
  MessageOf,       \* the message id of a prompt
  MaxCrashes

Calls == Prompts \cup Removals

(* Where a call is: under way or at its end.  The removal of a session that has taken a message away is at its id. *)
Stages == {"lock", "locked", "new", "started", "written", "failing", "unaccepted", "accepted", "settled", "thrown", "catch",
           "removing"}

Ended == {"idle", "replayed", "refused", "done", "failed", "crashed"}

ASSUME TurnAssumption ==
  /\ Prompts \cap Removals = {} /\ IsFiniteSet(Calls)
  /\ SessionOf \in [Calls -> Sessions]
  /\ MessageOf \in [Prompts -> MessageIds]
  /\ MessageIds \cap (Stages \cup Ended) = {}
  /\ Nobody \notin Calls
  /\ MaxCrashes \in Nat

VARIABLES
  call,       \* where each call is, whether its lease was cancelled, whether it wrote its message, and, as history, the
              \* turns of its session whose errors were still to be handled when it was started
  active,     \* the lease of each session: its owner, or None
  bound,      \* the turn bound to each session
  messages,   \* the stored messages, each under its session and its id
  receipts,   \* the turn that each message id was accepted for
  sessions,   \* the stored sessions
  terminals,  \* the terminal events of each turn
  crashes

disk == <<messages, receipts, sessions>>
turnVars == <<call, active, bound, disk, terminals, crashes>>

TurnInit ==
  /\ call = [c \in Calls |-> [pc |-> "idle", aborted |-> FALSE, wrote |-> FALSE, overtook |-> {}]]
  /\ active = [s \in Sessions |-> Nobody]
  /\ bound = [s \in Sessions |-> Nobody]
  /\ messages = {} /\ sessions = Sessions
  /\ receipts = [m \in MessageIds |-> Nobody]
  /\ terminals = [c \in Prompts |-> <<>>]
  /\ crashes = 0

(* A call that has ended drops its lease, with the mark that it was cancelled. *)
Goto(c, pc) == call' = [call EXCEPT ![c].pc = pc, ![c].aborted = IF pc \in Ended THEN FALSE ELSE @]

At(c, pc) == c \in Prompts /\ call[c].pc = pc

-----------------------------------------------------------------------------
(* The lease of a session. *)

\* Mutant: a cancelled lease counts as free.
FreeOrCancelled(s) == IF active[s] = Nobody THEN TRUE ELSE call[active[s]].aborted

Free(s) == active[s] = Nobody

Reserve(c) == Free(SessionOf[c]) /\ active' = [active EXCEPT ![SessionOf[c]] = c]

\* Mutant: a cancelled lease is taken for released.
WithoutLeaseUnlessAborted(c) == [active EXCEPT ![SessionOf[c]] = IF @ = c /\ ~call[c].aborted THEN Nobody ELSE @]

(* A lease is released by its owner only. *)
WithoutLease(c) == [active EXCEPT ![SessionOf[c]] = IF @ = c THEN Nobody ELSE @]

(* Cancelling a session, or disposing of its instance, aborts the lease and leaves it to its owner. *)
CancelSession(s) ==
  /\ active[s] # Nobody /\ ~call[active[s]].aborted
  /\ call' = [call EXCEPT ![active[s]].aborted = TRUE]
  /\ UNCHANGED <<active, bound, disk, terminals, crashes>>

-----------------------------------------------------------------------------
(* acceptPrompt() *)

(* The receipt of the message id is looked up before anything else. *)
Replay(c) ==
  /\ At(c, "idle")
  /\ LET turn == receipts[MessageOf[c]] IN
       Goto(c, IF turn = Nobody THEN "lock" ELSE IF SessionOf[turn] = SessionOf[c] THEN "replayed" ELSE "refused")
  /\ UNCHANGED <<active, bound, disk, terminals, crashes>>

HoldsMessageLock(c) == c \in Prompts /\ call[c].pc \in {"locked", "new", "started", "written", "failing", "unaccepted"}

MessageLockFree(m) == \A c \in Prompts : MessageOf[c] = m => ~HoldsMessageLock(c)

LockMessage(c) ==
  /\ At(c, "lock") /\ MessageLockFree(MessageOf[c])
  /\ Goto(c, "locked")
  /\ UNCHANGED <<active, bound, disk, terminals, crashes>>

\* Mutant: only a receipt makes a message id old.
IsNewWithoutReceipt(m) == receipts[m] = Nobody

(* assertNew(): the session has no message with the id and, as parts are stored under the id alone, no other has. *)
IsNew(m) == \A message \in messages : message.id # m

AssertNew(c) ==
  /\ At(c, "locked")
  /\ Goto(c, IF IsNew(MessageOf[c]) THEN "new" ELSE "refused")
  /\ UNCHANGED <<active, bound, disk, terminals, crashes>>

(* A loop has thrown and given its lease back, and the handler of its error has not run. *)
Unhandled(s) == {c \in Prompts : SessionOf[c] = s /\ call[c].pc = "catch"}

(* The lease is reserved and the turn is bound to the session before the next await. *)
StartTurn(c) ==
  /\ At(c, "new") /\ Reserve(c)
  /\ call' = [call EXCEPT ![c].pc = "started", ![c].overtook = Unhandled(SessionOf[c])]
  /\ bound' = [bound EXCEPT ![SessionOf[c]] = c]
  /\ UNCHANGED <<disk, terminals, crashes>>

RefuseBusy(c) ==
  /\ At(c, "new") /\ ~Free(SessionOf[c])
  /\ Goto(c, "refused")
  /\ UNCHANGED <<active, bound, disk, terminals, crashes>>

MessageKey(c) == [session |-> SessionOf[c], id |-> MessageOf[c]]

(* The session is loaded and the user message written, with its parts. *)
CreateUserMessage(c) ==
  /\ At(c, "started") /\ SessionOf[c] \in sessions
  /\ call' = [call EXCEPT ![c].pc = "written", ![c].wrote = TRUE]
  /\ messages' = messages \cup {MessageKey(c)}
  /\ UNCHANGED <<active, bound, receipts, sessions, terminals, crashes>>

\* Mutant: the receipt is written before the message.
AcceptBeforeMessage(c) ==
  /\ At(c, "started")
  /\ Goto(c, "written")
  /\ receipts' = [receipts EXCEPT ![MessageOf[c]] = c]
  /\ UNCHANGED <<active, bound, messages, sessions, terminals, crashes>>

(* The receipt is the last thing written; the message lock is given back with the return. *)
Accept(c) ==
  /\ At(c, "written")
  /\ Goto(c, "accepted")
  /\ receipts' = [receipts EXCEPT ![MessageOf[c]] = c]
  /\ UNCHANGED <<active, bound, messages, sessions, terminals, crashes>>

(* Anything that is awaited before the receipt may fail; a session that was removed does. *)
AcceptFails(c) ==
  /\ At(c, "started") \/ At(c, "written")
  /\ Goto(c, "failing")
  /\ UNCHANGED <<active, bound, disk, terminals, crashes>>

-----------------------------------------------------------------------------
\* Mutant: the event is named after the state of the call.
TerminalState(c, otherwise) == call[c].pc

Terminal(c, otherwise) == IF call[c].aborted THEN "cancelled" ELSE otherwise

(* publishTurnTerminal(): the event, and after its subscribers the binding. *)
PublishTerminal(c, turn, event) == terminals' = [terminals EXCEPT ![turn] = Append(@, Terminal(c, event))]

Unbound(s, turn) == [bound EXCEPT ![s] = IF @ = turn THEN Nobody ELSE @]

FailTurn(c) ==
  /\ At(c, "failing")
  /\ PublishTerminal(c, c, "failed")
  /\ Goto(c, "unaccepted")
  /\ UNCHANGED <<active, bound, disk, crashes>>

(* The loop of an accepted prompt comes to its end, through the answer, an error of the model, a time-out or the
   abortion of its lease.  A prompt that wants no reply ends at once. *)
LoopEnds(c) ==
  /\ At(c, "accepted")
  /\ \E event \in {"completed", "failed"} : PublishTerminal(c, c, event)
  /\ Goto(c, "settled")
  /\ UNCHANGED <<active, bound, disk, crashes>>

(* It throws: after an abortion the turn is settled on the way out. *)
LoopThrowsSettled(c) ==
  /\ At(c, "accepted") /\ call[c].aborted
  /\ PublishTerminal(c, c, "failed")
  /\ Goto(c, "thrown")
  /\ UNCHANGED <<active, bound, disk, crashes>>

LoopThrows(c) ==
  /\ At(c, "accepted") /\ ~call[c].aborted
  /\ Goto(c, "thrown")
  /\ UNCHANGED <<active, bound, disk, terminals, crashes>>

\* Mutant: the turn stays bound after its terminal event.
BoundAfterKept(c) == bound

BoundAfter(c) == IF terminals[c] # <<>> THEN Unbound(SessionOf[c], c) ELSE bound

(* The lease is given back after the terminal event, last of all. *)
ReleaseLease(c) ==
  /\ c \in Prompts /\ call[c].pc \in {"settled", "unaccepted", "thrown"}
  /\ active' = WithoutLease(c)
  /\ bound' = BoundAfter(c)
  /\ Goto(c, CASE call[c].pc = "settled" -> "done" [] call[c].pc = "unaccepted" -> "refused" [] OTHER -> "catch")
  /\ UNCHANGED <<disk, terminals, crashes>>

(* loopWithTerminalErrors() settles whatever turn is bound to the session by now, which may be one that was started since
   the lease was given back. *)
Catch(c) ==
  /\ At(c, "catch")
  /\ LET turn == bound[SessionOf[c]] IN
       IF turn = Nobody THEN UNCHANGED <<bound, terminals>>
       ELSE PublishTerminal(c, turn, "failed") /\ bound' = Unbound(SessionOf[c], turn)
  /\ Goto(c, "done")
  /\ UNCHANGED <<active, disk, crashes>>

-----------------------------------------------------------------------------
(* Session.remove() *)

StartRemoval(c) ==
  /\ c \in Removals /\ call[c].pc = "idle"
  /\ SessionOf[c] \in sessions /\ Reserve(c)
  /\ Goto(c, "removing")
  /\ UNCHANGED <<bound, disk, terminals, crashes>>

MessagesOf(s) == {message \in messages : message.session = s}

(* Each message, then its receipt. *)
RemoveMessage(c) ==
  /\ c \in Removals /\ call[c].pc = "removing"
  /\ \E message \in MessagesOf(SessionOf[c]) : messages' = messages \ {message} /\ Goto(c, message.id)
  /\ UNCHANGED <<active, bound, receipts, sessions, terminals, crashes>>

RemoveReceipt(c) ==
  /\ c \in Removals /\ call[c].pc \in MessageIds
  /\ receipts' = [receipts EXCEPT ![call[c].pc] = Nobody]
  /\ Goto(c, "removing")
  /\ UNCHANGED <<active, bound, messages, sessions, terminals, crashes>>

RemoveSession(c) ==
  /\ c \in Removals /\ call[c].pc = "removing" /\ MessagesOf(SessionOf[c]) = {}
  /\ sessions' = sessions \ {SessionOf[c]}
  /\ active' = WithoutLease(c)
  /\ Goto(c, "done")
  /\ UNCHANGED <<bound, messages, receipts, terminals, crashes>>

RemovalFails(c) ==
  /\ c \in Removals /\ call[c].pc \in {"removing"} \cup MessageIds
  /\ active' = WithoutLease(c)
  /\ Goto(c, "failed")
  /\ UNCHANGED <<bound, disk, terminals, crashes>>

-----------------------------------------------------------------------------
Crash ==
  /\ crashes < MaxCrashes
  /\ crashes' = crashes + 1
  /\ call' = [c \in Calls |-> IF call[c].pc \in Ended THEN call[c] ELSE [call[c] EXCEPT !.pc = "crashed", !.aborted = FALSE]]
  /\ active' = [s \in Sessions |-> Nobody]
  /\ bound' = [s \in Sessions |-> Nobody]
  /\ UNCHANGED <<disk, terminals>>

PromptStep(c) ==
  \/ Replay(c) \/ LockMessage(c) \/ AssertNew(c) \/ StartTurn(c) \/ RefuseBusy(c) \/ CreateUserMessage(c) \/ Accept(c)
  \/ AcceptFails(c) \/ FailTurn(c) \/ LoopEnds(c) \/ LoopThrowsSettled(c) \/ LoopThrows(c) \/ ReleaseLease(c)
  \/ Catch(c)

RemovalStep(c) == StartRemoval(c) \/ RemoveMessage(c) \/ RemoveReceipt(c) \/ RemoveSession(c) \/ RemovalFails(c)

TurnNext ==
  \/ \E c \in Calls : PromptStep(c) \/ RemovalStep(c)
  \/ \E s \in Sessions : CancelSession(s)
  \/ Crash

TurnSpec == TurnInit /\ [][TurnNext]_turnVars

(* What a prompt awaits settles; a loop whose lease was aborted ends. *)
Submits(c) == Catch(c) \/ LockMessage(c) \/ AssertNew(c) \/ StartTurn(c) \/ RefuseBusy(c)

Proceeds(c) == CreateUserMessage(c) \/ Accept(c) \/ AcceptFails(c) \/ FailTurn(c) \/ ReleaseLease(c)

Stops(c) == call[c].aborted /\ (LoopEnds(c) \/ LoopThrowsSettled(c))

TurnFairSpec ==
  TurnSpec /\ \A c \in Prompts : WF_turnVars(Submits(c)) /\ WF_turnVars(Proceeds(c)) /\ WF_turnVars(Stops(c))

-----------------------------------------------------------------------------
TurnTypeOK ==
  /\ call \in [Calls -> [pc : Stages \cup Ended \cup MessageIds, aborted : BOOLEAN, wrote : BOOLEAN,
                     overtook : SUBSET Prompts]]
  /\ active \in [Sessions -> Calls \cup {Nobody}]
  /\ bound \in [Sessions -> Prompts \cup {Nobody}]
  /\ messages \subseteq [session : Sessions, id : MessageIds]
  /\ receipts \in [MessageIds -> Prompts \cup {Nobody}]
  /\ sessions \subseteq Sessions
  /\ \A c \in Prompts : \A i \in DOMAIN terminals[c] : terminals[c][i] \in {"completed", "failed", "cancelled"}
  /\ crashes \in 0..MaxCrashes

Working(c) == call[c].pc \in {"started", "written", "failing", "unaccepted", "accepted", "settled", "thrown", "removing"} \cup MessageIds

(* Two calls never work on a session at once: neither two turns nor a turn and the removal of the session, however they
   are cancelled, fail and are retried. *)
OneAtATime == \A c, d \in Calls : Working(c) /\ Working(d) /\ SessionOf[c] = SessionOf[d] => c = d

Disturbed(s) == \E d \in Removals : SessionOf[d] = s /\ call[d].pc # "idle"

(* The message of a client is written at most once, however often it is sent, at whatever moment, and whichever of its
   submissions fails or is cut off by a crash; only the removal of the session, whole or half done, makes room again. *)
WrittenOnce ==
  \A c, d \in Prompts :
    call[c].wrote /\ call[d].wrote /\ MessageOf[c] = MessageOf[d] /\ SessionOf[c] = SessionOf[d]
    => c = d \/ Disturbed(SessionOf[c])

(* The turn was started between the end of another one and the handler of that one's error, or such a turn was started
   before its own handler. *)
HandlerIsLate(c) == call[c].overtook # {} \/ \E d \in Prompts : c \in call[d].overtook

(* busy.test.ts:220 expects exactly one terminal event of a turn: every turn that is over was reported once, whether it
   ended, failed, was cancelled or threw, and not in the name of another turn.  The condition is that no turn gets in
   between the release of a lease (prompt.ts:701) and the handler of the error that released it (1303), which nothing in
   the code prevents: the handler then reports the new turn, which is reported a second time at its end, and the turn that
   threw is not reported at all. *)
OneTerminal ==
  \A c \in Prompts : ~HandlerIsLate(c) => Len(terminals[c]) <= 1 /\ (call[c].pc = "done" => Len(terminals[c]) = 1)

(* Whoever is told that its message was accepted before finds it, unless the session is removed or its removal was cut
   off. *)
ReplayIsTrue ==
  \A c \in Prompts : call[c].pc = "replayed" => MessageKey(c) \in messages \/ Disturbed(SessionOf[c])

(* A message that is sent again is answered without being written again, and the answer is true. *)
ResendsAreSafe == WrittenOnce /\ ReplayIsTrue

(* A turn that is under way and cancelled ends, gives the session free, and is reported as ended, on the condition of
   OneTerminal: if the next turn gets in before the handler of its error, the report is in the name of that turn. *)
CancelledTurnsEnd ==
  \A c \in Prompts :
    (Working(c) /\ call[c].aborted)
      ~> (active[SessionOf[c]] # c /\ (terminals[c] # <<>> \/ call[c].pc = "crashed" \/ HandlerIsLate(c)))

=============================================================================
