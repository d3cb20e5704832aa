----------------------------- MODULE MCProgress -----------------------------
(***************************************************************************)
(* The components of a session and the services of the server side by      *)
(* side, for TLC, with the fairness of each: what they owe ends.  They     *)
(* share no variable but those of the lock; which of them runs is chosen   *)
(* at the start.                                                           *)
(***************************************************************************)
EXTENDS SessionTurn, PermissionRequests, PartUpdateBuffer, FeishuReply, JsonTransaction, Schedule, WebhookTriggers, TLC

CONSTANTS c1, c3, m1, m2, s1, s2, r1, r2, r3, a, b, v1, v3, Components

OneSession == [c \in Prompts |-> s1]
TwoMessages == (c1 :> m1) @@ (c3 :> m2)

TwoSessions == (r1 :> s1) @@ (r2 :> s1) @@ (r3 :> s2)
SomePatterns == (r1 :> <<a>>) @@ (r2 :> <<a, b>>) @@ (r3 :> <<b>>)
SomeRules == [r \in {r1, r2, r3} |-> (a :> "ask") @@ (b :> IF r = r2 THEN "deny" ELSE "ask")]
AllPatterns == (r1 :> {a}) @@ (r2 :> {a, b}) @@ (r3 :> {b})

(* The stream of a turn may break off. *)
SomeStreams == {<<"tool", "end">>, <<"text">>}

TwoPaths == {1, 2}
RequestsOfTwo == Transactions \X TwoPaths

KeyOfEach == (v1 :> v1) @@ (v3 :> v3)

VARIABLE component

sessionVars == <<turnVars, askVars, bufferVars, replyVars>>
serviceVars == <<transactionVars, scheduleVars, webhookVars>>
vars == <<sessionVars, serviceVars, component>>

(* A component that does not run starts in one state.  Nobody enables a task, so those of the schedule are enabled. *)
Init ==
  /\ TurnInit /\ AskInit /\ BufferInit /\ ReplyInit /\ TransactionInit /\ ScheduleInit /\ WebhookInit
  /\ component \in Components
  /\ component # "reply" => stream = (CHOOSE s \in Streams : TRUE) /\ card.transport = "patch"
  /\ \A t \in Tasks :
       IF component = "schedule" THEN task[t].enabled
       ELSE task[t].next = 0 /\ task[t].rule = "once" /\ task[t].project

Turn(A) == component = "turn" /\ A /\ UNCHANGED <<askVars, bufferVars, replyVars, serviceVars, component>>
Permission(A) == component = "permission" /\ A /\ UNCHANGED <<turnVars, bufferVars, replyVars, serviceVars, component>>
Buffer(A) == component = "buffer" /\ A /\ UNCHANGED <<turnVars, askVars, replyVars, serviceVars, component>>
Reply(A) == component = "reply" /\ A /\ UNCHANGED <<turnVars, askVars, bufferVars, serviceVars, component>>
Transaction(A) == component = "transaction" /\ A /\ UNCHANGED <<scheduleVars, webhookVars, sessionVars, component>>
Scheduling(A) == component = "schedule" /\ A /\ UNCHANGED <<transactionVars, webhookVars, sessionVars, component>>
Webhook(A) == component = "webhook" /\ A /\ UNCHANGED <<transactionVars, scheduleVars, sessionVars, component>>

Next ==
  \/ Turn(TurnNext) \/ Permission(AskNext) \/ Buffer(BufferNext) \/ Reply(ReplyNext)
  \/ Transaction(TransactionNext) \/ Scheduling(ScheduleNext) \/ Webhook(WebhookNext)

(* The fairness of the components, of which only the one that runs has steps. *)
FairSpec ==
  /\ Init /\ [][Next]_vars
  /\ \A c \in Prompts : WF_vars(Turn(Submits(c))) /\ WF_vars(Turn(Proceeds(c))) /\ WF_vars(Turn(Stops(c)))
  /\ \A r \in Asks : WF_vars(Permission(Evaluate(r))) /\ WF_vars(Permission(TimeOut(r)))
  /\ \A p \in Replies : WF_vars(Permission(ReplyStep(p)))
  /\ WF_vars(Buffer(StartTask)) /\ WF_vars(Buffer(DeltaEmitted \/ PartPersisted))
  /\ \A p \in Parts : WF_vars(Buffer(DeltaWindowEnds(p))) /\ WF_vars(Buffer(CheckpointWindowEnds(p)))
  /\ WF_vars(Reply(ReplyTimesOut)) /\ WF_vars(Reply(SendFallback)) /\ WF_vars(Reply(ReplyDone))
  /\ WF_vars(Reply(FlushCalls \/ FlushFails \/ FlushOver))
  /\ \A t \in Transactions : WF_vars(Transaction(TransactionStep(t)))
  /\ WF_vars(Scheduling(\E w \in Workers : Call(w)))
  /\ \A w \in Workers : WF_vars(Scheduling(WorkerStep(w)))
  /\ WF_vars(Scheduling(\E i \in DOMAIN runs : EndingRecorded(i)))
  /\ \A d \in Deliveries : WF_vars(Webhook(Handles(d))) /\ WF_vars(Webhook(RunTimesOut(d) \/ RecordEnd(d)))

=============================================================================
