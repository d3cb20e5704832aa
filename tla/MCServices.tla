----------------------------- MODULE MCServices -----------------------------
(***************************************************************************)
(* The services of the server side by side, for TLC: the lock on its own,  *)
(* transactions on files with it, the schedule, the webhooks and the relay *)
(* to the browser.  They share no variable but those of the lock; which of *)
(* them runs is chosen at the start.                                       *)
(***************************************************************************)
EXTENDS JsonTransaction, Schedule, WebhookTriggers, BrowserRelay, TLC

CONSTANTS d1, d2, d3, e1, e2, Components

TwoPaths == {1, 2}
RequestsOfTwo == Transactions \X TwoPaths

(* A delivery, its redelivery and another one. *)
Redelivered == [d \in Deliveries |-> IF d = d3 THEN e2 ELSE e1]

Symmetry == Permutations(Workers) \cup Permutations({d1, d2})

VARIABLE component

vars == <<transactionVars, scheduleVars, webhookVars, relayVars, component>>

(* A component that does not run has nothing to do. *)
Init ==
  /\ TransactionInit /\ ScheduleInit /\ WebhookInit /\ RelayInit
  /\ component \in Components
  /\ component # "schedule" => \A t \in Tasks : task[t].next = 0 /\ task[t].rule = "once" /\ task[t].project

Next ==
  \/ component = "lock" /\ LockNext /\ UNCHANGED <<txVars, scheduleVars, webhookVars, relayVars, component>>
  \/ component = "transaction" /\ TransactionNext /\ UNCHANGED <<scheduleVars, webhookVars, relayVars, component>>
  \/ component = "schedule" /\ ScheduleNext /\ UNCHANGED <<transactionVars, webhookVars, relayVars, component>>
  \/ component = "webhook" /\ WebhookNext /\ UNCHANGED <<transactionVars, scheduleVars, relayVars, component>>
  \/ component = "relay" /\ RelayNext /\ UNCHANGED <<transactionVars, scheduleVars, webhookVars, component>>

Spec == Init /\ [][Next]_vars

TypeOK == TransactionTypeOK /\ ScheduleTypeOK /\ WebhookTypeOK /\ RelayTypeOK

=============================================================================
