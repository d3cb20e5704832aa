----------------------------- MODULE ReviewOutcome -----------------------------
(***************************************************************************)
(* What the review of one head of a merge request promises to the readers  *)
(* of the merge request, whatever number of attempts, calls and restarts   *)
(* it takes: at any time at most one attempt speaks, either to publish its *)
(* result or to notify its failure.  It may fall silent again only while   *)
(* nothing of it is to be seen; once a comment is posted every further     *)
(* comment is of the same attempt and of the same kind; and it is          *)
(* concluded only with all of it posted.                                   *)
(***************************************************************************)
EXTENDS PublicationPlan

CONSTANTS
  Trigger,   \* the heads under review
  Run,       \* the attempts
  Failure,   \* the comment that notifies a failure
  Silent     \* no attempt speaks

Kind == {"result", "failure"}
Voice == [run : Run, kind : Kind]

VARIABLES
  voice,     \* who speaks for a trigger, and how
  posted,    \* what is to be seen: the comments, with the attempt they are of
  concluded  \* triggers whose review is over

outcomeVars == <<voice, posted, concluded>>

CommentsOf(v) ==
  IF v = Silent THEN {}
  ELSE {<<v.run, c>> : c \in IF v.kind = "result" THEN Marker ELSE {Failure}}

AllPosted(v, seen) ==
  LET own == {c \in Marker \cup {Failure} : <<v.run, c>> \in seen}
  IN  IF v.kind = "result" THEN PublicationComplete(own \cap Marker) ELSE Failure \in own

OutcomeInit ==
  /\ voice = [t \in Trigger |-> Silent]
  /\ posted = [t \in Trigger |-> {}]
  /\ concluded = {}

Speak(t) ==
  /\ voice[t] = Silent
  /\ \E v \in Voice : voice' = [voice EXCEPT ![t] = v]
  /\ UNCHANGED <<posted, concluded>>

FallSilent(t) ==
  /\ voice[t] # Silent /\ posted[t] = {}
  /\ voice' = [voice EXCEPT ![t] = Silent]
  /\ UNCHANGED <<posted, concluded>>

Post(t) ==
  /\ t \notin concluded
  /\ \E c \in SUBSET CommentsOf(voice[t]) : posted' = [posted EXCEPT ![t] = @ \cup c]
  /\ UNCHANGED <<voice, concluded>>

Conclude(t) ==
  /\ voice[t] # Silent
  /\ AllPosted(voice[t], posted[t])
  /\ concluded' = concluded \cup {t}
  /\ UNCHANGED <<voice, posted>>

OutcomeNext == \E t \in Trigger : Speak(t) \/ FallSilent(t) \/ Post(t) \/ Conclude(t)

OutcomeSpec == OutcomeInit /\ [][OutcomeNext]_outcomeVars

=============================================================================
