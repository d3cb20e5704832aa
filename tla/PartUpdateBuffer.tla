-------------------------- MODULE PartUpdateBuffer --------------------------
(***************************************************************************)
(* The buffer between a model's stream and its consumers, in               *)
(* opencode/src/session/part-update-buffer.ts: text pushed to a part is    *)
(* emitted as deltas after a short window and the part is persisted after  *)
(* a longer one, by tasks that run one after the other and await the       *)
(* consumers.                                                              *)
(*                                                                         *)
(* The changes of a part are numbered: its text is the number of the last  *)
(* one, a delta is the sequence of the pushes it carries.                  *)
(***************************************************************************)
EXTENDS Integers, Sequences, FiniteSets, SequencesExt

CONSTANTS Parts, MaxChanges, MaxCheckpoints, MaxFailures

ASSUME BufferAssumption == MaxChanges \in Nat /\ MaxCheckpoints \in Nat /\ MaxFailures \in Nat

VARIABLES
  text,       \* changes of each part so far
  entries,    \* the entries of the map
  queue,      \* the tasks that wait for the serial promise
  running,    \* the task that runs
  emitted,    \* what the consumers of deltas have got
  persisted,  \* what the storage holds
  silent,     \* changes without a delta, or whose delta went down with a failure
  spent      \* checkpoints and flushes, and failures, so far

bufferVars == <<text, entries, queue, running, emitted, persisted, silent, spent>>

Absent == [present |-> FALSE, text |-> 0, delta |-> <<>>, version |-> 0, deltaTimer |-> FALSE, checkpointTimer |-> FALSE]

BufferInit ==
  /\ text = [p \in Parts |-> 0]
  /\ entries = [p \in Parts |-> Absent]
  /\ queue = <<>>
  /\ running = <<>>
  /\ emitted = [p \in Parts |-> <<>>]
  /\ persisted = [p \in Parts |-> 0]
  /\ silent = [p \in Parts |-> {}]
  /\ spent = [checkpoints |-> 0, faults |-> 0]

-----------------------------------------------------------------------------
\* Mutant: an entry that is updated keeps its version.
UpdatedSameVersion(e, length) ==
  IF e.present THEN [e EXCEPT !.text = length] ELSE [Absent EXCEPT !.present = TRUE, !.text = length, !.version = 1]

(* updateEntry() *)
Updated(e, length) ==
  IF e.present THEN [e EXCEPT !.text = length, !.version = @ + 1]
  ELSE [Absent EXCEPT !.present = TRUE, !.text = length, !.version = 1]

(* The delta goes to the entry, and both windows open. *)
WithDelta(e, n) == [e EXCEPT !.delta = Append(@, n), !.deltaTimer = TRUE, !.checkpointTimer = TRUE]

Push(p) ==
  /\ text[p] < MaxChanges
  /\ text' = [text EXCEPT ![p] = @ + 1]
  /\ entries' = [entries EXCEPT ![p] = WithDelta(Updated(@, text[p] + 1), text[p] + 1)]
  /\ UNCHANGED <<queue, running, emitted, persisted, silent, spent>>

Enqueue(name, p) == queue' = Append(queue, [name |-> name, part |-> p])

(* The end of a part: its final text, which may have been trimmed, is a checkpoint, which brings the entry back if it is
   gone. *)
Checkpoint(p) ==
  /\ spent.checkpoints < MaxCheckpoints
  /\ spent' = [spent EXCEPT !.checkpoints = @ + 1]
  /\ \/ UNCHANGED <<text, silent>>
     \/ /\ text[p] < MaxChanges
        /\ text' = [text EXCEPT ![p] = @ + 1]
        /\ silent' = [silent EXCEPT ![p] = @ \cup {text[p] + 1}]
  /\ entries' = [entries EXCEPT ![p] = Updated(@, text'[p])]
  /\ Enqueue("flush", p)
  /\ UNCHANGED <<running, emitted, persisted>>

(* flush(); flushAll() does the same for every entry in a row. *)
Flush(p) ==
  /\ spent.checkpoints < MaxCheckpoints
  /\ spent' = [spent EXCEPT !.checkpoints = @ + 1]
  /\ Enqueue("flush", p)
  /\ UNCHANGED <<text, entries, running, emitted, persisted, silent>>

DeltaWindowEnds(p) ==
  /\ entries[p].deltaTimer
  /\ entries' = [entries EXCEPT ![p].deltaTimer = FALSE]
  /\ Enqueue("emit", p)
  /\ UNCHANGED <<text, running, emitted, persisted, silent, spent>>

\* Mutant: the checkpoint window only emits.
CheckpointTaskEmits == "emit"

CheckpointTask == "flush"

CheckpointWindowEnds(p) ==
  /\ entries[p].checkpointTimer
  /\ entries' = [entries EXCEPT ![p].checkpointTimer = FALSE]
  /\ Enqueue(CheckpointTask, p)
  /\ UNCHANGED <<text, running, emitted, persisted, silent, spent>>

-----------------------------------------------------------------------------
\* Mutant: a task does not wait for the end of the one before it.
SerialIgnored == Len(running) < 2

Serial == running = <<>>

\* Mutant: the delta is taken, but stays in the entry.
WithoutDeltaKept(e) == e

WithoutDelta(e) == [e EXCEPT !.delta = <<>>]

Flushed(e) == [WithoutDelta(e) EXCEPT !.deltaTimer = FALSE, !.checkpointTimer = FALSE]

(* The next task starts, and takes what it works on before its first await.  It finds nothing to do when its entry is
   gone. *)
StartTask ==
  /\ Serial /\ queue # <<>>
  /\ LET task == Head(queue)
         e == entries[task.part]
     IN IF task.name = "void" \/ ~e.present THEN UNCHANGED <<running, entries>>
        ELSE /\ running' = Append(running, [name |-> task.name, part |-> task.part, delta |-> e.delta, text |-> e.text,
                                           version |-> e.version])
             /\ entries' = [entries EXCEPT ![task.part] = IF task.name = "flush" THEN Flushed(e) ELSE WithoutDelta(e)]
  /\ queue' = Tail(queue)
  /\ UNCHANGED <<text, emitted, persisted, silent, spent>>

(* The consumer has got the delta. *)
DeltaEmitted ==
  \E i \in DOMAIN running :
    LET task == running[i] IN
    /\ task.name \in {"emit", "flush"}
    /\ emitted' = [emitted EXCEPT ![task.part] = @ \o task.delta]
    /\ running' = IF task.name = "emit" THEN RemoveAt(running, i)
                  ELSE [running EXCEPT ![i].name = "persist", ![i].delta = <<>>]
    /\ UNCHANGED <<text, entries, queue, persisted, silent, spent>>

(* The entry goes if nothing came in meanwhile; a task of that entry that still waits has nothing to emit. *)
DropEntry(p) ==
  /\ entries' = [entries EXCEPT ![p] = Absent]
  /\ queue' = [i \in DOMAIN queue |-> IF queue[i] = [name |-> "emit", part |-> p] THEN [queue[i] EXCEPT !.name = "void"] ELSE queue[i]]

(* The storage holds the part. *)
PartPersisted ==
  \E i \in DOMAIN running :
    LET task == running[i]
        e == entries[task.part]
    IN
    /\ task.name = "persist"
    /\ persisted' = [persisted EXCEPT ![task.part] = task.text]
    /\ IF e.version = task.version /\ e.delta = <<>> THEN DropEntry(task.part) ELSE UNCHANGED <<entries, queue>>
    /\ running' = RemoveAt(running, i)
    /\ UNCHANGED <<text, emitted, silent, spent>>

(* A consumer fails: the error is reported, the delta is gone, and the entry stays until it is flushed again. *)
TaskFails ==
  /\ spent.faults < MaxFailures
  /\ spent' = [spent EXCEPT !.faults = @ + 1]
  /\ \E i \in DOMAIN running :
       /\ silent' = [silent EXCEPT ![running[i].part] = @ \cup ToSet(running[i].delta)]
       /\ running' = RemoveAt(running, i)
  /\ UNCHANGED <<text, entries, queue, emitted, persisted>>

BufferNext ==
  \/ \E p \in Parts : Push(p) \/ Checkpoint(p) \/ Flush(p) \/ DeltaWindowEnds(p) \/ CheckpointWindowEnds(p)
  \/ StartTask \/ DeltaEmitted \/ PartPersisted \/ TaskFails

BufferSpec == BufferInit /\ [][BufferNext]_bufferVars

(* Timers fire and the consumers answer. *)
BufferFairSpec ==
  /\ BufferSpec
  /\ WF_bufferVars(StartTask) /\ WF_bufferVars(DeltaEmitted \/ PartPersisted)
  /\ \A p \in Parts : WF_bufferVars(DeltaWindowEnds(p)) /\ WF_bufferVars(CheckpointWindowEnds(p))

-----------------------------------------------------------------------------
TaskNames == {"emit", "flush"}

BufferTypeOK ==
  /\ text \in [Parts -> 0..MaxChanges]
  /\ \A p \in Parts : entries[p] \in
       [present : BOOLEAN, text : 0..MaxChanges, delta : Seq(1..MaxChanges), version : 0..(MaxChanges + MaxCheckpoints),
        deltaTimer : BOOLEAN, checkpointTimer : BOOLEAN]
  /\ queue \in Seq([name : TaskNames \cup {"void"}, part : Parts])
  /\ running \in Seq([name : TaskNames \cup {"persist"}, part : Parts, delta : Seq(1..MaxChanges), text : 0..MaxChanges,
                      version : 0..(MaxChanges + MaxCheckpoints)])
  /\ Len(running) <= 1
  /\ emitted \in [Parts -> Seq(1..MaxChanges)]
  /\ persisted \in [Parts -> 0..MaxChanges]
  /\ silent \in [Parts -> SUBSET (1..MaxChanges)]
  /\ spent \in [checkpoints : 0..MaxCheckpoints, faults : 0..MaxFailures]

InFlight(p) == IF running # <<>> /\ running[1].part = p THEN running[1].delta ELSE <<>>

Pushed(p) == emitted[p] \o InFlight(p) \o entries[p].delta

Increasing(s) == \A i, j \in DOMAIN s : i < j => s[i] < s[j]

(* Every push is emitted exactly once and in its order, whatever is pushed while a task awaits its consumer: what was
   emitted, what is on its way and what waits make up the pushes, but for the deltas that went down with a failure. *)
EmittedInOrder ==
  \A p \in Parts : Increasing(Pushed(p)) /\ ToSet(Pushed(p)) = (1..text[p]) \ silent[p]

(* An entry is never dropped with text that came in while it was being written: a part that is not in the buffer is
   persisted as it is. *)
DroppedIsPersisted == \A p \in Parts : ~entries[p].present => persisted[p] = text[p]

(* The buffer of a stream drops no text and doubles none. *)
NothingIsLost == EmittedInOrder /\ DroppedIsPersisted

(* No text stays in the buffer: with consumers that answer, every change is emitted, if it was pushed, and persisted. *)
EverythingArrives ==
  \A p \in Parts : \A n \in 1..MaxChanges :
    (text[p] >= n) ~> (persisted[p] >= n /\ n \in silent[p] \cup ToSet(emitted[p]))

=============================================================================
