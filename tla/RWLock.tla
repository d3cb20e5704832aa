------------------------------ MODULE RWLock ------------------------------
(***************************************************************************)
(* The reader-writer lock of opencode/src/util/lock.ts.  Every key of the  *)
(* module's map has an entry, a lock object, which is created by the first *)
(* request and deleted when nobody holds or awaits it.  The disposer that  *)
(* a request gets refers to the object, while process() looks the object   *)
(* up by its key: the two must never part.                                 *)
(*                                                                         *)
(* A request is one call of Lock.read or Lock.write and the disposal of    *)
(* what it returned.  Waiting readers are woken all at once, so that their *)
(* order does not matter and a set stands for their list.                  *)
(***************************************************************************)
EXTENDS Integers, Sequences, FiniteSets

CONSTANTS Keys, Requests, Objects, None

ASSUME LockAssumption ==
  /\ IsFiniteSet(Requests)
  /\ None \notin Objects \cup Keys

VARIABLES
  entry,    \* the map: the lock object of each key, or None
  lock,     \* the lock objects
  request   \* what each request holds or awaits

lockVars == <<entry, lock, request>>

Modes == {"read", "write"}

Unlocked == [readers |-> 0, writer |-> FALSE, waitingReaders |-> {}, waitingWriters |-> <<>>]

Idle == [state |-> "idle", mode |-> "none", key |-> None, object |-> None]

Entitled(m, k, o, granted) ==
  [state |-> IF granted THEN "holding" ELSE "waiting", mode |-> m, key |-> k, object |-> o]

LockInit ==
  /\ entry = [k \in Keys |-> None]
  /\ lock = [o \in Objects |-> Unlocked]
  /\ request = [q \in Requests |-> Idle]

-----------------------------------------------------------------------------
Referenced ==
  {entry[k] : k \in Keys} \cup {request[q].object : q \in {p \in Requests : request[p].state # "idle"}}

(* get(): the entry of a key, a new object when there is none. *)
Get(k) == IF entry[k] = None THEN Objects \ Referenced ELSE {entry[k]}

Fetched(k, o) == IF entry[k] = None THEN Unlocked ELSE lock[o]

AdmitsReader(l) == ~l.writer /\ l.waitingWriters = <<>>

\* Mutant: a writer looks only at the other writers.
AdmitsWriterBesideReaders(l) == ~l.writer

AdmitsWriter(l) == ~l.writer /\ l.readers = 0

Read(q, k) ==
  /\ request[q].state = "idle"
  /\ \E o \in Get(k) :
       LET l == Fetched(k, o) IN
       /\ entry' = [entry EXCEPT ![k] = o]
       /\ lock' = [lock EXCEPT ![o] = IF AdmitsReader(l) THEN [l EXCEPT !.readers = @ + 1]
                                      ELSE [l EXCEPT !.waitingReaders = @ \cup {q}]]
       /\ request' = [request EXCEPT ![q] = Entitled("read", k, o, AdmitsReader(l))]

Write(q, k) ==
  /\ request[q].state = "idle"
  /\ \E o \in Get(k) :
       LET l == Fetched(k, o) IN
       /\ entry' = [entry EXCEPT ![k] = o]
       /\ lock' = [lock EXCEPT ![o] = IF AdmitsWriter(l) THEN [l EXCEPT !.writer = TRUE]
                                      ELSE [l EXCEPT !.waitingWriters = Append(@, q)]]
       /\ request' = [request EXCEPT ![q] = Entitled("write", k, o, AdmitsWriter(l))]

-----------------------------------------------------------------------------
Held(l) == l.writer \/ l.readers > 0

\* Mutant: only readers are woken.
WokenReaders(l) == IF Held(l) THEN {} ELSE l.waitingReaders

(* process(): whom the release of a lock wakes. *)
Woken(l) ==
  IF Held(l) THEN {}
  ELSE IF l.waitingWriters # <<>> THEN {Head(l.waitingWriters)}
  ELSE l.waitingReaders

Processed(l) ==
  IF Held(l) THEN l
  ELSE IF l.waitingWriters # <<>> THEN [l EXCEPT !.writer = TRUE, !.waitingWriters = Tail(@)]
  ELSE [l EXCEPT !.readers = Cardinality(l.waitingReaders), !.waitingReaders = {}]

(* The entry of a key is deleted once process() leaves nobody there. *)
Disposable(l) == ~Held(l) /\ l.waitingWriters = <<>> /\ l.waitingReaders = {}

\* Mutant: every disposer is that of a reader.
ReleasedAsReader(m, l) == [l EXCEPT !.readers = @ - 1]

Released(m, l) == IF m = "read" THEN [l EXCEPT !.readers = @ - 1] ELSE [l EXCEPT !.writer = FALSE]

(* The disposer: it releases its object and processes the object that is now the entry of its key. *)
Dispose(q) ==
  /\ request[q].state = "holding"
  /\ LET k == request[q].key
         released == [lock EXCEPT ![request[q].object] = Released(request[q].mode, @)]
         o == entry[k]
     IN IF o = None
        THEN /\ lock' = released
             /\ entry' = entry
             /\ request' = [request EXCEPT ![q] = Idle]
        ELSE /\ lock' = [released EXCEPT ![o] = Processed(@)]
             /\ entry' = [entry EXCEPT ![k] = IF Disposable(released[o]) THEN None ELSE @]
             /\ request' = [p \in Requests |-> IF p = q THEN Idle
                                               ELSE IF p \in Woken(released[o]) THEN [request[p] EXCEPT !.state = "holding"]
                                               ELSE request[p]]

LockNext ==
  \/ \E q \in Requests, k \in Keys : Read(q, k) \/ Write(q, k)
  \/ \E q \in Requests : Dispose(q)

LockSpec == LockInit /\ [][LockNext]_lockVars

(* Whoever holds a lock gives it back. *)
FairLockSpec == LockSpec /\ \A q \in Requests : WF_lockVars(Dispose(q))

-----------------------------------------------------------------------------
Locks == [readers : Nat, writer : BOOLEAN, waitingReaders : SUBSET Requests, waitingWriters : Seq(Requests)]

LockTypeOK ==
  /\ entry \in [Keys -> Objects \cup {None}]
  /\ lock \in [Objects -> Locks]
  /\ request \in [Requests -> [state : {"idle", "waiting", "holding"}, mode : Modes \cup {"none"}, key : Keys \cup {None},
                               object : Objects \cup {None}]]

Holding(k, m) == {q \in Requests : request[q].state = "holding" /\ request[q].key = k /\ request[q].mode = m}

(* A writer of a key is alone: the file operations of storage.ts and json-file.ts rely on it.  It is at risk when an
   entry is deleted while a disposer still refers to its object, and when several requests are woken at once. *)
MutualExclusion ==
  \A k \in Keys : \A w \in Holding(k, "write") : Holding(k, "write") = {w} /\ Holding(k, "read") = {}

(* No wake-up is lost: whoever waits for a key waits for somebody who holds it and will process the queue. *)
WaitersAreWoken ==
  \A q \in Requests : request[q].state = "waiting" =>
    \E p \in Requests : request[p].state = "holding" /\ request[p].key = request[q].key

=============================================================================
