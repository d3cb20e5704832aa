---------------------------- MODULE ReviewServer ----------------------------
(***************************************************************************)
(* The state that the actors of the review subsystem share: the run store  *)
(* of one server process and its file, the attempts, publishers and        *)
(* notifiers that are under way in that process, and the GitLab they write *)
(* to.  An actor's step is what it does between two awaits of the source;  *)
(* between the steps of one actor any other may move.                      *)
(***************************************************************************)
EXTENDS ReviewRunStore

CONSTANTS
  LateWrites,      \* TRUE: a request the server gave up on may still arrive
  MaxCrashes,      \* bound: restarts of the server
  MaxDiskFaults    \* bound: saves of the store file that fail

ASSUME EnvironmentAssumption ==
  LateWrites \in BOOLEAN /\ MaxCrashes \in Nat /\ MaxDiskFaults \in Nat

VARIABLES
  store,        \* the run store in memory
  disk,         \* its file
  diskFaults,   \* saves that failed
  crashes,      \* restarts so far
  attempts,     \* executeGitLabReviewAttempt and the runtime session of a run
  publishers,   \* calls of publishGitLabReviewRunResult
  notifiers,    \* calls of reportGitLabReviewRunFailure
  remote,       \* the comments GitLab has taken, by run
  late          \* requests given up on that GitLab has not taken yet

storeVars == <<store, disk, diskFaults>>
vars == <<store, disk, diskFaults, crashes, attempts, publishers, notifiers, remote, late>>

(***************************************************************************)
(* GitLab                                                                  *)
(***************************************************************************)

FailureNote == [kind |-> "failure", finding |-> NoFinding]
BlockedNote == [kind |-> "blocked", finding |-> NoFinding]
Comment == Marker \cup {FailureNote, BlockedNote}

Request ==
  [run : RunId, op : Comment, payload : Payload \cup {NoPayload},
   by : PublicationClaim \cup NoteClaim \cup {NoClaim}]

Contents(op) == IF op \in Marker THEN Carried(op) ELSE {op}

NothingPosted == [count |-> [c \in Comment |-> 0], payloads |-> {}]

(* GitLab takes request q: the comment and all its markers become visible. *)
Taken(q) ==
  [remote EXCEPT ![q.run] =
    [count |-> [c \in Comment |->
                  IF c \in Contents(q.op) THEN @.count[c] + 1 ELSE @.count[c]],
     payloads |-> IF q.op \in Marker THEN @.payloads \cup {q.payload} ELSE @.payloads]]

(* The result markers a listing of notes and discussions finds.            *)
Visible(r) == {m \in Marker : remote[r].count[m] > 0}

(* The server stops waiting for q; if GitLab has not taken it, it never    *)
(* will, unless writes may be late.                                        *)
GivenUp(q, landed) == IF LateWrites /\ ~landed THEN late \cup {q} ELSE late

LateArrival(q) ==
  /\ q \in late
  /\ remote' = Taken(q)
  /\ late' = late \ {q}
  /\ UNCHANGED <<storeVars, crashes, attempts, publishers, notifiers>>

(***************************************************************************)
(* The store file                                                          *)
(***************************************************************************)

FaultsAllow(n) == diskFaults + n <= MaxDiskFaults /\ diskFaults' = diskFaults + n

(* The step ends with st saved, after n saves that failed and were undone. *)
Persist(st, n) ==
  /\ FaultsAllow(n)
  /\ store' = st
  /\ disk' = IF st = store THEN disk ELSE DiskOf(st)

(* The step ends with st in memory and nothing new on disk.                *)
InMemory(st, n) ==
  /\ FaultsAllow(n)
  /\ store' = st
  /\ disk' = disk

(***************************************************************************)
(* Actors                                                                  *)
(***************************************************************************)

Attempt ==
  [pc : {"none", "loading", "blockedSecret", "blockedHead", "blockedCheck",
         "blockedSent", "starting", "live", "publishing", "reporting", "done"},
   response : {"none", "waiting", "done"},   \* onControllerResponse
   landed   : BOOLEAN]

NoAttempt == [pc |-> "none", response |-> "none", landed |-> FALSE]

Publisher ==
  [pc : {"idle", "secret", "head", "list", "check", "sent", "record",
         "finish", "published", "failed"},
   caller  : {"runtime", "management"},
   run     : RunId \cup {0},
   payload : Payload \cup {NoPayload},
   session : BOOLEAN,        \* identity.sessionId at the start of the call
   allow   : BOOLEAN,        \* allowTerminalFailure
   resume  : BOOLEAN,
   done    : SUBSET Marker,  \* completedMarkers of the call
   pending : SUBSET Marker,  \* markers posted and not recorded yet
   op      : Marker,
   landed  : BOOLEAN]

IdlePublisher ==
  [pc |-> "idle", caller |-> "management", run |-> 0, payload |-> NoPayload,
   session |-> FALSE, allow |-> FALSE, resume |-> FALSE,
   done |-> {}, pending |-> {}, op |-> Summary, landed |-> FALSE]

Notifier ==
  [pc : {"idle", "secret", "head", "find", "check", "sent", "notified", "failed"},
   run     : RunId \cup {0},
   payload : Payload \cup {NoPayload},
   session : BOOLEAN,
   resume  : BOOLEAN,
   posted  : BOOLEAN,        \* postStartedAt at the start of the call
   landed  : BOOLEAN]

IdleNotifier ==
  [pc |-> "idle", run |-> 0, payload |-> NoPayload, session |-> FALSE,
   resume |-> FALSE, posted |-> FALSE, landed |-> FALSE]

TypeOK ==
  /\ store \in Store
  /\ disk \in Disk
  /\ diskFaults \in 0..MaxDiskFaults
  /\ crashes \in 0..MaxCrashes
  /\ attempts \in [RunId -> Attempt]
  /\ publishers \in [PublicationClaim -> Publisher]
  /\ notifiers \in [NoteClaim -> Notifier]
  /\ remote \in [RunId -> [count : [Comment -> Nat], payloads : SUBSET (Payload \cup {NoPayload})]]
  /\ late \subseteq Request

Init ==
  /\ store = EmptyStore
  /\ disk = DiskOf(EmptyStore)
  /\ diskFaults = 0
  /\ crashes = 0
  /\ attempts = [r \in RunId |-> NoAttempt]
  /\ publishers = [p \in PublicationClaim |-> IdlePublisher]
  /\ notifiers = [n \in NoteClaim |-> IdleNotifier]
  /\ remote = [r \in RunId |-> NothingPosted]
  /\ late = {}

WithStatus(run, status, reason) == [run EXCEPT !.status = status, !.reason = reason]

(* reviewRunIdentityError, with the statuses it allows by default.         *)
IdentityCurrent(st, r, session) ==
  /\ st.runs[r].status \in ActiveStatus
  /\ st.runs[r].session = session
  /\ IsLatest(st, r)
  /\ st.runs[r].pub # "published"

(* activeLeaseExpiresAt passes for the run r, in memory and on disk.       *)
LeaseExpires(r) ==
  /\ store.runs[r].status \in ActiveStatus
  /\ ~store.runs[r].leaseOver
  /\ store' = [store EXCEPT !.runs[r].leaseOver = TRUE]
  /\ disk' = IF disk.runs[r].status \in ActiveStatus
             THEN [disk EXCEPT !.runs[r].leaseOver = TRUE] ELSE disk
  /\ UNCHANGED <<diskFaults, crashes, attempts, publishers, notifiers, remote, late>>

=============================================================================
