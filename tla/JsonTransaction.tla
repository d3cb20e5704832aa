-------------------------- MODULE JsonTransaction --------------------------
(***************************************************************************)
(* JsonFile.transaction of opencode/src/util/json-file.ts on top of the    *)
(* lock it uses: every writer of a configuration or credential file edits  *)
(* a set of files under their locks, writes the changed ones one after the *)
(* other, and puts back what it wrote when a write fails.                  *)
(*                                                                         *)
(* Paths are the keys of the lock; they are numbers, in the order in which *)
(* the code sorts the canonical file names.  The content of a file is the  *)
(* set of transactions whose edit it shows.                                *)
(***************************************************************************)
EXTENDS RWLock, SequencesExt

CONSTANTS Transactions, MaxFaults

ASSUME TransactionAssumption ==
  /\ Keys \subseteq Nat
  /\ Requests = Transactions \X Keys
  /\ MaxFaults \in Nat

VARIABLES
  file,     \* what each file holds
  tx,       \* the transactions
  faults    \* reads, edits and writes that failed

txVars == <<file, tx, faults>>
transactionVars == <<lockVars, txVars>>

NewTransaction ==
  [pc |-> "new", paths |-> {}, changed |-> {}, originals |-> [p \in Keys |-> {}], read |-> {},
   written |-> <<>>, rollbackFailed |-> FALSE, outcome |-> "none"]

TransactionInit ==
  /\ LockInit
  /\ file = [p \in Keys |-> {}]
  /\ tx = [t \in Transactions |-> NewTransaction]
  /\ faults = 0

-----------------------------------------------------------------------------
SetTx(t, record) == tx' = [tx EXCEPT ![t] = record]

Fault == faults < MaxFaults /\ faults' = faults + 1

(* A call names distinct files; its edit will change some of them. *)
Begin(t) ==
  /\ tx[t].pc = "new"
  /\ \E paths \in SUBSET Keys \ {{}} : \E changed \in SUBSET paths :
       SetTx(t, [tx[t] EXCEPT !.pc = "locking", !.paths = paths, !.changed = changed])
  /\ UNCHANGED <<file, faults, lockVars>>

Asked(t) == {p \in tx[t].paths : request[<<t, p>>].state # "idle"}
Locked(t) == {p \in tx[t].paths : request[<<t, p>>].state = "holding"}

\* Mutant: the locks are asked for in the order of the arguments.
LocksInOrderUnsorted(t, p) == TRUE

LocksInOrder(t, p) == \A other \in tx[t].paths \ Asked(t) : p <= other

(* The locks are taken one after the other, each awaited before the next. *)
TakeLock(t) ==
  /\ tx[t].pc = "locking"
  /\ Asked(t) = Locked(t)
  /\ \E p \in tx[t].paths \ Asked(t) : LocksInOrder(t, p) /\ Write(<<t, p>>, p)
  /\ UNCHANGED txVars

\* Mutant: the originals are read as soon as one lock is held.
HoldsAllButOne(t) == Locked(t) # {}

HoldsAll(t) == Locked(t) = tx[t].paths

StartReading(t) ==
  /\ tx[t].pc = "locking"
  /\ HoldsAll(t)
  /\ SetTx(t, [tx[t] EXCEPT !.pc = "reading"])
  /\ UNCHANGED <<file, faults, lockVars>>

(* The files are read side by side; a file that cannot be read or parsed ends the transaction. *)
ReadOriginal(t) ==
  /\ tx[t].pc = "reading"
  /\ \E p \in tx[t].paths \ tx[t].read :
       SetTx(t, [tx[t] EXCEPT !.read = @ \cup {p}, !.originals[p] = file[p]])
  /\ UNCHANGED <<file, faults, lockVars>>

ReadOrEditFails(t) ==
  /\ tx[t].pc \in {"reading", "editing"}
  /\ Fault
  /\ SetTx(t, [tx[t] EXCEPT !.pc = "releasing", !.outcome = "aborted"])
  /\ UNCHANGED <<file, lockVars>>

StartEditing(t) ==
  /\ tx[t].pc = "reading"
  /\ tx[t].read = tx[t].paths
  /\ SetTx(t, [tx[t] EXCEPT !.pc = "editing"])
  /\ UNCHANGED <<file, faults, lockVars>>

Unwritten(t) == tx[t].changed \ ToSet(tx[t].written)

CompletedAfter(t, p) == IF Unwritten(t) = {p} THEN "releasing" ELSE "writing"

(* The edit works on copies; documents that it left alone are not written. *)
Edited(t) ==
  /\ tx[t].pc = "editing"
  /\ SetTx(t, IF tx[t].changed = {} THEN [tx[t] EXCEPT !.pc = "releasing", !.outcome = "committed"]
            ELSE [tx[t] EXCEPT !.pc = "writing"])
  /\ UNCHANGED <<file, faults, lockVars>>

(* The documents are written in the order of the arguments, which need not be that of the locks. *)
WriteDocument(t) ==
  /\ tx[t].pc = "writing"
  /\ \E p \in Unwritten(t) :
       /\ file' = [file EXCEPT ![p] = tx[t].originals[p] \cup {t}]
       /\ SetTx(t, [tx[t] EXCEPT !.written = Append(@, p), !.pc = CompletedAfter(t, p),
                               !.outcome = IF Unwritten(t) = {p} THEN "committed" ELSE @])
  /\ UNCHANGED <<faults, lockVars>>

(* The end of a rollback: the error of the commit, or an error that names the rollback too. *)
RolledBack(t, record) ==
  IF record.written # <<>> THEN record
  ELSE [record EXCEPT !.pc = "releasing", !.outcome = IF record.rollbackFailed THEN "torn" ELSE "aborted"]

WriteFails(t) ==
  /\ tx[t].pc = "writing"
  /\ Fault
  /\ SetTx(t, RolledBack(t, [tx[t] EXCEPT !.pc = "rollback"]))
  /\ UNCHANGED <<file, lockVars>>

AfterRestore(t) == RolledBack(t, [tx[t] EXCEPT !.written = Front(@)])

RestoreOriginal(t) ==
  /\ tx[t].pc = "rollback"
  /\ file' = [file EXCEPT ![Last(tx[t].written)] = tx[t].originals[Last(tx[t].written)]]
  /\ SetTx(t, AfterRestore(t))
  /\ UNCHANGED <<faults, lockVars>>

RestoreFails(t) ==
  /\ tx[t].pc = "rollback"
  /\ Fault
  /\ SetTx(t, RolledBack(t, [tx[t] EXCEPT !.written = Front(@), !.rollbackFailed = TRUE]))
  /\ UNCHANGED <<file, lockVars>>

(* The locks are given back in the reverse order.  The code disposes of them in one go; letting others run in between
   only adds interleavings. *)
ReleaseLock(t) ==
  /\ tx[t].pc = "releasing"
  /\ \E p \in Locked(t) :
       /\ \A other \in Locked(t) : other <= p
       /\ Dispose(<<t, p>>)
       /\ SetTx(t, IF Locked(t) = {p} THEN [tx[t] EXCEPT !.pc = "done"] ELSE tx[t])
  /\ UNCHANGED <<file, faults>>

TransactionStep(t) ==
  \/ TakeLock(t) \/ StartReading(t) \/ ReadOriginal(t) \/ StartEditing(t) \/ Edited(t)
  \/ WriteDocument(t) \/ RestoreOriginal(t) \/ ReleaseLock(t)

Failure(t) == ReadOrEditFails(t) \/ WriteFails(t) \/ RestoreFails(t)

TransactionNext == \E t \in Transactions : Begin(t) \/ TransactionStep(t) \/ Failure(t)

TransactionSpec == TransactionInit /\ [][TransactionNext]_transactionVars

(* What a transaction awaits, the file system and the locks, answers. *)
TransactionFairSpec == TransactionSpec /\ \A t \in Transactions : WF_transactionVars(TransactionStep(t))

-----------------------------------------------------------------------------
TransactionRecords ==
  [pc : {"new", "locking", "reading", "editing", "writing", "rollback", "releasing", "done"},
   paths : SUBSET Keys, changed : SUBSET Keys, originals : [Keys -> SUBSET Transactions], read : SUBSET Keys,
   written : Seq(Keys), rollbackFailed : BOOLEAN, outcome : {"none", "committed", "aborted", "torn"}]

TransactionTypeOK ==
  /\ LockTypeOK
  /\ file \in [Keys -> SUBSET Transactions]
  /\ tx \in [Transactions -> TransactionRecords]
  /\ faults \in 0..MaxFaults

(* Seen through its locks a transaction is atomic: until it ends, its files hold what it read. *)
Writing(t, p) == tx[t].pc \in {"writing", "rollback"} /\ p \in tx[t].changed

Atomic == INSTANCE AtomicFiles WITH
  Paths <- Keys,
  content <- [p \in Keys |-> IF \E t \in Transactions : Writing(t, p)
                             THEN tx[CHOOSE t \in Transactions : Writing(t, p)].originals[p] ELSE file[p]],
  outcome <- [t \in Transactions |-> tx[t].outcome]

(* The transactions implement their abstract specification. *)
IsAtomic == Atomic!AtomicSpec

(* Transactions do not lock each other out: one that begins ends. *)
TransactionsEnd == \A t \in Transactions : (tx[t].pc = "locking") ~> (tx[t].pc = "done")

=============================================================================
