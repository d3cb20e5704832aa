----------------------- MODULE JsonTransactionProofs -----------------------
(***************************************************************************)
(* JsonTransaction implements AtomicFiles, for any number of transactions, *)
(* files and failures.  Between the first read and the last write of a     *)
(* transaction its files are its own (HoldsPaths, with the exclusion that  *)
(* RWLockProofs proves of the lock), so that what it read is still there   *)
(* when it writes (Prepared), and the list of what it wrote says what a    *)
(* rollback has to put back (Journal).                                     *)
(***************************************************************************)
EXTENDS JsonTransaction, RWLockProofs

(* A transaction asks only for its own files, and only to write. *)
LocksFit ==
  \A t \in Transactions, p \in Keys : request[<<t, p>>].state # "idle" =>
    request[<<t, p>>].key = p /\ request[<<t, p>>].mode = "write" /\ p \in tx[t].paths

Active == {"reading", "editing", "writing", "rollback"}

HoldsPaths(t) == tx[t].pc \in Active => \A p \in tx[t].paths : request[<<t, p>>].state = "holding"

(* Up to the first write: what it has read is what the files hold. *)
Prepared(t) ==
  /\ tx[t].changed \subseteq tx[t].paths /\ tx[t].read \subseteq tx[t].paths
  /\ tx[t].pc = "new" => tx[t].paths = {}
  /\ tx[t].pc \in {"new", "locking"} => tx[t].read = {}
  /\ tx[t].pc \in {"new", "locking", "reading", "editing"} => tx[t].written = <<>> /\ ~tx[t].rollbackFailed
  /\ tx[t].pc \in {"editing", "writing", "rollback"} => tx[t].read = tx[t].paths
  /\ tx[t].pc \in {"reading", "editing"} => \A p \in tx[t].read : file[p] = tx[t].originals[p]
  /\ tx[t].pc \notin {"releasing", "done"} => tx[t].outcome = "none"

Unrestored(t) == {p \in tx[t].changed \ ToSet(tx[t].written) : file[p] = tx[t].originals[p] \cup {t}}

(* From the first write on: the files written so far hold the edit, the others the original, unless it could not be
   put back. *)
Journal(t) ==
  tx[t].pc \in {"writing", "rollback"} =>
    /\ ToSet(tx[t].written) \subseteq tx[t].changed
    /\ \A i, j \in 1..Len(tx[t].written) : tx[t].written[i] = tx[t].written[j] => i = j
    /\ \A p \in ToSet(tx[t].written) : file[p] = tx[t].originals[p] \cup {t}
    /\ \A p \in tx[t].changed \ ToSet(tx[t].written) :
         file[p] = tx[t].originals[p] \/ (tx[t].rollbackFailed /\ file[p] = tx[t].originals[p] \cup {t})
    /\ tx[t].pc = "writing" => ~tx[t].rollbackFailed /\ Unwritten(t) # {}
    /\ tx[t].pc = "rollback" => tx[t].written # <<>>
    /\ tx[t].rollbackFailed => Unrestored(t) # {}

Sound(t) == HoldsPaths(t) /\ Prepared(t) /\ Journal(t)

TInv == IInv /\ TransactionTypeOK /\ LocksFit /\ \A t \in Transactions : Sound(t)

-----------------------------------------------------------------------------
LEMMA AppendToJournal ==
  ASSUME NEW S, NEW s \in Seq(S), NEW p \in S, p \notin ToSet(s),
         \A i, j \in 1..Len(s) : s[i] = s[j] => i = j
  PROVE  /\ Append(s, p) \in Seq(S)
         /\ ToSet(Append(s, p)) = ToSet(s) \cup {p}
         /\ \A i, j \in 1..Len(Append(s, p)) : Append(s, p)[i] = Append(s, p)[j] => i = j
<1>1. /\ Append(s, p) \in Seq(S) /\ Len(s) \in Nat /\ Len(Append(s, p)) = Len(s) + 1
      /\ DOMAIN s = 1..Len(s) /\ DOMAIN Append(s, p) = 1..(Len(s) + 1)
      /\ \A i \in 1..Len(s) : Append(s, p)[i] = s[i]
      /\ Append(s, p)[Len(s) + 1] = p
  OBVIOUS
<1>2. \A i \in 1..(Len(s) + 1) : i \in 1..Len(s) \/ i = Len(s) + 1
  BY <1>1
<1>3. ToSet(Append(s, p)) = ToSet(s) \cup {p}
  <2>1. ToSet(s) \cup {p} \subseteq ToSet(Append(s, p))
    <3>1. \A i \in 1..Len(s) : i \in 1..(Len(s) + 1)
      BY <1>1
    <3>2. Len(s) + 1 \in 1..(Len(s) + 1)
      BY <1>1
    <3> QED BY <1>1, <3>1, <3>2 DEF ToSet
  <2>2. ToSet(Append(s, p)) \subseteq ToSet(s) \cup {p}
    BY <1>1, <1>2 DEF ToSet
  <2> QED BY <2>1, <2>2
<1>4. \A i \in 1..Len(s) : s[i] \in ToSet(s)
  BY <1>1 DEF ToSet
<1>5. ASSUME NEW i \in 1..(Len(s) + 1), NEW j \in 1..(Len(s) + 1), Append(s, p)[i] = Append(s, p)[j] PROVE i = j
  BY <1>1, <1>2, <1>4, <1>5
<1> QED BY <1>1, <1>3, <1>5

LEMMA FrontOfJournal ==
  ASSUME NEW S, NEW s \in Seq(S), s # <<>>,
         \A i, j \in 1..Len(s) : s[i] = s[j] => i = j
  PROVE  /\ Front(s) \in Seq(S)
         /\ Last(s) \in ToSet(s) /\ Last(s) \in S
         /\ ToSet(Front(s)) = ToSet(s) \ {Last(s)}
         /\ \A i, j \in 1..Len(Front(s)) : Front(s)[i] = Front(s)[j] => i = j
<1> DEFINE n == Len(s) - 1
<1>1. /\ Len(s) \in Nat /\ Len(s) > 0 /\ DOMAIN s = 1..Len(s)
      /\ Len(s) \in 1..Len(s) /\ n \in Nat /\ Len(s) = n + 1
  OBVIOUS
<1>2. /\ Front(s) \in Seq(S) /\ Len(Front(s)) = n /\ DOMAIN Front(s) = 1..n
      /\ \A i \in 1..n : Front(s)[i] = s[i]
  BY <1>1 DEF Front
<1> HIDE DEF n
<1>3. \A i \in 1..Len(s) : i \in 1..n \/ i = Len(s)
  BY <1>1
<1>4. \A i \in 1..n : i \in 1..Len(s) /\ i # Len(s)
  BY <1>1
<1>5. Last(s) \in ToSet(s) /\ Last(s) \in S /\ Last(s) = s[Len(s)]
  BY <1>1 DEF Last, ToSet
<1>6. ToSet(Front(s)) \subseteq ToSet(s) \ {Last(s)}
  BY <1>1, <1>2, <1>4, <1>5 DEF ToSet
<1>7. ToSet(s) \ {Last(s)} \subseteq ToSet(Front(s))
  BY <1>1, <1>2, <1>3, <1>5 DEF ToSet
<1> QED BY <1>2, <1>4, <1>5, <1>6, <1>7

LEMMA EmptyJournal ==
  /\ ToSet(<<>>) = {}
  /\ \A S : \A s \in Seq(S) : ToSet(s) \subseteq S /\ (ToSet(s) = {} => s = <<>>)
<1>1. ToSet(<<>>) = {}
  BY DEF ToSet
<1>2. ASSUME NEW S, NEW s \in Seq(S) PROVE ToSet(s) \subseteq S /\ (ToSet(s) = {} => s = <<>>)
  <2>1. s # <<>> => Len(s) \in DOMAIN s
    OBVIOUS
  <2> QED BY <2>1 DEF ToSet
<1> QED BY <1>1, <1>2

-----------------------------------------------------------------------------
(* Two transactions that are past their locks share no file. *)
LEMMA FilesAreOwned ==
  ASSUME TInv, NEW t \in Transactions, NEW u \in Transactions, NEW p \in tx[t].paths,
         tx[t].pc \in Active, tx[u].pc \in Active, p \in tx[u].paths
  PROVE  t = u
<1>1. p \in Keys /\ <<t, p>> \in Requests /\ <<u, p>> \in Requests
  BY TransactionAssumption DEF TInv, TransactionTypeOK, TransactionRecords
<1>2. request[<<t, p>>].state = "holding" /\ request[<<u, p>>].state = "holding"
  BY DEF TInv, Sound, HoldsPaths
<1>3. /\ request[<<t, p>>].key = p /\ request[<<t, p>>].mode = "write"
      /\ request[<<u, p>>].key = p /\ request[<<u, p>>].mode = "write"
  BY <1>1, <1>2 DEF TInv, LocksFit
<1>4. <<t, p>> \in Holding(p, "write") /\ <<u, p>> \in Holding(p, "write")
  BY <1>1, <1>2, <1>3 DEF Holding
<1>5. MutualExclusion
  BY InvariantExcludes DEF TInv
<1>6. <<t, p>> = <<u, p>>
  BY <1>1, <1>4, <1>5 DEF MutualExclusion
<1> QED BY <1>6

(* What a step of one transaction leaves of the others. *)
LEMMA OthersAreLeft ==
  ASSUME TInv, NEW t \in Transactions, NEW u \in Transactions, t # u, tx'[u] = tx[u],
         \A p \in Keys : request'[<<u, p>>].state = request[<<u, p>>].state,
         \A p \in Keys : file'[p] = file[p] \/ (tx[t].pc \in Active /\ p \in tx[t].paths)
  PROVE  Sound(u)'
<1>1. Sound(u) /\ tx[u].paths \subseteq Keys
  BY DEF TInv, TransactionTypeOK, TransactionRecords
<1>2. HoldsPaths(u)'
  BY <1>1 DEF Sound, HoldsPaths
<1>3. tx[u].pc \in Active => \A p \in tx[u].paths : file'[p] = file[p]
  BY <1>1, FilesAreOwned
<1>4. tx[u].read \subseteq tx[u].paths /\ tx[u].changed \subseteq tx[u].paths
  BY <1>1 DEF Sound, Prepared
<1>5. Prepared(u)'
  BY <1>1, <1>3, <1>4 DEF Sound, Prepared, Active
<1>6. ASSUME tx[u].pc \in {"writing", "rollback"} PROVE Journal(u)'
  <2>1. Journal(u) /\ ToSet(tx[u].written) \subseteq tx[u].changed
    BY <1>1, <1>6 DEF Sound, Journal
  <2>2. \A p \in tx[u].changed : file'[p] = file[p]
    BY <1>3, <1>4, <1>6 DEF Active
  <2>3. Unrestored(u)' = Unrestored(u) /\ Unwritten(u)' = Unwritten(u)
    BY <2>2 DEF Unrestored, Unwritten
  <2> QED BY <2>1, <2>2, <2>3 DEF Journal
<1>7. ASSUME tx[u].pc \notin {"writing", "rollback"} PROVE Journal(u)'
  BY <1>7 DEF Journal
<1>8. Journal(u)'
  BY <1>6, <1>7
<1> QED BY <1>2, <1>5, <1>8 DEF Sound

(* A step of a transaction that touches no lock keeps the invariant if it keeps its own part of it. *)
LEMMA PrivateStep ==
  ASSUME TInv, NEW t \in Transactions, NEW r \in TransactionRecords, tx' = [tx EXCEPT ![t] = r], UNCHANGED lockVars,
         r.paths = tx[t].paths \/ tx[t].pc = "new",
         faults' \in 0..MaxFaults, file' \in [Keys -> SUBSET Transactions],
         \A p \in Keys : file'[p] = file[p] \/ (tx[t].pc \in Active /\ p \in tx[t].paths),
         Sound(t)'
  PROVE  TInv'
<1>1. tx \in [Transactions -> TransactionRecords] /\ request' = request
  BY DEF TInv, TransactionTypeOK, lockVars
<1>2. tx'[t] = r /\ \A u \in Transactions : u # t => tx'[u] = tx[u]
  BY <1>1
<1>3. IInv'
  BY StutterKeepsInvariant DEF TInv
<1>4. TransactionTypeOK'
  BY <1>1, <1>3 DEF IInv, TransactionTypeOK
<1>5. LocksFit'
  <2>1. ASSUME NEW u \in Transactions, NEW p \in Keys, request'[<<u, p>>].state # "idle"
        PROVE  request'[<<u, p>>].key = p /\ request'[<<u, p>>].mode = "write" /\ p \in tx'[u].paths
    <3>1. request[<<u, p>>].key = p /\ request[<<u, p>>].mode = "write" /\ p \in tx[u].paths
      BY <1>1, <2>1 DEF TInv, LocksFit
    <3>2. u = t => tx[t].pc # "new"
      BY <3>1 DEF TInv, Sound, Prepared
    <3> QED BY <1>1, <1>2, <3>1, <3>2
  <2> QED BY <2>1 DEF LocksFit
<1>6. ASSUME NEW u \in Transactions, u # t PROVE Sound(u)'
  BY <1>1, <1>2, <1>6, OthersAreLeft
<1> QED BY <1>3, <1>4, <1>5, <1>6 DEF TInv

LEMMA OwnFacts ==
  ASSUME TInv, NEW t \in Transactions
  PROVE  /\ tx \in [Transactions -> TransactionRecords] /\ tx[t] \in TransactionRecords
         /\ file \in [Keys -> SUBSET Transactions] /\ faults \in 0..MaxFaults
         /\ HoldsPaths(t) /\ Prepared(t) /\ Journal(t)
         /\ tx[t].paths \subseteq Keys /\ tx[t].changed \subseteq tx[t].paths
         /\ tx[t].written \in Seq(Keys) /\ tx[t].originals \in [Keys -> SUBSET Transactions]
BY DEF TInv, TransactionTypeOK, TransactionRecords, Sound, Prepared

LEMMA FaultIsCounted ==
  ASSUME faults \in 0..MaxFaults, Fault
  PROVE  faults' \in 0..MaxFaults
BY TransactionAssumption DEF Fault

LEMMA BeginKeeps ==
  ASSUME TInv, NEW t \in Transactions, Begin(t)
  PROVE  TInv'
<1>1. PICK paths \in SUBSET Keys \ {{}} : \E changed \in SUBSET paths :
        tx' = [tx EXCEPT ![t] = [tx[t] EXCEPT !.pc = "locking", !.paths = paths, !.changed = changed]]
  BY DEF Begin, SetTx
<1>2. PICK changed \in SUBSET paths :
        tx' = [tx EXCEPT ![t] = [tx[t] EXCEPT !.pc = "locking", !.paths = paths, !.changed = changed]]
  BY <1>1
<1> DEFINE r == [tx[t] EXCEPT !.pc = "locking", !.paths = paths, !.changed = changed]
<1>3. UNCHANGED lockVars /\ file' = file /\ faults' = faults /\ tx[t].pc = "new"
  BY DEF Begin
<1>4. r \in TransactionRecords /\ tx'[t] = r
  BY <1>2, OwnFacts DEF TransactionRecords
<1>5. /\ r.pc = "locking" /\ r.paths = paths /\ r.changed = changed /\ r.read = tx[t].read
      /\ r.written = tx[t].written /\ r.rollbackFailed = tx[t].rollbackFailed /\ r.outcome = tx[t].outcome
  BY OwnFacts DEF TransactionRecords
<1>6. Prepared(t)'
  BY <1>3, <1>4, <1>5, OwnFacts DEF Prepared
<1>7. HoldsPaths(t)' /\ Journal(t)'
  BY <1>4, <1>5 DEF HoldsPaths, Journal, Active
<1> HIDE DEF r
<1> QED BY <1>2, <1>3, <1>4, <1>6, <1>7, OwnFacts, PrivateStep DEF Sound

LEMMA StartReadingKeeps ==
  ASSUME TInv, NEW t \in Transactions, StartReading(t)
  PROVE  TInv'
<1> DEFINE r == [tx[t] EXCEPT !.pc = "reading"]
<1>1. UNCHANGED lockVars /\ file' = file /\ faults' = faults /\ tx[t].pc = "locking" /\ HoldsAll(t)
      /\ tx' = [tx EXCEPT ![t] = r] /\ request' = request
  BY DEF StartReading, SetTx, lockVars
<1>2. r \in TransactionRecords /\ tx'[t] = r
  BY <1>1, OwnFacts DEF TransactionRecords
<1>3. /\ r.pc = "reading" /\ r.paths = tx[t].paths /\ r.changed = tx[t].changed /\ r.read = tx[t].read
      /\ r.written = tx[t].written /\ r.rollbackFailed = tx[t].rollbackFailed /\ r.outcome = tx[t].outcome
      /\ r.originals = tx[t].originals
  BY OwnFacts DEF TransactionRecords
<1>4. Prepared(t)'
  BY <1>1, <1>2, <1>3, OwnFacts DEF Prepared
<1>5. HoldsPaths(t)'
  BY <1>1, <1>2, <1>3 DEF HoldsPaths, HoldsAll, Locked
<1>6. Journal(t)'
  BY <1>2, <1>3 DEF Journal
<1> HIDE DEF r
<1> QED BY <1>1, <1>2, <1>3, <1>4, <1>5, <1>6, OwnFacts, PrivateStep DEF Sound

LEMMA ReadOriginalKeeps ==
  ASSUME TInv, NEW t \in Transactions, ReadOriginal(t)
  PROVE  TInv'
<1>1. PICK p \in tx[t].paths \ tx[t].read :
        tx' = [tx EXCEPT ![t] = [tx[t] EXCEPT !.read = @ \cup {p}, !.originals[p] = file[p]]]
  BY DEF ReadOriginal, SetTx
<1> DEFINE r == [tx[t] EXCEPT !.read = @ \cup {p}, !.originals[p] = file[p]]
<1>2. UNCHANGED lockVars /\ file' = file /\ faults' = faults /\ tx[t].pc = "reading" /\ request' = request
  BY DEF ReadOriginal, lockVars
<1>3. p \in Keys /\ file[p] \in SUBSET Transactions
  BY OwnFacts
<1>4. /\ r.pc = "reading" /\ r.paths = tx[t].paths /\ r.changed = tx[t].changed /\ r.read = tx[t].read \cup {p}
      /\ r.written = tx[t].written /\ r.rollbackFailed = tx[t].rollbackFailed /\ r.outcome = tx[t].outcome
      /\ r.originals = [tx[t].originals EXCEPT ![p] = file[p]]
  BY <1>2, OwnFacts DEF TransactionRecords
<1>5. r \in TransactionRecords /\ tx'[t] = r
  BY <1>1, <1>3, OwnFacts DEF TransactionRecords
<1>6. \A q \in Keys : r.originals[q] = IF q = p THEN file[p] ELSE tx[t].originals[q]
  BY <1>4, OwnFacts
<1>7. Prepared(t)'
  BY <1>2, <1>3, <1>4, <1>5, <1>6, OwnFacts DEF Prepared
<1>8. HoldsPaths(t)' /\ Journal(t)'
  BY <1>2, <1>4, <1>5, OwnFacts DEF HoldsPaths, Journal
<1> HIDE DEF r
<1> QED BY <1>1, <1>2, <1>4, <1>5, <1>7, <1>8, OwnFacts, PrivateStep DEF Sound

LEMMA StartEditingKeeps ==
  ASSUME TInv, NEW t \in Transactions, StartEditing(t)
  PROVE  TInv'
<1> DEFINE r == [tx[t] EXCEPT !.pc = "editing"]
<1>1. UNCHANGED lockVars /\ file' = file /\ faults' = faults /\ tx[t].pc = "reading" /\ tx[t].read = tx[t].paths
      /\ tx' = [tx EXCEPT ![t] = r] /\ request' = request
  BY DEF StartEditing, SetTx, lockVars
<1>2. r \in TransactionRecords /\ tx'[t] = r
  BY <1>1, OwnFacts DEF TransactionRecords
<1>3. /\ r.pc = "editing" /\ r.paths = tx[t].paths /\ r.changed = tx[t].changed /\ r.read = tx[t].read
      /\ r.written = tx[t].written /\ r.rollbackFailed = tx[t].rollbackFailed /\ r.outcome = tx[t].outcome
      /\ r.originals = tx[t].originals
  BY OwnFacts DEF TransactionRecords
<1>4. Prepared(t)' /\ HoldsPaths(t)' /\ Journal(t)'
  BY <1>1, <1>2, <1>3, OwnFacts DEF Prepared, HoldsPaths, Journal, Active
<1> HIDE DEF r
<1> QED BY <1>1, <1>2, <1>3, <1>4, OwnFacts, PrivateStep DEF Sound

LEMMA EditedKeeps ==
  ASSUME TInv, NEW t \in Transactions, Edited(t)
  PROVE  TInv'
<1> DEFINE r == IF tx[t].changed = {} THEN [tx[t] EXCEPT !.pc = "releasing", !.outcome = "committed"]
                ELSE [tx[t] EXCEPT !.pc = "writing"]
<1>1. UNCHANGED lockVars /\ file' = file /\ faults' = faults /\ tx[t].pc = "editing"
      /\ tx' = [tx EXCEPT ![t] = r] /\ request' = request
  BY DEF Edited, SetTx, lockVars
<1>2. r \in TransactionRecords /\ tx'[t] = r
  BY <1>1, OwnFacts DEF TransactionRecords
<1>3. /\ r.pc = (IF tx[t].changed = {} THEN "releasing" ELSE "writing")
      /\ r.paths = tx[t].paths /\ r.changed = tx[t].changed /\ r.read = tx[t].read
      /\ r.written = tx[t].written /\ r.rollbackFailed = tx[t].rollbackFailed
      /\ r.pc = "writing" => r.outcome = tx[t].outcome
      /\ r.originals = tx[t].originals
  BY OwnFacts DEF TransactionRecords
<1> HIDE DEF r
<1>4. Prepared(t)' /\ HoldsPaths(t)'
  BY <1>1, <1>2, <1>3, OwnFacts DEF Prepared, HoldsPaths, Active
<1>5. Journal(t)'
  <2>1. tx[t].written = <<>> /\ ToSet(tx[t].written) = {} /\ ~tx[t].rollbackFailed
    BY <1>1, OwnFacts, EmptyJournal DEF Prepared
  <2>2. \A p \in tx[t].changed : file[p] = tx[t].originals[p]
    BY <1>1, OwnFacts DEF Prepared
  <2> QED BY <1>1, <1>2, <1>3, <2>1, <2>2 DEF Journal, Unwritten
<1> QED BY <1>1, <1>2, <1>3, <1>4, <1>5, OwnFacts, PrivateStep DEF Sound

LEMMA ReadOrEditFailsKeeps ==
  ASSUME TInv, NEW t \in Transactions, ReadOrEditFails(t)
  PROVE  TInv'
<1> DEFINE r == [tx[t] EXCEPT !.pc = "releasing", !.outcome = "aborted"]
<1>1. UNCHANGED lockVars /\ file' = file /\ faults' \in 0..MaxFaults /\ tx[t].pc \in {"reading", "editing"}
      /\ tx' = [tx EXCEPT ![t] = r]
  BY OwnFacts, FaultIsCounted DEF ReadOrEditFails, SetTx
<1>2. r \in TransactionRecords /\ tx'[t] = r
  BY <1>1, OwnFacts DEF TransactionRecords
<1>3. /\ r.pc = "releasing" /\ r.paths = tx[t].paths /\ r.changed = tx[t].changed /\ r.read = tx[t].read
  BY OwnFacts DEF TransactionRecords
<1>4. Prepared(t)' /\ HoldsPaths(t)' /\ Journal(t)'
  BY <1>1, <1>2, <1>3, OwnFacts DEF Prepared, HoldsPaths, Journal, Active
<1> HIDE DEF r
<1> QED BY <1>1, <1>2, <1>3, <1>4, OwnFacts, PrivateStep DEF Sound

LEMMA WriteDocumentKeeps ==
  ASSUME TInv, NEW t \in Transactions, WriteDocument(t)
  PROVE  TInv'
<1>1. PICK p \in Unwritten(t) :
        /\ file' = [file EXCEPT ![p] = tx[t].originals[p] \cup {t}]
        /\ tx' = [tx EXCEPT ![t] = [tx[t] EXCEPT !.written = Append(@, p), !.pc = CompletedAfter(t, p),
                                                 !.outcome = IF Unwritten(t) = {p} THEN "committed" ELSE @]]
  BY DEF WriteDocument, SetTx
<1> DEFINE r == [tx[t] EXCEPT !.written = Append(@, p), !.pc = CompletedAfter(t, p),
                              !.outcome = IF Unwritten(t) = {p} THEN "committed" ELSE @]
<1>2. UNCHANGED lockVars /\ faults' = faults /\ tx[t].pc = "writing" /\ request' = request
  BY DEF WriteDocument, lockVars
<1>3. /\ p \in tx[t].changed /\ p \in tx[t].paths /\ p \in Keys /\ p \notin ToSet(tx[t].written)
      /\ ToSet(tx[t].written) \subseteq tx[t].changed
      /\ \A i, j \in 1..Len(tx[t].written) : tx[t].written[i] = tx[t].written[j] => i = j
      /\ ~tx[t].rollbackFailed
  BY <1>2, OwnFacts DEF Unwritten, Journal
<1>4. /\ Append(tx[t].written, p) \in Seq(Keys)
      /\ ToSet(Append(tx[t].written, p)) = ToSet(tx[t].written) \cup {p}
      /\ \A i, j \in 1..Len(Append(tx[t].written, p)) :
           Append(tx[t].written, p)[i] = Append(tx[t].written, p)[j] => i = j
  <2>1. tx[t].written \in Seq(Keys) BY OwnFacts
  <2> QED BY <1>3, <2>1, AppendToJournal
<1>5. CompletedAfter(t, p) = IF Unwritten(t) = {p} THEN "releasing" ELSE "writing"
  BY DEF CompletedAfter
<1>6. /\ r.pc = (IF Unwritten(t) = {p} THEN "releasing" ELSE "writing")
      /\ r.paths = tx[t].paths /\ r.changed = tx[t].changed /\ r.read = tx[t].read
      /\ r.written = Append(tx[t].written, p) /\ r.rollbackFailed = tx[t].rollbackFailed
      /\ Unwritten(t) # {p} => r.outcome = tx[t].outcome
      /\ r.originals = tx[t].originals
  BY <1>5, OwnFacts DEF TransactionRecords
<1>7. r \in TransactionRecords /\ tx'[t] = r
  <2>1. CompletedAfter(t, p) \in {"releasing", "writing"}
    BY <1>5
  <2>2. (IF Unwritten(t) = {p} THEN "committed" ELSE tx[t].outcome) \in {"none", "committed", "aborted", "torn"}
    BY OwnFacts DEF TransactionRecords
  <2>3. tx'[t] = r
    BY <1>1, OwnFacts
  <2>4. ASSUME NEW c \in {"releasing", "writing"}, NEW o \in {"none", "committed", "aborted", "torn"},
               NEW w \in Seq(Keys)
        PROVE  [tx[t] EXCEPT !.written = w, !.pc = c, !.outcome = o] \in TransactionRecords
    BY OwnFacts DEF TransactionRecords
  <2> QED BY <1>4, <2>1, <2>2, <2>3, <2>4
<1> HIDE DEF r
<1>8. file' \in [Keys -> SUBSET Transactions] /\ \A q \in Keys : q # p => file'[q] = file[q]
  BY <1>1, <1>3, OwnFacts
<1>9. file'[p] = tx[t].originals[p] \cup {t}
  BY <1>1, <1>3, OwnFacts
<1>10. Prepared(t)' /\ HoldsPaths(t)'
  BY <1>2, <1>6, <1>7, OwnFacts DEF Prepared, HoldsPaths, Active
<1>11. Journal(t)'
  <2> SUFFICES ASSUME r.pc = "writing" PROVE Journal(t)'
    BY <1>6, <1>7 DEF Journal
  <2>1. Unwritten(t)' = Unwritten(t) \ {p}
    BY <1>4, <1>6, <1>7 DEF Unwritten
  <2>2. Unwritten(t)' # {}
    BY <1>6, <2>1
  <2>3. \A q \in tx[t].changed : q \in Keys
    BY OwnFacts
  <2>4. \A q \in ToSet(tx[t].written) \cup {p} : file'[q] = tx[t].originals[q] \cup {t}
    BY <1>2, <1>3, <1>8, <1>9, <2>3, OwnFacts DEF Journal
  <2>5. \A q \in tx[t].changed \ (ToSet(tx[t].written) \cup {p}) : file'[q] = tx[t].originals[q]
    BY <1>2, <1>3, <1>8, <2>3, OwnFacts DEF Journal
  <2> QED BY <1>3, <1>4, <1>6, <1>7, <2>2, <2>4, <2>5 DEF Journal
<1> QED BY <1>1, <1>2, <1>3, <1>6, <1>7, <1>8, <1>10, <1>11, OwnFacts, PrivateStep DEF Sound, Active

(* The record after a step of the rollback: the rollback goes on while something is left to be put back. *)
LEMMA RolledBackIsSound ==
  ASSUME NEW t \in Transactions, NEW b \in TransactionRecords, b.pc = "rollback"
  PROVE  /\ RolledBack(t, b) \in TransactionRecords
         /\ RolledBack(t, b).paths = b.paths /\ RolledBack(t, b).changed = b.changed
         /\ RolledBack(t, b).read = b.read /\ RolledBack(t, b).originals = b.originals
         /\ RolledBack(t, b).written = b.written /\ RolledBack(t, b).rollbackFailed = b.rollbackFailed
         /\ b.written # <<>> => RolledBack(t, b).pc = "rollback" /\ RolledBack(t, b).outcome = b.outcome
         /\ b.written = <<>> => /\ RolledBack(t, b).pc = "releasing"
                                /\ RolledBack(t, b).outcome = IF b.rollbackFailed THEN "torn" ELSE "aborted"
BY DEF RolledBack, TransactionRecords

LEMMA WriteFailsKeeps ==
  ASSUME TInv, NEW t \in Transactions, WriteFails(t)
  PROVE  TInv'
<1> DEFINE b == [tx[t] EXCEPT !.pc = "rollback"]
<1> DEFINE r == RolledBack(t, b)
<1>1. UNCHANGED lockVars /\ file' = file /\ faults' \in 0..MaxFaults /\ tx[t].pc = "writing" /\ request' = request
      /\ tx' = [tx EXCEPT ![t] = r]
  BY OwnFacts, FaultIsCounted DEF WriteFails, SetTx, lockVars
<1>2. b \in TransactionRecords
      /\ b.pc = "rollback" /\ b.paths = tx[t].paths /\ b.changed = tx[t].changed /\ b.read = tx[t].read
      /\ b.written = tx[t].written /\ b.rollbackFailed = tx[t].rollbackFailed /\ b.outcome = tx[t].outcome
      /\ b.originals = tx[t].originals
  BY OwnFacts DEF TransactionRecords
<1> HIDE DEF b
<1>3. /\ r \in TransactionRecords
      /\ r.paths = tx[t].paths /\ r.changed = tx[t].changed /\ r.read = tx[t].read
      /\ r.originals = tx[t].originals /\ r.written = tx[t].written /\ r.rollbackFailed = tx[t].rollbackFailed
      /\ r.written # <<>> => r.pc = "rollback" /\ r.outcome = tx[t].outcome
      /\ r.written = <<>> => r.pc = "releasing"
  BY <1>2, RolledBackIsSound
<1> HIDE DEF r
<1>4. tx'[t] = r
  BY <1>1, OwnFacts
<1>5. Prepared(t)' /\ HoldsPaths(t)'
  BY <1>1, <1>3, <1>4, OwnFacts DEF Prepared, HoldsPaths, Active
<1>6. Journal(t)'
  BY <1>1, <1>3, <1>4, OwnFacts DEF Journal, Unwritten
<1> QED BY <1>1, <1>3, <1>4, <1>5, <1>6, OwnFacts, PrivateStep DEF Sound

LEMMA RestoreOriginalKeeps ==
  ASSUME TInv, NEW t \in Transactions, RestoreOriginal(t)
  PROVE  TInv'
<1> DEFINE b == [tx[t] EXCEPT !.written = Front(@)]
<1> DEFINE r == RolledBack(t, b)
<1> DEFINE p == Last(tx[t].written)
<1>1. /\ UNCHANGED lockVars /\ faults' = faults /\ tx[t].pc = "rollback" /\ request' = request
      /\ file' = [file EXCEPT ![p] = tx[t].originals[p]]
      /\ tx' = [tx EXCEPT ![t] = r]
  BY DEF RestoreOriginal, AfterRestore, SetTx, lockVars
<1> HIDE DEF p
<1>2. /\ Front(tx[t].written) \in Seq(Keys)
      /\ p \in ToSet(tx[t].written) /\ p \in Keys
      /\ ToSet(Front(tx[t].written)) = ToSet(tx[t].written) \ {p}
      /\ \A i, j \in 1..Len(Front(tx[t].written)) : Front(tx[t].written)[i] = Front(tx[t].written)[j] => i = j
  <2>1. /\ tx[t].written \in Seq(Keys) /\ tx[t].written # <<>>
        /\ \A i, j \in 1..Len(tx[t].written) : tx[t].written[i] = tx[t].written[j] => i = j
    BY <1>1, OwnFacts DEF Journal
  <2> QED BY <2>1, FrontOfJournal DEF p
<1>3. ToSet(tx[t].written) \subseteq tx[t].changed /\ p \in tx[t].paths
  BY <1>1, <1>2, OwnFacts DEF Journal
<1>4. b \in TransactionRecords
      /\ b.pc = "rollback" /\ b.paths = tx[t].paths /\ b.changed = tx[t].changed /\ b.read = tx[t].read
      /\ b.written = Front(tx[t].written) /\ b.rollbackFailed = tx[t].rollbackFailed /\ b.outcome = tx[t].outcome
      /\ b.originals = tx[t].originals
  BY <1>1, <1>2, OwnFacts DEF TransactionRecords
<1> HIDE DEF b
<1>5. /\ r \in TransactionRecords
      /\ r.paths = tx[t].paths /\ r.changed = tx[t].changed /\ r.read = tx[t].read
      /\ r.originals = tx[t].originals /\ r.written = Front(tx[t].written)
      /\ r.rollbackFailed = tx[t].rollbackFailed
      /\ r.written # <<>> => r.pc = "rollback" /\ r.outcome = tx[t].outcome
      /\ r.written = <<>> => r.pc = "releasing"
  BY <1>4, RolledBackIsSound
<1> HIDE DEF r
<1>6. tx'[t] = r
  BY <1>1, OwnFacts
<1>7. file' \in [Keys -> SUBSET Transactions] /\ \A q \in Keys : q # p => file'[q] = file[q]
  BY <1>1, <1>2, OwnFacts
<1>8. file'[p] = tx[t].originals[p]
  BY <1>1, <1>2, OwnFacts
<1>9. Prepared(t)' /\ HoldsPaths(t)'
  BY <1>1, <1>5, <1>6, OwnFacts DEF Prepared, HoldsPaths, Active
<1>10. Journal(t)'
  <2> SUFFICES ASSUME r.pc = "rollback" PROVE Journal(t)'
    BY <1>5, <1>6 DEF Journal
  <2>1. \A q \in tx[t].changed : q \in Keys
    BY OwnFacts
  <2>2. \A q \in ToSet(tx[t].written) \ {p} : file'[q] = tx[t].originals[q] \cup {t}
    BY <1>1, <1>3, <1>7, <2>1, OwnFacts DEF Journal
  <2>3. \A q \in tx[t].changed \ (ToSet(tx[t].written) \ {p}) :
          file'[q] = tx[t].originals[q] \/ (tx[t].rollbackFailed /\ file'[q] = tx[t].originals[q] \cup {t})
    BY <1>1, <1>3, <1>7, <1>8, <2>1, OwnFacts DEF Journal
  <2>4. Unrestored(t) \subseteq Unrestored(t)'
    BY <1>2, <1>5, <1>6, <1>7, <2>1 DEF Unrestored
  <2>5. tx[t].rollbackFailed => Unrestored(t)' # {}
    BY <1>1, <2>4, OwnFacts DEF Journal
  <2>6. r.pc = "rollback" => r.written # <<>>
    BY <1>5
  <2> QED BY <1>2, <1>3, <1>5, <1>6, <2>2, <2>3, <2>5, <2>6 DEF Journal
<1> QED BY <1>1, <1>3, <1>5, <1>6, <1>7, <1>9, <1>10, OwnFacts, PrivateStep DEF Sound, Active

LEMMA RestoreFailsKeeps ==
  ASSUME TInv, NEW t \in Transactions, RestoreFails(t)
  PROVE  TInv'
<1> DEFINE b == [tx[t] EXCEPT !.written = Front(@), !.rollbackFailed = TRUE]
<1> DEFINE r == RolledBack(t, b)
<1> DEFINE p == Last(tx[t].written)
<1>1. /\ UNCHANGED lockVars /\ faults' \in 0..MaxFaults /\ tx[t].pc = "rollback" /\ request' = request
      /\ file' = file
      /\ tx' = [tx EXCEPT ![t] = r]
  BY OwnFacts, FaultIsCounted DEF RestoreFails, SetTx, lockVars
<1> HIDE DEF p
<1>2. /\ Front(tx[t].written) \in Seq(Keys)
      /\ p \in ToSet(tx[t].written) /\ p \in Keys
      /\ ToSet(Front(tx[t].written)) = ToSet(tx[t].written) \ {p}
      /\ \A i, j \in 1..Len(Front(tx[t].written)) : Front(tx[t].written)[i] = Front(tx[t].written)[j] => i = j
  <2>1. /\ tx[t].written \in Seq(Keys) /\ tx[t].written # <<>>
        /\ \A i, j \in 1..Len(tx[t].written) : tx[t].written[i] = tx[t].written[j] => i = j
    BY <1>1, OwnFacts DEF Journal
  <2> QED BY <2>1, FrontOfJournal DEF p
<1>3. ToSet(tx[t].written) \subseteq tx[t].changed /\ p \in tx[t].changed
  BY <1>1, <1>2, OwnFacts DEF Journal
<1>4. b \in TransactionRecords
      /\ b.pc = "rollback" /\ b.paths = tx[t].paths /\ b.changed = tx[t].changed /\ b.read = tx[t].read
      /\ b.written = Front(tx[t].written) /\ b.rollbackFailed = TRUE /\ b.outcome = tx[t].outcome
      /\ b.originals = tx[t].originals
  BY <1>1, <1>2, OwnFacts DEF TransactionRecords
<1> HIDE DEF b
<1>5. /\ r \in TransactionRecords
      /\ r.paths = tx[t].paths /\ r.changed = tx[t].changed /\ r.read = tx[t].read
      /\ r.originals = tx[t].originals /\ r.written = Front(tx[t].written) /\ r.rollbackFailed = TRUE
      /\ r.written # <<>> => r.pc = "rollback" /\ r.outcome = tx[t].outcome
      /\ r.written = <<>> => r.pc = "releasing"
  BY <1>4, RolledBackIsSound
<1> HIDE DEF r
<1>6. tx'[t] = r
  BY <1>1, OwnFacts
<1>7. Prepared(t)' /\ HoldsPaths(t)'
  BY <1>1, <1>5, <1>6, OwnFacts DEF Prepared, HoldsPaths, Active
<1>8. Journal(t)'
  <2> SUFFICES ASSUME r.pc = "rollback" PROVE Journal(t)'
    BY <1>5, <1>6 DEF Journal
  <2>1. \A q \in ToSet(tx[t].written) : file'[q] = tx[t].originals[q] \cup {t}
    BY <1>1, OwnFacts DEF Journal
  <2>2. \A q \in tx[t].changed \ (ToSet(tx[t].written) \ {p}) :
          file'[q] = tx[t].originals[q] \/ file'[q] = tx[t].originals[q] \cup {t}
    BY <1>1, <2>1, OwnFacts DEF Journal
  <2>3. p \in Unrestored(t)'
    BY <1>2, <1>3, <1>5, <1>6, <2>1 DEF Unrestored
  <2>4. r.pc = "rollback" => r.written # <<>>
    BY <1>5
  <2> QED BY <1>2, <1>3, <1>5, <1>6, <2>1, <2>2, <2>3, <2>4 DEF Journal
<1> QED BY <1>1, <1>5, <1>6, <1>7, <1>8, OwnFacts, PrivateStep DEF Sound

-----------------------------------------------------------------------------
(* What a step on one lock leaves of the requests: whoever held one still does. *)
LEMMA HoldersStay ==
  ASSUME TInv, tx' \in [Transactions -> TransactionRecords], file' = file,
         NEW t \in Transactions, NEW p \in Keys,
         \A u \in Transactions \ {t} : tx'[u] = tx[u],
         \A u \in Transactions, k \in Keys : <<u, k>> # <<t, p>> =>
           \/ request'[<<u, k>>] = request[<<u, k>>]
           \/ request[<<u, k>>].state = "waiting" /\ request'[<<u, k>>] = [request[<<u, k>>] EXCEPT !.state = "holding"]
  PROVE  /\ \A u \in Transactions, k \in Keys : <<u, k>> # <<t, p>> =>
              /\ request[<<u, k>>].state = "holding" => request'[<<u, k>>].state = "holding"
              /\ request'[<<u, k>>].state # "idle" => request[<<u, k>>].state # "idle"
              /\ request'[<<u, k>>].key = request[<<u, k>>].key
              /\ request'[<<u, k>>].mode = request[<<u, k>>].mode
         /\ \A u \in Transactions \ {t} : Sound(u)'
<1>1. ASSUME NEW u \in Transactions, NEW k \in Keys, <<u, k>> # <<t, p>>
      PROVE  /\ request[<<u, k>>].state = "holding" => request'[<<u, k>>].state = "holding"
             /\ request'[<<u, k>>].state # "idle" => request[<<u, k>>].state # "idle"
             /\ request'[<<u, k>>].key = request[<<u, k>>].key
             /\ request'[<<u, k>>].mode = request[<<u, k>>].mode
  <2>1. <<u, k>> \in Requests
    BY TransactionAssumption
  <2>2. request[<<u, k>>] \in [state : {"idle", "waiting", "holding"}, mode : Modes \cup {"none"},
                               key : Keys \cup {None}, object : Objects \cup {None}]
    BY <2>1 DEF TInv, IInv, LockTypeOK
  <2>3. CASE request'[<<u, k>>] = request[<<u, k>>]
    BY <2>3
  <2>4. CASE request[<<u, k>>].state = "waiting" /\ request'[<<u, k>>] = [request[<<u, k>>] EXCEPT !.state = "holding"]
    BY <2>2, <2>4
  <2> QED BY <1>1, <2>3, <2>4
<1>2. ASSUME NEW u \in Transactions \ {t} PROVE Sound(u)'
  <2>1. Sound(u) /\ tx'[u] = tx[u] /\ tx[u].paths \subseteq Keys
    BY OwnFacts DEF TInv
  <2>2. HoldsPaths(u)'
    BY <1>1, <2>1 DEF Sound, HoldsPaths
  <2>3. Prepared(u)' /\ Journal(u)'
    BY <2>1 DEF Sound, Prepared, Journal, Unwritten, Unrestored
  <2> QED BY <2>2, <2>3 DEF Sound
<1> QED BY <1>1, <1>2

LEMMA TakeLockKeeps ==
  ASSUME TInv, NEW t \in Transactions, TakeLock(t)
  PROVE  TInv'
<1>1. PICK p \in tx[t].paths \ Asked(t) : Write(<<t, p>>, p)
  BY DEF TakeLock
<1>2. p \in Keys /\ p \in tx[t].paths /\ <<t, p>> \in Requests
  BY OwnFacts, TransactionAssumption
<1>3. tx' = tx /\ file' = file /\ faults' = faults /\ tx[t].pc = "locking"
  BY DEF TakeLock, txVars
<1>4. IInv'
  BY <1>1, <1>2, WriteKeepsInvariant DEF TInv
<1>5. PICK o, g : request' = [request EXCEPT ![<<t, p>>] = Entitled("write", p, o, g)]
  BY <1>1 DEF Write
<1>6. /\ request \in [Requests -> [state : {"idle", "waiting", "holding"}, mode : Modes \cup {"none"},
                                    key : Keys \cup {None}, object : Objects \cup {None}]]
  BY DEF TInv, IInv, LockTypeOK
<1>7. request'[<<t, p>>].key = p /\ request'[<<t, p>>].mode = "write"
  BY <1>2, <1>5, <1>6 DEF Entitled
<1>8. \A u \in Transactions, k \in Keys : <<u, k>> # <<t, p>> => request'[<<u, k>>] = request[<<u, k>>]
  BY <1>5, <1>6, TransactionAssumption
<1>9. TransactionTypeOK'
  BY <1>3, <1>4, OwnFacts DEF IInv, TransactionTypeOK
<1>10. LocksFit'
  BY <1>2, <1>3, <1>7, <1>8 DEF TInv, LocksFit
<1>11. \A u \in Transactions \ {t} : Sound(u)'
  BY <1>2, <1>3, <1>4, <1>8, OwnFacts, HoldersStay
<1>12. Sound(t)'
  BY <1>3, OwnFacts DEF Sound, HoldsPaths, Active, Prepared, Journal
<1> QED BY <1>4, <1>9, <1>10, <1>11, <1>12 DEF TInv

LEMMA ReleaseLockKeeps ==
  ASSUME TInv, NEW t \in Transactions, ReleaseLock(t)
  PROVE  TInv'
<1>1. PICK p \in Locked(t) :
        /\ Dispose(<<t, p>>)
        /\ tx' = [tx EXCEPT ![t] = IF Locked(t) = {p} THEN [tx[t] EXCEPT !.pc = "done"] ELSE tx[t]]
  BY DEF ReleaseLock, SetTx
<1>2. p \in Keys /\ p \in tx[t].paths /\ <<t, p>> \in Requests
  BY OwnFacts, TransactionAssumption DEF Locked
<1>3. file' = file /\ faults' = faults /\ tx[t].pc = "releasing"
  BY DEF ReleaseLock
<1>4. /\ IInv' /\ request'[<<t, p>>] = Idle
      /\ \A q \in Requests : q # <<t, p>> =>
           \/ request'[q] = request[q]
           \/ request[q].state = "waiting" /\ request'[q] = [request[q] EXCEPT !.state = "holding"]
  BY <1>1, <1>2, DisposeKeepsInvariant DEF TInv
<1>5. /\ tx' \in [Transactions -> TransactionRecords]
      /\ \A u \in Transactions \ {t} : tx'[u] = tx[u]
      /\ tx'[t].pc \in {"releasing", "done"} /\ tx'[t].paths = tx[t].paths /\ tx'[t].changed = tx[t].changed
      /\ tx'[t].read = tx[t].read
  <2>1. CASE Locked(t) = {p}
    <3>1. tx' = [tx EXCEPT ![t] = [tx[t] EXCEPT !.pc = "done"]]
      BY <1>1, <2>1
    <3>2. [tx[t] EXCEPT !.pc = "done"] \in TransactionRecords
      BY OwnFacts DEF TransactionRecords
    <3>3. tx'[t] = [tx[t] EXCEPT !.pc = "done"]
      BY <3>1, OwnFacts
    <3> QED BY <3>1, <3>2, <3>3, OwnFacts DEF TransactionRecords
  <2>2. CASE Locked(t) # {p}
    <3>1. tx' = tx
      BY <1>1, <2>2, OwnFacts
    <3> QED BY <1>3, <3>1, OwnFacts
  <2> QED BY <2>1, <2>2
<1>6. \A u \in Transactions, k \in Keys : <<u, k>> # <<t, p>> =>
           \/ request'[<<u, k>>] = request[<<u, k>>]
           \/ request[<<u, k>>].state = "waiting" /\ request'[<<u, k>>] = [request[<<u, k>>] EXCEPT !.state = "holding"]
  BY <1>4, TransactionAssumption
<1>7. /\ \A u \in Transactions, k \in Keys : <<u, k>> # <<t, p>> =>
              /\ request[<<u, k>>].state = "holding" => request'[<<u, k>>].state = "holding"
              /\ request'[<<u, k>>].state # "idle" => request[<<u, k>>].state # "idle"
              /\ request'[<<u, k>>].key = request[<<u, k>>].key
              /\ request'[<<u, k>>].mode = request[<<u, k>>].mode
      /\ \A u \in Transactions \ {t} : Sound(u)'
  BY <1>2, <1>3, <1>5, <1>6, HoldersStay, Zenon
<1>8. TransactionTypeOK'
  BY <1>3, <1>4, <1>5, OwnFacts DEF IInv, TransactionTypeOK
<1>9. LocksFit'
  <2>1. ASSUME NEW u \in Transactions, NEW k \in Keys, request'[<<u, k>>].state # "idle"
        PROVE  request'[<<u, k>>].key = k /\ request'[<<u, k>>].mode = "write" /\ k \in tx'[u].paths
    <3>1. <<u, k>> # <<t, p>>
      BY <1>4, <2>1 DEF Idle
    <3>2. request[<<u, k>>].key = k /\ request[<<u, k>>].mode = "write" /\ k \in tx[u].paths
      BY <1>7, <2>1, <3>1 DEF TInv, LocksFit
    <3> QED BY <1>5, <1>7, <3>1, <3>2
  <2> QED BY <2>1 DEF LocksFit
<1>10. Sound(t)'
  BY <1>5, OwnFacts DEF Sound, HoldsPaths, Active, Prepared, Journal
<1> QED BY <1>4, <1>7, <1>8, <1>9, <1>10 DEF TInv

LEMMA TransactionInitHolds == TransactionInit => TInv
<1> SUFFICES ASSUME TransactionInit PROVE TInv
  OBVIOUS
<1>1. IInv
  BY LockInitHolds DEF TransactionInit
<1>2. TransactionTypeOK
  BY <1>1, TransactionAssumption DEF TransactionInit, IInv, TransactionTypeOK, TransactionRecords, NewTransaction
<1>3. LocksFit
  BY TransactionAssumption DEF TransactionInit, LockInit, Idle, LocksFit
<1>4. ASSUME NEW t \in Transactions PROVE Sound(t)
  <2>1. tx[t] = NewTransaction
    BY DEF TransactionInit
  <2> QED BY <2>1 DEF NewTransaction, Sound, HoldsPaths, Active, Prepared, Journal
<1> QED BY <1>1, <1>2, <1>3, <1>4 DEF TInv

(* The inductive invariant of the transactions (json-file.ts, transaction). *)
THEOREM TransactionInvariance == TransactionSpec => []TInv
<1>1. TInv /\ [TransactionNext]_transactionVars => TInv'
  <2> SUFFICES ASSUME TInv, [TransactionNext]_transactionVars PROVE TInv'
    OBVIOUS
  <2>1. CASE UNCHANGED transactionVars
    <3>1. UNCHANGED lockVars /\ tx' = tx /\ file' = file /\ faults' = faults /\ request' = request
      BY <2>1 DEF transactionVars, txVars, lockVars
    <3>2. IInv'
      BY <3>1, StutterKeepsInvariant DEF TInv
    <3>3. TransactionTypeOK' /\ LocksFit'
      BY <3>1, <3>2 DEF TInv, IInv, TransactionTypeOK, LocksFit
    <3>4. \A t \in Transactions : Sound(t)'
      BY <3>1 DEF TInv, Sound, HoldsPaths, Prepared, Journal, Unwritten, Unrestored
    <3> QED BY <3>2, <3>3, <3>4 DEF TInv
  <2>2. ASSUME NEW t \in Transactions, Begin(t) \/ TransactionStep(t) \/ Failure(t) PROVE TInv'
    BY <2>2, BeginKeeps, TakeLockKeeps, StartReadingKeeps, ReadOriginalKeeps, StartEditingKeeps, EditedKeeps,
       WriteDocumentKeeps, RestoreOriginalKeeps, ReleaseLockKeeps, ReadOrEditFailsKeeps, WriteFailsKeeps,
       RestoreFailsKeeps DEF TransactionStep, Failure
  <2> QED BY <2>1, <2>2 DEF TransactionNext
<1> QED BY <1>1, TransactionInitHolds, PTL DEF TransactionSpec

-----------------------------------------------------------------------------
(* What a file holds for who looks at it through the locks: the refinement mapping of IsAtomic. *)
Content(p) ==
  IF \E t \in Transactions : Writing(t, p) THEN tx[CHOOSE t \in Transactions : Writing(t, p)].originals[p] ELSE file[p]

LEMMA WriterIsAlone ==
  ASSUME TInv, NEW t \in Transactions, NEW u \in Transactions, NEW p \in tx[t].paths,
         tx[t].pc \in Active, Writing(u, p)
  PROVE  u = t
<1>1. tx[u].pc \in Active /\ p \in tx[u].paths
  BY OwnFacts DEF Writing, Active
<1> QED BY <1>1, FilesAreOwned

ContentFits ==
  \A p \in Keys : /\ \A t \in Transactions : Writing(t, p) => Content(p) = tx[t].originals[p]
                  /\ (\A t \in Transactions : ~Writing(t, p)) => Content(p) = file[p]

LEMMA ContentIs == TInv => ContentFits
<1> SUFFICES ASSUME TInv, NEW p \in Keys
             PROVE  /\ \A t \in Transactions : Writing(t, p) => Content(p) = tx[t].originals[p]
                    /\ (\A t \in Transactions : ~Writing(t, p)) => Content(p) = file[p]
  BY DEF ContentFits
<1>1. ASSUME NEW t \in Transactions, Writing(t, p) PROVE Content(p) = tx[t].originals[p]
  <2>1. tx[t].pc \in Active /\ p \in tx[t].paths
    BY <1>1, OwnFacts DEF Writing, Active
  <2>2. \A u \in Transactions : Writing(u, p) => u = t
    BY <2>1, WriterIsAlone
  <2>3. (CHOOSE u \in Transactions : Writing(u, p)) = t
    BY <1>1, <2>2
  <2> QED BY <1>1, <2>3 DEF Content
<1>2. (\A t \in Transactions : ~Writing(t, p)) => Content(p) = file[p]
  BY DEF Content
<1> QED BY <1>1, <1>2

LEMMA NextContentIs == TInv' => ContentFits'
BY ContentIs, PTL

(* A step that writes no file, and after which the same transactions are writing, shows nothing. *)
LEMMA ContentKept ==
  ASSUME TInv, TInv', NEW p \in Keys, file'[p] = file[p],
         \A u \in Transactions : /\ Writing(u, p)' <=> Writing(u, p)
                                 /\ Writing(u, p) => tx'[u].originals[p] = tx[u].originals[p]
  PROVE  Content(p)' = Content(p)
<1>1. CASE \E u \in Transactions : Writing(u, p)
  <2>1. PICK u \in Transactions : Writing(u, p)
    BY <1>1
  <2>2. Content(p) = tx[u].originals[p]
    BY <2>1, ContentIs DEF ContentFits
  <2>3. Content(p)' = tx'[u].originals[p]
    BY <2>1, NextContentIs DEF ContentFits
  <2> QED BY <2>1, <2>2, <2>3
<1>2. CASE \A u \in Transactions : ~Writing(u, p)
  <2>1. Content(p) = file[p]
    BY <1>2, ContentIs DEF ContentFits
  <2>2. Content(p)' = file'[p]
    BY <1>2, NextContentIs DEF ContentFits
  <2> QED BY <2>1, <2>2
<1> QED BY <1>1, <1>2

(* What a transaction that is past its locks shows of its files depends on itself alone. *)
LEMMA ContentOfOwner ==
  ASSUME TInv, TInv', NEW t \in Transactions, NEW p \in tx[t].paths, tx[t].pc \in Active,
         \A u \in Transactions \ {t} : tx'[u] = tx[u]
  PROVE  /\ Content(p) = IF Writing(t, p) THEN tx[t].originals[p] ELSE file[p]
         /\ Content(p)' = IF Writing(t, p)' THEN tx'[t].originals[p] ELSE file'[p]
<1>1. \A u \in Transactions : Writing(u, p) => u = t
  BY WriterIsAlone
<1>2. \A u \in Transactions \ {t} : ~Writing(u, p) /\ ~Writing(u, p)'
  BY <1>1 DEF Writing
<1>3. p \in Keys
  BY OwnFacts
<1>4. Content(p) = IF Writing(t, p) THEN tx[t].originals[p] ELSE file[p]
  BY <1>2, <1>3, ContentIs DEF ContentFits
<1>5. Content(p)' = IF Writing(t, p)' THEN tx'[t].originals[p] ELSE file'[p]
  BY <1>2, <1>3, NextContentIs DEF ContentFits
<1> QED BY <1>4, <1>5

LEMMA AbstractStutter ==
  ASSUME \A p \in Keys : Content(p)' = Content(p),
         \A t \in Transactions : tx'[t].outcome = tx[t].outcome
  PROVE  UNCHANGED Atomic!atomicVars
BY DEF Atomic!atomicVars, Content

LEMMA AbstractStep ==
  ASSUME NEW t \in Transactions, tx[t].outcome = "none", NEW edited \in SUBSET Keys,
         \A u \in Transactions \ {t} : tx'[u] = tx[u],
         \A p \in Keys : Content(p)' = IF p \in edited THEN Content(p) \cup {t} ELSE Content(p),
         \/ tx'[t].outcome = "committed"
         \/ tx'[t].outcome = "aborted" /\ edited = {}
         \/ tx'[t].outcome = "torn" /\ edited # {}
  PROVE  Atomic!AtomicNext
<1> DEFINE content == [p \in Keys |-> Content(p)]
<1> DEFINE outcome == [u \in Transactions |-> tx[u].outcome]
<1>1. content' = [p \in Keys |-> IF p \in edited THEN content[p] \cup {t} ELSE content[p]]
  OBVIOUS
<1>2. outcome' = [outcome EXCEPT ![t] = tx'[t].outcome] /\ outcome[t] = "none"
  OBVIOUS
<1>3. edited = {} => content' = content
  BY <1>1
<1>4. CASE tx'[t].outcome = "committed"
  <2>1. Atomic!Commit(t, edited)
    BY <1>1, <1>2, <1>4 DEF Atomic!Commit, Content
  <2> QED BY <2>1 DEF Atomic!AtomicNext
<1>5. CASE tx'[t].outcome = "aborted" /\ edited = {}
  <2>1. Atomic!Abort(t)
    BY <1>2, <1>3, <1>5 DEF Atomic!Abort, Content
  <2> QED BY <2>1 DEF Atomic!AtomicNext
<1>6. CASE tx'[t].outcome = "torn" /\ edited # {}
  <2>1. Atomic!Tear(t, edited)
    BY <1>1, <1>2, <1>6 DEF Atomic!Tear, Content
  <2> QED BY <2>1 DEF Atomic!AtomicNext
<1> QED BY <1>4, <1>5, <1>6

LEMMA EarlyStepsAreHidden ==
  ASSUME TInv, TInv', NEW t \in Transactions,
         Begin(t) \/ TakeLock(t) \/ StartReading(t) \/ ReadOriginal(t) \/ StartEditing(t) \/ ReleaseLock(t)
  PROVE  UNCHANGED Atomic!atomicVars
<1>1. /\ file' = file
      /\ \A u \in Transactions \ {t} : tx'[u] = tx[u]
      /\ tx[t].pc \notin {"writing", "rollback"} /\ tx'[t].pc \notin {"writing", "rollback"}
      /\ tx'[t].outcome = tx[t].outcome
  <2>1. CASE Begin(t)
    <3>1. PICK paths \in SUBSET Keys \ {{}} : \E changed \in SUBSET paths :
            tx' = [tx EXCEPT ![t] = [tx[t] EXCEPT !.pc = "locking", !.paths = paths, !.changed = changed]]
      BY <2>1 DEF Begin, SetTx
    <3>2. PICK changed \in SUBSET paths :
            tx' = [tx EXCEPT ![t] = [tx[t] EXCEPT !.pc = "locking", !.paths = paths, !.changed = changed]]
      BY <3>1
    <3> QED BY <2>1, <3>2, OwnFacts DEF Begin, TransactionRecords
  <2>2. CASE TakeLock(t)
    BY <2>2 DEF TakeLock, txVars
  <2>3. CASE StartReading(t)
    BY <2>3, OwnFacts DEF StartReading, SetTx, TransactionRecords
  <2>4. CASE ReadOriginal(t)
    <3>1. PICK p \in tx[t].paths \ tx[t].read :
            tx' = [tx EXCEPT ![t] = [tx[t] EXCEPT !.read = @ \cup {p}, !.originals[p] = file[p]]]
      BY <2>4 DEF ReadOriginal, SetTx
    <3> QED BY <2>4, <3>1, OwnFacts DEF ReadOriginal, TransactionRecords
  <2>5. CASE StartEditing(t)
    BY <2>5, OwnFacts DEF StartEditing, SetTx, TransactionRecords
  <2>6. CASE ReleaseLock(t)
    <3>1. PICK p \in Locked(t) :
            tx' = [tx EXCEPT ![t] = IF Locked(t) = {p} THEN [tx[t] EXCEPT !.pc = "done"] ELSE tx[t]]
      BY <2>6 DEF ReleaseLock, SetTx
    <3>2. CASE Locked(t) = {p}
      <4>1. tx' = [tx EXCEPT ![t] = [tx[t] EXCEPT !.pc = "done"]]
        BY <3>1, <3>2
      <4> QED BY <2>6, <4>1, OwnFacts DEF ReleaseLock, TransactionRecords
    <3>3. CASE Locked(t) # {p}
      <4>1. tx' = tx
        BY <3>1, <3>3, OwnFacts
      <4> QED BY <2>6, <4>1, OwnFacts DEF ReleaseLock
    <3> QED BY <3>2, <3>3
  <2> QED BY <2>1, <2>2, <2>3, <2>4, <2>5, <2>6
<1>2. \A p \in Keys : Content(p)' = Content(p)
  <2>1. ASSUME NEW p \in Keys, NEW u \in Transactions
        PROVE  /\ Writing(u, p)' <=> Writing(u, p)
               /\ Writing(u, p) => tx'[u].originals[p] = tx[u].originals[p]
    BY <1>1 DEF Writing
  <2> QED BY <1>1, <2>1, ContentKept
<1>3. \A u \in Transactions : tx'[u].outcome = tx[u].outcome
  BY <1>1
<1> QED BY <1>2, <1>3, AbstractStutter

(* The steps of the commit and of the rollback leave the other files alone. *)
LEMMA OtherFilesAreKept ==
  ASSUME TInv, TInv', NEW t \in Transactions, \A u \in Transactions \ {t} : tx'[u] = tx[u],
         tx'[t].changed = tx[t].changed,
         NEW p \in Keys \ tx[t].changed, file'[p] = file[p]
  PROVE  Content(p)' = Content(p)
<1>1. ASSUME NEW u \in Transactions
      PROVE  /\ Writing(u, p)' <=> Writing(u, p)
             /\ Writing(u, p) => tx'[u].originals[p] = tx[u].originals[p]
  BY DEF Writing
<1> QED BY <1>1, ContentKept

LEMMA EditingIsAbstract ==
  ASSUME TInv, TInv', NEW t \in Transactions, Edited(t) \/ ReadOrEditFails(t)
  PROVE  [Atomic!AtomicNext]_(Atomic!atomicVars)
<1>1. PICK r :
        /\ tx' = [tx EXCEPT ![t] = r]
        /\ file' = file
        /\ r.changed = tx[t].changed /\ r.originals = tx[t].originals
        /\ \/ /\ tx[t].pc = "editing" /\ r.pc = "writing" /\ r.outcome = tx[t].outcome
           \/ r.pc = "releasing" /\ tx[t].pc = "editing" /\ r.outcome = "committed" /\ tx[t].changed = {}
           \/ r.pc = "releasing" /\ tx[t].pc \in {"reading", "editing"} /\ r.outcome = "aborted"
  <2>1. CASE Edited(t) /\ tx[t].changed = {}
    <3> DEFINE r == [tx[t] EXCEPT !.pc = "releasing", !.outcome = "committed"]
    <3>1. r.changed = tx[t].changed /\ r.originals = tx[t].originals /\ r.pc = "releasing" /\ r.outcome = "committed"
      BY OwnFacts DEF TransactionRecords
    <3>2. tx' = [tx EXCEPT ![t] = r] /\ file' = file /\ tx[t].pc = "editing"
      BY <2>1 DEF Edited, SetTx
    <3> HIDE DEF r
    <3> QED BY <2>1, <3>1, <3>2
  <2>2. CASE Edited(t) /\ tx[t].changed # {}
    <3> DEFINE r == [tx[t] EXCEPT !.pc = "writing"]
    <3>1. r.changed = tx[t].changed /\ r.originals = tx[t].originals /\ r.pc = "writing" /\ r.outcome = tx[t].outcome
      BY OwnFacts DEF TransactionRecords
    <3>2. tx' = [tx EXCEPT ![t] = r] /\ file' = file /\ tx[t].pc = "editing"
      BY <2>2 DEF Edited, SetTx
    <3> HIDE DEF r
    <3> QED BY <3>1, <3>2
  <2>3. CASE ReadOrEditFails(t)
    <3> DEFINE r == [tx[t] EXCEPT !.pc = "releasing", !.outcome = "aborted"]
    <3>1. r.changed = tx[t].changed /\ r.originals = tx[t].originals /\ r.pc = "releasing" /\ r.outcome = "aborted"
      BY OwnFacts DEF TransactionRecords
    <3>2. tx' = [tx EXCEPT ![t] = r] /\ file' = file /\ tx[t].pc \in {"reading", "editing"}
      BY <2>3 DEF ReadOrEditFails, SetTx
    <3> HIDE DEF r
    <3> QED BY <3>1, <3>2
  <2> QED BY <2>1, <2>2, <2>3
<1>2. /\ tx'[t] = r /\ \A u \in Transactions \ {t} : tx'[u] = tx[u]
      /\ tx[t].pc \in Active /\ tx[t].outcome = "none"
  BY <1>1, OwnFacts DEF Active, Prepared
<1>3. ASSUME NEW p \in Keys PROVE Content(p)' = Content(p)
  <2>1. CASE p \notin tx[t].changed
    BY <1>1, <1>2, <2>1, OtherFilesAreKept
  <2>2. CASE p \in tx[t].changed
    <3>1. p \in tx[t].paths
      BY <2>2, OwnFacts
    <3>2. ~Writing(t, p) /\ (Writing(t, p)' <=> r.pc \in {"writing", "rollback"})
      BY <1>1, <1>2, <2>2 DEF Writing
    <3>3. r.pc = "writing" => file[p] = tx[t].originals[p]
      BY <1>1, <3>1, OwnFacts DEF Prepared
    <3> QED BY <1>1, <1>2, <3>1, <3>2, <3>3, ContentOfOwner
  <2> QED BY <2>1, <2>2
<1>4. CASE r.outcome = tx[t].outcome
  <2>1. \A u \in Transactions : tx'[u].outcome = tx[u].outcome
    BY <1>2, <1>4
  <2> QED BY <1>3, <2>1, AbstractStutter
<1>5. CASE r.outcome \in {"committed", "aborted"}
  <2>1. \A p \in Keys : Content(p)' = IF p \in {} THEN Content(p) \cup {t} ELSE Content(p)
    BY <1>3
  <2>2. {} \in SUBSET Keys
    OBVIOUS
  <2> QED BY <1>2, <1>5, <2>1, <2>2, AbstractStep
<1> QED BY <1>1, <1>4, <1>5

(* What the commit or the rollback of a transaction shows: the originals while it lasts, then the files. *)
LEMMA CommitShows ==
  ASSUME TInv, TInv', NEW t \in Transactions, tx[t].pc \in {"writing", "rollback"},
         \A u \in Transactions \ {t} : tx'[u] = tx[u],
         tx'[t].changed = tx[t].changed, tx'[t].originals = tx[t].originals,
         \A p \in Keys \ tx[t].changed : file'[p] = file[p]
  PROVE  /\ tx[t].outcome = "none"
         /\ \A p \in Keys \ tx[t].changed : Content(p)' = Content(p)
         /\ \A p \in tx[t].changed :
              /\ Content(p) = tx[t].originals[p]
              /\ Content(p)' = IF tx'[t].pc \in {"writing", "rollback"} THEN tx[t].originals[p] ELSE file'[p]
<1>1. tx[t].pc \in Active /\ tx[t].outcome = "none"
  BY OwnFacts DEF Active, Prepared
<1>2. \A p \in Keys \ tx[t].changed : Content(p)' = Content(p)
  BY <1>1, OtherFilesAreKept
<1>3. ASSUME NEW p \in tx[t].changed
      PROVE  /\ Content(p) = tx[t].originals[p]
             /\ Content(p)' = IF tx'[t].pc \in {"writing", "rollback"} THEN tx[t].originals[p] ELSE file'[p]
  <2>1. p \in tx[t].paths /\ Writing(t, p) /\ (Writing(t, p)' <=> tx'[t].pc \in {"writing", "rollback"})
    BY <1>1, OwnFacts DEF Writing
  <2> QED BY <1>1, <2>1, ContentOfOwner
<1> QED BY <1>1, <1>2, <1>3

LEMMA CommitGoesOn ==
  ASSUME TInv, TInv', NEW t \in Transactions, tx[t].pc \in {"writing", "rollback"},
         \A u \in Transactions \ {t} : tx'[u] = tx[u],
         tx'[t].changed = tx[t].changed, tx'[t].originals = tx[t].originals,
         \A p \in Keys \ tx[t].changed : file'[p] = file[p],
         tx'[t].pc \in {"writing", "rollback"}, tx'[t].outcome = "none"
  PROVE  UNCHANGED Atomic!atomicVars
<1>1. /\ tx[t].outcome = "none"
      /\ \A p \in Keys \ tx[t].changed : Content(p)' = Content(p)
      /\ \A p \in tx[t].changed : Content(p) = tx[t].originals[p] /\ Content(p)' = tx[t].originals[p]
  BY CommitShows
<1>2. \A p \in Keys : Content(p)' = Content(p)
  BY <1>1
<1>3. \A u \in Transactions : tx'[u].outcome = tx[u].outcome
  BY <1>1
<1> QED BY <1>2, <1>3, AbstractStutter

LEMMA CommitEnds ==
  ASSUME TInv, TInv', NEW t \in Transactions, tx[t].pc \in {"writing", "rollback"},
         \A u \in Transactions \ {t} : tx'[u] = tx[u],
         tx'[t].changed = tx[t].changed, tx'[t].originals = tx[t].originals,
         \A p \in Keys \ tx[t].changed : file'[p] = file[p],
         NEW edited \in SUBSET tx[t].changed, tx'[t].pc = "releasing",
         \A p \in tx[t].changed :
           file'[p] = IF p \in edited THEN tx[t].originals[p] \cup {t} ELSE tx[t].originals[p],
         \/ tx'[t].outcome = "committed"
         \/ tx'[t].outcome = "aborted" /\ edited = {}
         \/ tx'[t].outcome = "torn" /\ edited # {}
  PROVE  Atomic!AtomicNext
<1>1. /\ tx[t].outcome = "none"
      /\ \A p \in Keys \ tx[t].changed : Content(p)' = Content(p)
      /\ \A p \in tx[t].changed : Content(p) = tx[t].originals[p] /\ Content(p)' = file'[p]
  BY CommitShows
<1>2. ASSUME NEW p \in Keys PROVE Content(p)' = IF p \in edited THEN Content(p) \cup {t} ELSE Content(p)
  <2>1. CASE p \in tx[t].changed
    BY <1>1, <2>1
  <2>2. CASE p \notin tx[t].changed
    BY <1>1, <2>2
  <2> QED BY <2>1, <2>2
<1>3. edited \in SUBSET Keys
  BY OwnFacts
<1> QED BY <1>1, <1>2, <1>3, AbstractStep

LEMMA WriteDocumentIsAbstract ==
  ASSUME TInv, TInv', NEW t \in Transactions, WriteDocument(t)
  PROVE  [Atomic!AtomicNext]_(Atomic!atomicVars)
<1>1. PICK p \in Unwritten(t) :
        /\ file' = [file EXCEPT ![p] = tx[t].originals[p] \cup {t}]
        /\ tx' = [tx EXCEPT ![t] = [tx[t] EXCEPT !.written = Append(@, p), !.pc = CompletedAfter(t, p),
                                                 !.outcome = IF Unwritten(t) = {p} THEN "committed" ELSE @]]
  BY DEF WriteDocument, SetTx
<1> DEFINE r == [tx[t] EXCEPT !.written = Append(@, p), !.pc = CompletedAfter(t, p),
                              !.outcome = IF Unwritten(t) = {p} THEN "committed" ELSE @]
<1>2. /\ tx[t].pc = "writing" /\ p \in tx[t].changed /\ tx[t].outcome = "none"
      /\ tx[t].changed \subseteq Keys /\ ~tx[t].rollbackFailed
  BY OwnFacts DEF WriteDocument, Unwritten, Prepared, Journal
<1>3. /\ r.pc = (IF Unwritten(t) = {p} THEN "releasing" ELSE "writing")
      /\ r.outcome = (IF Unwritten(t) = {p} THEN "committed" ELSE "none")
      /\ r.changed = tx[t].changed /\ r.originals = tx[t].originals
  BY <1>2, OwnFacts DEF CompletedAfter, TransactionRecords
<1> HIDE DEF r
<1>4. \A q \in Keys : file'[q] = IF q = p THEN tx[t].originals[p] \cup {t} ELSE file[q]
  BY <1>1, OwnFacts
<1>5. Unwritten(t) = {p} => \A q \in tx[t].changed : file'[q] = tx[t].originals[q] \cup {t}
  <2>1. Unwritten(t) = {p} => \A q \in tx[t].changed : q = p \/ q \in ToSet(tx[t].written)
    BY DEF Unwritten
  <2> QED BY <1>2, <1>4, <2>1, OwnFacts DEF Journal
<1>6. tx'[t] = r /\ \A u \in Transactions \ {t} : tx'[u] = tx[u]
  BY <1>1, OwnFacts DEF r
<1>7. tx[t].changed \in SUBSET tx[t].changed /\ \A q \in Keys \ tx[t].changed : file'[q] = file[q]
  BY <1>2, <1>4
<1>8. CASE Unwritten(t) # {p}
  BY <1>2, <1>3, <1>6, <1>7, <1>8, CommitGoesOn
<1>9. CASE Unwritten(t) = {p}
  BY <1>2, <1>3, <1>5, <1>6, <1>7, <1>9, CommitEnds
<1> QED BY <1>8, <1>9

(* The last step of a rollback: the files that still show the edit are those that could not be put back. *)
LEMMA RollbackIsAbstract ==
  ASSUME TInv, TInv', NEW t \in Transactions, WriteFails(t) \/ RestoreOriginal(t) \/ RestoreFails(t)
  PROVE  [Atomic!AtomicNext]_(Atomic!atomicVars)
<1>1. PICK b \in TransactionRecords, p \in Keys \cup {None} :
        /\ b.pc = "rollback" /\ b.changed = tx[t].changed /\ b.originals = tx[t].originals
        /\ b.outcome = tx[t].outcome
        /\ tx' = [tx EXCEPT ![t] = RolledBack(t, b)]
        /\ \/ file' = file /\ b.written = tx[t].written /\ b.rollbackFailed = tx[t].rollbackFailed
              /\ tx[t].pc = "writing"
           \/ /\ tx[t].pc = "rollback" /\ ToSet(b.written) = ToSet(tx[t].written) \ {p}
              /\ p \in Keys /\ p \in ToSet(tx[t].written)
              /\ \/ file' = [file EXCEPT ![p] = tx[t].originals[p]] /\ b.rollbackFailed = tx[t].rollbackFailed
                 \/ file' = file /\ b.rollbackFailed
  <2>1. CASE WriteFails(t)
    <3> DEFINE b == [tx[t] EXCEPT !.pc = "rollback"]
    <3>1. /\ b \in TransactionRecords
          /\ b.pc = "rollback" /\ b.changed = tx[t].changed /\ b.originals = tx[t].originals
          /\ b.outcome = tx[t].outcome /\ b.written = tx[t].written /\ b.rollbackFailed = tx[t].rollbackFailed
      BY OwnFacts DEF TransactionRecords
    <3>2. tx' = [tx EXCEPT ![t] = RolledBack(t, b)] /\ file' = file /\ tx[t].pc = "writing"
      BY <2>1 DEF WriteFails, SetTx
    <3> HIDE DEF b
    <3> QED BY <3>1, <3>2
  <2>2. ASSUME tx[t].pc = "rollback"
        PROVE  /\ Front(tx[t].written) \in Seq(Keys)
               /\ Last(tx[t].written) \in Keys /\ Last(tx[t].written) \in ToSet(tx[t].written)
               /\ ToSet(Front(tx[t].written)) = ToSet(tx[t].written) \ {Last(tx[t].written)}
    <3>1. /\ tx[t].written \in Seq(Keys) /\ tx[t].written # <<>>
          /\ \A i, j \in 1..Len(tx[t].written) : tx[t].written[i] = tx[t].written[j] => i = j
      BY <2>2, OwnFacts DEF Journal
    <3> QED BY <3>1, FrontOfJournal
  <2>3. CASE RestoreOriginal(t)
    <3> DEFINE b == [tx[t] EXCEPT !.written = Front(@)]
    <3>1. tx[t].pc = "rollback" /\ tx' = [tx EXCEPT ![t] = RolledBack(t, b)]
          /\ file' = [file EXCEPT ![Last(tx[t].written)] = tx[t].originals[Last(tx[t].written)]]
      BY <2>3 DEF RestoreOriginal, AfterRestore, SetTx
    <3>2. /\ b \in TransactionRecords
          /\ b.pc = "rollback" /\ b.changed = tx[t].changed /\ b.originals = tx[t].originals
          /\ b.outcome = tx[t].outcome /\ b.written = Front(tx[t].written) /\ b.rollbackFailed = tx[t].rollbackFailed
      BY <2>2, <3>1, OwnFacts DEF TransactionRecords
    <3> HIDE DEF b
    <3> QED BY <2>2, <3>1, <3>2
  <2>4. CASE RestoreFails(t)
    <3> DEFINE b == [tx[t] EXCEPT !.written = Front(@), !.rollbackFailed = TRUE]
    <3>1. tx[t].pc = "rollback" /\ tx' = [tx EXCEPT ![t] = RolledBack(t, b)] /\ file' = file
      BY <2>4 DEF RestoreFails, SetTx
    <3>2. /\ b \in TransactionRecords
          /\ b.pc = "rollback" /\ b.changed = tx[t].changed /\ b.originals = tx[t].originals
          /\ b.outcome = tx[t].outcome /\ b.written = Front(tx[t].written) /\ b.rollbackFailed = TRUE
      BY <2>2, <3>1, OwnFacts DEF TransactionRecords
    <3> HIDE DEF b
    <3> QED BY <2>2, <3>1, <3>2
  <2> QED BY <2>1, <2>3, <2>4
<1> DEFINE r == RolledBack(t, b)
<1>2. /\ r.changed = tx[t].changed /\ r.originals = tx[t].originals
      /\ b.written # <<>> => r.pc = "rollback" /\ r.outcome = tx[t].outcome
      /\ b.written = <<>> => r.pc = "releasing" /\ r.outcome = IF b.rollbackFailed THEN "torn" ELSE "aborted"
  BY <1>1, RolledBackIsSound
<1> HIDE DEF r
<1>3. /\ tx[t].outcome = "none" /\ tx[t].pc \in {"writing", "rollback"}
      /\ tx[t].changed \subseteq Keys /\ ToSet(tx[t].written) \subseteq tx[t].changed
  BY <1>1, OwnFacts DEF Prepared, Journal
<1>4. /\ \A q \in Keys \ tx[t].changed : file'[q] = file[q]
      /\ \A q \in Keys : q # p => file'[q] = file[q]
  BY <1>1, <1>3, OwnFacts
<1> DEFINE edited == {q \in tx[t].changed : file'[q] = tx[t].originals[q] \cup {t} /\ b.rollbackFailed}
<1>5. ASSUME b.written = <<>>
      PROVE  /\ \A q \in tx[t].changed :
                  file'[q] = IF q \in edited THEN tx[t].originals[q] \cup {t} ELSE tx[t].originals[q]
             /\ b.rollbackFailed => edited # {}
             /\ ~b.rollbackFailed => edited = {}
  <2>1. CASE tx[t].pc = "writing"
    <3>1. /\ ToSet(tx[t].written) = {} /\ file' = file /\ b.rollbackFailed = tx[t].rollbackFailed
          /\ ~tx[t].rollbackFailed
      BY <1>1, <1>5, <2>1, EmptyJournal, OwnFacts DEF Journal
    <3>2. \A q \in tx[t].changed : file'[q] = tx[t].originals[q]
      BY <2>1, <3>1, OwnFacts DEF Journal
    <3> QED BY <3>1, <3>2
  <2>2. CASE tx[t].pc = "rollback"
    <3>1. ToSet(tx[t].written) = {p} /\ p \in Keys /\ p \in tx[t].changed
      BY <1>1, <1>3, <1>5, <2>2, EmptyJournal
    <3>2. \A q \in tx[t].changed \ {p} :
            file'[q] = tx[t].originals[q] \/ (tx[t].rollbackFailed /\ file'[q] = tx[t].originals[q] \cup {t})
      BY <1>3, <1>4, <2>2, <3>1, OwnFacts DEF Journal
    <3>3. tx[t].rollbackFailed => \E q \in tx[t].changed \ {p} : file'[q] = tx[t].originals[q] \cup {t}
      <4> SUFFICES ASSUME tx[t].rollbackFailed
                   PROVE  \E q \in tx[t].changed \ {p} : file'[q] = tx[t].originals[q] \cup {t}
        OBVIOUS
      <4>1. Unrestored(t) # {}
        BY <2>2, OwnFacts DEF Journal
      <4>2. PICK q \in tx[t].changed \ {p} : file[q] = tx[t].originals[q] \cup {t}
        BY <3>1, <4>1 DEF Unrestored
      <4>3. file'[q] = file[q]
        BY <1>3, <1>4
      <4> QED BY <4>2, <4>3
    <3>4. CASE file' = [file EXCEPT ![p] = tx[t].originals[p]] /\ b.rollbackFailed = tx[t].rollbackFailed
      <4>1. file'[p] = tx[t].originals[p]
        BY <3>1, <3>4, OwnFacts
      <4> QED BY <3>1, <3>2, <3>3, <3>4, <4>1
    <3>5. CASE file' = file /\ b.rollbackFailed
      <4>1. file'[p] = tx[t].originals[p] \cup {t}
        BY <2>2, <3>1, <3>5, OwnFacts DEF Journal
      <4> QED BY <3>1, <3>2, <3>5, <4>1
    <3> QED BY <1>1, <2>2, <3>4, <3>5
  <2> QED BY <1>3, <2>1, <2>2
<1>6. edited \in SUBSET tx[t].changed
  OBVIOUS
<1>7. tx'[t] = r /\ \A u \in Transactions \ {t} : tx'[u] = tx[u]
  BY <1>1, OwnFacts DEF r
<1> HIDE DEF edited
<1>8. CASE b.written # <<>>
  BY <1>2, <1>3, <1>4, <1>7, <1>8, CommitGoesOn
<1>9. CASE b.written = <<>>
  <2>1. \/ r.outcome = "aborted" /\ edited = {}
        \/ r.outcome = "torn" /\ edited # {}
    BY <1>2, <1>5, <1>9
  <2> QED BY <1>2, <1>3, <1>4, <1>5, <1>6, <1>7, <1>9, <2>1, CommitEnds
<1> QED BY <1>8, <1>9

(* JsonFile.transaction keeps its promise (json-file.ts, transaction): seen through the locks, each transaction changes
   all of its files or none, or tells its caller that its own rollback failed, whatever runs and fails beside it. *)
THEOREM TransactionsAreAtomic == TransactionSpec => IsAtomic
<1>1. TransactionInit => Atomic!AtomicInit
  <2> SUFFICES ASSUME TransactionInit PROVE Atomic!AtomicInit
    OBVIOUS
  <2>1. \A t \in Transactions, p \in Keys : ~Writing(t, p)
    BY DEF TransactionInit, NewTransaction, Writing
  <2> QED BY <2>1 DEF TransactionInit, NewTransaction, Atomic!AtomicInit
<1>2. TInv /\ TInv' /\ [TransactionNext]_transactionVars => [Atomic!AtomicNext]_(Atomic!atomicVars)
  <2> SUFFICES ASSUME TInv, TInv', [TransactionNext]_transactionVars
               PROVE  [Atomic!AtomicNext]_(Atomic!atomicVars)
    OBVIOUS
  <2>1. CASE UNCHANGED transactionVars
    BY <2>1 DEF transactionVars, txVars, Atomic!atomicVars, Writing
  <2>2. ASSUME NEW t \in Transactions, Begin(t) \/ TransactionStep(t) \/ Failure(t)
        PROVE  [Atomic!AtomicNext]_(Atomic!atomicVars)
    BY <2>2, EarlyStepsAreHidden, EditingIsAbstract, WriteDocumentIsAbstract, RollbackIsAbstract
       DEF TransactionStep, Failure
  <2> QED BY <2>1, <2>2 DEF TransactionNext
<1> QED BY <1>1, <1>2, TransactionInvariance, PTL DEF TransactionSpec, IsAtomic, Atomic!AtomicSpec

=============================================================================
