--------------------------- MODULE RWLockProofs ---------------------------
(***************************************************************************)
(* Mutual exclusion and the absence of lost wake-ups of RWLock, for every  *)
(* set of keys and requests.  Neither is inductive: a disposer changes the *)
(* object it was given and processes the object that is now the entry of   *)
(* its key.  The invariant adds that the two are the same (Attached), that *)
(* the counters of an object say who holds it (Counted), and that its      *)
(* queues hold the requests that wait for it (Queued).                     *)
(***************************************************************************)
EXTENDS RWLock, FiniteSetTheorems, SequenceTheorems, TLAPS

Holders(o, m) == {q \in Requests : request[q].state = "holding" /\ request[q].object = o /\ request[q].mode = m}

Waiters(o, m) == {q \in Requests : request[q].state = "waiting" /\ request[q].object = o /\ request[q].mode = m}

(* The object of a request is the entry of its key, and keys share no object. *)
Attached ==
  /\ \A q \in Requests : request[q].state # "idle" =>
       /\ request[q].key \in Keys
       /\ request[q].mode \in Modes
       /\ request[q].object \in Objects
       /\ entry[request[q].key] = request[q].object
  /\ \A k, j \in Keys : entry[k] = entry[j] /\ entry[k] # None => k = j

(* The counters of an object that is an entry say who holds it. *)
Counted(o) ==
  /\ lock[o].readers = Cardinality(Holders(o, "read"))
  /\ lock[o].writer <=> Holders(o, "write") # {}
  /\ lock[o].writer => lock[o].readers = 0
  /\ \A p, q \in Holders(o, "write") : p = q

(* Its queues hold those who wait for it, and somebody waits only for a lock that is held. *)
Queued(o) ==
  /\ lock[o].waitingReaders = Waiters(o, "read")
  /\ \A i \in 1..Len(lock[o].waitingWriters) : lock[o].waitingWriters[i] \in Waiters(o, "write")
  /\ \A q \in Waiters(o, "write") : \E i \in 1..Len(lock[o].waitingWriters) : lock[o].waitingWriters[i] = q
  /\ \A i, j \in 1..Len(lock[o].waitingWriters) :
       lock[o].waitingWriters[i] = lock[o].waitingWriters[j] => i = j
  /\ lock[o].waitingWriters # <<>> => Held(lock[o])
  /\ lock[o].waitingReaders # {} => Held(lock[o])

IInv ==
  /\ LockTypeOK
  /\ Attached
  /\ \A k \in Keys, o \in Objects : entry[k] = o => Counted(o) /\ Queued(o)

-----------------------------------------------------------------------------
LEMMA LocksAreRecords ==
  ASSUME LockTypeOK, NEW o \in Objects
  PROVE  /\ lock[o] \in Locks
         /\ lock[o].readers \in Nat /\ lock[o].writer \in BOOLEAN
         /\ lock[o].waitingReaders \in SUBSET Requests
         /\ lock[o].waitingWriters \in Seq(Requests)
BY DEF LockTypeOK, Locks

LEMMA HoldersAreFinite ==
  ASSUME NEW o, NEW m
  PROVE  IsFiniteSet(Holders(o, m)) /\ IsFiniteSet(Waiters(o, m))
<1>1. Holders(o, m) \subseteq Requests /\ Waiters(o, m) \subseteq Requests
  BY DEF Holders, Waiters
<1> QED BY <1>1, LockAssumption, FS_Subset

(* An object that no changed request refers to, before or after the step, stays as it was. *)
LEMMA Untouched ==
  ASSUME NEW o, lock'[o] = lock[o], Counted(o), Queued(o),
         \A q \in Requests :
           \/ request'[q] = request[q]
           \/ /\ request[q].state = "idle" \/ request[q].object # o
              /\ request'[q].state = "idle" \/ request'[q].object # o
  PROVE  Counted(o)' /\ Queued(o)'
<1>1. \A m : Holders(o, m)' = Holders(o, m) /\ Waiters(o, m)' = Waiters(o, m)
  BY DEF Holders, Waiters
<1> QED BY <1>1 DEF Counted, Queued, Held

(* A fresh object is held and awaited by nobody; the object of an entry satisfies the invariant. *)
LEMMA FetchedIsSound ==
  ASSUME IInv, NEW k \in Keys, NEW o \in Get(k)
  PROVE  /\ o \in Objects
         /\ Fetched(k, o) \in Locks
         /\ entry[k] \in {None, o}
         /\ \A j \in Keys : j # k => entry[j] # o
         /\ Fetched(k, o).readers = Cardinality(Holders(o, "read"))
         /\ Fetched(k, o).writer <=> Holders(o, "write") # {}
         /\ Fetched(k, o).writer => Fetched(k, o).readers = 0
         /\ \A p, q \in Holders(o, "write") : p = q
         /\ Fetched(k, o).waitingReaders = Waiters(o, "read")
         /\ \A i \in 1..Len(Fetched(k, o).waitingWriters) : Fetched(k, o).waitingWriters[i] \in Waiters(o, "write")
         /\ \A q \in Waiters(o, "write") :
              \E i \in 1..Len(Fetched(k, o).waitingWriters) : Fetched(k, o).waitingWriters[i] = q
         /\ \A i, j \in 1..Len(Fetched(k, o).waitingWriters) :
              Fetched(k, o).waitingWriters[i] = Fetched(k, o).waitingWriters[j] => i = j
         /\ Fetched(k, o).waitingWriters # <<>> => Held(Fetched(k, o))
         /\ Fetched(k, o).waitingReaders # {} => Held(Fetched(k, o))
<1>1. CASE entry[k] = None
  <2>1. o \in Objects /\ o \notin Referenced /\ Fetched(k, o) = Unlocked
    BY <1>1 DEF Get, Fetched
  <2>2. \A m : Holders(o, m) = {} /\ Waiters(o, m) = {}
    BY <2>1 DEF Holders, Waiters, Referenced
  <2>3. Cardinality({}) = 0 BY FS_EmptySet
  <2>4. Unlocked \in Locks /\ Unlocked.readers = 0 /\ ~Unlocked.writer /\ Unlocked.waitingReaders = {}
        /\ Unlocked.waitingWriters = <<>>
    BY DEF Unlocked, Locks
  <2>5. \A j \in Keys : j # k => entry[j] # o
    BY <2>1 DEF Referenced
  <2>6. Holders(o, "read") = {} /\ Holders(o, "write") = {} /\ Waiters(o, "read") = {} /\ Waiters(o, "write") = {}
    BY <2>2
  <2>7. Cardinality(Holders(o, "read")) = 0
    BY <2>3, <2>6
  <2>8. 1..Len(Fetched(k, o).waitingWriters) = {}
    BY <2>1, <2>4
  <2> QED BY <1>1, <2>1, <2>4, <2>5, <2>6, <2>7, <2>8
<1>2. CASE entry[k] # None
  <2>1. o = entry[k] /\ Fetched(k, o) = lock[o] /\ o \in Objects
    BY <1>2 DEF Get, Fetched, IInv, LockTypeOK
  <2>2. Counted(o) /\ Queued(o)
    BY <2>1 DEF IInv
  <2>3. \A j \in Keys : j # k => entry[j] # o
    BY <1>2, <2>1 DEF IInv, Attached
  <2>4. lock[o] \in Locks
    BY <2>1, LocksAreRecords DEF IInv
  <2> QED BY <2>1, <2>2, <2>3, <2>4 DEF Counted, Queued
<1> QED BY <1>1, <1>2

-----------------------------------------------------------------------------
LEMMA LockInitHolds == LockInit => IInv
<1> SUFFICES ASSUME LockInit PROVE IInv OBVIOUS
<1>1. LockTypeOK
  BY DEF LockInit, LockTypeOK, Locks, Unlocked, Idle
<1>2. Attached /\ \A k \in Keys : entry[k] = None
  BY DEF LockInit, Attached, Idle
<1> QED BY <1>1, <1>2, LockAssumption DEF IInv

(* What Read and Write have in common: a request joins the holders or the waiters of its key's object. *)
LEMMA JoinKeepsAttached ==
  ASSUME IInv, NEW q \in Requests, NEW k \in Keys, NEW o \in Get(k), NEW m \in Modes, NEW granted \in BOOLEAN,
         NEW l \in Locks, request[q].state = "idle",
         entry' = [entry EXCEPT ![k] = o], lock' = [lock EXCEPT ![o] = l],
         request' = [request EXCEPT ![q] = Entitled(m, k, o, granted)],
         Counted(o)', Queued(o)'
  PROVE  IInv'
<1>1. o \in Objects /\ entry[k] \in {None, o} /\ \A j \in Keys : j # k => entry[j] # o
  BY FetchedIsSound
<1>2. Entitled(m, k, o, granted).state \in {"waiting", "holding"} /\ Entitled(m, k, o, granted).mode = m
      /\ Entitled(m, k, o, granted).key = k /\ Entitled(m, k, o, granted).object = o
  BY DEF Entitled
<1>3. LockTypeOK'
  BY <1>1 DEF IInv, LockTypeOK, Entitled, Modes
<1>4. Attached'
  <2>1. \A p \in Requests : p # q => request'[p] = request[p]
    BY DEF IInv, LockTypeOK
  <2>2. request'[q] = Entitled(m, k, o, granted)
    BY DEF IInv, LockTypeOK
  <2>3. entry'[k] = o /\ \A j \in Keys : j # k => entry'[j] = entry[j]
    BY DEF IInv, LockTypeOK
  <2>4. \A p \in Requests : request'[p].state # "idle" =>
          /\ request'[p].key \in Keys /\ request'[p].mode \in Modes /\ request'[p].object \in Objects
          /\ entry'[request'[p].key] = request'[p].object
    <3> SUFFICES ASSUME NEW p \in Requests, request'[p].state # "idle"
                 PROVE  /\ request'[p].key \in Keys /\ request'[p].mode \in Modes /\ request'[p].object \in Objects
                        /\ entry'[request'[p].key] = request'[p].object
      OBVIOUS
    <3>1. CASE p = q BY <3>1, <1>1, <1>2, <2>2, <2>3
    <3>2. CASE p # q
      <4>1. request'[p] = request[p] BY <3>2, <2>1
      <4>2. request[p].key \in Keys /\ request[p].mode \in Modes /\ request[p].object \in Objects
            /\ entry[request[p].key] = request[p].object
        BY <4>1 DEF IInv, Attached
      <4>3. request[p].key = k => request[p].object = o
        BY <4>2, <1>1, LockAssumption
      <4> QED BY <4>1, <4>2, <4>3, <2>3
    <3> QED BY <3>1, <3>2
  <2>5. \A i, j \in Keys : entry'[i] = entry'[j] /\ entry'[i] # None => i = j
    BY <1>1, <2>3 DEF IInv, Attached
  <2> QED BY <2>4, <2>5 DEF Attached
<1>5. ASSUME NEW j \in Keys, NEW e \in Objects, entry'[j] = e PROVE Counted(e)' /\ Queued(e)'
  <2>1. CASE j = k
    <3>1. e = o BY <2>1, <1>5 DEF IInv, LockTypeOK
    <3> QED BY <3>1
  <2>2. CASE j # k
    <3>1. entry[j] = e /\ e # o
      BY <2>2, <1>1, <1>5 DEF IInv, LockTypeOK
    <3>2. Counted(e) /\ Queued(e) /\ lock'[e] = lock[e]
      BY <3>1 DEF IInv, LockTypeOK
    <3>3. \A p \in Requests : p # q => request'[p] = request[p]
      BY DEF IInv, LockTypeOK
    <3>4. request'[q].object = o
      BY <1>2 DEF IInv, LockTypeOK
    <3>5. \A p \in Requests :
           \/ request'[p] = request[p]
           \/ /\ request[p].state = "idle" \/ request[p].object # e
              /\ request'[p].state = "idle" \/ request'[p].object # e
      BY <3>1, <3>3, <3>4
    <3> QED BY <3>2, <3>5, Untouched
  <2> QED BY <2>1, <2>2
<1> QED BY <1>3, <1>4, <1>5 DEF IInv

LEMMA ReadKeepsInvariant ==
  ASSUME IInv, NEW q \in Requests, NEW k \in Keys, Read(q, k)
  PROVE  IInv'
<1>1. PICK o \in Get(k) :
        /\ entry' = [entry EXCEPT ![k] = o]
        /\ lock' = [lock EXCEPT ![o] = IF AdmitsReader(Fetched(k, o)) THEN [Fetched(k, o) EXCEPT !.readers = @ + 1]
                                       ELSE [Fetched(k, o) EXCEPT !.waitingReaders = @ \cup {q}]]
        /\ request' = [request EXCEPT ![q] = Entitled("read", k, o, AdmitsReader(Fetched(k, o)))]
  BY DEF Read
<1> DEFINE l == Fetched(k, o)
<1> DEFINE new == IF AdmitsReader(l) THEN [l EXCEPT !.readers = @ + 1] ELSE [l EXCEPT !.waitingReaders = @ \cup {q}]
<1>2. o \in Objects /\ l \in Locks /\ request[q].state = "idle" /\ AdmitsReader(l) \in BOOLEAN
  BY FetchedIsSound DEF Read, AdmitsReader, Locks
<1>3. new \in Locks /\ lock'[o] = new
  <2>1. new \in Locks
    BY <1>2 DEF Locks
  <2> HIDE DEF new
  <2>2. lock' = [lock EXCEPT ![o] = new]
    BY <1>1 DEF new
  <2> QED BY <1>2, <2>1, <2>2 DEF IInv, LockTypeOK
<1>4. /\ q \notin Holders(o, "read")
      /\ Holders(o, "read")' = IF AdmitsReader(l) THEN Holders(o, "read") \cup {q} ELSE Holders(o, "read")
      /\ Waiters(o, "read")' = IF AdmitsReader(l) THEN Waiters(o, "read") ELSE Waiters(o, "read") \cup {q}
      /\ Holders(o, "write")' = Holders(o, "write") /\ Waiters(o, "write")' = Waiters(o, "write")
  <2>1. /\ \A p \in Requests : p # q => request'[p] = request[p]
        /\ request'[q] = Entitled("read", k, o, AdmitsReader(l))
    BY <1>1 DEF IInv, LockTypeOK
  <2>2. /\ request'[q].state = IF AdmitsReader(l) THEN "holding" ELSE "waiting"
        /\ request'[q].object = o /\ request'[q].mode = "read"
    BY <2>1 DEF Entitled
  <2>3. request[q].state = "idle" /\ \A p \in Requests : p # q => request'[p] = request[p]
    BY <1>2, <2>1
  <2> HIDE DEF l
  <2>4. q \notin Holders(o, "read") /\ q \notin Waiters(o, "read")
    BY <2>3 DEF Holders, Waiters
  <2>5. Holders(o, "read")' = IF AdmitsReader(l) THEN Holders(o, "read") \cup {q} ELSE Holders(o, "read")
    BY <2>2, <2>3 DEF Holders
  <2>6. Waiters(o, "read")' = IF AdmitsReader(l) THEN Waiters(o, "read") ELSE Waiters(o, "read") \cup {q}
    BY <2>2, <2>3 DEF Waiters
  <2>7. Holders(o, "write")' = Holders(o, "write") /\ Waiters(o, "write")' = Waiters(o, "write")
    BY <2>2, <2>3 DEF Holders, Waiters
  <2> QED BY <2>4, <2>5, <2>6, <2>7
<1>5. Cardinality(Holders(o, "read") \cup {q}) = Cardinality(Holders(o, "read")) + 1
  BY <1>4, HoldersAreFinite, FS_AddElement
<1>6. CASE AdmitsReader(l)
  <2>1. new.readers = l.readers + 1 /\ new.writer = l.writer /\ new.waitingReaders = l.waitingReaders
        /\ new.waitingWriters = l.waitingWriters /\ ~l.writer /\ l.waitingWriters = <<>>
    BY <1>2, <1>6 DEF Locks, AdmitsReader
  <2>2. Counted(o)'
    <3>1. l.readers = Cardinality(Holders(o, "read")) /\ (l.writer <=> Holders(o, "write") # {})
          /\ \A p1, p2 \in Holders(o, "write") : p1 = p2
      BY <1>2, FetchedIsSound
    <3>2. Cardinality(Holders(o, "read")') = l.readers + 1
      BY <1>4, <1>5, <1>6, <3>1
    <3> QED BY <1>3, <1>4, <2>1, <3>1, <3>2 DEF Counted
  <2>3. Queued(o)'
    BY <1>3, <1>4, <1>6, <2>1, <1>2, FetchedIsSound DEF Queued, Held, Locks
  <2> QED BY <1>1, <1>2, <1>3, <2>2, <2>3, JoinKeepsAttached DEF Modes
<1>7. CASE ~AdmitsReader(l)
  <2>1. new.readers = l.readers /\ new.writer = l.writer /\ new.waitingReaders = l.waitingReaders \cup {q}
        /\ new.waitingWriters = l.waitingWriters /\ (l.writer \/ l.waitingWriters # <<>>)
    BY <1>2, <1>7 DEF Locks, AdmitsReader
  <2>2. Counted(o)'
    BY <1>3, <1>4, <1>7, <2>1, <1>2, FetchedIsSound DEF Counted
  <2>3. Queued(o)'
    BY <1>3, <1>4, <1>7, <2>1, <1>2, FetchedIsSound DEF Queued, Held
  <2> QED BY <1>1, <1>2, <1>3, <2>2, <2>3, JoinKeepsAttached DEF Modes
<1> QED BY <1>6, <1>7

LEMMA WriteKeepsInvariant ==
  ASSUME IInv, NEW q \in Requests, NEW k \in Keys, Write(q, k)
  PROVE  IInv'
<1>1. PICK o \in Get(k) :
        /\ entry' = [entry EXCEPT ![k] = o]
        /\ lock' = [lock EXCEPT ![o] = IF AdmitsWriter(Fetched(k, o)) THEN [Fetched(k, o) EXCEPT !.writer = TRUE]
                                       ELSE [Fetched(k, o) EXCEPT !.waitingWriters = Append(@, q)]]
        /\ request' = [request EXCEPT ![q] = Entitled("write", k, o, AdmitsWriter(Fetched(k, o)))]
  BY DEF Write
<1> DEFINE l == Fetched(k, o)
<1> DEFINE new == IF AdmitsWriter(l) THEN [l EXCEPT !.writer = TRUE] ELSE [l EXCEPT !.waitingWriters = Append(@, q)]
<1>2. o \in Objects /\ l \in Locks /\ request[q].state = "idle" /\ AdmitsWriter(l) \in BOOLEAN
  BY FetchedIsSound DEF Write, AdmitsWriter, Locks
<1>3. new \in Locks /\ lock'[o] = new
  <2>1. new \in Locks
    <3>1. Append(l.waitingWriters, q) \in Seq(Requests)
      BY <1>2 DEF Locks
    <3> QED BY <1>2, <3>1 DEF Locks
  <2> HIDE DEF new
  <2>2. lock' = [lock EXCEPT ![o] = new]
    BY <1>1 DEF new
  <2> QED BY <1>2, <2>1, <2>2 DEF IInv, LockTypeOK
<1>4. /\ q \notin Holders(o, "write") /\ q \notin Waiters(o, "write")
      /\ Holders(o, "write")' = IF AdmitsWriter(l) THEN Holders(o, "write") \cup {q} ELSE Holders(o, "write")
      /\ Waiters(o, "write")' = IF AdmitsWriter(l) THEN Waiters(o, "write") ELSE Waiters(o, "write") \cup {q}
      /\ Holders(o, "read")' = Holders(o, "read") /\ Waiters(o, "read")' = Waiters(o, "read")
  <2>1. /\ \A p \in Requests : p # q => request'[p] = request[p]
        /\ request'[q] = Entitled("write", k, o, AdmitsWriter(l))
    BY <1>1 DEF IInv, LockTypeOK
  <2>2. /\ request'[q].state = IF AdmitsWriter(l) THEN "holding" ELSE "waiting"
        /\ request'[q].object = o /\ request'[q].mode = "write"
    BY <2>1 DEF Entitled
  <2>3. request[q].state = "idle" /\ \A p \in Requests : p # q => request'[p] = request[p]
    BY <1>2, <2>1
  <2> HIDE DEF l
  <2>4. q \notin Holders(o, "write") /\ q \notin Waiters(o, "write")
    BY <2>3 DEF Holders, Waiters
  <2>5. Holders(o, "write")' = IF AdmitsWriter(l) THEN Holders(o, "write") \cup {q} ELSE Holders(o, "write")
    BY <2>2, <2>3 DEF Holders
  <2>6. Waiters(o, "write")' = IF AdmitsWriter(l) THEN Waiters(o, "write") ELSE Waiters(o, "write") \cup {q}
    BY <2>2, <2>3 DEF Waiters
  <2>7. Holders(o, "read")' = Holders(o, "read") /\ Waiters(o, "read")' = Waiters(o, "read")
    BY <2>2, <2>3 DEF Holders, Waiters
  <2> QED BY <2>4, <2>5, <2>6, <2>7
<1>5. CASE AdmitsWriter(l)
  <2>1. new.readers = l.readers /\ new.writer = TRUE /\ new.waitingReaders = l.waitingReaders
        /\ new.waitingWriters = l.waitingWriters /\ ~l.writer /\ l.readers = 0
    BY <1>2, <1>5 DEF Locks, AdmitsWriter
  <2>2. Counted(o)'
    BY <1>3, <1>4, <1>5, <2>1, <1>2, FetchedIsSound DEF Counted
  <2>3. Queued(o)'
    BY <1>3, <1>4, <1>5, <2>1, <1>2, FetchedIsSound DEF Queued, Held
  <2> QED BY <1>1, <1>2, <1>3, <2>2, <2>3, JoinKeepsAttached DEF Modes
<1>6. CASE ~AdmitsWriter(l)
  <2>1. new.readers = l.readers /\ new.writer = l.writer /\ new.waitingReaders = l.waitingReaders
        /\ new.waitingWriters = Append(l.waitingWriters, q) /\ (l.writer \/ l.readers # 0) /\ l.readers \in Nat
    BY <1>2, <1>6 DEF Locks, AdmitsWriter
  <2>2. Counted(o)'
    BY <1>3, <1>4, <1>6, <2>1, <1>2, FetchedIsSound DEF Counted
  <2>3. Queued(o)'
    <3> DEFINE old == l.waitingWriters
    <3>1. old \in Seq(Requests) /\ Len(Append(old, q)) = Len(old) + 1 /\ Append(old, q)[Len(old) + 1] = q
          /\ \A i \in 1..Len(old) : Append(old, q)[i] = old[i]
      BY <1>2 DEF Locks
    <3>2. \A i \in 1..Len(old) : old[i] # q
      BY <1>4, FetchedIsSound
    <3>3. \A i \in 1..Len(old) + 1 : Append(old, q)[i] \in Waiters(o, "write")'
      BY <3>1, <1>4, <1>6, FetchedIsSound
    <3>4. \A p \in Waiters(o, "write")' : \E i \in 1..Len(old) + 1 : Append(old, q)[i] = p
      <4> SUFFICES ASSUME NEW p \in Waiters(o, "write")' PROVE \E i \in 1..Len(old) + 1 : Append(old, q)[i] = p
        OBVIOUS
      <4>1. CASE p = q BY <4>1, <3>1
      <4>2. CASE p # q
        <5>1. PICK i \in 1..Len(old) : old[i] = p
          BY <4>2, <1>4, <1>6, FetchedIsSound
        <5> QED BY <5>1, <3>1
      <4> QED BY <4>1, <4>2
    <3>5. \A i, j \in 1..Len(old) + 1 : Append(old, q)[i] = Append(old, q)[j] => i = j
      BY <3>1, <3>2, FetchedIsSound
    <3>6. Held(new)
      BY <2>1 DEF Held
    <3>7. new.waitingReaders = Waiters(o, "read")'
      BY <2>1, <1>4, FetchedIsSound
    <3> QED BY <1>3, <2>1, <3>1, <3>3, <3>4, <3>5, <3>6, <3>7 DEF Queued
  <2> QED BY <1>1, <1>2, <1>3, <2>2, <2>3, JoinKeepsAttached DEF Modes
<1> QED BY <1>5, <1>6

-----------------------------------------------------------------------------
(* What a released object says of the requests that are left. *)
LEMMA ReleasedIsSound ==
  ASSUME IInv, NEW q \in Requests, request[q].state = "holding"
  PROVE  \E k, o, r :
           /\ k = request[q].key /\ o = request[q].object /\ r = Released(request[q].mode, lock[o])
           /\ k \in Keys /\ o \in Objects /\ entry[k] = o /\ o # None
           /\ r \in Locks /\ r.waitingReaders = lock[o].waitingReaders /\ r.waitingWriters = lock[o].waitingWriters
           /\ Queued(o)
           /\ r.readers = Cardinality(Holders(o, "read") \ {q})
           /\ ~r.writer /\ Holders(o, "write") \ {q} = {}
           /\ r.readers = 0 => Holders(o, "read") \ {q} = {}
<1> PICK k, o, r : k = request[q].key /\ o = request[q].object /\ r = Released(request[q].mode, lock[o])
  OBVIOUS
<1> SUFFICES /\ k \in Keys /\ o \in Objects /\ entry[k] = o /\ o # None
             /\ r \in Locks /\ r.waitingReaders = lock[o].waitingReaders /\ r.waitingWriters = lock[o].waitingWriters
             /\ Queued(o)
             /\ r.readers = Cardinality(Holders(o, "read") \ {q})
             /\ ~r.writer /\ Holders(o, "write") \ {q} = {}
             /\ r.readers = 0 => Holders(o, "read") \ {q} = {}
  BY Zenon
<1>1. k \in Keys /\ o \in Objects /\ entry[k] = o /\ o # None /\ request[q].mode \in Modes
  BY LockAssumption DEF IInv, Attached
<1>2. Counted(o) /\ Queued(o) /\ lock[o] \in Locks
  BY <1>1, LocksAreRecords DEF IInv
<1>3. IsFiniteSet(Holders(o, "read")) /\ IsFiniteSet(Holders(o, "read") \ {q})
  BY HoldersAreFinite, FS_Difference
<1>4. CASE request[q].mode = "read"
  <2>1. q \in Holders(o, "read") /\ q \notin Holders(o, "write")
    BY <1>4 DEF Holders
  <2>2. Cardinality(Holders(o, "read") \ {q}) = Cardinality(Holders(o, "read")) - 1
    BY <1>3, <2>1, FS_RemoveElement
  <2>3. Cardinality(Holders(o, "read") \ {q}) \in Nat
    BY <1>3, FS_CardinalityType
  <2>4. r = [lock[o] EXCEPT !.readers = @ - 1] /\ lock[o].readers = Cardinality(Holders(o, "read"))
    BY <1>2, <1>4 DEF Released, Counted
  <2>5. r \in Locks /\ r.readers = lock[o].readers - 1 /\ r.writer = lock[o].writer
        /\ r.waitingReaders = lock[o].waitingReaders /\ r.waitingWriters = lock[o].waitingWriters
    BY <1>2, <2>2, <2>3, <2>4 DEF Locks
  <2>6. lock[o].readers > 0
    BY <2>2, <2>3, <2>4, <1>2 DEF Locks
  <2>7. ~lock[o].writer /\ Holders(o, "write") = {}
    BY <1>2, <2>6 DEF Counted, Locks
  <2>8. r.readers = 0 => Holders(o, "read") \ {q} = {}
    BY <1>3, <2>2, <2>4, <2>5, FS_EmptySet
  <2> QED BY <1>1, <1>2, <2>1, <2>2, <2>4, <2>5, <2>7, <2>8
<1>5. CASE request[q].mode = "write"
  <2>1. q \in Holders(o, "write") /\ q \notin Holders(o, "read")
    BY <1>5 DEF Holders
  <2>2. lock[o].writer /\ lock[o].readers = 0 /\ Cardinality(Holders(o, "read")) = 0 /\ Holders(o, "write") \ {q} = {}
    BY <1>2, <2>1 DEF Counted
  <2>3. r.readers = lock[o].readers /\ r.writer = FALSE /\ r.waitingReaders = lock[o].waitingReaders
        /\ r.waitingWriters = lock[o].waitingWriters /\ r \in Locks
    BY <1>2, <1>5 DEF Released, Locks
  <2>4. Holders(o, "read") = {}
    BY <1>3, <2>2, FS_EmptySet
  <2>5. Holders(o, "read") \ {q} = {} /\ Cardinality(Holders(o, "read") \ {q}) = 0
    BY <2>4, FS_EmptySet
  <2> QED BY <1>1, <1>2, <2>2, <2>3, <2>5
<1> QED BY <1>1, <1>4, <1>5 DEF Modes

LEMMA DisposeKeepsInvariant ==
  ASSUME IInv, NEW q \in Requests, Dispose(q)
  PROVE  /\ IInv'
         /\ request'[q] = Idle
         /\ \A p \in Requests : p # q =>
              \/ request'[p] = request[p]
              \/ request[p].state = "waiting" /\ request'[p] = [request[p] EXCEPT !.state = "holding"]
<1>1. request[q].state = "holding"
  BY DEF Dispose
<1>x. PICK k, o, r :
        /\ k = request[q].key /\ o = request[q].object /\ r = Released(request[q].mode, lock[o])
        /\ k \in Keys /\ o \in Objects /\ entry[k] = o /\ o # None
        /\ r \in Locks /\ r.waitingReaders = lock[o].waitingReaders /\ r.waitingWriters = lock[o].waitingWriters
        /\ Queued(o)
        /\ r.readers = Cardinality(Holders(o, "read") \ {q})
        /\ ~r.writer /\ Holders(o, "write") \ {q} = {}
        /\ r.readers = 0 => Holders(o, "read") \ {q} = {}
  BY <1>1, ReleasedIsSound, Zenon
<1>a. k = request[q].key /\ o = request[q].object /\ r = Released(request[q].mode, lock[o])
  BY <1>x
<1>2. k \in Keys /\ o \in Objects /\ entry[k] = o /\ o # None
  BY <1>x
<1>b. r \in Locks /\ r.waitingReaders = lock[o].waitingReaders /\ r.waitingWriters = lock[o].waitingWriters
  BY <1>x
<1>c. Queued(o)
  BY <1>x
<1>d. /\ r.readers = Cardinality(Holders(o, "read") \ {q})
      /\ ~r.writer /\ Holders(o, "write") \ {q} = {}
      /\ r.readers = 0 => Holders(o, "read") \ {q} = {}
  BY <1>x
<1>3. /\ entry' = [entry EXCEPT ![k] = IF Disposable(r) THEN None ELSE @]
      /\ lock' = [lock EXCEPT ![o] = Processed(r)]
      /\ \A p \in Requests : request'[p] = IF p = q THEN Idle
                                          ELSE IF p \in Woken(r) THEN [request[p] EXCEPT !.state = "holding"]
                                          ELSE request[p]
  <2> DEFINE released == [lock EXCEPT ![o] = r]
  <2>1. released = [lock EXCEPT ![request[q].object] = Released(request[q].mode, @)]
    BY <1>a
  <2>2. entry[request[q].key] = o /\ o # None
    BY <1>a, <1>2
  <2>3. /\ lock' = [released EXCEPT ![o] = Processed(@)]
        /\ entry' = [entry EXCEPT ![k] = IF Disposable(released[o]) THEN None ELSE @]
        /\ request' = [p \in Requests |-> IF p = q THEN Idle
                                          ELSE IF p \in Woken(released[o]) THEN [request[p] EXCEPT !.state = "holding"]
                                          ELSE request[p]]
    BY <1>a, <2>1, <2>2 DEF Dispose
  <2>4. lock \in [Objects -> Locks] /\ o \in Objects
    BY <1>2 DEF IInv, LockTypeOK
  <2>5. released[o] = r
    BY <2>4
  <2>6. [released EXCEPT ![o] = Processed(@)] = [lock EXCEPT ![o] = Processed(r)]
    BY <2>4, <2>5
  <2> HIDE DEF released
  <2> QED BY <2>3, <2>5, <2>6
<1>4. /\ lock \in [Objects -> Locks] /\ entry \in [Keys -> Objects \cup {None}]
      /\ request \in [Requests -> [state : {"idle", "waiting", "holding"}, mode : Modes \cup {"none"},
                                   key : Keys \cup {None}, object : Objects \cup {None}]]
      /\ r.waitingReaders \in SUBSET Requests /\ r.waitingWriters \in Seq(Requests) /\ r.readers \in Nat
  <2>1. LockTypeOK /\ r \in Locks
    BY <1>b DEF IInv
  <2> QED BY <2>1 DEF LockTypeOK, Locks
<1>5. /\ \A p \in Waiters(o, "read") \cup Waiters(o, "write") : p # q
      /\ Woken(r) \subseteq Waiters(o, "read") \cup Waiters(o, "write")
  <2>1. \A p \in Waiters(o, "read") \cup Waiters(o, "write") : p # q
    BY <1>1 DEF Waiters
  <2>2. r.waitingReaders = Waiters(o, "read")
    BY <1>b, <1>c DEF Queued
  <2>3. r.waitingWriters # <<>> => Head(r.waitingWriters) \in Waiters(o, "write")
    <3>1. r.waitingWriters # <<>> => 1 \in 1..Len(r.waitingWriters) /\ Head(r.waitingWriters) = r.waitingWriters[1]
      BY <1>4
    <3>2. \A i \in 1..Len(r.waitingWriters) : r.waitingWriters[i] \in Waiters(o, "write")
      BY <1>b, <1>c DEF Queued
    <3> QED BY <3>1, <3>2
  <2> QED BY <2>1, <2>2, <2>3 DEF Woken
<1>6. Idle.state = "idle" /\ request'[q] = Idle
  BY <1>3 DEF Idle
<1>7. \A p \in Requests : p # q =>
        /\ request'[p].mode = request[p].mode /\ request'[p].key = request[p].key /\ request'[p].object = request[p].object
        /\ request'[p].state = IF p \in Woken(r) THEN "holding" ELSE request[p].state
  BY <1>3, <1>4
<1>8. /\ Holders(o, "read")' = (Holders(o, "read") \ {q}) \cup (Woken(r) \cap Waiters(o, "read"))
      /\ Holders(o, "write")' = Woken(r) \cap Waiters(o, "write")
      /\ Waiters(o, "read")' = Waiters(o, "read") \ Woken(r)
      /\ Waiters(o, "write")' = Waiters(o, "write") \ Woken(r)
  <2>0. Waiters(o, "read") \subseteq Requests /\ Waiters(o, "write") \subseteq Requests
    BY DEF Waiters
  <2>1. Holders(o, "read")' = (Holders(o, "read") \ {q}) \cup (Woken(r) \cap Waiters(o, "read"))
    BY <1>5, <1>6, <1>7, <2>0 DEF Holders, Waiters
  <2>2. Holders(o, "write")' = (Holders(o, "write") \ {q}) \cup (Woken(r) \cap Waiters(o, "write"))
    BY <1>5, <1>6, <1>7, <2>0 DEF Holders, Waiters
  <2>3. Waiters(o, "read")' = Waiters(o, "read") \ Woken(r)
    BY <1>5, <1>6, <1>7, <2>0 DEF Waiters
  <2>4. Waiters(o, "write")' = Waiters(o, "write") \ Woken(r)
    BY <1>5, <1>6, <1>7, <2>0 DEF Waiters
  <2> QED BY <1>d, <2>1, <2>2, <2>3, <2>4
<1>9. lock'[o] = Processed(r) /\ Processed(r) \in Locks
  <2>1. Cardinality(r.waitingReaders) \in Nat
    BY <1>4, LockAssumption, FS_Subset, FS_CardinalityType
  <2>2. r.waitingWriters # <<>> => Tail(r.waitingWriters) \in Seq(Requests)
    BY <1>4
  <2>3. Processed(r) \in Locks
    BY <1>b, <1>4, <2>1, <2>2 DEF Processed, Locks
  <2> QED BY <1>2, <1>3, <1>4, <2>3
<1>10. ASSUME Held(r) PROVE Counted(o)' /\ Queued(o)'
  <2>1. Woken(r) = {} /\ Processed(r) = r /\ ~Disposable(r)
    BY <1>10 DEF Woken, Processed, Disposable
  <2>2. Counted(o)'
    <3>1. /\ Holders(o, "read")' = Holders(o, "read") \ {q}
          /\ Holders(o, "write")' = {}
      BY <1>8, <2>1
    <3> QED BY <1>9, <1>d, <2>1, <3>1 DEF Counted
  <2>3. Queued(o)'
    <3>1. Waiters(o, "read")' = Waiters(o, "read") /\ Waiters(o, "write")' = Waiters(o, "write")
      BY <1>8, <2>1
    <3> QED BY <1>9, <1>b, <1>c, <1>10, <2>1, <3>1 DEF Queued
  <2> QED BY <2>1, <2>2, <2>3
<1>11. ASSUME ~Held(r), r.waitingWriters # <<>> PROVE Counted(o)' /\ Queued(o)'
  <2> DEFINE w == Head(r.waitingWriters)
  <2>1. Woken(r) = {w} /\ ~Disposable(r) /\ r.readers = 0
    BY <1>11, <1>4 DEF Woken, Disposable, Held
  <2>2. /\ Processed(r).readers = 0 /\ Processed(r).writer = TRUE
        /\ Processed(r).waitingReaders = r.waitingReaders /\ Processed(r).waitingWriters = Tail(r.waitingWriters)
    BY <1>11, <1>b, <2>1 DEF Processed, Locks
  <2>3. Len(r.waitingWriters) \in Nat /\ 1 \in 1..Len(r.waitingWriters) /\ w = r.waitingWriters[1]
        /\ Len(Tail(r.waitingWriters)) = Len(r.waitingWriters) - 1
        /\ \A i \in 1..Len(r.waitingWriters) - 1 : Tail(r.waitingWriters)[i] = r.waitingWriters[i + 1]
    BY <1>11, <1>4
  <2>4. w \in Waiters(o, "write") /\ w \notin Waiters(o, "read")
    <3>1. w \in Waiters(o, "write")
      BY <1>b, <1>c, <2>3 DEF Queued
    <3> QED BY <3>1 DEF Waiters
  <2>5. /\ Holders(o, "read")' = {} /\ Holders(o, "write")' = {w}
        /\ Waiters(o, "read")' = Waiters(o, "read") /\ Waiters(o, "write")' = Waiters(o, "write") \ {w}
    BY <1>8, <1>d, <2>1, <2>4
  <2>6. Counted(o)'
    BY <1>9, <2>2, <2>5, FS_EmptySet DEF Counted
  <2>7. Queued(o)'
    <3> DEFINE tail == Tail(r.waitingWriters)
    <3>1. /\ \A i \in 1..Len(r.waitingWriters) : r.waitingWriters[i] \in Waiters(o, "write")
          /\ \A p \in Waiters(o, "write") : \E i \in 1..Len(r.waitingWriters) : r.waitingWriters[i] = p
          /\ \A i, j \in 1..Len(r.waitingWriters) : r.waitingWriters[i] = r.waitingWriters[j] => i = j
          /\ r.waitingReaders = Waiters(o, "read")
      BY <1>b, <1>c DEF Queued
    <3>2. \A i \in 1..Len(tail) : i + 1 \in 1..Len(r.waitingWriters) /\ tail[i] = r.waitingWriters[i + 1]
      BY <2>3
    <3>3. \A i \in 1..Len(tail) : tail[i] \in Waiters(o, "write") \ {w}
      BY <3>1, <3>2, <2>3
    <3>4. \A p \in Waiters(o, "write") \ {w} : \E i \in 1..Len(tail) : tail[i] = p
      <4> SUFFICES ASSUME NEW p \in Waiters(o, "write"), p # w PROVE \E i \in 1..Len(tail) : tail[i] = p
        OBVIOUS
      <4>1. PICK n \in 1..Len(r.waitingWriters) : r.waitingWriters[n] = p
        BY <3>1
      <4>2. n # 1 /\ n - 1 \in 1..Len(tail) /\ tail[n - 1] = p
        BY <4>1, <2>3
      <4> QED BY <4>2
    <3>5. \A i, j \in 1..Len(tail) : tail[i] = tail[j] => i = j
      <4> SUFFICES ASSUME NEW i \in 1..Len(tail), NEW j \in 1..Len(tail), tail[i] = tail[j] PROVE i = j
        OBVIOUS
      <4>1. i + 1 = j + 1
        BY <3>1, <3>2
      <4> QED BY <4>1
    <3> HIDE DEF w, tail
    <3>6. lock'[o].waitingWriters = tail /\ lock'[o].waitingReaders = Waiters(o, "read") /\ Held(lock'[o])
      BY <1>9, <2>2, <3>1 DEF Held, tail
    <3> QED BY <2>5, <3>3, <3>4, <3>5, <3>6 DEF Queued
  <2> QED BY <2>1, <2>6, <2>7
<1>12. ASSUME ~Held(r), r.waitingWriters = <<>> PROVE Counted(o)' /\ Queued(o)'
  <2>1. r.waitingReaders = Waiters(o, "read") /\ Waiters(o, "write") = {} /\ Len(r.waitingWriters) = 0
    <3>1. \A p \in Waiters(o, "write") : \E i \in 1..Len(r.waitingWriters) : r.waitingWriters[i] = p
      BY <1>b, <1>c DEF Queued
    <3>2. r.waitingReaders = Waiters(o, "read")
      BY <1>b, <1>c DEF Queued
    <3> QED BY <1>12, <3>1, <3>2
  <2>2. Woken(r) = Waiters(o, "read") /\ r.readers = 0
    BY <1>12, <1>4, <2>1 DEF Woken, Held
  <2>3. /\ Processed(r).readers = Cardinality(Waiters(o, "read")) /\ Processed(r).writer = FALSE
        /\ Processed(r).waitingReaders = {} /\ Processed(r).waitingWriters = <<>>
    BY <1>12, <1>b, <1>d, <2>1 DEF Processed, Locks
  <2>4. /\ Holders(o, "read")' = Waiters(o, "read") /\ Holders(o, "write")' = {}
        /\ Waiters(o, "read")' = {} /\ Waiters(o, "write")' = {}
    <3>1. Waiters(o, "read") \cap {} = {} OBVIOUS
    <3> QED BY <1>8, <1>d, <2>1, <2>2
  <2>5. Counted(o)'
    BY <1>9, <2>3, <2>4 DEF Counted
  <2>6. Queued(o)'
    <3>1. lock'[o].waitingReaders = {} /\ lock'[o].waitingWriters = <<>> /\ 1..Len(lock'[o].waitingWriters) = {}
      BY <1>9, <2>3
    <3> QED BY <2>4, <3>1 DEF Queued
  <2>7. Disposable(r) => Holders(o, "read")' = {}
    BY <2>1, <2>4 DEF Disposable
  <2> QED BY <2>4, <2>5, <2>6, <2>7
<1>13. Counted(o)' /\ Queued(o)'
  BY <1>10, <1>11, <1>12
<1>14. Disposable(r) => \A p \in Requests : request'[p].state # "idle" => request'[p].object # o
  <2> SUFFICES ASSUME Disposable(r), NEW p \in Requests, request'[p].state # "idle", request'[p].object = o PROVE FALSE
    OBVIOUS
  <2>1. Woken(r) = {} /\ r.waitingReaders = {} /\ r.waitingWriters = <<>> /\ ~Held(r) /\ r.readers = 0
    BY <1>4 DEF Disposable, Woken, Held
  <2>2. p # q /\ request[p].state # "idle" /\ request[p].object = o /\ request[p].state = request'[p].state
    BY <1>6, <1>7, <2>1
  <2>3. request[p].mode \in Modes /\ request[p].state \in {"holding", "waiting"}
    BY <1>4, <2>2 DEF IInv, Attached
  <2>4. CASE request[p].state = "holding"
    <3>1. p \in Holders(o, "read") \ {q} \/ p \in Holders(o, "write") \ {q}
      BY <2>2, <2>3, <2>4 DEF Holders, Modes
    <3> QED BY <3>1, <1>d, <2>1
  <2>5. CASE request[p].state = "waiting"
    <3>1. p \in Waiters(o, "read") \/ p \in Waiters(o, "write")
      BY <2>2, <2>3, <2>5 DEF Waiters, Modes
    <3>2. Waiters(o, "read") = {} /\ 1..Len(r.waitingWriters) = {}
      BY <1>b, <1>c, <2>1 DEF Queued
    <3>3. \A w \in Waiters(o, "write") : \E i \in 1..Len(r.waitingWriters) : r.waitingWriters[i] = w
      BY <1>b, <1>c DEF Queued
    <3> QED BY <3>1, <3>2, <3>3
  <2> QED BY <2>3, <2>4, <2>5
<1>15. LockTypeOK'
  <2>1. lock' \in [Objects -> Locks] /\ entry' \in [Keys -> Objects \cup {None}]
    BY <1>2, <1>3, <1>4, <1>9
  <2>2. request' = [p \in Requests |-> request'[p]]
    BY <1>a, <1>2 DEF Dispose
  <2>3. \A p \in Requests : request'[p] \in [state : {"idle", "waiting", "holding"}, mode : Modes \cup {"none"},
                                   key : Keys \cup {None}, object : Objects \cup {None}]
    <3> SUFFICES ASSUME NEW p \in Requests
                 PROVE  request'[p] \in [state : {"idle", "waiting", "holding"}, mode : Modes \cup {"none"},
                                         key : Keys \cup {None}, object : Objects \cup {None}]
      OBVIOUS
    <3>1. CASE p = q BY <3>1, <1>6 DEF Idle
    <3>2. CASE p # q /\ p \in Woken(r)
      <4>1. request'[p] = [request[p] EXCEPT !.state = "holding"] BY <3>2, <1>3
      <4> QED BY <4>1, <1>4
    <3>3. CASE p # q /\ p \notin Woken(r)
      <4>1. request'[p] = request[p] BY <3>3, <1>3
      <4> QED BY <4>1, <1>4
    <3> QED BY <3>1, <3>2, <3>3
  <2> QED BY <2>1, <2>2, <2>3 DEF LockTypeOK
<1>16. \A j \in Keys : j # k => entry'[j] = entry[j] /\ entry[j] # o
  BY <1>2, <1>3, <1>4 DEF IInv, Attached
<1>17. entry'[k] = IF Disposable(r) THEN None ELSE o
  BY <1>2, <1>3, <1>4
<1>18. Attached'
  <2>1. ASSUME NEW p \in Requests, request'[p].state # "idle"
        PROVE  /\ request'[p].key \in Keys /\ request'[p].mode \in Modes /\ request'[p].object \in Objects
               /\ entry'[request'[p].key] = request'[p].object
    <3>1. p # q
      BY <1>6, <2>1
    <3>2. request[p].state # "idle"
      <4>1. p \in Woken(r) => request[p].state = "waiting"
        BY <1>5 DEF Waiters
      <4> QED BY <3>1, <2>1, <1>7, <4>1
    <3>3. /\ request[p].key \in Keys /\ request[p].mode \in Modes /\ request[p].object \in Objects
          /\ entry[request[p].key] = request[p].object
      BY <3>2 DEF IInv, Attached
    <3>4. request[p].key = k => ~Disposable(r) /\ request[p].object = o
      BY <3>1, <3>3, <1>2, <1>7, <1>14, <2>1
    <3> QED BY <3>1, <3>3, <3>4, <1>7, <1>16, <1>17
  <2>2. \A i, j \in Keys : entry'[i] = entry'[j] /\ entry'[i] # None => i = j
    <3>1. \A i, j \in Keys : entry[i] = entry[j] /\ entry[i] # None => i = j
      BY DEF IInv, Attached
    <3> QED BY <3>1, <1>2, <1>16, <1>17
  <2> QED BY <2>1, <2>2 DEF Attached
<1>19. ASSUME NEW j \in Keys, NEW e \in Objects, entry'[j] = e PROVE Counted(e)' /\ Queued(e)'
  <2>1. CASE e = o BY <2>1, <1>13
  <2>2. CASE e # o
    <3>1. j # k /\ entry[j] = e
      BY <2>2, <1>16, <1>17, <1>19, LockAssumption
    <3>2. Counted(e) /\ Queued(e)
      BY <3>1 DEF IInv
    <3>3. lock'[e] = lock[e]
      BY <2>2, <1>3, <1>4
    <3>4. \A p \in Requests : request'[p] = request[p] \/ p = q \/ p \in Woken(r)
      BY <1>3
    <3>5. request[q].object # e /\ request'[q].state = "idle"
      BY <1>a, <1>6, <2>2
    <3>6. \A p \in Woken(r) : request[p].object = o
      BY <1>5 DEF Waiters
    <3>7. \A p \in Requests :
           \/ request'[p] = request[p]
           \/ /\ request[p].state = "idle" \/ request[p].object # e
              /\ request'[p].state = "idle" \/ request'[p].object # e
      BY <3>4, <3>5, <3>6, <1>7, <2>2
    <3> QED BY <3>2, <3>3, <3>7, Untouched
  <2> QED BY <2>1, <2>2
<1>20. IInv'
  BY <1>15, <1>18, <1>19 DEF IInv
<1>21. \A p \in Requests : p # q =>
         \/ request'[p] = request[p]
         \/ request[p].state = "waiting" /\ request'[p] = [request[p] EXCEPT !.state = "holding"]
  BY <1>3, <1>5 DEF Waiters
<1> QED BY <1>6, <1>20, <1>21

LEMMA StutterKeepsInvariant ==
  ASSUME IInv, UNCHANGED lockVars
  PROVE  IInv'
<1>1. entry' = entry /\ lock' = lock /\ request' = request
  BY DEF lockVars
<1>2. LockTypeOK' /\ Attached'
  BY <1>1 DEF IInv, LockTypeOK, Attached
<1>3. ASSUME NEW j \in Keys, NEW e \in Objects, entry'[j] = e PROVE Counted(e)' /\ Queued(e)'
  <2>1. Counted(e) /\ Queued(e) BY <1>1, <1>3 DEF IInv
  <2> QED BY <1>1, <2>1, Untouched
<1> QED BY <1>2, <1>3 DEF IInv

-----------------------------------------------------------------------------
(* The inductive invariant of the lock (lock.ts). *)
THEOREM LockInvariance == LockSpec => []IInv
<1>1. LockInit => IInv
  BY LockInitHolds
<1>2. IInv /\ [LockNext]_lockVars => IInv'
  <2> SUFFICES ASSUME IInv, [LockNext]_lockVars PROVE IInv'
    OBVIOUS
  <2>1. ASSUME NEW q \in Requests, NEW k \in Keys, Read(q, k) PROVE IInv'
    BY <2>1, ReadKeepsInvariant
  <2>2. ASSUME NEW q \in Requests, NEW k \in Keys, Write(q, k) PROVE IInv'
    BY <2>2, WriteKeepsInvariant
  <2>3. ASSUME NEW q \in Requests, Dispose(q) PROVE IInv'
    BY <2>3, DisposeKeepsInvariant
  <2>4. CASE UNCHANGED lockVars
    BY <2>4, StutterKeepsInvariant
  <2> QED BY <2>1, <2>2, <2>3, <2>4 DEF LockNext
<1> QED BY <1>1, <1>2, PTL DEF LockSpec

LEMMA HoldersOfAnEntry ==
  ASSUME IInv, NEW k \in Keys, NEW m \in Modes, Holding(k, m) # {}
  PROVE  /\ entry[k] \in Objects /\ \A n \in Modes : Holding(k, n) = Holders(entry[k], n)
         /\ Counted(entry[k])
<1>1. PICK q \in Holding(k, m) : TRUE
  OBVIOUS
<1>2. request[q].state # "idle" /\ request[q].key = k /\ q \in Requests
  BY DEF Holding
<1>3. entry[k] \in Objects
  BY <1>2 DEF IInv, Attached
<1>4. \A p \in Requests : request[p].state = "holding" => (request[p].key = k <=> request[p].object = entry[k])
  <2> SUFFICES ASSUME NEW p \in Requests, request[p].state = "holding"
               PROVE  request[p].key = k <=> request[p].object = entry[k]
    OBVIOUS
  <2>1. request[p].key \in Keys /\ entry[request[p].key] = request[p].object
    BY DEF IInv, Attached
  <2>2. \A i, j \in Keys : entry[i] = entry[j] /\ entry[i] # None => i = j
    BY DEF IInv, Attached
  <2> QED BY <1>3, <2>1, <2>2, LockAssumption
<1>5. \A n \in Modes : Holding(k, n) = Holders(entry[k], n)
  BY <1>4 DEF Holding, Holders
<1>6. Counted(entry[k])
  BY <1>3 DEF IInv
<1> QED BY <1>3, <1>5, <1>6

LEMMA InvariantExcludes == IInv => MutualExclusion
<1> SUFFICES ASSUME IInv, NEW k \in Keys, NEW w \in Holding(k, "write")
             PROVE  Holding(k, "write") = {w} /\ Holding(k, "read") = {}
  BY DEF MutualExclusion
<1>1. /\ \A n \in Modes : Holding(k, n) = Holders(entry[k], n)
      /\ Counted(entry[k])
  BY HoldersOfAnEntry DEF Modes
<1>2. Holders(entry[k], "write") = {w} /\ Cardinality(Holders(entry[k], "read")) = 0
  BY <1>1 DEF Counted, Modes
<1>3. Holders(entry[k], "read") = {}
  BY <1>2, HoldersAreFinite, FS_EmptySet
<1> QED BY <1>1, <1>2, <1>3 DEF Modes

(* A writer of a key excludes every other holder, whatever the order of requests, grants and disposals: what
   Storage and JsonFile rely on (lock.ts, read and write). *)
THEOREM LockExcludes == LockSpec => []MutualExclusion
BY InvariantExcludes, LockInvariance, PTL

(* Nobody waits for a lock that nobody holds: no wake-up is lost (lock.ts, process). *)
THEOREM LockWakesWaiters == LockSpec => []WaitersAreWoken
<1>1. IInv => WaitersAreWoken
  <2> SUFFICES ASSUME IInv, NEW q \in Requests, request[q].state = "waiting"
               PROVE  \E p \in Requests : request[p].state = "holding" /\ request[p].key = request[q].key
    BY DEF WaitersAreWoken
  <2> DEFINE k == request[q].key
  <2> DEFINE o == request[q].object
  <2>1. k \in Keys /\ o \in Objects /\ entry[k] = o /\ request[q].mode \in Modes
    BY DEF IInv, Attached
  <2>2. Counted(o) /\ Queued(o) /\ lock[o].readers \in Nat
    BY <2>1, LocksAreRecords DEF IInv
  <2>3. q \in Waiters(o, "read") \/ q \in Waiters(o, "write")
    BY <2>1 DEF Waiters, Modes
  <2>4. Held(lock[o])
    BY <2>2, <2>3 DEF Queued
  <2>5. Holders(o, "write") # {} \/ Holders(o, "read") # {}
    <3>1. lock[o].readers > 0 => Holders(o, "read") # {}
      BY <2>2, FS_EmptySet DEF Counted
    <3> QED BY <2>2, <2>4, <3>1 DEF Counted, Held
  <2>6. PICK p \in Requests : request[p].state = "holding" /\ request[p].object = o
    BY <2>5 DEF Holders
  <2>7. request[p].key \in Keys /\ entry[request[p].key] = o
    BY <2>6 DEF IInv, Attached
  <2>8. request[p].key = k
    BY <2>1, <2>7, LockAssumption DEF IInv, Attached
  <2> QED BY <2>6, <2>8
<1> QED BY <1>1, LockInvariance, PTL

=============================================================================
