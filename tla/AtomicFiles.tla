---------------------------- MODULE AtomicFiles ----------------------------
(***************************************************************************)
(* What JsonFile.transaction (opencode/src/util/json-file.ts) promises its *)
(* callers: a transaction changes all of its files or none, on top of what *)
(* the transactions before it left, unless its own rollback fails.         *)
(* The content of a file is the set of transactions whose edit it shows.   *)
(***************************************************************************)
CONSTANTS Paths, Transactions

VARIABLES content, outcome

atomicVars == <<content, outcome>>

AtomicInit ==
  /\ content = [p \in Paths |-> {}]
  /\ outcome = [t \in Transactions |-> "none"]

Commit(t, changed) ==
  /\ outcome[t] = "none"
  /\ content' = [p \in Paths |-> IF p \in changed THEN content[p] \cup {t} ELSE content[p]]
  /\ outcome' = [outcome EXCEPT ![t] = "committed"]

Abort(t) ==
  /\ outcome[t] = "none"
  /\ outcome' = [outcome EXCEPT ![t] = "aborted"]
  /\ UNCHANGED content

(* Commit and rollback both failed: some files keep the edit, and the caller is told. *)
Tear(t, kept) == 
  /\ outcome[t] = "none"
  /\ kept # {}
  /\ content' = [p \in Paths |-> IF p \in kept THEN content[p] \cup {t} ELSE content[p]]
  /\ outcome' = [outcome EXCEPT ![t] = "torn"]

AtomicNext ==
  \E t \in Transactions :
    \/ Abort(t)
    \/ \E changed \in SUBSET Paths : Commit(t, changed) \/ Tear(t, changed)

AtomicSpec == AtomicInit /\ [][AtomicNext]_atomicVars

=============================================================================
