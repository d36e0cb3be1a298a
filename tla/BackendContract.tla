--------------------------- MODULE BackendContract ---------------------------
(***************************************************************************)
(* What the storage layer may rely on from any key-value backend           *)
(* (src/src/storage/backend.rs, traits Backend, ReadOps and WriteTxn).     *)
(*                                                                         *)
(* A write transaction reads one snapshot overlaid by its own writes.      *)
(* Update-protected point reads, and nothing else, establish conflicts: a  *)
(* commit publishes all writes at once, and only if no protected key was   *)
(* committed by another transaction since the snapshot.                    *)
(*                                                                         *)
(* A key holds a value or Absent.  Scans and unprotected gets read View    *)
(* and change nothing, so they are not actions.                            *)
(***************************************************************************)
EXTENDS Naturals

CONSTANTS Keys, Values, Absent, Untouched, Txns

VARIABLES
    data,           \* the committed value of each key
    phase,          \* of each transaction handle: "idle", "open" or "closed"
    snapshot,       \* the committed data when the transaction began
    protected,      \* keys read with update protection, and inserted keys
    writes,         \* the staged value of each key; Untouched when there is none
    overwritten     \* keys other transactions committed since the snapshot

contractVars == <<data, phase, snapshot, protected, writes, overwritten>>

Stored == Values \cup {Absent}
Nothing == [k \in Keys |-> Absent]
NoWrites == [k \in Keys |-> Untouched]

\* Read-your-writes.
View(t, k) == IF writes[t][k] = Untouched THEN snapshot[t][k] ELSE writes[t][k]

Touched(t) == {k \in Keys : writes[t][k] # Untouched}

Init ==
    /\ data = Nothing
    /\ phase = [t \in Txns |-> "idle"]
    /\ snapshot = [t \in Txns |-> Nothing]
    /\ protected = [t \in Txns |-> {}]
    /\ writes = [t \in Txns |-> NoWrites]
    /\ overwritten = [t \in Txns |-> {}]

\* begin_write.
Begin(t) ==
    /\ phase[t] = "idle"
    /\ phase' = [phase EXCEPT ![t] = "open"]
    /\ snapshot' = [snapshot EXCEPT ![t] = data]
    /\ UNCHANGED <<data, protected, writes, overwritten>>

\* get_for_update and batch_get_for_update.
Protect(t, K) ==
    /\ phase[t] = "open"
    /\ protected' = [protected EXCEPT ![t] = @ \cup K]
    /\ UNCHANGED <<data, phase, snapshot, writes, overwritten>>

\* put, delete and batch_mutate: f holds the final staged value of each key of
\* the batch, a delete being Absent.
Mutate(t, f) ==
    /\ phase[t] = "open"
    /\ writes' = [writes EXCEPT ![t] = [k \in Keys |-> IF f[k] = Untouched THEN @[k] ELSE f[k]]]
    /\ UNCHANGED <<data, phase, snapshot, protected, overwritten>>

\* insert: protects the key whether or not it is present, and stages the value
\* only if it is absent.
Insert(t, k, v) ==
    /\ phase[t] = "open"
    /\ protected' = [protected EXCEPT ![t] = @ \cup {k}]
    /\ writes' = IF View(t, k) = Absent THEN [writes EXCEPT ![t][k] = v] ELSE writes
    /\ UNCHANGED <<data, phase, snapshot, overwritten>>

\* The transaction is consumed; its handle is still registered.
Close(t) ==
    /\ phase' = [phase EXCEPT ![t] = "closed"]
    /\ snapshot' = [snapshot EXCEPT ![t] = Nothing]
    /\ protected' = [protected EXCEPT ![t] = {}]
    /\ writes' = [writes EXCEPT ![t] = NoWrites]

\* A commit that succeeds, or whose outcome is reported unknown and that was
\* applied.
Commit(t) ==
    /\ phase[t] = "open"
    /\ protected[t] \cap overwritten[t] = {}
    /\ data' = [k \in Keys |-> IF k \in Touched(t) THEN writes[t][k] ELSE data[k]]
    /\ overwritten' = [u \in Txns |->
                        IF u = t THEN {}
                        ELSE IF phase[u] = "open" THEN overwritten[u] \cup Touched(t)
                        ELSE overwritten[u]]
    /\ Close(t)

\* A commit that fails (RetryableAbort, LimitExceeded, Cancelled) or that was not
\* applied although its outcome is reported unknown.
Fail(t) ==
    /\ phase[t] = "open"
    /\ Close(t)
    /\ overwritten' = [overwritten EXCEPT ![t] = {}]
    /\ UNCHANGED data

\* The handle is gone: after its commit, or by rollback.
Drop(t) ==
    /\ phase[t] # "idle"
    /\ phase' = [phase EXCEPT ![t] = "idle"]
    /\ snapshot' = [snapshot EXCEPT ![t] = Nothing]
    /\ protected' = [protected EXCEPT ![t] = {}]
    /\ writes' = [writes EXCEPT ![t] = NoWrites]
    /\ overwritten' = [overwritten EXCEPT ![t] = {}]
    /\ UNCHANGED data

Step(t) ==
    \/ Begin(t)
    \/ \E K \in SUBSET Keys : Protect(t, K)
    \/ \E f \in [Keys -> Stored \cup {Untouched}] : Mutate(t, f)
    \/ \E k \in Keys, v \in Values : Insert(t, k, v)
    \/ Commit(t)
    \/ Fail(t)
    \/ Drop(t)

Next == \E t \in Txns : Step(t)

Spec == Init /\ [][Next]_contractVars

=============================================================================
