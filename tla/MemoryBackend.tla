--------------------------- MODULE MemoryBackend ----------------------------
(***************************************************************************)
(* The in-memory adapter (src/ktann-memory/src/lib.rs): optimistic         *)
(* transactions over one mutex.  Conflicts are found from bounded evidence *)
(* about recent commits, which is pruned as writers finish and when it     *)
(* grows too large.                                                        *)
(*                                                                         *)
(* Each action is one critical section of the mutex, or private to its     *)
(* transaction.  commit_with releases the mutex before the handle is       *)
(* dropped, so other transactions run between Commit and Drop.             *)
(*                                                                         *)
(* `overwritten` is a history variable: the code does not keep it.  It     *)
(* records which keys really were committed since a snapshot, to compare   *)
(* the code's evidence with.  Byte budgets have the shape of the key       *)
(* budgets and are left out, as are injected faults and clear_range, which *)
(* exist for tests only.                                                   *)
(***************************************************************************)
EXTENDS Naturals, Sequences, FiniteSets, FiniteSetsExt

CONSTANTS Keys, Values, Absent, Untouched, Txns,
          MaxHistory,       \* MAX_HISTORY_KEYS
          MaxMutations,     \* the admission budget of one transaction
          MaxRevision       \* u64::MAX

ASSUME LimitsAssumption == MaxHistory \in Nat /\ MaxMutations \in Nat /\ MaxRevision \in Nat
ASSUME KeysAssumption == IsFiniteSet(Keys)
ASSUME ValuesAssumption == Absent \notin Values /\ Untouched \notin Values /\ Absent # Untouched

VARIABLES
    data, phase, snapshot, protected, writes, overwritten,
    begun,          \* the revision a transaction's snapshot was taken at
    count,          \* mutations a transaction has staged
    revision,       \* the number of the last commit
    modified,       \* the last retained commit of each key; 0 when there is none
    history,        \* the retained commits, oldest first
    historyKeys,    \* how many keys the retained commits hold
    conflictFloor   \* snapshots older than this lack complete evidence

contractVars == <<data, phase, snapshot, protected, writes, overwritten>>
evidence == <<revision, modified, history, historyKeys, conflictFloor>>
vars == <<data, phase, snapshot, protected, writes, overwritten, begun, count,
          revision, modified, history, historyKeys, conflictFloor>>

Contract == INSTANCE BackendContract

Init ==
    /\ Contract!Init
    /\ begun = [t \in Txns |-> 0]
    /\ count = [t \in Txns |-> 0]
    /\ revision = 0
    /\ modified = [k \in Keys |-> 0]
    /\ history = <<>>
    /\ historyKeys = 0
    /\ conflictFloor = 0

\* Revision: the conflict evidence of one commit.
Entries == [number : 1..MaxRevision, keys : SUBSET Keys]

\* How many keys the commits of h hold.
KeyCount(h) == MapThenSumSet(LAMBDA i : Cardinality(h[i].keys), DOMAIN h)

\* The oldest snapshot among the writers in W, which started at the revisions
\* given by `begun`; the current revision when there is none.
Oldest(W, now) == IF W = {} THEN now ELSE Min({begun[t] : t \in W})

\* The writers the State knows: registered by begin_write, released by Drop.
Writers == {t \in Txns : phase[t] # "idle"}

\* A mutant of Due: a commit as old as the oldest snapshot is kept.
DueOffByOne(h, keys, n, oldest) ==
    \/ n < Len(h) /\ h[n + 1].number < oldest
    \/ keys - KeyCount(SubSeq(h, 1, n)) > MaxHistory
    \/ Len(h) - n > MaxHistory

\* One round of prune_history pops the front of h, of which n commits are gone.
Due(h, keys, n, oldest) ==
    \/ n < Len(h) /\ h[n + 1].number <= oldest
    \/ keys - KeyCount(SubSeq(h, 1, n)) > MaxHistory
    \/ Len(h) - n > MaxHistory

\* A mutant of Forget: evidence goes with any commit of the key, not the last.
ForgetAny(h, m, n) == [k \in Keys |-> IF \E i \in 1..n : k \in h[i].keys THEN 0 ELSE m[k]]

\* What prune_history leaves of m once the first n commits of h are gone: the
\* evidence for a key goes with the commit that wrote it last.
Forget(h, m, n) ==
    [k \in Keys |-> IF \E i \in 1..n : k \in h[i].keys /\ m[k] = h[i].number THEN 0 ELSE m[k]]

\* prune_history, from the evidence h, m and keys.
Prune(h, m, keys, oldest) ==
    \E n \in 0..Len(h) :
        /\ ~Due(h, keys, n, oldest)
        /\ \A i \in 0..(n - 1) : Due(h, keys, i, oldest)
        /\ history' = SubSeq(h, n + 1, Len(h))
        /\ historyKeys' = keys - KeyCount(SubSeq(h, 1, n))
        /\ conflictFloor' = IF n = 0 THEN conflictFloor ELSE h[n].number
        /\ modified' = Forget(h, m, n)

\* begin_write.
Begin(t) ==
    /\ Contract!Begin(t)
    /\ begun' = [begun EXCEPT ![t] = revision]
    /\ UNCHANGED <<count, evidence>>

\* protect.
Protect(t, K) ==
    /\ Contract!Protect(t, K)
    /\ UNCHANGED <<begun, count, evidence>>

\* A mutant of Mutate: the staged mutations of earlier calls are not counted.
MutateUncounted(t, f) ==
    LET n == Cardinality({k \in Keys : f[k] # Untouched})
    IN  /\ n <= MaxMutations
        /\ Contract!Mutate(t, f)
        /\ count' = [count EXCEPT ![t] = @ + n]
        /\ UNCHANGED <<begun, evidence>>

\* stage and batch_mutate: a batch is admitted as a whole or refused with
\* LimitExceeded, and then stages nothing.  A batch that names a key twice is the
\* sequence of two batches.
Mutate(t, f) ==
    LET n == Cardinality({k \in Keys : f[k] # Untouched})
    IN  /\ n <= MaxMutations - count[t]
        /\ Contract!Mutate(t, f)
        /\ count' = [count EXCEPT ![t] = @ + n]
        /\ UNCHANGED <<begun, evidence>>

\* insert.
Insert(t, k, v) ==
    /\ count[t] < MaxMutations \/ Contract!View(t, k) # Absent
    /\ Contract!Insert(t, k, v)
    /\ count' = IF Contract!View(t, k) = Absent THEN [count EXCEPT ![t] = @ + 1] ELSE count
    /\ UNCHANGED <<begun, evidence>>

\* insert refused for lack of budget: the key is protected all the same.
InsertRefused(t, k) ==
    /\ count[t] = MaxMutations
    /\ Contract!View(t, k) = Absent
    /\ Protect(t, {k})

\* Mutants of Conflict: pruned evidence is taken for no conflict, or values are
\* compared instead of commits.
ConflictWithoutFloor(t) == \E k \in protected[t] : modified[k] > begun[t]

ConflictByValue(t) == \E k \in protected[t] : data[k] # snapshot[t][k]

\* The conflict test of commit_with.
Conflict(t) ==
    /\ protected[t] # {}
    /\ \/ begun[t] < conflictFloor
       \/ \E k \in protected[t] : modified[k] > begun[t]

\* commit_with, publishing: the writes are applied to the latest data, and
\* become evidence.
Commit(t) ==
    LET touched == Contract!Touched(t)
        now == revision + 1
    IN  /\ phase[t] = "open"
        /\ ~Conflict(t)
        /\ revision < MaxRevision
        /\ data' = [k \in Keys |-> IF k \in touched THEN writes[t][k] ELSE data[k]]
        /\ revision' = now
        /\ Prune(Append(history, [number |-> now, keys |-> touched]),
                 [k \in Keys |-> IF k \in touched THEN now ELSE modified[k]],
                 historyKeys + Cardinality(touched),
                 Oldest(Writers, now))
        /\ overwritten' = [u \in Txns |->
                            IF u = t THEN {}
                            ELSE IF phase[u] = "open" THEN overwritten[u] \cup touched
                            ELSE overwritten[u]]
        /\ Contract!Close(t)
        /\ count' = [count EXCEPT ![t] = 0]
        /\ UNCHANGED begun

\* commit_with, refusing: a conflict, the revision at its limit, or
\* CommitStart::begin losing against a cancellation.
Fail(t) ==
    /\ Contract!Fail(t)
    /\ count' = [count EXCEPT ![t] = 0]
    /\ UNCHANGED <<begun, evidence>>

\* Drop and release_writer.
Drop(t) ==
    /\ Contract!Drop(t)
    /\ begun' = [begun EXCEPT ![t] = 0]
    /\ count' = [count EXCEPT ![t] = 0]
    /\ Prune(history, modified, historyKeys, Oldest(Writers \ {t}, revision))
    /\ UNCHANGED revision

Next ==
    \E t \in Txns :
        \/ Begin(t)
        \/ \E K \in SUBSET Keys : Protect(t, K)
        \/ \E f \in [Keys -> Contract!Stored \cup {Untouched}] : Mutate(t, f)
        \/ \E k \in Keys, v \in Values : Insert(t, k, v)
        \/ \E k \in Keys : InsertRefused(t, k)
        \/ Commit(t)
        \/ Fail(t)
        \/ Drop(t)

Spec == Init /\ [][Next]_vars

-----------------------------------------------------------------------------
(* Properties.                                                             *)

\* Every variable has its type (for historyKeys see EvidenceReleased).
TypeOK ==
    /\ data \in [Keys -> Contract!Stored]
    /\ phase \in [Txns -> {"idle", "open", "closed"}]
    /\ snapshot \in [Txns -> [Keys -> Contract!Stored]]
    /\ protected \in [Txns -> SUBSET Keys]
    /\ writes \in [Txns -> [Keys -> Contract!Stored \cup {Untouched}]]
    /\ overwritten \in [Txns -> SUBSET Keys]
    /\ begun \in [Txns -> 0..MaxRevision]
    /\ count \in [Txns -> 0..MaxMutations]
    /\ revision \in 0..MaxRevision
    /\ modified \in [Keys -> 0..MaxRevision]
    /\ history \in Seq(Entries)
    /\ conflictFloor \in 0..MaxRevision

\* The adapter keeps the backend contract although it forgets evidence: a
\* transaction whose protected keys were committed by another one since its
\* snapshot never commits, not even when the key is back at its old value, when
\* its evidence was pruned or when the other transaction began first.
ImplementsContract == Contract!Spec

\* Forgetting is exact.  While its snapshot is covered, a transaction's evidence
\* names precisely the keys that were really overwritten: none is missed after a
\* prune that dropped an older commit of the same key, and none is left over to
\* abort a transaction that met no conflict.
EvidenceExact ==
    \A t \in Txns : phase[t] = "open" /\ begun[t] >= conflictFloor =>
        overwritten[t] = {k \in Keys : modified[k] > begun[t]}

\* Evidence does not leak: the retained commits are within their budget, their
\* key count is exact (prune_history subtracts from it, unchecked), every
\* modified key is owned by a retained commit that will release it, and once no
\* write transaction is alive nothing is retained.
EvidenceReleased ==
    /\ historyKeys = KeyCount(history) /\ historyKeys <= MaxHistory
    /\ Len(history) <= MaxHistory
    /\ \A k \in Keys : modified[k] # 0 =>
        \E i \in DOMAIN history : history[i].number = modified[k] /\ k \in history[i].keys
    /\ Writers = {} => history = <<>>

\* Snapshot isolation: what a transaction's snapshot shows differs from the
\* committed data only in keys that others committed after it began.
SnapshotStable ==
    \A t \in Txns : phase[t] = "open" =>
        \A k \in Keys \ overwritten[t] : snapshot[t][k] = data[k]

\* A transaction that commits finds every key it protected as its snapshot
\* showed it, so all its protected reads and its writes take effect together at
\* the commit.
ProtectedReadsCurrent ==
    [][\A t \in Txns : Commit(t) => \A k \in protected[t] : data[k] = snapshot[t][k]]_vars

\* The retained commits are in order and newer than the floor, and no evidence is
\* newer than the last commit.
HistoryOrdered ==
    /\ conflictFloor <= revision
    /\ \A t \in Txns : begun[t] <= revision
    /\ \A k \in Keys : modified[k] <= revision
    /\ \A i \in DOMAIN history : conflictFloor < history[i].number /\ history[i].number <= revision
    /\ \A i, j \in DOMAIN history : i < j => history[i].number < history[j].number

\* Only open transactions collect overwritten keys.
OnlyOpenOverwritten == \A t \in Txns : phase[t] # "open" => overwritten[t] = {}

IInv == TypeOK /\ HistoryOrdered /\ OnlyOpenOverwritten /\ EvidenceExact /\ SnapshotStable
=============================================================================
