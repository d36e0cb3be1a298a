------------------------ MODULE MemoryBackendProofs -------------------------
(***************************************************************************)
(* The in-memory adapter keeps the backend contract, for every number of   *)
(* keys and transactions and whatever its history budget is.               *)
(*                                                                         *)
(* The argument: a transaction older than the conflict floor cannot commit *)
(* with protected keys, and for the others the evidence is exact, because  *)
(* prune_history forgets a key only together with the last commit of that  *)
(* key and then raises the floor to that commit.                           *)
(***************************************************************************)
EXTENDS MemoryBackend, FiniteSetTheorems, SequenceTheorems, TLAPS

\* prune_history: commits leave from the front, the floor follows them, and the
\* evidence of a key is lost only at or below the new floor.
LEMMA PruneFacts ==
    ASSUME NEW h \in Seq(Entries), NEW m \in [Keys -> 0..MaxRevision], NEW keys, NEW oldest,
           conflictFloor \in 0..MaxRevision,
           \A i \in DOMAIN h : conflictFloor < h[i].number,
           \A i, j \in DOMAIN h : i < j => h[i].number < h[j].number,
           Prune(h, m, keys, oldest)
    PROVE  /\ history' \in Seq(Entries)
           /\ modified' \in [Keys -> 0..MaxRevision]
           /\ conflictFloor' \in 0..MaxRevision
           /\ conflictFloor <= conflictFloor'
           /\ conflictFloor' = conflictFloor
                \/ \E i \in DOMAIN h : conflictFloor' = h[i].number
           /\ \A i \in DOMAIN history' :
                /\ conflictFloor' < history'[i].number
                /\ \E j \in DOMAIN h : history'[i].number = h[j].number
           /\ \A i, j \in DOMAIN history' : i < j => history'[i].number < history'[j].number
           /\ \A k \in Keys :
                modified'[k] = m[k] \/ (modified'[k] = 0 /\ m[k] <= conflictFloor')
<1>1. PICK n \in 0..Len(h) :
        /\ history' = SubSeq(h, n + 1, Len(h))
        /\ conflictFloor' = IF n = 0 THEN conflictFloor ELSE h[n].number
        /\ modified' = Forget(h, m, n)
  BY Zenon DEF Prune
<1>2. Len(h) \in Nat /\ DOMAIN h = 1..Len(h) /\ \A i \in 1..Len(h) : h[i] \in Entries
  OBVIOUS
<1>3. \A i \in 1..Len(h) : h[i].number \in 1..MaxRevision
  BY <1>2 DEF Entries
<1>4. /\ history' \in Seq(Entries)
      /\ Len(history') = Len(h) - n
      /\ DOMAIN history' = 1..(Len(h) - n)
      /\ \A i \in 1..(Len(h) - n) : history'[i] = h[n + i]
  <2>1. \A i \in (n + 1)..Len(h) : h[i] \in Entries
    BY <1>2
  <2>2. n + 1 \in Int /\ Len(h) \in Int
    BY <1>2
  <2>3. /\ SubSeq(h, n + 1, Len(h)) \in Seq(Entries)
        /\ Len(SubSeq(h, n + 1, Len(h))) = IF n + 1 <= Len(h) THEN Len(h) - (n + 1) + 1 ELSE 0
        /\ \A i \in 1..(Len(h) - (n + 1) + 1) :
                SubSeq(h, n + 1, Len(h))[i] = h[n + 1 + i - 1]
    BY <2>1, <2>2, SubSeqProperties
  <2> DEFINE rest == SubSeq(h, n + 1, Len(h))
  <2> HIDE DEF rest
  <2>4. history' = rest
    BY <1>1 DEF rest
  <2>5. rest \in Seq(Entries) /\ Len(rest) = Len(h) - n
    <3>1. /\ rest \in Seq(Entries)
          /\ Len(rest) = IF n + 1 <= Len(h) THEN Len(h) - (n + 1) + 1 ELSE 0
      BY <2>3, Zenon DEF rest
    <3>2. \A L \in Nat : (IF n + 1 <= L THEN L - (n + 1) + 1 ELSE 0)
                            = IF n < L THEN L - n ELSE 0
      OBVIOUS
    <3>3. ~(n < Len(h)) => Len(h) - n = 0
      BY <1>2
    <3> QED BY <1>2, <3>1, <3>2, <3>3, Zenon
  <2>6. ASSUME NEW i \in 1..(Len(h) - n) PROVE rest[i] = h[n + i]
    <3>1. i \in 1..(Len(h) - (n + 1) + 1) /\ n + 1 + i - 1 = n + i
      BY <1>2
    <3> QED BY <2>3, <3>1, Zenon DEF rest
  <2> QED BY <2>4, <2>5, <2>6
<1>5. /\ conflictFloor' \in 0..MaxRevision /\ conflictFloor <= conflictFloor'
      /\ conflictFloor' = conflictFloor \/ \E i \in DOMAIN h : conflictFloor' = h[i].number
  <2>1. CASE n = 0
    BY <1>1, <2>1
  <2>2. CASE n # 0
    <3>1. n \in 1..Len(h)
      BY <1>2, <2>2
    <3>2. conflictFloor' = h[n].number /\ conflictFloor < h[n].number
      BY <1>1, <1>2, <2>2, <3>1
    <3> QED BY <1>2, <1>3, <3>1, <3>2, LimitsAssumption
  <2> QED BY <2>1, <2>2
<1>6. ASSUME NEW i \in DOMAIN history'
      PROVE  /\ conflictFloor' < history'[i].number
             /\ \E j \in DOMAIN h : history'[i].number = h[j].number
  <2>1. n + i \in 1..Len(h) /\ history'[i] = h[n + i] /\ n < n + i
    BY <1>2, <1>4
  <2>2. n # 0 => n \in 1..Len(h)
    BY <1>2
  <2>3. n # 0 => h[n].number < h[n + i].number
    BY <1>2, <2>1, <2>2
  <2> QED BY <1>1, <1>2, <2>1, <2>3
<1>7. ASSUME NEW i \in DOMAIN history', NEW j \in DOMAIN history', i < j
      PROVE  history'[i].number < history'[j].number
  <2>1. n + i \in 1..Len(h) /\ n + j \in 1..Len(h) /\ n + i < n + j
    BY <1>2, <1>4, <1>7
  <2> QED BY <1>2, <1>4, <1>7, <2>1
<1>8. modified' \in [Keys -> 0..MaxRevision]
  BY <1>1, LimitsAssumption DEF Forget
<1>9. ASSUME NEW k \in Keys
      PROVE  modified'[k] = m[k] \/ (modified'[k] = 0 /\ m[k] <= conflictFloor')
  <2>1. CASE \E i \in 1..n : k \in h[i].keys /\ m[k] = h[i].number
    <3>1. PICK i \in 1..n : m[k] = h[i].number
      BY <2>1
    <3>2. i \in 1..Len(h) /\ n \in 1..Len(h) /\ n # 0 /\ (i = n \/ i < n)
      BY <1>2
    <3>3. h[i].number <= h[n].number
      BY <1>2, <1>3, <3>2
    <3>4. modified'[k] = 0
      BY <1>1, <2>1 DEF Forget
    <3> QED BY <1>1, <3>1, <3>2, <3>3, <3>4
  <2>2. CASE ~ \E i \in 1..n : k \in h[i].keys /\ m[k] = h[i].number
    BY <1>1, <2>2 DEF Forget
  <2> QED BY <2>1, <2>2
<1> QED BY <1>4, <1>5, <1>6, <1>7, <1>8, <1>9

-----------------------------------------------------------------------------
\* The empty adapter satisfies the invariant.
LEMMA InitIInv == Init => IInv
BY LimitsAssumption
   DEF Init, Contract!Init, IInv, TypeOK, HistoryOrdered, OnlyOpenOverwritten, EvidenceExact,
       SnapshotStable, Contract!Nothing, Contract!NoWrites, Contract!Stored, Entries

\* Steps that touch neither the data nor the evidence: only the handle t changes,
\* and it opens with a fresh snapshot, stays as it is, or closes.
LEMMA HandleKeeps ==
    ASSUME IInv, TypeOK', NEW t \in Txns,
           UNCHANGED <<data, revision, modified, history, conflictFloor>>,
           \A u \in Txns \ {t} :
                /\ phase'[u] = phase[u] /\ snapshot'[u] = snapshot[u]
                /\ overwritten'[u] = overwritten[u] /\ begun'[u] = begun[u],
           begun'[t] <= revision,
           \/ phase'[t] = "open" /\ snapshot'[t] = data /\ overwritten'[t] = {}
                /\ begun'[t] = revision
           \/ phase'[t] = phase[t] /\ snapshot'[t] = snapshot[t]
                /\ overwritten'[t] = overwritten[t] /\ begun'[t] = begun[t]
           \/ phase'[t] # "open" /\ overwritten'[t] = {}
    PROVE  IInv'
<1> USE DEF IInv
<1>1. HistoryOrdered'
  BY DEF HistoryOrdered
<1>2. OnlyOpenOverwritten'
  BY DEF OnlyOpenOverwritten
<1>3. EvidenceExact'
  <2> SUFFICES ASSUME NEW u \in Txns, phase'[u] = "open", begun'[u] >= conflictFloor
               PROVE  overwritten'[u] = {k \in Keys : modified[k] > begun'[u]}
    BY DEF EvidenceExact
  <2>1. CASE /\ phase'[u] = phase[u] /\ overwritten'[u] = overwritten[u]
             /\ begun'[u] = begun[u]
    BY <2>1 DEF EvidenceExact
  <2>2. CASE begun'[u] = revision /\ overwritten'[u] = {}
    <3>1. \A k \in Keys : ~(modified[k] > revision)
      BY DEF HistoryOrdered, TypeOK
    <3> QED BY <2>2, <3>1
  <2> QED BY <2>1, <2>2
<1>4. SnapshotStable'
  BY DEF SnapshotStable
<1> QED BY <1>1, <1>2, <1>3, <1>4

\* begin_write takes a snapshot for which the evidence is complete and empty.
LEMMA BeginKeeps == ASSUME IInv, NEW t \in Txns, Begin(t) PROVE IInv'
<1> USE DEF IInv
<1>1. TypeOK'
  BY DEF Begin, Contract!Begin, evidence, TypeOK
<1>2. overwritten[t] = {}
  BY DEF Begin, Contract!Begin, OnlyOpenOverwritten
<1>3. begun'[t] = revision /\ revision <= revision
  BY DEF Begin, TypeOK
<1> QED BY <1>1, <1>2, <1>3, HandleKeeps DEF Begin, Contract!Begin, evidence, TypeOK

\* Reads and staged writes are private to their transaction.
LEMMA PrivateKeeps ==
    ASSUME IInv, NEW t \in Txns,
           \/ \E K \in SUBSET Keys : Protect(t, K)
           \/ \E f \in [Keys -> Contract!Stored \cup {Untouched}] : Mutate(t, f)
           \/ \E k \in Keys, v \in Values : Insert(t, k, v)
           \/ \E k \in Keys : InsertRefused(t, k)
    PROVE  IInv'
<1>0. /\ protected \in [Txns -> SUBSET Keys]
      /\ writes \in [Txns -> [Keys -> Contract!Stored \cup {Untouched}]]
      /\ count \in [Txns -> 0..MaxMutations]
  BY DEF IInv, TypeOK
<1>1. UNCHANGED <<data, phase, snapshot, overwritten, begun, evidence>>
  BY Zenon
     DEF Protect, Mutate, Insert, InsertRefused, Contract!Protect, Contract!Mutate, Contract!Insert
<1>2. protected' \in [Txns -> SUBSET Keys]
  <2>1. PICK K \in SUBSET Keys : protected' = [protected EXCEPT ![t] = @ \cup K]
                                  \/ protected' = protected
    BY Zenon DEF Protect, Mutate, Insert, InsertRefused, Contract!Protect, Contract!Mutate,
                 Contract!Insert
  <2> QED BY <1>0, <2>1
<1>3. writes' \in [Txns -> [Keys -> Contract!Stored \cup {Untouched}]]
  <2>1. ASSUME NEW f \in [Keys -> Contract!Stored \cup {Untouched}], Mutate(t, f)
        PROVE  writes' \in [Txns -> [Keys -> Contract!Stored \cup {Untouched}]]
    BY <1>0, <2>1 DEF Mutate, Contract!Mutate
  <2>2. ASSUME NEW k \in Keys, NEW v \in Values, Insert(t, k, v)
        PROVE  writes' \in [Txns -> [Keys -> Contract!Stored \cup {Untouched}]]
    BY <1>0, <2>2 DEF Insert, Contract!Insert, Contract!Stored
  <2>3. (\E K \in SUBSET Keys : Protect(t, K)) \/ (\E k \in Keys : InsertRefused(t, k))
            => writes' = writes
    BY DEF Protect, InsertRefused, Contract!Protect
  <2> QED BY <1>0, <2>1, <2>2, <2>3
<1>4. count' \in [Txns -> 0..MaxMutations]
  <2>1. ASSUME NEW f \in [Keys -> Contract!Stored \cup {Untouched}], Mutate(t, f)
        PROVE  count' \in [Txns -> 0..MaxMutations]
    <3> DEFINE n == Cardinality({k \in Keys : f[k] # Untouched})
    <3>1. n \in Nat
      <4>1. {k \in Keys : f[k] # Untouched} \subseteq Keys
        OBVIOUS
      <4> QED BY <4>1, KeysAssumption, FS_Subset, FS_CardinalityType
    <3>2. n <= MaxMutations - count[t] /\ count' = [count EXCEPT ![t] = @ + n]
      BY <2>1 DEF Mutate
    <3> HIDE DEF n
    <3> QED BY <3>1, <3>2, <1>0, LimitsAssumption
  <2>2. ASSUME NEW k \in Keys, NEW v \in Values, Insert(t, k, v)
        PROVE  count' \in [Txns -> 0..MaxMutations]
    <3>1. count' = count \/ (count[t] < MaxMutations /\ count' = [count EXCEPT ![t] = @ + 1])
      BY <2>2 DEF Insert
    <3> QED BY <3>1, <1>0, LimitsAssumption
  <2>3. (\E K \in SUBSET Keys : Protect(t, K)) \/ (\E k \in Keys : InsertRefused(t, k))
            => count' = count
    BY Zenon DEF Protect, InsertRefused
  <2> QED BY <1>0, <2>1, <2>2, <2>3
<1>5. TypeOK'
  BY <1>1, <1>2, <1>3, <1>4 DEF IInv, TypeOK, evidence
<1> QED BY <1>1, <1>5, HandleKeeps DEF IInv, evidence, HistoryOrdered

\* A failed commit only closes its handle.
LEMMA FailKeeps == ASSUME IInv, NEW t \in Txns, Fail(t) PROVE IInv'
<1> USE DEF IInv
<1>1. TypeOK'
  BY LimitsAssumption
     DEF Fail, Contract!Fail, Contract!Close, evidence, TypeOK, Contract!Nothing,
         Contract!NoWrites, Contract!Stored
<1> QED BY <1>1, HandleKeeps
        DEF Fail, Contract!Fail, Contract!Close, evidence, TypeOK, HistoryOrdered

\* What was forgotten is at or below the new floor, so a covered transaction
\* still sees every later commit.
LEMMA ForgottenIsOld ==
    ASSUME NEW m \in [Keys -> 0..MaxRevision], NEW b \in 0..MaxRevision,
           conflictFloor' \in 0..MaxRevision, b >= conflictFloor',
           \A k \in Keys : modified'[k] = m[k] \/ (modified'[k] = 0 /\ m[k] <= conflictFloor')
    PROVE  {k \in Keys : modified'[k] > b} = {k \in Keys : m[k] > b}
<1>1. ASSUME NEW k \in Keys PROVE modified'[k] > b <=> m[k] > b
  <2>1. m[k] \in Nat /\ b \in Nat /\ conflictFloor' \in Nat
    BY LimitsAssumption
  <2> QED BY <2>1, LimitsAssumption
<1> QED BY <1>1

\* commit_with: the new commit is evidence for every transaction still open.
LEMMA CommitKeeps == ASSUME IInv, NEW t \in Txns, Commit(t) PROVE IInv'
<1> DEFINE touched == Contract!Touched(t)
           now == revision + 1
           h == Append(history, [number |-> now, keys |-> touched])
           m == [k \in Keys |-> IF k \in touched THEN now ELSE modified[k]]
<1> HIDE DEF touched, now, h, m
<1>1. /\ TypeOK /\ HistoryOrdered /\ OnlyOpenOverwritten /\ EvidenceExact /\ SnapshotStable
  BY DEF IInv
<1>2. /\ phase[t] = "open"
      /\ data' = [k \in Keys |-> IF k \in touched THEN writes[t][k] ELSE data[k]]
      /\ revision' = now
      /\ Prune(h, m, historyKeys + Cardinality(touched), Oldest(Writers, now))
      /\ overwritten' = [u \in Txns |->
                            IF u = t THEN {}
                            ELSE IF phase[u] = "open" THEN overwritten[u] \cup touched
                            ELSE overwritten[u]]
      /\ Contract!Close(t)
      /\ count' = [count EXCEPT ![t] = 0]
      /\ begun' = begun
  BY DEF Commit, touched, now, h, m
<1>3. touched \subseteq Keys /\ \A k \in touched : writes[t][k] \in Contract!Stored
  <2>1. writes[t] \in [Keys -> Contract!Stored \cup {Untouched}]
    BY <1>1 DEF TypeOK
  <2>2. touched = {k \in Keys : writes[t][k] # Untouched}
    BY Zenon DEF touched, Contract!Touched
  <2> QED BY <2>1, <2>2
<1>4. now \in 1..MaxRevision /\ now = revision + 1 /\ revision \in 0..MaxRevision
  <2>1. revision < MaxRevision
    BY DEF Commit
  <2> QED BY <1>1, <2>1, LimitsAssumption DEF now, TypeOK
<1>5. m \in [Keys -> 0..MaxRevision]
  BY <1>1, <1>4 DEF m, TypeOK
<1>6. /\ history \in Seq(Entries) /\ Len(history) \in Nat /\ DOMAIN history = 1..Len(history)
      /\ conflictFloor \in 0..MaxRevision
      /\ \A i \in DOMAIN history : history[i].number \in 1..MaxRevision
  <2>1. history \in Seq(Entries) /\ conflictFloor \in 0..MaxRevision
    BY <1>1 DEF TypeOK
  <2>2. \A i \in 1..Len(history) : history[i] \in Entries
    BY <2>1
  <2> QED BY <2>1, <2>2 DEF Entries
<1>7. /\ h \in Seq(Entries) /\ DOMAIN h = 1..(Len(history) + 1)
      /\ \A i \in DOMAIN history : h[i] = history[i]
      /\ h[Len(history) + 1].number = now
  <2>1. [number |-> now, keys |-> touched] \in Entries
    BY <1>3, <1>4 DEF Entries
  <2> QED BY <1>6, <2>1 DEF h
<1>8. \A i \in DOMAIN h : conflictFloor < h[i].number /\ h[i].number <= now
  <2>1. ASSUME NEW i \in DOMAIN history
        PROVE  conflictFloor < h[i].number /\ h[i].number <= now
    BY <1>1, <1>4, <1>6, <1>7 DEF HistoryOrdered
  <2>2. conflictFloor < now
    BY <1>1, <1>4, <1>6 DEF HistoryOrdered
  <2> QED BY <1>4, <1>6, <1>7, <2>1, <2>2
<1>9. \A i, j \in DOMAIN h : i < j => h[i].number < h[j].number
  <2> SUFFICES ASSUME NEW i \in DOMAIN h, NEW j \in DOMAIN h, i < j
               PROVE  h[i].number < h[j].number
    OBVIOUS
  <2>1. i \in DOMAIN history
    BY <1>6, <1>7
  <2>2. CASE j \in DOMAIN history
    BY <1>1, <1>7, <2>1, <2>2 DEF HistoryOrdered
  <2>3. CASE j = Len(history) + 1
    <3>1. history[i].number <= revision
      BY <1>1, <2>1 DEF HistoryOrdered
    <3> QED BY <1>4, <1>6, <1>7, <2>1, <2>3, <3>1
  <2> QED BY <1>6, <1>7, <2>2, <2>3
<1>10. /\ history' \in Seq(Entries) /\ modified' \in [Keys -> 0..MaxRevision]
       /\ conflictFloor' \in 0..MaxRevision /\ conflictFloor <= conflictFloor'
       /\ conflictFloor' = conflictFloor \/ \E i \in DOMAIN h : conflictFloor' = h[i].number
       /\ \A i \in DOMAIN history' :
            /\ conflictFloor' < history'[i].number
            /\ \E j \in DOMAIN h : history'[i].number = h[j].number
       /\ \A i, j \in DOMAIN history' : i < j => history'[i].number < history'[j].number
       /\ \A k \in Keys : modified'[k] = m[k] \/ (modified'[k] = 0 /\ m[k] <= conflictFloor')
  BY <1>2, <1>5, <1>6, <1>7, <1>8, <1>9, PruneFacts, Zenon
<1>11. TypeOK'
  <2>1. /\ phase' = [phase EXCEPT ![t] = "closed"]
        /\ snapshot' = [snapshot EXCEPT ![t] = Contract!Nothing]
        /\ protected' = [protected EXCEPT ![t] = {}]
        /\ writes' = [writes EXCEPT ![t] = Contract!NoWrites]
    BY <1>2 DEF Contract!Close
  <2>2. data' \in [Keys -> Contract!Stored]
    BY <1>1, <1>2, <1>3 DEF TypeOK
  <2>3. overwritten' \in [Txns -> SUBSET Keys]
    BY <1>1, <1>2, <1>3 DEF TypeOK
  <2>4. count' \in [Txns -> 0..MaxMutations]
    BY <1>1, <1>2, LimitsAssumption DEF TypeOK
  <2>5. /\ phase' \in [Txns -> {"idle", "open", "closed"}]
        /\ snapshot' \in [Txns -> [Keys -> Contract!Stored]]
        /\ protected' \in [Txns -> SUBSET Keys]
        /\ writes' \in [Txns -> [Keys -> Contract!Stored \cup {Untouched}]]
    BY <1>1, <2>1 DEF TypeOK, Contract!Nothing, Contract!NoWrites, Contract!Stored
  <2>6. begun' \in [Txns -> 0..MaxRevision] /\ revision' \in 0..MaxRevision
    BY <1>1, <1>2, <1>4 DEF TypeOK
  <2> QED BY <1>10, <2>2, <2>3, <2>4, <2>5, <2>6 DEF TypeOK
<1>12. HistoryOrdered'
  <2>1. conflictFloor' <= now
    BY <1>1, <1>4, <1>6, <1>8, <1>10 DEF HistoryOrdered
  <2>2. \A u \in Txns : begun[u] <= now
    BY <1>1, <1>4 DEF HistoryOrdered, TypeOK
  <2>3. ASSUME NEW k \in Keys PROVE modified'[k] <= now
    <3>1. m[k] <= now
      BY <1>1, <1>4 DEF m, HistoryOrdered, TypeOK
    <3> QED BY <1>4, <1>10, <3>1
  <2>4. \A i \in DOMAIN history' : history'[i].number <= now
    BY <1>8, <1>10
  <2> QED BY <1>2, <1>10, <2>1, <2>2, <2>3, <2>4 DEF HistoryOrdered
<1>13. ASSUME NEW u \in Txns, phase'[u] = "open"
       PROVE  /\ u # t /\ phase[u] = "open" /\ snapshot'[u] = snapshot[u]
              /\ overwritten'[u] = overwritten[u] \cup touched
  BY <1>1, <1>2, <1>13 DEF TypeOK, Contract!Close
<1>14. OnlyOpenOverwritten'
  BY <1>1, <1>2 DEF OnlyOpenOverwritten, TypeOK, Contract!Close
<1>15. EvidenceExact'
  <2> SUFFICES ASSUME NEW u \in Txns, phase'[u] = "open", begun[u] >= conflictFloor'
               PROVE  overwritten'[u] = {k \in Keys : modified'[k] > begun[u]}
    BY <1>2 DEF EvidenceExact
  <2>1. begun[u] \in 0..MaxRevision /\ begun[u] <= revision /\ begun[u] >= conflictFloor
    BY <1>1, <1>6, <1>10 DEF HistoryOrdered, TypeOK
  <2>2. {k \in Keys : modified'[k] > begun[u]} = {k \in Keys : m[k] > begun[u]}
    BY <1>5, <1>10, <2>1, ForgottenIsOld
  <2>3. overwritten[u] = {k \in Keys : modified[k] > begun[u]}
    BY <1>1, <1>13, <2>1 DEF EvidenceExact
  <2>4. now > begun[u]
    BY <1>4, <2>1
  <2>5. {k \in Keys : m[k] > begun[u]} = overwritten[u] \cup touched
    BY <1>3, <2>3, <2>4 DEF m
  <2> QED BY <1>13, <2>2, <2>5
<1>16. SnapshotStable'
  <2> SUFFICES ASSUME NEW u \in Txns, phase'[u] = "open", NEW k \in Keys \ overwritten'[u]
               PROVE  snapshot'[u][k] = data'[k]
    BY DEF SnapshotStable
  <2>1. k \notin overwritten[u] /\ k \notin touched
    BY <1>13
  <2> QED BY <1>1, <1>2, <1>13, <2>1 DEF SnapshotStable
<1> QED BY <1>11, <1>12, <1>14, <1>15, <1>16 DEF IInv

\* release_writer: only evidence that no open transaction needs goes.
LEMMA DropKeeps == ASSUME IInv, NEW t \in Txns, Drop(t) PROVE IInv'
<1>1. /\ TypeOK /\ HistoryOrdered /\ OnlyOpenOverwritten /\ EvidenceExact /\ SnapshotStable
  BY DEF IInv
<1>2. /\ Contract!Drop(t)
      /\ begun' = [begun EXCEPT ![t] = 0] /\ count' = [count EXCEPT ![t] = 0]
      /\ Prune(history, modified, historyKeys, Oldest(Writers \ {t}, revision))
      /\ revision' = revision
  BY DEF Drop
<1>3. /\ history \in Seq(Entries) /\ modified \in [Keys -> 0..MaxRevision]
      /\ conflictFloor \in 0..MaxRevision /\ revision \in 0..MaxRevision
  BY <1>1 DEF TypeOK
<1>4. /\ \A i \in DOMAIN history : conflictFloor < history[i].number
      /\ \A i, j \in DOMAIN history : i < j => history[i].number < history[j].number
  BY <1>1 DEF HistoryOrdered
<1>5. /\ history' \in Seq(Entries) /\ modified' \in [Keys -> 0..MaxRevision]
      /\ conflictFloor' \in 0..MaxRevision /\ conflictFloor <= conflictFloor'
      /\ conflictFloor' = conflictFloor
            \/ \E i \in DOMAIN history : conflictFloor' = history[i].number
      /\ \A i \in DOMAIN history' :
            /\ conflictFloor' < history'[i].number
            /\ \E j \in DOMAIN history : history'[i].number = history[j].number
      /\ \A i, j \in DOMAIN history' : i < j => history'[i].number < history'[j].number
      /\ \A k \in Keys :
            modified'[k] = modified[k] \/ (modified'[k] = 0 /\ modified[k] <= conflictFloor')
  BY <1>2, <1>3, <1>4, PruneFacts, Zenon
<1>6. TypeOK'
  <2>1. /\ phase' \in [Txns -> {"idle", "open", "closed"}]
        /\ snapshot' \in [Txns -> [Keys -> Contract!Stored]]
        /\ protected' \in [Txns -> SUBSET Keys]
        /\ writes' \in [Txns -> [Keys -> Contract!Stored \cup {Untouched}]]
        /\ overwritten' \in [Txns -> SUBSET Keys]
        /\ data' \in [Keys -> Contract!Stored]
    BY <1>1, <1>2
       DEF TypeOK, Contract!Drop, Contract!Nothing, Contract!NoWrites, Contract!Stored
  <2>2. begun' \in [Txns -> 0..MaxRevision] /\ count' \in [Txns -> 0..MaxMutations]
    BY <1>1, <1>2, LimitsAssumption DEF TypeOK
  <2> QED BY <1>2, <1>3, <1>5, <2>1, <2>2 DEF TypeOK
<1>7. HistoryOrdered'
  <2>1. conflictFloor' <= revision
    BY <1>1, <1>5 DEF HistoryOrdered
  <2>2. \A u \in Txns : begun'[u] <= revision
    BY <1>1, <1>2, <1>3 DEF HistoryOrdered, TypeOK
  <2>3. \A k \in Keys : modified'[k] <= revision
    BY <1>1, <1>3, <1>5 DEF HistoryOrdered
  <2>4. \A i \in DOMAIN history' : history'[i].number <= revision
    BY <1>1, <1>5 DEF HistoryOrdered
  <2> QED BY <1>2, <1>5, <2>1, <2>2, <2>3, <2>4 DEF HistoryOrdered
<1>8. ASSUME NEW u \in Txns, phase'[u] = "open"
      PROVE  /\ phase[u] = "open" /\ snapshot'[u] = snapshot[u]
             /\ overwritten'[u] = overwritten[u] /\ begun'[u] = begun[u]
  BY <1>1, <1>2, <1>8 DEF TypeOK, Contract!Drop
<1>9. OnlyOpenOverwritten'
  BY <1>1, <1>2 DEF OnlyOpenOverwritten, TypeOK, Contract!Drop
<1>10. EvidenceExact'
  <2> SUFFICES ASSUME NEW u \in Txns, phase'[u] = "open", begun'[u] >= conflictFloor'
               PROVE  overwritten'[u] = {k \in Keys : modified'[k] > begun'[u]}
    BY DEF EvidenceExact
  <2>1. begun[u] \in 0..MaxRevision /\ begun[u] >= conflictFloor /\ begun[u] >= conflictFloor'
    BY <1>1, <1>3, <1>5, <1>8 DEF TypeOK
  <2>2. {k \in Keys : modified'[k] > begun[u]} = {k \in Keys : modified[k] > begun[u]}
    BY <1>3, <1>5, <2>1, ForgottenIsOld, ZenonT(30)
  <2>3. overwritten[u] = {k \in Keys : modified[k] > begun[u]}
    BY <1>1, <1>8, <2>1 DEF EvidenceExact
  <2> QED BY <1>8, <2>2, <2>3
<1>11. SnapshotStable'
  BY <1>1, <1>2, <1>8 DEF SnapshotStable, Contract!Drop
<1> QED BY <1>6, <1>7, <1>9, <1>10, <1>11 DEF IInv

\* Stuttering keeps the invariant.
LEMMA StutterKeeps == ASSUME IInv, UNCHANGED vars PROVE IInv'
BY DEF IInv, vars, TypeOK, HistoryOrdered, OnlyOpenOverwritten, EvidenceExact, SnapshotStable

\* The invariant is inductive.
LEMMA NextIInv == IInv /\ [Next]_vars => IInv'
<1> SUFFICES ASSUME IInv, Next PROVE IInv'
  BY StutterKeeps
<1>1. PICK t \in Txns :
        \/ Begin(t)
        \/ \E K \in SUBSET Keys : Protect(t, K)
        \/ \E f \in [Keys -> Contract!Stored \cup {Untouched}] : Mutate(t, f)
        \/ \E k \in Keys, v \in Values : Insert(t, k, v)
        \/ \E k \in Keys : InsertRefused(t, k)
        \/ Commit(t)
        \/ Fail(t)
        \/ Drop(t)
  BY Zenon DEF Next
<1> QED BY <1>1, BeginKeeps, PrivateKeeps, CommitKeeps, FailKeeps, DropKeeps, Zenon

\* The evidence of the adapter is exact in every reachable state.
THEOREM Invariance == Spec => []IInv
BY InitIInv, NextIInv, PTL DEF Spec

\* A covered transaction's evidence names precisely the keys that were committed
\* by others since its snapshot (State::modified, prune_history).
THEOREM ForgettingExact == Spec => []EvidenceExact
<1>1. IInv => EvidenceExact
  BY DEF IInv
<1> QED BY <1>1, Invariance, PTL

\* The conflict test of commit_with lets no transaction through whose protected
\* keys were overwritten.
LEMMA NoConflictMissed ==
    ASSUME IInv, NEW t \in Txns, phase[t] = "open", ~Conflict(t)
    PROVE  protected[t] \cap overwritten[t] = {}
<1>1. CASE protected[t] = {}
  BY <1>1
<1>2. CASE protected[t] # {}
  <2>1. begun[t] >= conflictFloor /\ \A k \in protected[t] : ~(modified[k] > begun[t])
    <3>1. begun[t] \in Int /\ conflictFloor \in Int
      BY DEF IInv, TypeOK
    <3> QED BY <1>2, <3>1 DEF Conflict
  <2>2. overwritten[t] = {k \in Keys : modified[k] > begun[t]}
    BY <2>1 DEF IInv, EvidenceExact
  <2> QED BY <2>1, <2>2
<1> QED BY <1>1, <1>2

\* The adapter implements the backend contract: its steps are the steps of the
\* contract, whatever evidence it has forgotten.
THEOREM Refinement == Spec => ImplementsContract
<1>1. Init => Contract!Init
  BY DEF Init
<1>2. IInv /\ [Next]_vars => [Contract!Next]_Contract!contractVars
  <2> SUFFICES ASSUME IInv, Next PROVE Contract!Next
    BY DEF vars, Contract!contractVars
  <2>1. ASSUME NEW t \in Txns, Commit(t) PROVE Contract!Commit(t)
    <3>1. protected[t] \cap overwritten[t] = {}
      BY <2>1, NoConflictMissed DEF Commit
    <3> QED BY <2>1, <3>1, Zenon DEF Commit, Contract!Commit
  <2>2. ASSUME NEW t \in Txns, NEW k \in Keys, InsertRefused(t, k)
        PROVE  Contract!Protect(t, {k}) /\ {k} \in SUBSET Keys
    BY <2>2 DEF InsertRefused, Protect
  <2> QED BY <2>1, <2>2, Zenon
          DEF Next, Begin, Protect, Mutate, Insert, Fail, Drop, Contract!Next, Contract!Step
<1> QED BY <1>1, <1>2, Invariance, PTL DEF Spec, ImplementsContract, Contract!Spec

\* A committed transaction's protected reads are current at its commit.
THEOREM ReadsCurrent == Spec => ProtectedReadsCurrent
<1>1. IInv /\ [Next]_vars =>
        [\A t \in Txns : Commit(t) => \A k \in protected[t] : data[k] = snapshot[t][k]]_vars
  <2> SUFFICES ASSUME IInv, NEW t \in Txns, Commit(t), NEW k \in protected[t]
               PROVE  data[k] = snapshot[t][k]
    OBVIOUS
  <2>1. phase[t] = "open" /\ ~Conflict(t)
    BY DEF Commit
  <2>2. k \in Keys /\ k \notin overwritten[t]
    BY <2>1, NoConflictMissed DEF IInv, TypeOK
  <2> QED BY <2>1, <2>2 DEF IInv, SnapshotStable
<1> QED BY <1>1, Invariance, PTL DEF Spec, ProtectedReadsCurrent
=============================================================================
