------------------------------ MODULE Topology ------------------------------
(***************************************************************************)
(* One K-means tree of an index: the durable topology state machine and    *)
(* the record mutations that run beside it.                                *)
(*                                                                         *)
(* The state is what the key-value store holds for the tree.  Every action *)
(* is one committed transaction.  A transaction commits only if no key it  *)
(* read with update protection was written after its snapshot, so a        *)
(* transaction whose decisive reads are all protected behaves as if it ran *)
(* at its commit (MemoryBackend).  Two kinds of step are not of that form  *)
(* and keep what they read in `plan` until they commit:                    *)
(*   - expose_targets and the split drain classify the source in a read    *)
(*     snapshot and write in a later transaction;                          *)
(*   - begin_merge looks for a Ready target without protecting it.         *)
(*                                                                         *)
(* Abstractions.  Vectors, centroids and distances are left out: a route   *)
(* may end in any leaf that some distances select.  Timestamps and cache   *)
(* epochs are left out.  A synopsis is the set of the leaf's records whose *)
(* current field values it covers.  Local graphs are off.                  *)
(***************************************************************************)
EXTENDS Integers, FiniteSets, SplitBalance

CONSTANTS
    Records,        \* Record IDs
    Workers,        \* maintenance workers, of one or several processes
    MaxKey,         \* the largest Partition Key (u64::MAX in the code)
    MinLeaf, MaxLeaf, MinInternal, MaxInternal,     \* configured thresholds
    DrainBatch      \* the largest drain batch

PKeys == 1..MaxKey
Root == 1

\* Record IDs and Partition Keys are different key spaces.
ASSUME RecordsAssumption == IsFiniteSet(Records) /\ Records \cap PKeys = {}

\* validate_partition_entries, and one key at least for the root.
ASSUME ThresholdAssumption ==
    /\ MaxKey \in Nat /\ MaxKey >= 1
    /\ MinLeaf \in Nat \ {0} /\ MaxLeaf \in Nat /\ 2 * MinLeaf <= MaxLeaf
    /\ MinInternal \in Nat \ {0} /\ MaxInternal \in Nat /\ 2 * MinInternal <= MaxInternal
    /\ DrainBatch \in Nat \ {0}

VARIABLES
    highWater,  \* the Tree Manifest's allocator mark; 0 while there is no manifest
    header,     \* Header of each partition
    state,      \* State of each partition
    body,       \* Leaf Entries (level 1) or Child Entries of each partition
    synopsis,   \* records of the leaf whose fields its Synopsis covers
    stored,     \* records whose Record key exists
    location,   \* Record Location; 0 when absent
    plan        \* what each worker observed and has not acted on yet

tree == <<highWater, header, state, body, synopsis>>
vars == <<highWater, header, state, body, synopsis, stored, location, plan>>

Tags == {"Absent", "Ready", "Splitting", "ReceivingSplit", "DrainingSplit", "Merging"}

NoHeader == [level |-> 0, count |-> 0, tag |-> "Absent"]
NoState == [tag |-> "Absent", left |-> 0, right |-> 0, source |-> 0]
Ready == [tag |-> "Ready", left |-> 0, right |-> 0, source |-> 0]
Merging == [tag |-> "Merging", left |-> 0, right |-> 0, source |-> 0]
Splitting(l, r) == [tag |-> "Splitting", left |-> l, right |-> r, source |-> 0]
DrainingSplit(l, r) == [tag |-> "DrainingSplit", left |-> l, right |-> r, source |-> 0]
ReceivingSplit(s) == [tag |-> "ReceivingSplit", left |-> 0, right |-> 0, source |-> s]

Idle == [op |-> "idle", source |-> 0, left |-> 0, right |-> 0]
Plan(op, s, l, r) == [op |-> op, source |-> s, left |-> l, right |-> r]

Exists(p) == header[p].tag # "Absent"

\* A mutant of AcceptsWrites: a draining source still takes entries.
AcceptsUnlessMerging(tag) == tag \in {"Ready", "Splitting", "ReceivingSplit", "DrainingSplit"}

AcceptsWrites(tag) == tag \in {"Ready", "Splitting", "ReceivingSplit"}
MinEntries(level) == IF level = 1 THEN MinLeaf ELSE MinInternal
MaxEntries(level) == IF level = 1 THEN MaxLeaf ELSE MaxInternal

-----------------------------------------------------------------------------
(* Root-down discovery and write routing.                                  *)

\* A mutant of RootFamily: the unlinked targets of a root split are forgotten.
RootOnly == {Root}

\* The bodies a root-down scan starts from: a splitting root's targets have no
\* parent edge and are found through the root's State.
RootFamily ==
    {Root} \cup
    (IF state[Root].tag \in {"Splitting", "DrainingSplit"}
     THEN {t \in {state[Root].left, state[Root].right} : Exists(t)}
     ELSE {})

\* A mutant of LevelBodies: the bodies of merging partitions are not walked.
LevelBodiesUnmerged(level) ==
    LET Down[d \in Nat] ==
            IF d = 0 THEN RootFamily
            ELSE UNION {body[b] : b \in {c \in Down[d - 1] : header[c].tag # "Merging"}}
    IN  IF level > header[Root].level THEN {} ELSE Down[header[Root].level - level]

\* level_bodies: the partitions of one level, walking every Child Entry.
LevelBodies(level) ==
    LET Down[d \in Nat] ==
            IF d = 0 THEN RootFamily ELSE UNION {body[b] : b \in Down[d - 1]}
    IN  IF level > header[Root].level THEN {} ELSE Down[header[Root].level - level]

\* find_incoming_edge: the parents a root-down scan finds for p, one level up.
Incoming(p) ==
    {b \in PKeys : /\ p \in body[b]
                   /\ header[b].level = header[p].level + 1
                   /\ b \in LevelBodies(header[p].level + 1)}

\* same_level_candidates filtered by is_legal_merge_target.
ReadyTargets(p) ==
    {q \in PKeys \ {p} :
        /\ header[q].tag = "Ready"
        /\ header[q].level = header[p].level
        /\ \E b \in LevelBodies(header[p].level + 1) : q \in body[b]}

Family(p) == {p, state[p].left, state[p].right}

\* resolve_hop on an internal partition: the alternatives for the set of bodies
\* whose Child Entries the descent scans next.
HopBodies(b) ==
    CASE header[b].tag \in {"Ready", "Splitting"} -> {{b}}
      [] header[b].tag = "DrainingSplit" -> {Family(b)}
      [] header[b].tag = "ReceivingSplit" ->
            IF state[state[b].source].tag = "DrainingSplit"
            THEN {Family(state[b].source)} ELSE {}
      [] header[b].tag = "Merging" -> {{c} : c \in ReadyTargets(b)}
      [] OTHER -> {}

\* The partitions a write descent can visit, d levels below the root.
Descent(d) ==
    LET Visit[n \in Nat] ==
            IF n = 0 THEN {Root}
            ELSE UNION {UNION {UNION {body[x] : x \in B} : B \in HopBodies(b)} :
                            b \in Visit[n - 1]}
    IN  Visit[d]


\* resolve_hop, drain_redirect and the merge reroute on a leaf.
LeafRoutes(b) ==
    CASE AcceptsWrites(header[b].tag) -> {b}
      [] header[b].tag = "DrainingSplit" -> {state[b].left, state[b].right}
      [] header[b].tag = "Merging" -> ReadyTargets(b)
      [] OTHER -> {}

\* The level-one partitions where a write descent ends.
DescentEnds == IF Exists(Root) THEN Descent(header[Root].level - 1) ELSE {}

-----------------------------------------------------------------------------
(* Exact membership: what every membership write does to one leaf.         *)

\* A commit that writes a Header, a State or an incoming Child Entry aborts the
\* begin_merge transactions that protected that key in an older snapshot.
PlansAfter(written) ==
    [w \in Workers |->
        IF plan[w].op = "merge" /\ plan[w].source \in written THEN Idle ELSE plan[w]]

\* PartitionSynopsis::expand.
Expand(covered, r) == covered \cup {r}

\* added_entry, removed_entry (the cache epoch is left out).
Added(h, n) == [h EXCEPT !.count = @ + n]
Removed(h, n) == [h EXCEPT !.count = @ - n]

\* with_state.
WithState(h, tag) == [h EXCEPT !.tag = tag]

\* expect_write_target.
IsWriteTarget(t) == header[t].level = 1 /\ AcceptsWrites(header[t].tag)

-----------------------------------------------------------------------------
(* Foreground mutations.  The transaction protects the routed leaf's Header *)
(* and its incoming reference (validate_for_write) and none of the levels  *)
(* above, which may have changed since its snapshot: at the commit a write *)
(* may go to any leaf that accepts writes.  Where a descent ends in one    *)
(* snapshot is the subject of RoutesLand.                                  *)

\* The first insert of a Tree Key: ensure_tree and create_tree install the Tree
\* Manifest and the empty leaf root in the transaction that inserts the record.
InsertFirst(r) ==
    /\ highWater = 0
    /\ highWater' = Root
    /\ header' = [header EXCEPT ![Root] = [level |-> 1, count |-> 1, tag |-> "Ready"]]
    /\ state' = [state EXCEPT ![Root] = Ready]
    /\ body' = [body EXCEPT ![Root] = {r}]
    /\ synopsis' = [synopsis EXCEPT ![Root] = Expand({}, r)]
    /\ stored' = stored \cup {r}
    /\ location' = [location EXCEPT ![r] = Root]
    /\ UNCHANGED plan

\* insert_record_with_header into the routed leaf.
InsertInto(r, t) ==
    /\ IsWriteTarget(t)
    /\ body' = [body EXCEPT ![t] = @ \cup {r}]
    /\ header' = [header EXCEPT ![t] = Added(@, 1)]
    /\ synopsis' = [synopsis EXCEPT ![t] = Expand(@, r)]
    /\ stored' = stored \cup {r}
    /\ location' = [location EXCEPT ![r] = t]
    /\ plan' = PlansAfter({t})
    /\ UNCHANGED <<highWater, state>>

\* Insert, and an upsert that finds no record.
Insert(r) ==
    /\ r \notin stored
    /\ \/ InsertFirst(r)
       \/ \E t \in PKeys : InsertInto(r, t)

\* replace_record_with_headers, the record staying in its leaf: the new fields
\* are covered only because the Synopsis is expanded by them.
ReplaceInPlace(r, t) ==
    /\ location[r] = t
    /\ IsWriteTarget(t)
    /\ synopsis' = [synopsis EXCEPT ![t] = Expand(@ \ {r}, r)]
    /\ plan' = PlansAfter({t})
    /\ UNCHANGED <<highWater, header, state, body, stored, location>>

\* replace_record_with_headers, the record moving: the source may be in any
\* state, the target must accept writes.
ReplaceMoving(r, t) ==
    LET s == location[r]
    IN  /\ s # t
        /\ IsWriteTarget(t)
        /\ body' = [body EXCEPT ![s] = @ \ {r}, ![t] = @ \cup {r}]
        /\ header' = [header EXCEPT ![s] = Removed(@, 1), ![t] = Added(@, 1)]
        /\ synopsis' = [synopsis EXCEPT ![s] = @ \ {r}, ![t] = Expand(@, r)]
        /\ location' = [location EXCEPT ![r] = t]
        /\ plan' = PlansAfter({s, t})
        /\ UNCHANGED <<highWater, state, stored>>

Upsert(r) ==
    /\ r \in stored
    /\ \E t \in PKeys : ReplaceInPlace(r, t) \/ ReplaceMoving(r, t)

\* delete_record_with_header follows the exact Record Location.
Delete(r) ==
    LET s == location[r]
    IN  /\ r \in stored
        /\ body' = [body EXCEPT ![s] = @ \ {r}]
        /\ header' = [header EXCEPT ![s] = Removed(@, 1)]
        /\ synopsis' = [synopsis EXCEPT ![s] = @ \ {r}]
        /\ stored' = stored \ {r}
        /\ location' = [location EXCEPT ![r] = 0]
        /\ plan' = PlansAfter({s})
        /\ UNCHANGED <<highWater, state>>

-----------------------------------------------------------------------------
(* Split.                                                                  *)

\* Mutants of BeginSplit: the allocator runs past its last key, the raised mark is
\* not written, or the keys follow the largest live key.
BeginSplitUnbounded(p) ==
    /\ state[p].tag = "Ready"
    /\ header[p].count > MaxEntries(header[p].level)
    /\ highWater' = highWater + 2
    /\ state' = [state EXCEPT ![p] = Splitting(highWater + 1, highWater + 2)]
    /\ header' = [header EXCEPT ![p] = WithState(@, "Splitting")]
    /\ plan' = PlansAfter({p})
    /\ UNCHANGED <<body, synopsis, stored, location>>

BeginSplitUnreserved(p) ==
    /\ state[p].tag = "Ready"
    /\ header[p].count > MaxEntries(header[p].level)
    /\ highWater + 2 <= MaxKey
    /\ state' = [state EXCEPT ![p] = Splitting(highWater + 1, highWater + 2)]
    /\ header' = [header EXCEPT ![p] = WithState(@, "Splitting")]
    /\ plan' = PlansAfter({p})
    /\ UNCHANGED <<highWater, body, synopsis, stored, location>>

BeginSplitAboveLive(p) ==
    LET top == CHOOSE q \in PKeys : Exists(q) /\ \A x \in PKeys : Exists(x) => x <= q
    IN  /\ state[p].tag = "Ready"
        /\ header[p].count > MaxEntries(header[p].level)
        /\ top + 2 <= MaxKey
        /\ highWater' = IF highWater > top + 2 THEN highWater ELSE top + 2
        /\ state' = [state EXCEPT ![p] = Splitting(top + 1, top + 2)]
        /\ header' = [header EXCEPT ![p] = WithState(@, "Splitting")]
        /\ plan' = PlansAfter({p})
        /\ UNCHANGED <<body, synopsis, stored, location>>

\* begin_split: reserve two never-reused keys and mark the source.
BeginSplit(p) ==
    /\ state[p].tag = "Ready"
    /\ header[p].count > MaxEntries(header[p].level)
    /\ highWater + 2 <= MaxKey                      \* else IdExhausted
    /\ highWater' = highWater + 2
    /\ state' = [state EXCEPT ![p] = Splitting(highWater + 1, highWater + 2)]
    /\ header' = [header EXCEPT ![p] = WithState(@, "Splitting")]
    /\ plan' = PlansAfter({p})
    /\ UNCHANGED <<body, synopsis, stored, location>>

\* expose_targets, the read snapshot: classify the source and train centroids.
ObserveSplitting(w, p) ==
    /\ plan[w] = Idle
    /\ state[p].tag = "Splitting"
    /\ plan' = [plan EXCEPT ![w] = Plan("expose", p, state[p].left, state[p].right)]
    /\ UNCHANGED <<tree, stored, location>>

\* expose_split_targets, the step that writes: both targets are created and
\* linked and the source starts draining in one commit.
ExposeTargets(w, b) ==
    LET p == plan[w].source
        l == plan[w].left
        r == plan[w].right
        new == [level |-> header[p].level, count |-> 0, tag |-> "ReceivingSplit"]
    IN  /\ plan[w].op = "expose"
        /\ state[p] = Splitting(l, r)
        /\ \/ p = Root /\ b = Root
           \/ p # Root /\ b \in Incoming(p) /\ AcceptsWrites(header[b].tag)
        /\ state' = [state EXCEPT ![p] = DrainingSplit(l, r),
                                  ![l] = ReceivingSplit(p), ![r] = ReceivingSplit(p)]
        /\ header' = [q \in PKeys |->
                        CASE q = p -> WithState(header[p], "DrainingSplit")
                          [] q \in {l, r} -> new
                          [] q = b /\ p # Root -> Added(header[b], 2)
                          [] OTHER -> header[q]]
        /\ body' = IF p = Root THEN body ELSE [body EXCEPT ![b] = @ \cup {l, r}]
        /\ plan' = [PlansAfter({p, l, r, b}) EXCEPT ![w] = Idle]
        /\ UNCHANGED <<highWater, synopsis, stored, location>>

\* drain_batch, the read snapshot: fix the target pair and a batch of entries.
\* A draining source takes no new entries, so whatever is left of the batch when
\* the write transaction re-reads it is some part of the body.
ObserveDraining(w, p) ==
    /\ plan[w] = Idle
    /\ state[p].tag = "DrainingSplit"
    /\ header[p].count > 0
    /\ plan' = [plan EXCEPT ![w] = Plan("drain", p, state[p].left, state[p].right)]
    /\ UNCHANGED <<tree, stored, location>>

\* Mutants of Relocate: the Record Locations stay behind, the targets' Synopses are
\* not expanded, or the entries stay in the source as well.
RelocateEntriesOnly(p, f) ==
    LET To(q) == {e \in DOMAIN f : f[e] = q}
    IN  /\ body' = [q \in PKeys |-> IF q = p THEN body[p] \ DOMAIN f ELSE body[q] \cup To(q)]
        /\ header' = [q \in PKeys |->
                        IF q = p THEN Removed(header[p], Cardinality(DOMAIN f))
                        ELSE Added(header[q], Cardinality(To(q)))]
        /\ synopsis' = [q \in PKeys |-> synopsis[q] \cup (To(q) \cap Records)]
        /\ UNCHANGED <<highWater, state, stored, location>>

RelocateUncovered(p, f) ==
    LET To(q) == {e \in DOMAIN f : f[e] = q}
    IN  /\ body' = [q \in PKeys |-> IF q = p THEN body[p] \ DOMAIN f ELSE body[q] \cup To(q)]
        /\ header' = [q \in PKeys |->
                        IF q = p THEN Removed(header[p], Cardinality(DOMAIN f))
                        ELSE Added(header[q], Cardinality(To(q)))]
        /\ location' = [r \in Records |-> IF r \in DOMAIN f THEN f[r] ELSE location[r]]
        /\ UNCHANGED <<highWater, state, stored, synopsis>>

RelocateCopying(p, f) ==
    LET To(q) == {e \in DOMAIN f : f[e] = q}
    IN  /\ body' = [q \in PKeys |-> body[q] \cup To(q)]
        /\ header' = [q \in PKeys |->
                        IF q = p THEN Removed(header[p], Cardinality(DOMAIN f))
                        ELSE Added(header[q], Cardinality(To(q)))]
        /\ location' = [r \in Records |-> IF r \in DOMAIN f THEN f[r] ELSE location[r]]
        /\ synopsis' = [q \in PKeys |-> synopsis[q] \cup (To(q) \cap Records)]
        /\ UNCHANGED <<highWater, state, stored>>

\* relocate_leaf_entries and relocate_child_entries: the entries in DOMAIN f
\* leave p for their targets, with exact counts; records take their Location
\* and their Synopsis coverage along.
Relocate(p, f) ==
    LET To(q) == {e \in DOMAIN f : f[e] = q}
    IN  /\ body' = [q \in PKeys |-> IF q = p THEN body[p] \ DOMAIN f ELSE body[q] \cup To(q)]
        /\ header' = [q \in PKeys |->
                        IF q = p THEN Removed(header[p], Cardinality(DOMAIN f))
                        ELSE Added(header[q], Cardinality(To(q)))]
        /\ location' = [r \in Records |-> IF r \in DOMAIN f THEN f[r] ELSE location[r]]
        /\ synopsis' = [q \in PKeys |->
                            IF q = p THEN synopsis[p] \ DOMAIN f
                            ELSE synopsis[q] \cup (To(q) \cap Records)]
        /\ UNCHANGED <<highWater, state, stored>>

\* The batches that may leave p for the given targets.
Moves(p, targets) ==
    UNION {[M -> targets] :
            M \in {X \in SUBSET body[p] : X # {} /\ Cardinality(X) <= DrainBatch}}

\* drain_attempt of a split: both targets receive, in the proportion that
\* SplitBalance allows.
DrainSplit(w, p) ==
    LET l == plan[w].left
        r == plan[w].right
        balance == NewBalance(header[p].count, header[l].count, header[r].count,
                              MinEntries(header[p].level))
    IN  /\ plan[w].op = "drain"
        /\ plan[w].source = p
        /\ state[p] = DrainingSplit(l, r)
        /\ \E f \in Moves(p, {l, r}) :
            /\ Cardinality({e \in DOMAIN f : f[e] = l})
                    \in LeftCounts(balance, Cardinality(DOMAIN f))
            /\ Relocate(p, f)
            /\ plan' = [PlansAfter({p, l, r} \cup DOMAIN f) EXCEPT ![w] = Idle]

\* A mutant of RemovedFrom: the parent keeps the Child Entry.
RemovedKeepingEdge(b, p) == synopsis' = [synopsis EXCEPT ![p] = {}] /\ UNCHANGED body

\* remove_incoming_edge and remove_source_prefix, from parent b.
RemovedFrom(b, p) ==
    /\ body' = [body EXCEPT ![b] = @ \ {p}]
    /\ synopsis' = [synopsis EXCEPT ![p] = {}]

\* A mutant of Drained: a target below its minimum is not promoted.
DrainedViable(p) ==
    /\ header[p].count = 0
    /\ \A t \in {state[p].left, state[p].right} :
        /\ state[t] = ReceivingSplit(p)
        /\ header[t].level = header[p].level
        /\ header[t].count >= MinEntries(header[t].level)

\* finalize_split's validation of the family: an empty source and two targets
\* that name it.
Drained(p) ==
    /\ header[p].count = 0
    /\ \A t \in {state[p].left, state[p].right} :
        state[t] = ReceivingSplit(p) /\ header[t].level = header[p].level

\* finalize_split of a non-root source.
FinalizeSplit(p, b) ==
    LET l == state[p].left
        r == state[p].right
    IN  /\ p # Root
        /\ state[p].tag = "DrainingSplit"
        /\ Drained(p)
        /\ b \in Incoming(p)
        /\ state' = [state EXCEPT ![p] = NoState, ![l] = Ready, ![r] = Ready]
        /\ header' = [q \in PKeys |->
                        CASE q = p -> NoHeader
                          [] q \in {l, r} -> WithState(header[q], "Ready")
                          [] q = b -> Removed(header[b], 1)
                          [] OTHER -> header[q]]
        /\ RemovedFrom(b, p)
        /\ plan' = PlansAfter({p, l, r, b})
        /\ UNCHANGED <<highWater, stored, location>>

\* finalize_split of the root: Partition Key 1 becomes the internal root one
\* level up and gains both targets as children.
FinalizeRootSplit ==
    LET l == state[Root].left
        r == state[Root].right
    IN  /\ state[Root].tag = "DrainingSplit"
        /\ Drained(Root)
        /\ state' = [state EXCEPT ![Root] = Ready, ![l] = Ready, ![r] = Ready]
        /\ header' = [q \in PKeys |->
                        CASE q = Root -> [level |-> header[Root].level + 1, count |-> 2,
                                          tag |-> "Ready"]
                          [] q \in {l, r} -> WithState(header[q], "Ready")
                          [] OTHER -> header[q]]
        /\ body' = [body EXCEPT ![Root] = {l, r}]
        /\ synopsis' = [synopsis EXCEPT ![Root] = {}]
        /\ plan' = PlansAfter({Root, l, r})
        /\ UNCHANGED <<highWater, stored, location>>

-----------------------------------------------------------------------------
(* Merge.                                                                  *)

MergeEligible(p) ==
    /\ p # Root
    /\ state[p].tag = "Ready"
    /\ header[p].count < MinEntries(header[p].level)

\* begin_merge, the snapshot of its transaction.  Its Header, State and incoming
\* Child Entry are protected from here on; the Ready target is not.
ObserveMergeable(w, p) ==
    /\ plan[w] = Idle
    /\ MergeEligible(p)
    /\ Cardinality(Incoming(p)) = 1
    /\ ReadyTargets(p) # {}
    /\ plan' = [plan EXCEPT ![w] = Plan("merge", p, 0, 0)]
    /\ UNCHANGED <<tree, stored, location>>

\* begin_merge, the commit.
BeginMerge(w) ==
    LET p == plan[w].source
    IN  /\ plan[w].op = "merge"
        /\ state' = [state EXCEPT ![p] = Merging]
        /\ header' = [header EXCEPT ![p] = WithState(@, "Merging")]
        /\ plan' = [PlansAfter({p}) EXCEPT ![w] = Idle]
        /\ UNCHANGED <<highWater, body, synopsis, stored, location>>

\* A mutant of DrainMerge: full partitions are refused as targets.
DrainMergeIntoRoom(p) ==
    /\ state[p].tag = "Merging"
    /\ \E f \in Moves(p, {q \in ReadyTargets(p) : header[q].count < MaxEntries(header[q].level)}) :
        /\ Relocate(p, f)
        /\ plan' = PlansAfter({p} \cup {f[e] : e \in DOMAIN f} \cup DOMAIN f)

\* drain_attempt of a merge: every entry moves to a partition of the level that
\* revalidate_targets finds Ready and protects.
DrainMerge(p) ==
    /\ state[p].tag = "Merging"
    /\ \E f \in Moves(p, ReadyTargets(p)) :
        /\ Relocate(p, f)
        /\ plan' = PlansAfter({p} \cup {f[e] : e \in DOMAIN f} \cup DOMAIN f)

\* finalize_merge.
FinalizeMerge(p, b) ==
    /\ p # Root
    /\ state[p].tag = "Merging"
    /\ header[p].count = 0
    /\ b \in Incoming(p)
    /\ state' = [state EXCEPT ![p] = NoState]
    /\ header' = [header EXCEPT ![p] = NoHeader, ![b] = Removed(@, 1)]
    /\ RemovedFrom(b, p)
    /\ plan' = PlansAfter({p, b})
    /\ UNCHANGED <<highWater, stored, location>>

-----------------------------------------------------------------------------
\* A worker's step ends without a write: the process stopped, the attempt was
\* aborted or its outcome is unknown, the retries ran out, the source advanced,
\* the plan was refused, or every entry of the batch had gone.
Return(w) ==
    /\ plan[w] # Idle
    /\ plan' = [plan EXCEPT ![w] = Idle]
    /\ UNCHANGED <<tree, stored, location>>

Init ==
    /\ highWater = 0
    /\ header = [p \in PKeys |-> NoHeader]
    /\ state = [p \in PKeys |-> NoState]
    /\ body = [p \in PKeys |-> {}]
    /\ synopsis = [p \in PKeys |-> {}]
    /\ stored = {}
    /\ location = [r \in Records |-> 0]
    /\ plan = [w \in Workers |-> Idle]

Foreground(r) == Insert(r) \/ Upsert(r) \/ Delete(r)

Maintain(w) ==
    \/ \E p \in PKeys : \/ ObserveSplitting(w, p)
                        \/ ObserveDraining(w, p)
                        \/ ObserveMergeable(w, p)
                        \/ ExposeTargets(w, p)
                        \/ DrainSplit(w, p)
    \/ BeginMerge(w)
    \/ Return(w)

\* Steps that any worker may take and that need nothing it observed before.
Advance(p) ==
    \/ BeginSplit(p)
    \/ DrainMerge(p)
    \/ \E b \in PKeys : FinalizeSplit(p, b) \/ FinalizeMerge(p, b)

Next ==
    \/ \E r \in Records : Foreground(r)
    \/ \E w \in Workers : Maintain(w)
    \/ \E p \in PKeys : Advance(p)
    \/ FinalizeRootSplit

Spec == Init /\ [][Next]_vars

-----------------------------------------------------------------------------
(* Properties.                                                             *)

HeaderType == [level : Nat, count : Nat, tag : Tags]
StateType == [tag : Tags, left : 0..MaxKey, right : 0..MaxKey, source : 0..MaxKey]
PlanType == [op : {"idle", "expose", "drain", "merge"},
             source : 0..MaxKey, left : 0..MaxKey, right : 0..MaxKey]

\* Every variable has its type; in particular no transition of the authority
\* values (begin, expose, finalize, merge) leaves the persisted value domains.
TypeOK ==
    /\ highWater \in 0..MaxKey
    /\ header \in [PKeys -> HeaderType]
    /\ state \in [PKeys -> StateType]
    /\ body \in [PKeys -> SUBSET (Records \cup PKeys)]
    /\ synopsis \in [PKeys -> SUBSET Records]
    /\ stored \in SUBSET Records
    /\ location \in [Records -> 0..MaxKey]
    /\ plan \in [Workers -> PlanType]

\* Membership is exact in every committed state: a stored record has exactly one
\* Leaf Entry, in the partition its Record Location names, a record that is not
\* stored has none, and every Header count is the number of entries of the body
\* (membership.rs, relocate_leaf_entries, relocate_child_entries).
ExactMembership ==
    /\ \A r \in Records : r \in stored <=> location[r] # 0
    /\ \A p \in PKeys, r \in Records : r \in body[p] <=> location[r] = p
    /\ \A p \in PKeys : header[p].count = Cardinality(body[p])

\* A leaf's Synopsis covers the current fields of every record in the leaf, so a
\* search may skip a leaf by its Synopsis whatever mutations and drains moved
\* records into it (expand_synopsis, relocate_leaf_entries).
SynopsisCovers == \A p \in PKeys : body[p] \cap Records \subseteq synopsis[p]

IsSplitSource(p) == state[p].tag \in {"Splitting", "DrainingSplit"}

\* Header and State agree on the state of every partition.
TagsAgree == \A p \in PKeys : header[p].tag = state[p].tag

\* What the source p may rely on for its target t.
TargetOf(p, t) ==
    /\ t \in 2..highWater
    /\ IF state[p].tag = "Splitting" THEN ~Exists(t)
       ELSE state[t] = ReceivingSplit(p) /\ header[t].level = header[p].level

SourcesNameTargets ==
    \A p \in PKeys : IsSplitSource(p) =>
        /\ state[p].left # state[p].right
        /\ \A t \in {state[p].left, state[p].right} : TargetOf(p, t)

\* A receiving partition names a source that is draining into it.
NamesSource(p) ==
    LET s == state[p].source
    IN  s \in PKeys /\ state[s].tag = "DrainingSplit" /\ p \in {state[s].left, state[s].right}

TargetsNameSource == \A p \in PKeys : state[p].tag = "ReceivingSplit" => NamesSource(p)

PairsDisjoint ==
    \A p, q \in PKeys : p # q /\ IsSplitSource(p) /\ IsSplitSource(q) =>
        {state[p].left, state[p].right} \cap {state[q].left, state[q].right} = {}

\* A split family is complete or not there at all: a DrainingSplit source names
\* two receiving partitions of its level that name it back, a Splitting source
\* names two keys that hold nothing yet, no key is named twice, and Header and
\* State agree (what finalize_split, split_family_bodies, drain_redirect and
\* expect_agreement treat as Corruption otherwise).
SplitFamilies == TagsAgree /\ SourcesNameTargets /\ TargetsNameSource /\ PairsDisjoint

\* Every partition but the root has exactly one incoming Child Entry, even while
\* parent and child are under maintenance together; only the targets of a root
\* split have none, the root's State naming them instead (ADR 0007; zero or two
\* edges are Corruption to find_incoming_edge).
OneParent ==
    \A p \in PKeys \ {Root} : Exists(p) =>
        IF state[p] = ReceivingSplit(Root)
        THEN \A b \in PKeys : p \notin body[b]
        ELSE /\ \E b \in PKeys : p \in body[b]
             /\ \A b, c \in PKeys : p \in body[b] /\ p \in body[c] => b = c

\* Bodies hold what their level says: a leaf holds records, an internal partition
\* holds existing partitions exactly one level down.
LevelsDescend ==
    \A p \in PKeys :
        /\ ~Exists(p) => body[p] = {}
        /\ header[p].level = 1 => body[p] \subseteq Records
        /\ header[p].level > 1 =>
            body[p] \subseteq {c \in PKeys : Exists(c) /\ header[c].level = header[p].level - 1}

\* Every partition is among the bodies of its level that a traversal from the
\* root reaches, whatever mixture of splits and merges is half done.  A stored
\* record's leaf is therefore searched, and the root-down scans of find_incoming_edge
\* and same_level_candidates miss nothing (ADR 0006: every committed intermediate
\* state remains searchable).
EveryBodyReachable == \A p \in PKeys : Exists(p) => p \in LevelBodies(header[p].level)


\* The key p is at or below the allocator mark, and neither a partition nor the
\* reserved target of a source that is still Splitting.
Retired(p) ==
    /\ p <= highWater
    /\ ~Exists(p)
    /\ \A s \in PKeys : state[s].tag = "Splitting" => p \notin {state[s].left, state[s].right}

\* The key of a removed partition is retired for ever: no later split reserves it
\* again, and no stale worker recreates a target after its split completed, so a
\* cached value or a plan that still names the key can never meet another
\* partition (reserve_partition_keys, ADR 0013).
KeysNeverReused == [][\A p \in PKeys : Retired(p) => Retired(p)']_vars

\* A source that is being emptied only shrinks: no foreground write, exposure or
\* drain of another partition puts an entry into a DrainingSplit or Merging
\* partition, so its exact count can reach zero and stays a proof of emptiness.
DrainingOnlyShrinks ==
    [][\A p \in PKeys :
        state[p].tag \in {"DrainingSplit", "Merging"} /\ state'[p].tag = state[p].tag
            => body'[p] \subseteq body[p]]_vars

\* The balance a drain of p starts from.
FamilyBalance(p) ==
    NewBalance(header[p].count, header[state[p].left].count,
               header[state[p].right].count, MinEntries(header[p].level))

\* A drain batch never gives away the entries a split target needs: if both
\* targets can reach the configured minimum before the batch, they can after it,
\* whatever the distances, so a split whose drain is not overtaken by deletes
\* completes with two targets that are not immediately merge-eligible.
DrainKeepsMinima ==
    [][\A w \in Workers, p \in PKeys :
        DrainSplit(w, p) /\ Attainable(FamilyBalance(p)) => Attainable(FamilyBalance(p))']_vars

\* The rest of the inductive invariant.  Keys above the allocator mark hold
\* nothing, a partition exists exactly when it has a level, and no body holds
\* the root.
Shape ==
    /\ \A p \in PKeys : p > highWater => ~Exists(p)
    /\ \A p \in PKeys : Exists(p) <=> header[p].level >= 1
    /\ \A p \in PKeys : Root \notin body[p]

\* A plan names real partitions, and a begin_merge transaction in flight still
\* finds its source Ready: whatever changed it aborted the transaction.
Plans ==
    \A w \in Workers :
        /\ plan[w].op # "idle" => plan[w].source \in PKeys
        /\ plan[w].op \in {"expose", "drain"} =>
                plan[w].left \in PKeys /\ plan[w].right \in PKeys
        /\ plan[w].op = "merge" =>
                plan[w].source # Root /\ state[plan[w].source].tag = "Ready"

IInv ==
    /\ TypeOK
    /\ ExactMembership
    /\ SynopsisCovers
    /\ SplitFamilies
    /\ OneParent
    /\ LevelsDescend
    /\ Shape
    /\ Plans

-----------------------------------------------------------------------------
\* What the source comments claim of every committed state, and what the code
\* does not keep (violation runs).

\* A level above one that cannot be reached contradicts the level-decrement
\* invariant (discovery.rs, level_bodies): a tree has a leaf to route to.
LeafLevelReachable == Exists(Root) => LevelBodies(1) # {}


\* Repeating a completed or conflicting step is harmless (maintenance.md): a
\* worker holding an old drain batch never finds its source draining into
\* another pair, which drain_attempt reports as Corruption.
StaleDrainHarmless ==
    \A w \in Workers : plan[w].op = "drain" =>
        LET s == state[plan[w].source]
        IN  s.tag = "DrainingSplit" => s.left = plan[w].left /\ s.right = plan[w].right

-----------------------------------------------------------------------------
(* Convergence.                                                            *)

\* A worker looks at p and finds something to do there.
Discover(p) ==
    \E w \in Workers : \/ ObserveSplitting(w, p)
                       \/ ObserveDraining(w, p)

\* A committed maintenance step that takes the source p forward.
Progress(p) ==
    \/ \E w \in Workers, b \in PKeys : plan[w].source = p /\ ExposeTargets(w, b)
    \/ \E w \in Workers : DrainSplit(w, p)
    \/ \E b \in PKeys : FinalizeSplit(p, b) \/ FinalizeMerge(p, b)
    \/ p = Root /\ FinalizeRootSplit
    \/ DrainMerge(p)

\* The fairness of maintenance.md, section 6: a durable source is rediscovered
\* and admitted again and again, a backend attempt eventually succeeds, and no
\* step runs for ever.  A plan lasts one attempt, so the steps it enables are
\* enabled again and again rather than continuously: strong fairness.
Fairness ==
    /\ \A w \in Workers : WF_vars(Return(w))
    /\ \A p \in PKeys : SF_vars(Discover(p)) /\ SF_vars(Progress(p))

FairSpec == Spec /\ Fairness

\* Every split that begins completes, with foreground mutations, other splits
\* and merges running beside it: every committed split state can always advance.
SplitsComplete ==
    \A p \in PKeys :
        state[p].tag \in {"Splitting", "DrainingSplit"}
            ~> state[p].tag \notin {"Splitting", "DrainingSplit"}

\* A merge completes unless the level is left without a legal target for good,
\* even though targets come and go while it drains.
MergesComplete ==
    \A p \in PKeys :
        []<>(state[p].tag # "Merging") \/ <>[](ReadyTargets(p) = {})
=============================================================================
