--------------------------- MODULE TopologyProofs ---------------------------
(***************************************************************************)
(* The inductive invariant of Topology holds in every reachable state, for *)
(* every set of records and workers, every key range and every legal       *)
(* choice of thresholds.                                                   *)
(***************************************************************************)
EXTENDS TopologySplitProofs, TopologyFinalizeProofs

-----------------------------------------------------------------------------
(* The invariant.                                                          *)

\* The empty store satisfies the invariant.
LEMMA InitIInv == Init => IInv
<1> SUFFICES ASSUME Init PROVE IInv
  OBVIOUS
<1> USE DEF Init
<1>1. TypeOK
  <2>1. NoHeader \in HeaderType /\ NoState \in StateType /\ Idle \in PlanType
    BY ThresholdAssumption DEF NoHeader, HeaderType, NoState, StateType, Idle, PlanType, Tags
  <2> QED BY <2>1, ThresholdAssumption DEF TypeOK
<1>2. \A p \in PKeys : /\ header[p].tag = "Absent" /\ header[p].level = 0
                       /\ header[p].count = 0 /\ state[p].tag = "Absent" /\ body[p] = {}
  BY DEF NoHeader, NoState
<1>3. ExactMembership
  <2>1. Cardinality({}) = 0
    BY FS_EmptySet
  <2> QED BY <1>2, <2>1 DEF ExactMembership, PKeys
<1>4. SynopsisCovers /\ OneParent /\ LevelsDescend /\ Shape
  BY <1>2 DEF SynopsisCovers, OneParent, LevelsDescend, Shape, Exists
<1>5. SplitFamilies
  BY <1>2 DEF SplitFamilies, TagsAgree, SourcesNameTargets, TargetsNameSource,
              PairsDisjoint, IsSplitSource
<1>6. Plans
  BY DEF Plans, Idle
<1> QED BY <1>1, <1>3, <1>4, <1>5, <1>6 DEF IInv

\* Every committed transaction and every worker step keeps the invariant.
LEMMA NextIInv == IInv /\ [Next]_vars => IInv'
<1> SUFFICES ASSUME IInv, [Next]_vars PROVE IInv'
  OBVIOUS
<1>1. ASSUME NEW r \in Records, Insert(r) PROVE IInv'
  <2>1. r \notin stored
    BY <1>1 DEF Insert
  <2>2. CASE InsertFirst(r)
    BY <2>1, <2>2, InsertFirstKeeps
  <2>3. ASSUME NEW t \in PKeys, InsertInto(r, t) PROVE IInv'
    BY <2>1, <2>3, InsertIntoKeeps
  <2> QED BY <1>1, <2>2, <2>3 DEF Insert
<1>2. ASSUME NEW r \in Records, Upsert(r) PROVE IInv'
  <2>1. PICK t \in PKeys : ReplaceInPlace(r, t) \/ ReplaceMoving(r, t)
    BY <1>2 DEF Upsert
  <2>2. r \in stored
    BY <1>2 DEF Upsert
  <2> QED BY <2>1, <2>2, ReplaceInPlaceKeeps, ReplaceMovingKeeps
<1>3. ASSUME NEW r \in Records, Delete(r) PROVE IInv'
  BY <1>3, DeleteKeeps
<1>4. ASSUME NEW w \in Workers, Maintain(w) PROVE IInv'
  <2>1. ASSUME NEW p \in PKeys,
               ObserveSplitting(w, p) \/ ObserveDraining(w, p) \/ ObserveMergeable(w, p)
        PROVE  IInv'
    BY <2>1, ObserveKeeps
  <2>2. ASSUME NEW p \in PKeys, ExposeTargets(w, p) PROVE IInv'
    BY <2>2, ExposeTargetsKeeps
  <2>3. ASSUME NEW p \in PKeys, DrainSplit(w, p) PROVE IInv'
    BY <2>3, DrainSplitKeeps
  <2>4. CASE BeginMerge(w)
    BY <2>4, BeginMergeKeeps
  <2>5. CASE Return(w)
    BY <2>5, ReturnKeeps
  <2> QED BY <1>4, <2>1, <2>2, <2>3, <2>4, <2>5 DEF Maintain
<1>5. ASSUME NEW p \in PKeys, Advance(p) PROVE IInv'
  <2>1. CASE BeginSplit(p)
    BY <2>1, BeginSplitKeeps
  <2>2. CASE DrainMerge(p)
    BY <2>2, DrainMergeKeeps
  <2>3. ASSUME NEW b \in PKeys, FinalizeSplit(p, b) PROVE IInv'
    BY <2>3, FinalizeSplitKeeps
  <2>4. ASSUME NEW b \in PKeys, FinalizeMerge(p, b) PROVE IInv'
    BY <2>4, FinalizeMergeKeeps
  <2> QED BY <1>5, <2>1, <2>2, <2>3, <2>4 DEF Advance
<1>6. CASE FinalizeRootSplit
  BY <1>6, FinalizeRootSplitKeeps
<1>7. CASE UNCHANGED vars
  <2>1. UNCHANGED <<highWater, header, state, body, synopsis, stored, location, plan>>
    BY <1>7 DEF vars
  <2>2. TypeOK' /\ ExactMembership' /\ SynopsisCovers' /\ LevelsDescend' /\ Plans'
    BY <2>1 DEF IInv, TypeOK, ExactMembership, SynopsisCovers, LevelsDescend, Plans, Exists
  <2>3. SplitFamilies' /\ OneParent' /\ Shape'
    BY <2>1, StructureFramed
  <2> QED BY <2>2, <2>3 DEF IInv
<1> QED BY <1>1, <1>2, <1>3, <1>4, <1>5, <1>6, <1>7 DEF Next, Foreground

\* The inductive invariant holds in every reachable state.
THEOREM Invariance == Spec => []IInv
BY InitIInv, NextIInv, PTL DEF Spec

\* Every variable always has its type: no transition leaves the persisted domains.
THEOREM TypeCorrect == Spec => []TypeOK
<1>1. IInv => TypeOK
  BY DEF IInv
<1> QED BY <1>1, Invariance, PTL

\* A stored record is always in exactly one leaf, the one its Record Location
\* names, and every Header count is exact (membership.rs, relocation.rs).
THEOREM MembershipExact == Spec => []ExactMembership
<1>1. IInv => ExactMembership
  BY DEF IInv
<1> QED BY <1>1, Invariance, PTL

\* A leaf's Synopsis always covers its records (membership.rs, relocation.rs).
THEOREM SynopsisSound == Spec => []SynopsisCovers
<1>1. IInv => SynopsisCovers
  BY DEF IInv
<1> QED BY <1>1, Invariance, PTL

\* Split families are always complete or not there at all (transitions.rs).
THEOREM FamiliesWhole == Spec => []SplitFamilies
<1>1. IInv => SplitFamilies
  BY DEF IInv
<1> QED BY <1>1, Invariance, PTL

\* A partition always has exactly one incoming Child Entry, and Child Entries
\* always lead one level down (transitions.rs, discovery.rs).
THEOREM TreeShaped == Spec => [](OneParent /\ LevelsDescend)
<1>1. IInv => OneParent /\ LevelsDescend
  BY DEF IInv
<1> QED BY <1>1, Invariance, PTL

-----------------------------------------------------------------------------
(* What no step may do.                                                    *)


\* A partition that accepts writes is not being emptied.
LEMMA TargetsNotEmptied ==
    ASSUME IInv, NEW p \in PKeys, NEW t \in PKeys, AcceptsWrites(header[t].tag),
           state[p].tag \in {"DrainingSplit", "Merging"}
    PROVE  t # p
BY DEF IInv, SplitFamilies, TagsAgree, AcceptsWrites

\* A drain fills only its targets.
LEMMA RelocateShrinks ==
    ASSUME NEW p \in PKeys, NEW q \in PKeys, NEW D, NEW f, f \in Moves(q, D), Relocate(q, f),
           p \notin D
    PROVE  body'[p] \subseteq body[p]
<1>1. \A e \in DOMAIN f : f[e] # p
  BY DEF Moves
<1>2. body'[p] = IF p = q THEN body[q] \ DOMAIN f ELSE body[p] \cup {e \in DOMAIN f : f[e] = p}
  BY DEF Relocate
<1> QED BY <1>1, <1>2

\* No step puts an entry into a partition that is and stays under drain.
LEMMA StepShrinks ==
    ASSUME IInv, Next, NEW p \in PKeys, state[p].tag \in {"DrainingSplit", "Merging"},
           state'[p].tag = state[p].tag
    PROVE  body'[p] \subseteq body[p]
<1> USE DEF IInv
<1>1. ASSUME NEW r \in Records, Insert(r) PROVE body'[p] \subseteq body[p]
  <2>1. CASE InsertFirst(r)
    <3>1. header[Root].tag = "Absent" /\ header[Root].tag = state[Root].tag
      BY <2>1, RootIsKey DEF InsertFirst, Shape, Exists, PKeys, Root, SplitFamilies, TagsAgree
    <3> QED BY <2>1, <3>1 DEF InsertFirst, TypeOK
  <2>2. ASSUME NEW t \in PKeys, InsertInto(r, t) PROVE body'[p] \subseteq body[p]
    <3>1. t # p
      BY <2>2, TargetsNotEmptied DEF InsertInto, IsWriteTarget
    <3> QED BY <2>2, <3>1 DEF InsertInto, TypeOK
  <2> QED BY <1>1, <2>1, <2>2 DEF Insert
<1>2. ASSUME NEW r \in Records, Upsert(r) PROVE body'[p] \subseteq body[p]
  <2>1. PICK t \in PKeys : ReplaceInPlace(r, t) \/ ReplaceMoving(r, t)
    BY <1>2 DEF Upsert
  <2>2. t # p
    BY <2>1, TargetsNotEmptied DEF ReplaceInPlace, ReplaceMoving, IsWriteTarget
  <2> QED BY <2>1, <2>2 DEF ReplaceInPlace, ReplaceMoving, TypeOK
<1>3. ASSUME NEW r \in Records, Delete(r) PROVE body'[p] \subseteq body[p]
  BY <1>3 DEF Delete, TypeOK
<1>4. ASSUME NEW w \in Workers, Maintain(w) PROVE body'[p] \subseteq body[p]
  <2>1. ASSUME NEW q \in PKeys, ExposeTargets(w, q) PROVE body'[p] \subseteq body[p]
    <3>1. body' = body \/ (AcceptsWrites(header[q].tag)
                            /\ \E S : body' = [body EXCEPT ![q] = @ \cup S])
      BY <2>1, ZenonT(30) DEF ExposeTargets
    <3> QED BY <3>1, TargetsNotEmptied DEF TypeOK
  <2>2. ASSUME NEW q \in PKeys, DrainSplit(w, q) PROVE body'[p] \subseteq body[p]
    <3>1. PICK f \in Moves(q, {plan[w].left, plan[w].right}) : Relocate(q, f)
      BY <2>2 DEF DrainSplit
    <3>2. /\ state[q].tag = "DrainingSplit"
          /\ plan[w].left = state[q].left /\ plan[w].right = state[q].right
      BY <2>2 DEF DrainSplit, DrainingSplit
    <3>3. \A t \in {plan[w].left, plan[w].right} : state[t].tag = "ReceivingSplit"
      BY <3>2, DrainTargets
    <3>4. p \notin {plan[w].left, plan[w].right}
      BY <3>3
    <3> QED BY <3>1, <3>4, RelocateShrinks
  <2>3. CASE body' = body
    BY <2>3
  <2>4. ASSUME NEW q \in PKeys,
               ObserveSplitting(w, q) \/ ObserveDraining(w, q) \/ ObserveMergeable(w, q)
        PROVE  body' = body
    BY <2>4 DEF ObserveSplitting, ObserveDraining, ObserveMergeable, tree
  <2>5. BeginMerge(w) \/ Return(w) => body' = body
    BY DEF BeginMerge, Return, tree
  <2> QED BY <1>4, <2>1, <2>2, <2>3, <2>4, <2>5 DEF Maintain
<1>5. ASSUME NEW q \in PKeys, Advance(q) PROVE body'[p] \subseteq body[p]
  <2>1. CASE BeginSplit(q)
    BY <2>1 DEF BeginSplit
  <2>2. CASE DrainMerge(q)
    <3>1. PICK f \in Moves(q, ReadyTargets(q)) : Relocate(q, f)
      BY <2>2 DEF DrainMerge
    <3>2. p \notin ReadyTargets(q)
      BY DEF ReadyTargets, SplitFamilies, TagsAgree
    <3> QED BY <3>1, <3>2, RelocateShrinks
  <2>3. ASSUME NEW b \in PKeys, FinalizeSplit(q, b) \/ FinalizeMerge(q, b)
        PROVE  body'[p] \subseteq body[p]
    BY <2>3 DEF FinalizeSplit, FinalizeMerge, RemovedFrom, TypeOK
  <2> QED BY <1>5, <2>1, <2>2, <2>3 DEF Advance
<1>6. CASE FinalizeRootSplit
  <2>1. p # Root
    <3>1. FinalizeRootSplit => state'[Root].tag = "Ready"
      BY RootIsKey DEF FinalizeRootSplit, TypeOK, Ready
    <3> QED BY <1>6, <3>1
  <2> QED BY <1>6, <2>1 DEF FinalizeRootSplit, TypeOK
<1> QED BY <1>1, <1>2, <1>3, <1>4, <1>5, <1>6 DEF Next, Foreground

\* A partition under drain never gains an entry, so a count of zero that
\* finalize_split or finalize_merge reads is final (transitions.rs).
THEOREM DrainsShrink == Spec => DrainingOnlyShrinks
<1>1. IInv /\ [Next]_vars =>
        [\A p \in PKeys :
            state[p].tag \in {"DrainingSplit", "Merging"} /\ state'[p].tag = state[p].tag
                => body'[p] \subseteq body[p]]_vars
  BY StepShrinks
<1> QED BY <1>1, Invariance, PTL DEF Spec, DrainingOnlyShrinks

-----------------------------------------------------------------------------
\* No step brings a retired key back to life.
LEMMA StepRetires ==
    ASSUME IInv, Next, NEW p \in PKeys, Retired(p)
    PROVE  ~Exists(p)'
<1> USE DEF IInv
<1>0. p <= highWater /\ header[p].tag = "Absent" /\ state[p].tag = "Absent"
  BY DEF Retired, Exists, SplitFamilies, TagsAgree
<1> SUFFICES header'[p].tag = "Absent"
  BY DEF Exists
<1>1. ASSUME NEW r \in Records, Foreground(r) PROVE header'[p].tag = "Absent"
  <2>1. CASE InsertFirst(r)
    BY <1>0, <2>1 DEF InsertFirst, TypeOK, PKeys
  <2>2. ASSUME NEW t \in PKeys, InsertInto(r, t) PROVE header'[p].tag = "Absent"
    BY <1>0, <2>2 DEF InsertInto, TypeOK, HeaderType, Added
  <2>3. ASSUME NEW t \in PKeys, ReplaceInPlace(r, t) PROVE header'[p].tag = "Absent"
    BY <1>0, <2>3 DEF ReplaceInPlace
  <2>4. ASSUME NEW t \in PKeys, r \in stored, ReplaceMoving(r, t)
        PROVE  header'[p].tag = "Absent"
    BY <1>0, <2>4 DEF ReplaceMoving, TypeOK, HeaderType, Added, Removed
  <2>5. CASE Delete(r)
    BY <1>0, <2>5 DEF Delete, TypeOK, HeaderType, Removed
  <2> QED BY <1>1, <2>1, <2>2, <2>3, <2>4, <2>5 DEF Foreground, Insert, Upsert
<1>2. ASSUME NEW w \in Workers, Maintain(w) PROVE header'[p].tag = "Absent"
  <2>1. ASSUME NEW b \in PKeys, ExposeTargets(w, b) PROVE header'[p].tag = "Absent"
    <3>1. PICK s, l, r \in PKeys : Exposed(w, b, s, l, r)
      BY <2>1, ExposeFacts
    <3>2. state[s] = Splitting(l, r)
      BY <3>1 DEF Exposed
    <3>3. state[s].tag = "Splitting" /\ state[s].left = l /\ state[s].right = r
      BY <3>2 DEF Splitting
    <3>4. p \notin {l, r} /\ p # s
      BY <1>0, <3>3 DEF Retired
    <3>5. header'[p] = header[p] \/ (p = b /\ header'[p] = Added(header[p], 2))
      BY <3>1, <3>4 DEF Exposed
    <3> QED BY <1>0, <3>5 DEF TypeOK, HeaderType, Added
  <2>2. ASSUME NEW q \in PKeys, DrainSplit(w, q) PROVE header'[p].tag = "Absent"
    BY <1>0, <2>2 DEF DrainSplit, Relocate, TypeOK, HeaderType, Added, Removed
  <2>3. CASE BeginMerge(w)
    <3>1. plan[w].source # p
      BY <1>0, <2>3 DEF BeginMerge, Plans
    <3> QED BY <1>0, <2>3, <3>1 DEF BeginMerge, TypeOK
  <2>4. CASE header' = header
    BY <1>0, <2>4
  <2>5. ASSUME NEW q \in PKeys,
               ObserveSplitting(w, q) \/ ObserveDraining(w, q) \/ ObserveMergeable(w, q)
        PROVE  header' = header
    BY <2>5 DEF ObserveSplitting, ObserveDraining, ObserveMergeable, tree
  <2>6. Return(w) => header' = header
    BY DEF Return, tree
  <2> QED BY <1>2, <2>1, <2>2, <2>3, <2>4, <2>5, <2>6 DEF Maintain
<1>3. ASSUME NEW q \in PKeys, Advance(q) PROVE header'[p].tag = "Absent"
  <2>1. CASE BeginSplit(q)
    <3>1. q # p
      BY <1>0, <2>1 DEF BeginSplit
    <3> QED BY <1>0, <2>1, <3>1 DEF BeginSplit, TypeOK
  <2>2. CASE DrainMerge(q)
    BY <1>0, <2>2 DEF DrainMerge, Relocate, TypeOK, HeaderType, Added, Removed
  <2>3. ASSUME NEW b \in PKeys, FinalizeSplit(q, b) PROVE header'[p].tag = "Absent"
    <3>1. state[q].tag = "DrainingSplit"
      BY <2>3 DEF FinalizeSplit
    <3>2. p \notin {state[q].left, state[q].right}
      BY <1>0, <3>1, DrainTargets
    <3>3. header'[p] \in {NoHeader, header[p], Removed(header[p], 1)}
      BY <2>3, <3>2 DEF FinalizeSplit
    <3> QED BY <1>0, <3>3 DEF NoHeader, TypeOK, HeaderType, Removed
  <2>4. ASSUME NEW b \in PKeys, FinalizeMerge(q, b) PROVE header'[p].tag = "Absent"
    <3>1. header'[p] \in {NoHeader, header[p], Removed(header[p], 1), Removed(NoHeader, 1)}
      BY <2>4 DEF FinalizeMerge, TypeOK
    <3> QED BY <1>0, <3>1 DEF NoHeader, TypeOK, HeaderType, Removed
  <2> QED BY <1>3, <2>1, <2>2, <2>3, <2>4 DEF Advance
<1>4. CASE FinalizeRootSplit
  <2>1. state[Root].tag = "DrainingSplit"
    BY <1>4 DEF FinalizeRootSplit
  <2>2. p \notin {Root, state[Root].left, state[Root].right}
    BY <1>0, <2>1, RootIsKey, DrainTargets
  <2> QED BY <1>0, <1>4, <2>2 DEF FinalizeRootSplit
<1> QED BY <1>1, <1>2, <1>3, <1>4 DEF Next

\* Only begin_split reserves keys, and it takes them above the allocator mark,
\* which never falls.
LEMMA StepReserves ==
    ASSUME IInv, Next
    PROVE  /\ highWater <= highWater'
           /\ \A s \in PKeys : state'[s].tag = "Splitting" =>
                \/ state'[s] = state[s]
                \/ state'[s].left > highWater /\ state'[s].right > highWater
<1>1. highWater \in Nat /\ state \in [PKeys -> StateType]
  BY ThresholdAssumption DEF IInv, TypeOK
<1> DEFINE Quiet == highWater' = highWater
                    /\ \A s \in PKeys : state'[s].tag = "Splitting" => state'[s] = state[s]
<1>2. Quiet => /\ highWater <= highWater'
               /\ \A s \in PKeys : state'[s].tag = "Splitting" => state'[s] = state[s]
  BY <1>1
<1>3. NoState.tag # "Splitting" /\ Ready.tag # "Splitting" /\ Merging.tag # "Splitting"
  BY DEF NoState, Ready, Merging
<1>4. \A s, l, r : DrainingSplit(l, r).tag # "Splitting" /\ ReceivingSplit(s).tag # "Splitting"
  BY DEF DrainingSplit, ReceivingSplit
<1>5. ASSUME NEW r \in Records, Foreground(r)
      PROVE  Quiet \/ (highWater <= highWater' /\ state' = [state EXCEPT ![Root] = Ready])
  <2>1. InsertFirst(r) => highWater <= highWater' /\ state' = [state EXCEPT ![Root] = Ready]
    BY <1>1 DEF InsertFirst, Root
  <2>2. ASSUME NEW t, InsertInto(r, t) \/ ReplaceInPlace(r, t) \/ ReplaceMoving(r, t) PROVE Quiet
    BY <2>2, Zenon DEF InsertInto, ReplaceInPlace, ReplaceMoving
  <2>3. Delete(r) => Quiet
    BY Zenon DEF Delete
  <2> QED BY <1>5, <2>1, <2>2, <2>3, Zenon DEF Foreground, Insert, Upsert
<1>6. ASSUME NEW w \in Workers, Maintain(w) PROVE Quiet
  <2>1. ASSUME NEW b \in PKeys, ExposeTargets(w, b) PROVE Quiet
    BY <1>1, <1>4, <2>1 DEF ExposeTargets
  <2>2. BeginMerge(w) => Quiet
    BY <1>1, <1>3 DEF BeginMerge
  <2>3. ASSUME NEW q \in PKeys, DrainSplit(w, q) PROVE Quiet
    BY <2>3, Zenon DEF DrainSplit, Relocate
  <2>4. ASSUME NEW q \in PKeys,
               ObserveSplitting(w, q) \/ ObserveDraining(w, q) \/ ObserveMergeable(w, q)
        PROVE  Quiet
    BY <2>4, Zenon DEF ObserveSplitting, ObserveDraining, ObserveMergeable, tree
  <2>5. Return(w) => Quiet
    BY Zenon DEF Return, tree
  <2> QED BY <1>6, <2>1, <2>2, <2>3, <2>4, <2>5, Zenon DEF Maintain
<1>7. ASSUME NEW q \in PKeys, Advance(q)
      PROVE  Quiet \/ (/\ highWater' = highWater + 2
                       /\ state' = [state EXCEPT ![q] = Splitting(highWater + 1, highWater + 2)])
  <2>1. DrainMerge(q) => Quiet
    BY Zenon DEF DrainMerge, Relocate
  <2>2. ASSUME NEW b \in PKeys, FinalizeSplit(q, b) \/ FinalizeMerge(q, b) PROVE Quiet
    BY <1>1, <1>3, <2>2 DEF FinalizeSplit, FinalizeMerge
  <2>3. BeginSplit(q) => /\ highWater' = highWater + 2
                         /\ state' = [state EXCEPT ![q] = Splitting(highWater + 1, highWater + 2)]
    BY Zenon DEF BeginSplit
  <2> QED BY <1>7, <2>1, <2>2, <2>3, Zenon DEF Advance
<1>8. FinalizeRootSplit => Quiet
  BY <1>1, <1>3 DEF FinalizeRootSplit
<1>9. ASSUME highWater <= highWater', state' = [state EXCEPT ![Root] = Ready]
      PROVE  \A s \in PKeys : state'[s].tag = "Splitting" => state'[s] = state[s]
  BY <1>1, <1>3, <1>9
<1>10. ASSUME NEW q \in PKeys, highWater' = highWater + 2,
              state' = [state EXCEPT ![q] = Splitting(highWater + 1, highWater + 2)]
       PROVE  /\ highWater <= highWater'
              /\ \A s \in PKeys :
                    \/ state'[s] = state[s]
                    \/ state'[s].left > highWater /\ state'[s].right > highWater
  <2>1. Splitting(highWater + 1, highWater + 2).left = highWater + 1
        /\ Splitting(highWater + 1, highWater + 2).right = highWater + 2
    BY DEF Splitting
  <2> DEFINE new == Splitting(highWater + 1, highWater + 2)
  <2> HIDE DEF new
  <2>2. state' = [state EXCEPT ![q] = new] /\ new.left > highWater /\ new.right > highWater
    BY <1>1, <1>10, <2>1 DEF new
  <2>3. \A s \in PKeys : state'[s] = state[s] \/ state'[s] = new
    BY <1>1, <2>2
  <2>4. highWater <= highWater'
    BY <1>1, <1>10
  <2>5. ASSUME NEW s \in PKeys, state'[s] = new
        PROVE  state'[s].left > highWater /\ state'[s].right > highWater
    BY <2>2, <2>5, Zenon
  <2> QED BY <2>3, <2>4, <2>5, Zenon
<1> HIDE DEF Quiet
<1> QED BY <1>2, <1>5, <1>6, <1>7, <1>8, <1>9, <1>10, Zenon DEF Next

\* A retired Partition Key stays retired.
LEMMA StepKeepsRetired == ASSUME IInv, Next, NEW p \in PKeys, Retired(p) PROVE Retired(p)'
<1>1. ~Exists(p)'
  BY StepRetires
<1>2. p <= highWater'
  <2>1. p \in Nat /\ highWater \in Nat /\ p <= highWater
    BY DEF Retired, PKeys, IInv, TypeOK
  <2>2. highWater' \in Nat
    BY NextIInv DEF IInv, TypeOK
  <2>3. highWater <= highWater'
    BY StepReserves
  <2> QED BY <2>1, <2>2, <2>3
<1>3. ASSUME NEW s \in PKeys, state'[s].tag = "Splitting"
      PROVE  p \notin {state'[s].left, state'[s].right}
  <2>1. CASE state'[s] = state[s]
    BY <1>3, <2>1 DEF Retired
  <2>2. CASE state'[s].left > highWater /\ state'[s].right > highWater
    BY <2>2 DEF Retired, PKeys, IInv, TypeOK
  <2> QED BY <1>3, <2>1, <2>2, StepReserves
<1> QED BY <1>1, <1>2, <1>3 DEF Retired

\* A Partition Key that was retired never names a partition again, although
\* stale workers keep plans for completed splits (reserve_partition_keys,
\* expose_split_targets_with_parent).
THEOREM KeysRetire == Spec => KeysNeverReused
<1>1. IInv /\ [Next]_vars => [\A p \in PKeys : Retired(p) => Retired(p)']_vars
  BY StepKeepsRetired
<1> QED BY <1>1, Invariance, PTL DEF Spec, KeysNeverReused

-----------------------------------------------------------------------------
(* The placement rule.                                                     *)

\* SplitBalance::choose reserves: while both minima can be reached, every choice
\* it may make, whatever the distances, leaves both minima within reach.
THEOREM ChoiceKeepsMinima ==
    ASSUME NEW b \in Balances, b.remaining >= 1, Attainable(b), NEW side \in Sides(b)
    PROVE  Charge(b, side) \in Balances /\ Attainable(Charge(b, side))
<1>1. b.remaining \in Nat /\ b.leftNeeded \in Nat /\ b.rightNeeded \in Nat
  BY DEF Balances
<1>2. b.leftNeeded + b.rightNeeded <= b.remaining
  BY DEF Attainable
<1>3. CASE side = "left" /\ (b.leftNeeded # 0 \/ b.rightNeeded <= b.remaining - 1)
  BY <1>1, <1>2, <1>3 DEF Charge, Attainable, SaturatingSub, Balances
<1>4. CASE side = "right" /\ (b.rightNeeded # 0 \/ b.leftNeeded <= b.remaining - 1)
  BY <1>1, <1>2, <1>4 DEF Charge, Attainable, SaturatingSub, Balances
<1>5. \/ side = "left" /\ (b.leftNeeded # 0 \/ b.rightNeeded <= b.remaining - 1)
      \/ side = "right" /\ (b.rightNeeded # 0 \/ b.leftNeeded <= b.remaining - 1)
  BY <1>1, <1>2 DEF Sides, Attainable
<1> QED BY <1>3, <1>4, <1>5
=============================================================================
