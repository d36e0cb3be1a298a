----------------------- MODULE TopologyMembershipProofs ----------------------
(***************************************************************************)
(* The steps of Topology that move entries and keep every partition and    *)
(* every state (foreground mutations, drains) keep its inductive           *)
(* invariant IInv, for every set of records and workers, every key range   *)
(* and every legal choice of thresholds.                                   *)
(***************************************************************************)
EXTENDS Topology, FiniteSetTheorems, TLAPS

\* What membership changes do to the exact count of a finite body: an entry more,
\* an entry less, a batch leaving, a batch arriving.
LEMMA CountChanges ==
    ASSUME NEW S, IsFiniteSet(S), NEW x, NEW T, IsFiniteSet(T)
    PROVE  /\ Cardinality(S) \in Nat
           /\ x \notin S => Cardinality(S \cup {x}) = Cardinality(S) + 1
           /\ x \in S => Cardinality(S \ {x}) = Cardinality(S) - 1
           /\ T \subseteq S => Cardinality(S \ T) = Cardinality(S) - Cardinality(T)
           /\ S \cap T = {} => Cardinality(S \cup T) = Cardinality(S) + Cardinality(T)
           /\ Cardinality(S) = 0 => S = {}
<1>1. Cardinality(S) \in Nat /\ Cardinality(T) \in Nat
  BY FS_CardinalityType
<1>2. x \notin S => Cardinality(S \cup {x}) = Cardinality(S) + 1
  BY FS_AddElement
<1>3. x \in S => Cardinality(S \ {x}) = Cardinality(S) - 1
  BY FS_RemoveElement
<1>4. ASSUME T \subseteq S PROVE Cardinality(S \ T) = Cardinality(S) - Cardinality(T)
  <2>1. S \cap T = T
    BY <1>4
  <2> QED BY <2>1, <1>1, FS_Difference, Zenon
<1>5. ASSUME S \cap T = {} PROVE Cardinality(S \cup T) = Cardinality(S) + Cardinality(T)
  <2>1. Cardinality(S \cap T) = 0
    BY <1>5, FS_EmptySet
  <2>2. Cardinality(S \cup T) = Cardinality(S) + Cardinality(T) - Cardinality(S \cap T)
    BY FS_Union
  <2> QED BY <2>1, <2>2, <1>1
<1> QED BY <1>1, <1>2, <1>3, <1>4, <1>5, FS_EmptySet

\* Two split targets are two entries of their parent.
LEMMA PairSize ==
    ASSUME NEW l, NEW r, l # r
    PROVE  IsFiniteSet({l, r}) /\ Cardinality({l, r}) = 2
<1>1. IsFiniteSet({l}) /\ Cardinality({l}) = 1 /\ {l, r} = {l} \cup {r} /\ r \notin {l}
  BY FS_Singleton
<1> QED BY <1>1, FS_AddElement

\* Every body is finite.
LEMMA BodiesFinite ==
    ASSUME TypeOK, NEW p \in PKeys
    PROVE  IsFiniteSet(body[p])
<1>1. IsFiniteSet(PKeys)
  BY ThresholdAssumption, FS_Interval DEF PKeys
<1>2. IsFiniteSet(Records \cup PKeys)
  BY <1>1, RecordsAssumption, FS_Union, Zenon
<1>3. body[p] \in SUBSET (Records \cup PKeys)
  BY DEF TypeOK
<1> QED BY <1>2, <1>3, FS_Subset

\* Aborting the begin_merge transactions that a commit invalidated keeps the
\* plans well typed and sound.
LEMMA PlansAfterKeeps ==
    ASSUME TypeOK, Plans, NEW W, plan' = PlansAfter(W),
           \A p \in PKeys \ W : state'[p] = state[p]
    PROVE  plan' \in [Workers -> PlanType] /\ Plans'
<1>1. Idle \in PlanType /\ Idle.op = "idle"
  BY ThresholdAssumption DEF Idle, PlanType
<1>2. plan' \in [Workers -> PlanType]
  BY <1>1 DEF TypeOK, PlansAfter
<1>3. \A w \in Workers :
        plan'[w] = IF plan[w].op = "merge" /\ plan[w].source \in W THEN Idle ELSE plan[w]
  BY DEF PlansAfter
<1>4. Plans'
  BY <1>1, <1>3 DEF Plans
<1> QED BY <1>2, <1>4

\* The same for the commit of a worker that ends its step.
LEMMA PlansDoneKeeps ==
    ASSUME TypeOK, Plans, NEW W, NEW w \in Workers,
           plan' = [PlansAfter(W) EXCEPT ![w] = Idle],
           \A p \in PKeys \ W : state'[p] = state[p]
    PROVE  plan' \in [Workers -> PlanType] /\ Plans'
<1>1. Idle \in PlanType /\ Idle.op = "idle"
  BY ThresholdAssumption DEF Idle, PlanType
<1>2. plan' \in [Workers -> PlanType]
  BY <1>1 DEF TypeOK, PlansAfter
<1>3. \A v \in Workers : plan'[v] = Idle \/
        (plan'[v] = plan[v] /\ ~(plan[v].op = "merge" /\ plan[v].source \in W))
  BY DEF PlansAfter
<1>4. Plans'
  BY <1>1, <1>3 DEF Plans
<1> QED BY <1>2, <1>4

\* What the constructors of a State value are.
LEMMA StateValues ==
    ASSUME NEW l \in 0..MaxKey, NEW r \in 0..MaxKey
    PROVE  /\ NoState \in StateType /\ NoState.tag = "Absent"
           /\ Ready \in StateType /\ Ready.tag = "Ready"
           /\ Merging \in StateType /\ Merging.tag = "Merging"
           /\ Splitting(l, r) \in StateType /\ Splitting(l, r).tag = "Splitting"
           /\ Splitting(l, r).left = l /\ Splitting(l, r).right = r
           /\ DrainingSplit(l, r) \in StateType /\ DrainingSplit(l, r).tag = "DrainingSplit"
           /\ DrainingSplit(l, r).left = l /\ DrainingSplit(l, r).right = r
           /\ ReceivingSplit(l) \in StateType /\ ReceivingSplit(l).tag = "ReceivingSplit"
           /\ ReceivingSplit(l).source = l
<1> USE ThresholdAssumption DEF NoState, StateType, Tags
<1>1. NoState \in StateType /\ NoState.tag = "Absent"
  OBVIOUS
<1>2. /\ Ready \in StateType /\ Ready.tag = "Ready"
      /\ Merging \in StateType /\ Merging.tag = "Merging"
  BY DEF Ready, Merging
<1>3. /\ Splitting(l, r) \in StateType /\ Splitting(l, r).tag = "Splitting"
      /\ Splitting(l, r).left = l /\ Splitting(l, r).right = r
  BY DEF Splitting
<1>4. /\ DrainingSplit(l, r) \in StateType /\ DrainingSplit(l, r).tag = "DrainingSplit"
      /\ DrainingSplit(l, r).left = l /\ DrainingSplit(l, r).right = r
  BY DEF DrainingSplit
<1>5. /\ ReceivingSplit(l) \in StateType /\ ReceivingSplit(l).tag = "ReceivingSplit"
      /\ ReceivingSplit(l).source = l
  BY DEF ReceivingSplit
<1> HIDE DEF NoState, StateType
<1> QED BY <1>1, <1>2, <1>3, <1>4, <1>5

\* The root's fixed key is one of the keys.
LEMMA RootIsKey == Root \in PKeys
BY ThresholdAssumption DEF Root, PKeys

\* What a source's State says of its two targets.
LEMMA Targets ==
    ASSUME TypeOK, SplitFamilies, NEW p \in PKeys, IsSplitSource(p),
           NEW t \in {state[p].left, state[p].right}
    PROVE  /\ TargetOf(p, t)
           /\ t \in PKeys \ {Root}
           /\ state[t].tag \in {"Absent", "ReceivingSplit"}
           /\ state[p].left # state[p].right
<1>1. TargetOf(p, t) /\ state[p].left # state[p].right
  BY DEF SplitFamilies, SourcesNameTargets
<1>2. t \in PKeys \ {Root}
  BY <1>1, ThresholdAssumption DEF TargetOf, TypeOK, PKeys, Root
<1>3. state[t].tag \in {"Absent", "ReceivingSplit"}
  <2>1. header[t].tag = state[t].tag
    BY <1>2 DEF SplitFamilies, TagsAgree
  <2> QED BY <1>1, <2>1 DEF TargetOf, Exists, ReceivingSplit
<1> QED BY <1>1, <1>2, <1>3

\* A commit that takes a set C of partitions out of every split, where no family
\* is partly in C, keeps the split families.
LEMMA FamiliesClosed ==
    ASSUME TypeOK, SplitFamilies, NEW C, highWater' = highWater,
           \A q \in PKeys \ C : /\ state'[q] = state[q]
                                /\ header'[q].tag = header[q].tag
                                /\ header'[q].level = header[q].level,
           \A q \in PKeys \ C : IsSplitSource(q) => state[q].left \notin C /\ state[q].right \notin C,
           \A q \in PKeys \ C : state[q].tag = "ReceivingSplit" => state[q].source \notin C,
           \A q \in PKeys \cap C : /\ header'[q].tag = state'[q].tag
                                   /\ state'[q].tag \in {"Absent", "Ready", "Merging"}
    PROVE  SplitFamilies'
<1>1. TagsAgree'
  BY DEF SplitFamilies, TagsAgree
<1>2. \A q \in PKeys : IsSplitSource(q)' => q \notin C /\ IsSplitSource(q) /\ state'[q] = state[q]
  BY DEF IsSplitSource
<1>3. SourcesNameTargets'
  <2> SUFFICES ASSUME NEW q \in PKeys, IsSplitSource(q)'
               PROVE  /\ state'[q].left # state'[q].right
                      /\ \A t \in {state'[q].left, state'[q].right} : TargetOf(q, t)'
    BY DEF SourcesNameTargets
  <2>1. q \notin C /\ IsSplitSource(q) /\ state'[q] = state[q]
    BY <1>2
  <2>2. ASSUME NEW t \in {state[q].left, state[q].right} PROVE TargetOf(q, t)'
    <3>1. TargetOf(q, t) /\ t \in PKeys \ C
      BY <2>1, Targets
    <3> QED BY <2>1, <3>1 DEF TargetOf, Exists
  <2>3. state[q].left # state[q].right
    BY <2>1, Targets
  <2> QED BY <2>1, <2>2, <2>3
<1>4. TargetsNameSource'
  BY DEF SplitFamilies, TargetsNameSource, NamesSource
<1>5. PairsDisjoint'
  BY <1>2 DEF SplitFamilies, PairsDisjoint
<1> QED BY <1>1, <1>3, <1>4, <1>5 DEF SplitFamilies

\* A partition that is Ready or Merging belongs to no split.
LEMMA NotInFamily ==
    ASSUME TypeOK, SplitFamilies, NEW p \in PKeys, state[p].tag \in {"Ready", "Merging"}
    PROVE  /\ \A q \in PKeys : IsSplitSource(q) => state[q].left # p /\ state[q].right # p
           /\ \A q \in PKeys : state[q].tag = "ReceivingSplit" => state[q].source # p
<1>1. \A q \in PKeys : IsSplitSource(q) => state[q].left # p /\ state[q].right # p
  BY Targets
<1>2. \A q \in PKeys : state[q].tag = "ReceivingSplit" => state[q].source # p
  BY DEF SplitFamilies, TargetsNameSource, NamesSource
<1> QED BY <1>1, <1>2

\* The family of a draining source is closed: no other split shares a member.
LEMMA FamilyIsClosed ==
    ASSUME TypeOK, SplitFamilies, NEW p \in PKeys, state[p].tag = "DrainingSplit",
           NEW C, C = {p, state[p].left, state[p].right}
    PROVE  /\ \A q \in PKeys \ C : IsSplitSource(q) =>
                    state[q].left \notin C /\ state[q].right \notin C
           /\ \A q \in PKeys \ C : state[q].tag = "ReceivingSplit" => state[q].source \notin C
<1>1. IsSplitSource(p)
  BY DEF IsSplitSource
<1>2. ASSUME NEW q \in PKeys \ C, IsSplitSource(q), NEW t \in {state[q].left, state[q].right}
      PROVE  t \notin C
  <2>1. t # p
    BY <1>2, Targets
  <2>2. t # state[p].left /\ t # state[p].right
    BY <1>1, <1>2, Zenon DEF SplitFamilies, PairsDisjoint
  <2> QED BY <2>1, <2>2
<1>3. ASSUME NEW q \in PKeys \ C, state[q].tag = "ReceivingSplit" PROVE state[q].source \notin C
  <2>1. NamesSource(q)
    BY <1>3 DEF SplitFamilies, TargetsNameSource
  <2>2. state[q].source # p
    BY <1>3, <2>1 DEF NamesSource
  <2>3. \A t \in {state[p].left, state[p].right} : state[t].tag # "DrainingSplit"
    BY <1>1, Targets
  <2> QED BY <2>1, <2>2, <2>3 DEF NamesSource
<1> QED BY <1>2, <1>3

\* A commit that keeps every level and every state keeps the split families.
LEMMA FamiliesFramed ==
    ASSUME TypeOK, SplitFamilies, UNCHANGED <<highWater, state>>,
           \A p \in PKeys : /\ header'[p].tag = header[p].tag
                            /\ header'[p].level = header[p].level
    PROVE  SplitFamilies'
<1> DEFINE C == {}
<1>1. \A q \in PKeys : q \notin C /\ state[q].left \notin C /\ state[q].right \notin C
                        /\ state[q].source \notin C
  OBVIOUS
<1>2. PKeys \ C = PKeys /\ PKeys \cap C = {}
  OBVIOUS
<1> HIDE DEF C
<1> QED BY <1>1, <1>2, FamiliesClosed, Zenon

\* A membership change that keeps every level, every state and every Child Entry
\* keeps the structure of the tree.
LEMMA StructureFramed ==
    ASSUME IInv, UNCHANGED <<highWater, state>>,
           \A p \in PKeys : /\ header'[p].tag = header[p].tag
                            /\ header'[p].level = header[p].level
                            /\ body'[p] \cap PKeys = body[p] \cap PKeys
    PROVE  SplitFamilies' /\ OneParent' /\ Shape'
<1> USE DEF IInv
<1>1. SplitFamilies'
  BY FamiliesFramed
<1>2. OneParent'
  BY DEF OneParent, Exists
<1>3. Shape'
  BY RootIsKey DEF Shape, Exists
<1> QED BY <1>1, <1>2, <1>3

-----------------------------------------------------------------------------
(* Foreground mutations.                                                   *)

\* insert_record_with_header keeps the invariant.
LEMMA InsertIntoKeeps ==
    ASSUME IInv, NEW r \in Records, NEW t \in PKeys, r \notin stored, InsertInto(r, t)
    PROVE  IInv'
<1> USE DEF IInv, InsertInto, IsWriteTarget, AcceptsWrites
<1>1. IsFiniteSet(body[t]) /\ r \notin body[t] /\ location[r] = 0
  BY BodiesFinite DEF ExactMembership, TypeOK, PKeys
<1>2. plan' \in [Workers -> PlanType] /\ Plans'
  BY PlansAfterKeeps
<1>3. TypeOK'
  <2>1. header' \in [PKeys -> HeaderType]
    BY DEF TypeOK, HeaderType, Added
  <2>2. location' \in [Records -> 0..MaxKey]
    BY DEF TypeOK, PKeys
  <2>3. body' \in [PKeys -> SUBSET (Records \cup PKeys)] /\ synopsis' \in [PKeys -> SUBSET Records]
    BY DEF TypeOK, Expand
  <2> QED BY <1>2, <2>1, <2>2, <2>3, Zenon DEF TypeOK
<1>4. ExactMembership'
  <2>1. Cardinality(body[t] \cup {r}) = Cardinality(body[t]) + 1
    BY <1>1, CountChanges, Zenon
  <2> QED BY <1>1, <2>1 DEF ExactMembership, TypeOK, Added, PKeys
<1>5. SynopsisCovers'
  BY DEF SynopsisCovers, TypeOK, Expand
<1>6. LevelsDescend'
  BY DEF LevelsDescend, TypeOK, Added, Exists
<1>7. SplitFamilies' /\ OneParent' /\ Shape'
  <2>1. \A p \in PKeys : header'[p].tag = header[p].tag /\ header'[p].level = header[p].level
    BY DEF TypeOK, HeaderType, Added
  <2>2. \A p \in PKeys : body'[p] \cap PKeys = body[p] \cap PKeys
    BY RecordsAssumption DEF TypeOK
  <2> QED BY <2>1, <2>2, StructureFramed
<1> QED BY <1>2, <1>3, <1>4, <1>5, <1>6, <1>7

\* An upsert that stays in its leaf keeps the invariant.
LEMMA ReplaceInPlaceKeeps ==
    ASSUME IInv, NEW r \in Records, NEW t \in PKeys, ReplaceInPlace(r, t)
    PROVE  IInv'
<1> USE DEF IInv, ReplaceInPlace
<1>1. plan' \in [Workers -> PlanType] /\ Plans'
  BY PlansAfterKeeps
<1>2. TypeOK'
  BY <1>1, Zenon DEF TypeOK, Expand
<1>3. ExactMembership' /\ LevelsDescend'
  BY DEF ExactMembership, LevelsDescend, Exists
<1>4. SynopsisCovers'
  BY DEF SynopsisCovers, TypeOK, Expand
<1>5. SplitFamilies' /\ OneParent' /\ Shape'
  BY StructureFramed
<1> QED BY <1>1, <1>2, <1>3, <1>4, <1>5

\* An upsert that moves its record keeps the invariant, whatever the state of
\* the partition it leaves.
LEMMA ReplaceMovingKeeps ==
    ASSUME IInv, NEW r \in Records, NEW t \in PKeys, r \in stored, ReplaceMoving(r, t)
    PROVE  IInv'
<1> DEFINE s == location[r]
<1>0. s \in PKeys /\ r \in body[s] /\ r \notin body[t] /\ s # t
  BY DEF IInv, ReplaceMoving, ExactMembership, TypeOK, PKeys
<1>1. /\ body' = [body EXCEPT ![s] = @ \ {r}, ![t] = @ \cup {r}]
      /\ header' = [header EXCEPT ![s] = Removed(@, 1), ![t] = Added(@, 1)]
      /\ synopsis' = [synopsis EXCEPT ![s] = @ \ {r}, ![t] = Expand(@, r)]
      /\ location' = [location EXCEPT ![r] = t]
      /\ plan' = PlansAfter({s, t})
      /\ UNCHANGED <<highWater, state, stored>>
      /\ header[t].level = 1 /\ header[t].tag \in {"Ready", "Splitting", "ReceivingSplit"}
  BY DEF ReplaceMoving, IsWriteTarget, AcceptsWrites
<1> HIDE DEF s
<1> USE DEF IInv
<1>2. IsFiniteSet(body[s]) /\ IsFiniteSet(body[t])
  BY <1>0, BodiesFinite
<1>3. /\ Cardinality(body[s] \ {r}) = Cardinality(body[s]) - 1
      /\ Cardinality(body[s]) \in Nat \ {0}
      /\ Cardinality(body[t] \cup {r}) = Cardinality(body[t]) + 1
      /\ Cardinality(body[s] \ {r}) \in Nat
  BY <1>0, <1>2, CountChanges, FS_RemoveElement, FS_EmptySet, Zenon
<1>4. plan' \in [Workers -> PlanType] /\ Plans'
  BY <1>1, PlansAfterKeeps
<1>5. TypeOK'
  <2>1. header' \in [PKeys -> HeaderType]
    BY <1>0, <1>1, <1>3 DEF TypeOK, HeaderType, Added, Removed, ExactMembership
  <2>2. location' \in [Records -> 0..MaxKey]
    BY <1>1 DEF TypeOK, PKeys
  <2>3. body' \in [PKeys -> SUBSET (Records \cup PKeys)] /\ synopsis' \in [PKeys -> SUBSET Records]
    BY <1>1 DEF TypeOK, Expand
  <2> QED BY <1>1, <1>4, <2>1, <2>2, <2>3, Zenon DEF TypeOK
<1>6. ExactMembership'
  <2>1. \A p \in PKeys, q \in Records : q \in body'[p] <=> location'[q] = p
    BY <1>0, <1>1 DEF ExactMembership, TypeOK
  <2>2. \A p \in PKeys : header'[p].count = Cardinality(body'[p])
    <3>1. header'[s].count = Cardinality(body'[s])
      <4>1. header'[s] = Removed(header[s], 1) /\ body'[s] = body[s] \ {r}
        BY <1>0, <1>1 DEF TypeOK
      <4> QED BY <4>1, <1>0, <1>3 DEF ExactMembership, TypeOK, HeaderType, Removed
    <3>2. header'[t].count = Cardinality(body'[t])
      BY <1>0, <1>1, <1>3 DEF ExactMembership, TypeOK, HeaderType, Added
    <3>3. \A p \in PKeys \ {s, t} : header'[p] = header[p] /\ body'[p] = body[p]
      BY <1>0, <1>1 DEF TypeOK
    <3> QED BY <3>1, <3>2, <3>3 DEF ExactMembership
  <2>3. \A q \in Records : q \in stored' <=> location'[q] # 0
    BY <1>1 DEF ExactMembership, TypeOK, PKeys
  <2> QED BY <2>1, <2>2, <2>3 DEF ExactMembership
<1>7. SynopsisCovers'
  BY <1>0, <1>1 DEF SynopsisCovers, TypeOK, Expand
<1>8. \A p \in PKeys : header'[p].tag = header[p].tag /\ header'[p].level = header[p].level
  BY <1>0, <1>1 DEF TypeOK, HeaderType, Added, Removed
<1>9. LevelsDescend'
  BY <1>0, <1>1, <1>8 DEF LevelsDescend, TypeOK, Exists
<1>10. SplitFamilies' /\ OneParent' /\ Shape'
  <2>1. \A p \in PKeys : body'[p] \cap PKeys = body[p] \cap PKeys
    BY <1>0, <1>1, RecordsAssumption DEF TypeOK
  <2> QED BY <1>1, <1>8, <2>1, StructureFramed, Zenon
<1> QED BY <1>4, <1>5, <1>6, <1>7, <1>9, <1>10

\* A delete keeps the invariant: it follows the exact Record Location.
LEMMA DeleteKeeps ==
    ASSUME IInv, NEW r \in Records, Delete(r)
    PROVE  IInv'
<1> DEFINE s == location[r]
<1>0. s \in PKeys /\ r \in body[s]
  BY DEF IInv, Delete, ExactMembership, TypeOK, PKeys
<1>1. /\ body' = [body EXCEPT ![s] = @ \ {r}]
      /\ header' = [header EXCEPT ![s] = Removed(@, 1)]
      /\ synopsis' = [synopsis EXCEPT ![s] = @ \ {r}]
      /\ stored' = stored \ {r}
      /\ location' = [location EXCEPT ![r] = 0]
      /\ plan' = PlansAfter({s})
      /\ UNCHANGED <<highWater, state>>
  BY DEF Delete
<1> HIDE DEF s
<1> USE DEF IInv
<1>2. IsFiniteSet(body[s])
  BY <1>0, BodiesFinite
<1>3. /\ Cardinality(body[s] \ {r}) = Cardinality(body[s]) - 1
      /\ Cardinality(body[s] \ {r}) \in Nat
  BY <1>0, <1>2, CountChanges, FS_RemoveElement, FS_CardinalityType
<1>4. plan' \in [Workers -> PlanType] /\ Plans'
  BY <1>1, PlansAfterKeeps
<1>5. TypeOK'
  <2>1. header' \in [PKeys -> HeaderType]
    BY <1>0, <1>1, <1>3 DEF TypeOK, HeaderType, Removed, ExactMembership
  <2>2. location' \in [Records -> 0..MaxKey]
    BY <1>1, ThresholdAssumption DEF TypeOK
  <2>3. /\ body' \in [PKeys -> SUBSET (Records \cup PKeys)]
        /\ synopsis' \in [PKeys -> SUBSET Records]
        /\ stored' \in SUBSET Records
    BY <1>1, Zenon DEF TypeOK
  <2> QED BY <1>1, <1>4, <2>1, <2>2, <2>3, Zenon DEF TypeOK
<1>6. ExactMembership'
  <2>1. \A p \in PKeys, q \in Records : q \in body'[p] <=> location'[q] = p
    BY <1>0, <1>1 DEF ExactMembership, TypeOK, PKeys
  <2>2. \A p \in PKeys : header'[p].count = Cardinality(body'[p])
    BY <1>0, <1>1, <1>3 DEF ExactMembership, TypeOK, HeaderType, Removed
  <2>3. \A q \in Records : q \in stored' <=> location'[q] # 0
    BY <1>1 DEF ExactMembership, TypeOK
  <2> QED BY <2>1, <2>2, <2>3 DEF ExactMembership
<1>7. SynopsisCovers'
  BY <1>0, <1>1 DEF SynopsisCovers, TypeOK
<1>8. \A p \in PKeys : header'[p].tag = header[p].tag /\ header'[p].level = header[p].level
  BY <1>0, <1>1 DEF TypeOK, HeaderType, Removed
<1>9. LevelsDescend'
  BY <1>0, <1>1, <1>8 DEF LevelsDescend, TypeOK, Exists
<1>10. SplitFamilies' /\ OneParent' /\ Shape'
  <2>1. \A p \in PKeys : body'[p] \cap PKeys = body[p] \cap PKeys
    BY <1>0, <1>1, RecordsAssumption DEF TypeOK
  <2> QED BY <1>1, <1>8, <2>1, StructureFramed
<1> QED BY <1>4, <1>5, <1>6, <1>7, <1>9, <1>10

-----------------------------------------------------------------------------
(* Drains.                                                                 *)

\* Entries of one body are in no other one: a record because of its Location, a
\* partition because it has one parent.
LEMMA BodiesDisjoint ==
    ASSUME IInv, NEW p \in PKeys, NEW q \in PKeys, p # q
    PROVE  body[p] \cap body[q] = {}
<1> SUFFICES ASSUME NEW e, e \in body[p], e \in body[q] PROVE FALSE
  OBVIOUS
<1> USE DEF IInv
<1>1. CASE e \in Records
  BY <1>1 DEF ExactMembership
<1>2. CASE e \notin Records
  <2>1. e \in PKeys
    BY <1>2 DEF TypeOK
  <2>2. header[p].level > 1
    BY <1>2 DEF LevelsDescend, Shape, TypeOK, HeaderType
  <2>3. Exists(e) /\ e # Root
    BY <2>1, <2>2 DEF LevelsDescend, Shape
  <2> QED BY <2>1, <2>3 DEF OneParent
<1> QED BY <1>1, <1>2

\* A drain batch that moves entries of p to partitions of its level keeps the
\* invariant, whichever partitions these are (relocate_leaf_entries,
\* relocate_child_entries).
LEMMA RelocateKeeps ==
    ASSUME IInv, NEW p \in PKeys, NEW D, NEW f, f \in Moves(p, D), Relocate(p, f),
           \A t \in D : t \in PKeys /\ t # p /\ header[t].level = header[p].level,
           plan' \in [Workers -> PlanType], Plans'
    PROVE  IInv'
<1> DEFINE M == DOMAIN f
           T(q) == {e \in M : f[e] = q}
<1>1. M \subseteq body[p] /\ M # {} /\ \A e \in M : f[e] \in D
  BY DEF Moves
<1>2. /\ body' = [q \in PKeys |-> IF q = p THEN body[p] \ M ELSE body[q] \cup T(q)]
      /\ header' = [q \in PKeys |-> IF q = p THEN Removed(header[p], Cardinality(M))
                                    ELSE Added(header[q], Cardinality(T(q)))]
      /\ location' = [r \in Records |-> IF r \in M THEN f[r] ELSE location[r]]
      /\ synopsis' = [q \in PKeys |-> IF q = p THEN synopsis[p] \ M
                                      ELSE synopsis[q] \cup (T(q) \cap Records)]
      /\ UNCHANGED <<highWater, state, stored>>
  BY DEF Relocate
<1> HIDE DEF M
<1> USE DEF IInv
<1>3. /\ IsFiniteSet(M) /\ Cardinality(M) \in Nat
      /\ Cardinality(body[p] \ M) = Cardinality(body[p]) - Cardinality(M)
      /\ Cardinality(body[p] \ M) \in Nat
  <2>1. IsFiniteSet(body[p])
    BY BodiesFinite
  <2>2. IsFiniteSet(M)
    BY <1>1, <2>1, FS_Subset
  <2>3. IsFiniteSet(body[p] \ M)
    BY <2>1, FS_Subset
  <2> QED BY <1>1, <2>1, <2>2, <2>3, CountChanges, Zenon
<1>4. ASSUME NEW q \in PKeys, q # p
      PROVE  /\ Cardinality(T(q)) \in Nat
             /\ Cardinality(body[q] \cup T(q)) = Cardinality(body[q]) + Cardinality(T(q))
  <2>1. IsFiniteSet(T(q)) /\ IsFiniteSet(body[q])
    <3>1. T(q) \subseteq M
      OBVIOUS
    <3> QED BY <3>1, <1>3, FS_Subset, BodiesFinite
  <2>2. body[q] \cap T(q) = {}
    BY <1>1, <1>4, BodiesDisjoint
  <2> HIDE DEF T
  <2> QED BY <2>1, <2>2, CountChanges, Zenon
<1>5. \A q \in PKeys : header'[q].tag = header[q].tag /\ header'[q].level = header[q].level
  BY <1>2 DEF TypeOK, HeaderType, Added, Removed
<1>6. \A q \in PKeys : header'[q].count = Cardinality(body'[q]) /\ header'[q].count \in Nat
  <2>1. header'[p].count = Cardinality(body'[p]) /\ header'[p].count \in Nat
    BY <1>2, <1>3 DEF ExactMembership, TypeOK, HeaderType, Removed
  <2>2. ASSUME NEW q \in PKeys, q # p
        PROVE  header'[q].count = Cardinality(body'[q]) /\ header'[q].count \in Nat
    <3>1. header'[q] = Added(header[q], Cardinality(T(q))) /\ body'[q] = body[q] \cup T(q)
      BY <1>2, <2>2
    <3>2. header'[q].count = header[q].count + Cardinality(T(q))
      BY <3>1 DEF TypeOK, HeaderType, Added
    <3>3. header[q].count \in Nat /\ header[q].count = Cardinality(body[q])
      BY DEF ExactMembership, TypeOK, HeaderType
    <3>4. /\ Cardinality(T(q)) \in Nat
          /\ Cardinality(body[q] \cup T(q)) = Cardinality(body[q]) + Cardinality(T(q))
      BY <1>4, <2>2, Zenon
    <3> HIDE DEF T
    <3> QED BY <3>1, <3>2, <3>3, <3>4
  <2> QED BY <2>1, <2>2
<1>7. TypeOK'
  <2>1. header' \in [PKeys -> HeaderType]
    <3>1. \A q \in PKeys : \E n : header'[q] = [header[q] EXCEPT !.count = n]
      BY <1>2, Zenon DEF Added, Removed
    <3>2. \A q \in PKeys : header[q].level \in Nat /\ header[q].tag \in Tags
      BY DEF TypeOK, HeaderType
    <3>3. ASSUME NEW q \in PKeys PROVE header'[q] \in HeaderType
      <4>1. header'[q].level \in Nat /\ header'[q].count \in Nat /\ header'[q].tag \in Tags
        BY <3>2, <1>5, <1>6
      <4>2. PICK n : header'[q] = [header[q] EXCEPT !.count = n]
        BY <3>1, Zenon
      <4> QED BY <4>1, <4>2 DEF TypeOK, HeaderType
    <3>4. header' = [q \in PKeys |-> header'[q]]
      BY <1>2
    <3> QED BY <3>3, <3>4
  <2>2. location' \in [Records -> 0..MaxKey]
    BY <1>1, <1>2 DEF TypeOK, PKeys
  <2>3. body' \in [PKeys -> SUBSET (Records \cup PKeys)]
    BY <1>1, <1>2 DEF TypeOK
  <2>4. synopsis' \in [PKeys -> SUBSET Records]
    BY <1>2 DEF TypeOK
  <2> QED BY <1>2, <2>1, <2>2, <2>3, <2>4 DEF TypeOK
<1>8. ExactMembership'
  <2>1. \A q \in PKeys, r \in Records : r \in body'[q] <=> location'[r] = q
    BY <1>1, <1>2 DEF ExactMembership, TypeOK
  <2>2. \A r \in Records : r \in stored' <=> location'[r] # 0
    BY <1>1, <1>2 DEF ExactMembership, TypeOK, PKeys
  <2> QED BY <1>6, <2>1, <2>2 DEF ExactMembership
<1>9. SynopsisCovers'
  BY <1>1, <1>2 DEF SynopsisCovers, TypeOK
<1>10. SplitFamilies'
  BY <1>2, <1>5, FamiliesFramed, Zenon
<1>11. OneParent'
  <2>1. SUFFICES ASSUME NEW c \in PKeys \ {Root}, Exists(c)
                 PROVE  IF state[c] = ReceivingSplit(Root)
                        THEN \A b \in PKeys : c \notin body'[b]
                        ELSE /\ \E b \in PKeys : c \in body'[b]
                             /\ \A b, d \in PKeys : c \in body'[b] /\ c \in body'[d] => b = d
    <3>1. state' = state /\ \A c \in PKeys : Exists(c)' <=> Exists(c)
      BY <1>2, <1>5 DEF Exists
    <3> QED BY <3>1 DEF OneParent
  <2>2. \A b \in PKeys : c \in body'[b] <=> IF c \in M THEN b = f[c] ELSE c \in body[b]
    <3>1. c \in M => \A b \in PKeys : b # p => c \notin body[b]
      BY <1>1, BodiesDisjoint
    <3> QED BY <1>1, <1>2, <3>1 DEF TypeOK
  <2>3. CASE c \in M
    BY <1>1, <2>1, <2>2, <2>3 DEF OneParent
  <2>4. CASE c \notin M
    BY <2>1, <2>2, <2>4 DEF OneParent
  <2> QED BY <2>3, <2>4
<1>12. LevelsDescend'
  <2>1. ASSUME NEW q \in PKeys, NEW e \in body'[q]
        PROVE  \E o \in PKeys : header[o].level = header[q].level /\ e \in body[o]
    BY <1>1, <1>2 DEF TypeOK
  <2>2. \A q \in PKeys : Exists(q)' <=> Exists(q)
    BY <1>5 DEF Exists
  <2>3. \A q \in PKeys : ~Exists(q) => body'[q] = {}
    BY <2>1 DEF LevelsDescend, Shape
  <2> QED BY <1>5, <2>1, <2>2, <2>3 DEF LevelsDescend
<1>13. Shape'
  BY <1>1, <1>2, <1>5, RootIsKey, Zenon DEF Shape, Exists, TypeOK
<1> QED BY <1>7, <1>8, <1>9, <1>10, <1>11, <1>12, <1>13

\* The two targets of a draining source are other partitions of its level.
LEMMA DrainTargets ==
    ASSUME IInv, NEW p \in PKeys, state[p].tag = "DrainingSplit",
           NEW t \in {state[p].left, state[p].right}
    PROVE  /\ t \in PKeys \ {Root, p} /\ Exists(t)
           /\ state[t] = ReceivingSplit(p) /\ state[t].tag = "ReceivingSplit"
           /\ header[t].level = header[p].level
<1>1. TargetOf(p, t) /\ t \in PKeys \ {Root}
  BY Targets DEF IInv, IsSplitSource
<1>2. state[t] = ReceivingSplit(p) /\ header[t].level = header[p].level
  BY <1>1 DEF TargetOf
<1>3. state[t].tag = "ReceivingSplit"
  BY <1>2 DEF ReceivingSplit
<1> QED BY <1>1, <1>2, <1>3 DEF IInv, SplitFamilies, TagsAgree, Exists

\* A split drain keeps the invariant.
LEMMA DrainSplitKeeps ==
    ASSUME IInv, NEW w \in Workers, NEW p \in PKeys, DrainSplit(w, p)
    PROVE  IInv'
<1> DEFINE l == plan[w].left
           r == plan[w].right
<1>1. PICK f \in Moves(p, {l, r}) :
        /\ Relocate(p, f)
        /\ plan' = [PlansAfter({p, l, r} \cup DOMAIN f) EXCEPT ![w] = Idle]
  BY Zenon DEF DrainSplit
<1>2. state[p].tag = "DrainingSplit" /\ state[p].left = l /\ state[p].right = r
  BY DEF DrainSplit, DrainingSplit
<1> HIDE DEF l, r
<1>3. \A t \in {l, r} : t \in PKeys /\ t # p /\ header[t].level = header[p].level
  BY <1>2, DrainTargets
<1>4. plan' \in [Workers -> PlanType] /\ Plans'
  BY <1>1, PlansDoneKeeps, Zenon DEF Relocate, IInv
<1> QED BY <1>1, <1>3, <1>4, RelocateKeeps

\* A merge drain keeps the invariant.
LEMMA DrainMergeKeeps ==
    ASSUME IInv, NEW p \in PKeys, DrainMerge(p)
    PROVE  IInv'
<1>1. PICK f \in Moves(p, ReadyTargets(p)) :
        /\ Relocate(p, f)
        /\ plan' = PlansAfter({p} \cup {f[e] : e \in DOMAIN f} \cup DOMAIN f)
  BY Zenon DEF DrainMerge
<1>2. \A t \in ReadyTargets(p) : t \in PKeys /\ t # p /\ header[t].level = header[p].level
  BY DEF ReadyTargets
<1>3. plan' \in [Workers -> PlanType] /\ Plans'
  BY <1>1, PlansAfterKeeps DEF Relocate, IInv
<1> QED BY <1>1, <1>2, <1>3, RelocateKeeps
=============================================================================
