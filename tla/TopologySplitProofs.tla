------------------------- MODULE TopologySplitProofs ------------------------
(***************************************************************************)
(* The steps of Topology that create partitions or start a split (the      *)
(* first insert, begin_split, expose_split_targets) and the steps that     *)
(* only observe keep its inductive invariant.                              *)
(***************************************************************************)
EXTENDS TopologyMembershipProofs

\* begin_split keeps the invariant: the reserved keys are above the allocator
\* mark, so they hold nothing and no other source names them.
LEMMA BeginSplitKeeps ==
    ASSUME IInv, NEW p \in PKeys, BeginSplit(p)
    PROVE  IInv'
<1> DEFINE l == highWater + 1
           r == highWater + 2
<1> USE DEF IInv
<1>0. highWater \in Nat /\ highWater + 2 <= MaxKey /\ MaxKey \in Nat
  BY ThresholdAssumption DEF BeginSplit, TypeOK
<1>1. l \in PKeys /\ r \in PKeys /\ l # r /\ l \in 0..MaxKey /\ r \in 0..MaxKey
  BY <1>0 DEF PKeys
<1>2. /\ highWater' = r
      /\ state' = [state EXCEPT ![p] = Splitting(l, r)]
      /\ header' = [header EXCEPT ![p] = WithState(@, "Splitting")]
      /\ plan' = PlansAfter({p})
      /\ UNCHANGED <<body, synopsis, stored, location>>
      /\ state[p].tag = "Ready" /\ Exists(p)
  BY DEF BeginSplit, SplitFamilies, TagsAgree, Exists
<1>3. /\ Splitting(l, r) \in StateType /\ Splitting(l, r).tag = "Splitting"
      /\ Splitting(l, r).left = l /\ Splitting(l, r).right = r
  BY <1>1, StateValues
<1>4. plan' \in [Workers -> PlanType] /\ Plans'
  BY <1>2, PlansAfterKeeps, Zenon DEF TypeOK
<1>5. TypeOK'
  <2>1. header' \in [PKeys -> HeaderType]
    BY <1>2 DEF TypeOK, HeaderType, WithState, Tags
  <2>2. state' \in [PKeys -> StateType]
    BY <1>2, <1>3 DEF TypeOK
  <2> QED BY <1>0, <1>1, <1>2, <1>4, <2>1, <2>2, Zenon DEF TypeOK
<1>6. \A q \in PKeys : /\ header'[q].level = header[q].level
                       /\ header'[q].count = header[q].count
                       /\ Exists(q)' <=> Exists(q)
  BY <1>2 DEF TypeOK, HeaderType, WithState, Exists
<1>7. ExactMembership' /\ SynopsisCovers' /\ LevelsDescend'
  BY <1>2, <1>6 DEF ExactMembership, SynopsisCovers, LevelsDescend
<1>8. Shape'
  BY <1>0, <1>2, <1>6, RootIsKey DEF Shape, PKeys
<1>9. OneParent'
  <2>1. \A q \in PKeys : state'[q] = ReceivingSplit(Root) <=> state[q] = ReceivingSplit(Root)
    BY <1>2, <1>3 DEF TypeOK, ReceivingSplit
  <2> QED BY <1>2, <1>6, <2>1 DEF OneParent
<1>10. SplitFamilies'
  <2>1. TagsAgree'
    BY <1>2, <1>3 DEF SplitFamilies, TagsAgree, TypeOK, HeaderType, WithState
  <2>2. /\ \A q \in PKeys \ {p} : state'[q] = state[q]
        /\ state'[p].tag = "Splitting" /\ state'[p].left = l /\ state'[p].right = r
    BY <1>2, <1>3 DEF TypeOK
  <2>3. header'[l].tag = "Absent" /\ header'[r].tag = "Absent"
    <3>1. ~Exists(l) /\ ~Exists(r)
      BY <1>0, <1>1 DEF Shape
    <3> HIDE DEF l, r
    <3> QED BY <1>1, <1>6, <3>1 DEF Exists
  <2>4. highWater >= 1 /\ l \in 2..highWater' /\ r \in 2..highWater'
    BY <1>0, <1>2 DEF Shape, PKeys
  <2>5. \A q \in PKeys \ {p} : IsSplitSource(q)' => IsSplitSource(q)
    BY <2>2 DEF IsSplitSource
  <2>6. ASSUME NEW q \in PKeys \ {p}, IsSplitSource(q), NEW t \in {state[q].left, state[q].right}
        PROVE  TargetOf(q, t)' /\ t \notin {l, r}
    <3>1. TargetOf(q, t) /\ t \in PKeys /\ t # p
      BY <2>6, <1>2, Targets
    <3>2. t \in 2..highWater
      BY <3>1 DEF TargetOf
    <3>3. t \notin {l, r} /\ t \in 2..highWater'
      BY <1>0, <1>2, <3>2
    <3> QED BY <1>6, <2>2, <3>1, <3>3 DEF TargetOf
  <2>7. SourcesNameTargets'
    <3> HIDE DEF l, r
    <3>1. \A t \in {l, r} : TargetOf(p, t)'
      BY <2>2, <2>3, <2>4 DEF TargetOf, Exists
    <3>2. ASSUME NEW q \in PKeys, IsSplitSource(q)'
          PROVE  /\ state'[q].left # state'[q].right
                 /\ \A t \in {state'[q].left, state'[q].right} : TargetOf(q, t)'
      <4>1. CASE q = p
        BY <1>1, <2>2, <3>1, <4>1
      <4>2. CASE q # p
        <5>1. IsSplitSource(q) /\ state'[q] = state[q]
          BY <2>2, <2>5, <3>2, <4>2
        <5> QED BY <2>6, <4>2, <5>1, Targets
      <4> QED BY <4>1, <4>2
    <3> QED BY <3>2 DEF SourcesNameTargets
  <2>8. TargetsNameSource'
    BY <1>2, <2>2, NotInFamily DEF SplitFamilies, TargetsNameSource, NamesSource
  <2>9. PairsDisjoint'
    <3> HIDE DEF l, r
    <3> QED BY <2>2, <2>5, <2>6 DEF SplitFamilies, PairsDisjoint
  <2> QED BY <2>1, <2>7, <2>8, <2>9 DEF SplitFamilies
<1> QED BY <1>4, <1>5, <1>7, <1>8, <1>9, <1>10

\* A step that only changes what one worker remembers keeps the invariant.
LEMMA ObserveKeeps ==
    ASSUME IInv, NEW w \in Workers, NEW p \in PKeys,
           \/ ObserveSplitting(w, p)
           \/ ObserveDraining(w, p)
           \/ ObserveMergeable(w, p)
    PROVE  IInv'
<1> USE DEF IInv
<1>1. UNCHANGED <<highWater, header, state, body, synopsis, stored, location>>
  BY DEF ObserveSplitting, ObserveDraining, ObserveMergeable, tree
<1>2. p \in 0..MaxKey /\ state[p].left \in 0..MaxKey /\ state[p].right \in 0..MaxKey
  BY DEF TypeOK, StateType, PKeys
<1>3. IsSplitSource(p) => state[p].left \in PKeys /\ state[p].right \in PKeys
  BY Targets
<1>4. PICK x \in PlanType :
        /\ plan' = [plan EXCEPT ![w] = x]
        /\ x.source = p
        /\ x.op \in {"expose", "drain"} => x.left \in PKeys /\ x.right \in PKeys
        /\ x.op = "merge" => p # Root /\ state[p].tag = "Ready"
  <2>1. CASE ObserveSplitting(w, p)
    <3> DEFINE x == Plan("expose", p, state[p].left, state[p].right)
    <3>1. x \in PlanType /\ x.op = "expose" /\ x.source = p /\ x.left = state[p].left /\ x.right = state[p].right
      BY <1>2, ThresholdAssumption DEF Plan, PlanType
    <3>2. plan' = [plan EXCEPT ![w] = x] /\ IsSplitSource(p)
      BY <2>1 DEF ObserveSplitting, IsSplitSource
    <3> HIDE DEF x
    <3> QED BY <1>3, <3>1, <3>2, Zenon
  <2>2. CASE ObserveDraining(w, p)
    <3> DEFINE x == Plan("drain", p, state[p].left, state[p].right)
    <3>1. x \in PlanType /\ x.op = "drain" /\ x.source = p /\ x.left = state[p].left /\ x.right = state[p].right
      BY <1>2, ThresholdAssumption DEF Plan, PlanType
    <3>2. plan' = [plan EXCEPT ![w] = x] /\ IsSplitSource(p)
      BY <2>2 DEF ObserveDraining, IsSplitSource
    <3> HIDE DEF x
    <3> QED BY <1>3, <3>1, <3>2, Zenon
  <2>3. CASE ObserveMergeable(w, p)
    <3> DEFINE x == Plan("merge", p, 0, 0)
    <3>1. x \in PlanType /\ x.op = "merge" /\ x.source = p /\ x.left = 0 /\ x.right = 0
      BY <1>2, ThresholdAssumption DEF Plan, PlanType
    <3>2. plan' = [plan EXCEPT ![w] = x] /\ p # Root /\ state[p].tag = "Ready"
      BY <2>3 DEF ObserveMergeable, MergeEligible
    <3> HIDE DEF x
    <3> QED BY <1>3, <3>1, <3>2, Zenon
  <2> QED BY <2>1, <2>2, <2>3
<1>5. plan' \in [Workers -> PlanType] /\ Plans'
  BY <1>1, <1>4 DEF TypeOK, Plans
<1>6. TypeOK'
  BY <1>1, <1>5 DEF TypeOK
<1>7. ExactMembership' /\ SynopsisCovers' /\ LevelsDescend'
  BY <1>1 DEF ExactMembership, SynopsisCovers, LevelsDescend, Exists
<1>8. SplitFamilies' /\ OneParent' /\ Shape'
  BY <1>1, StructureFramed
<1> QED BY <1>5, <1>6, <1>7, <1>8

\* A worker that gives up keeps the invariant.
LEMMA ReturnKeeps ==
    ASSUME IInv, NEW w \in Workers, Return(w)
    PROVE  IInv'
<1> USE DEF IInv
<1>1. UNCHANGED <<highWater, header, state, body, synopsis, stored, location>>
  BY DEF Return, tree
<1>2. Idle \in PlanType /\ Idle.op = "idle"
  BY ThresholdAssumption DEF Idle, PlanType
<1>3. plan' \in [Workers -> PlanType] /\ Plans'
  BY <1>1, <1>2 DEF TypeOK, Plans, Return
<1>4. TypeOK'
  BY <1>1, <1>3 DEF TypeOK
<1>5. ExactMembership' /\ SynopsisCovers' /\ LevelsDescend'
  BY <1>1 DEF ExactMembership, SynopsisCovers, LevelsDescend, Exists
<1>6. SplitFamilies' /\ OneParent' /\ Shape'
  BY <1>1, StructureFramed
<1> QED BY <1>3, <1>4, <1>5, <1>6

\* The first insert of a tree keeps the invariant: before it there is no partition.
LEMMA InsertFirstKeeps ==
    ASSUME IInv, NEW r \in Records, r \notin stored, InsertFirst(r)
    PROVE  IInv'
<1> USE DEF IInv
<1>1. \A p \in PKeys : ~Exists(p) /\ body[p] = {} /\ state[p].tag = "Absent"
  BY DEF InsertFirst, Shape, LevelsDescend, SplitFamilies, TagsAgree, PKeys, Exists
<1>2. Ready \in StateType /\ Ready.tag = "Ready" /\ Root \in PKeys /\ Root \in 0..MaxKey
  BY RootIsKey, ThresholdAssumption DEF StateType, Ready, Tags, PKeys
<1>3. plan' \in [Workers -> PlanType] /\ Plans'
  <2>1. \A w \in Workers : plan[w].op # "merge"
    BY <1>1 DEF Plans
  <2> QED BY <2>1 DEF InsertFirst, TypeOK, Plans
<1>4. TypeOK'
  <2>1. header' \in [PKeys -> HeaderType]
    BY <1>2 DEF InsertFirst, TypeOK, HeaderType, Tags
  <2>2. state' \in [PKeys -> StateType]
    BY <1>2 DEF InsertFirst, TypeOK
  <2>3. body' \in [PKeys -> SUBSET (Records \cup PKeys)] /\ synopsis' \in [PKeys -> SUBSET Records]
    BY <1>2 DEF InsertFirst, TypeOK, Expand
  <2> QED BY <1>2, <1>3, <2>1, <2>2, <2>3 DEF InsertFirst, TypeOK
<1>5. /\ header'[Root] = [level |-> 1, count |-> 1, tag |-> "Ready"]
      /\ state'[Root] = Ready /\ body'[Root] = {r} /\ synopsis'[Root] = {r}
      /\ \A p \in PKeys \ {Root} : /\ header'[p] = header[p] /\ state'[p] = state[p]
                                   /\ body'[p] = {}
  BY <1>1, <1>2 DEF InsertFirst, TypeOK, Expand
<1>6. ExactMembership'
  <2>1. \A q \in Records : location[q] = 0
    BY <1>1 DEF ExactMembership, TypeOK, PKeys
  <2>2. location' = [location EXCEPT ![r] = Root] /\ stored' = stored \cup {r}
    BY DEF InsertFirst
  <2>3. Cardinality({r}) = 1
    BY FS_Singleton
  <2>4. \A q \in Records : q \in stored' <=> location'[q] # 0
    BY <2>2 DEF ExactMembership, TypeOK, Root
  <2>5. \A p \in PKeys, q \in Records : q \in body'[p] <=> location'[q] = p
    BY <1>2, <1>5, <2>1, <2>2 DEF TypeOK, PKeys
  <2>6. \A p \in PKeys : header'[p].count = Cardinality(body'[p])
    <3> SUFFICES ASSUME NEW p \in PKeys PROVE header'[p].count = Cardinality(body'[p])
      OBVIOUS
    <3>1. CASE p = Root
      <4>1. header'[p].count = 1 /\ body'[p] = {r}
        BY <1>5, <3>1
      <4> QED BY <2>3, <4>1
    <3>2. CASE p # Root
      <4>1. header'[p] = header[p] /\ body'[p] = body[p]
        BY <1>1, <1>5, <3>2, Zenon
      <4>2. header[p].count = Cardinality(body[p])
        BY DEF ExactMembership
      <4> QED BY <4>1, <4>2, Zenon
    <3> QED BY <3>1, <3>2
  <2> QED BY <2>4, <2>5, <2>6 DEF ExactMembership
<1>7. SynopsisCovers'
  BY <1>5 DEF SynopsisCovers
<1>8. SplitFamilies'
  <2>1. /\ state'[Root].tag = "Ready" /\ header'[Root].tag = "Ready"
        /\ \A q \in PKeys \ {Root} : state'[q].tag = "Absent" /\ header'[q].tag = "Absent"
    <3>1. \A q \in PKeys \ {Root} : header[q].tag = "Absent" /\ state[q].tag = "Absent"
      BY <1>1 DEF Exists
    <3>2. header'[Root].tag = "Ready" /\ state'[Root].tag = "Ready"
      BY <1>2, <1>5
    <3> QED BY <1>5, <3>1, <3>2
  <2>2. \A q \in PKeys : ~IsSplitSource(q)' /\ state'[q].tag # "ReceivingSplit"
    BY <2>1 DEF IsSplitSource
  <2>3. TagsAgree' /\ SourcesNameTargets' /\ TargetsNameSource' /\ PairsDisjoint'
    BY <2>1, <2>2 DEF TagsAgree, SourcesNameTargets, TargetsNameSource, PairsDisjoint
  <2> QED BY <2>3 DEF SplitFamilies
<1>9. OneParent'
  BY <1>1, <1>5 DEF OneParent, Exists
<1>10. LevelsDescend'
  BY <1>1, <1>5 DEF LevelsDescend, Exists
<1>11. Shape'
  <2>1. highWater' = Root /\ highWater = 0
    BY DEF InsertFirst
  <2>2. Root \notin Records
    BY <1>2, RecordsAssumption
  <2> QED BY <1>1, <1>2, <1>5, <2>1, <2>2 DEF Shape, Exists, PKeys, Root
<1> QED BY <1>3, <1>4, <1>6, <1>7, <1>8, <1>9, <1>10, <1>11

\* A key without a partition is in no body and its own body is empty.
LEMMA AbsentKeys ==
    ASSUME IInv, NEW c \in PKeys, ~Exists(c)
    PROVE  body[c] = {} /\ \A q \in PKeys : c \notin body[q]
<1> USE DEF IInv
<1>1. body[c] = {}
  BY DEF LevelsDescend
<1>2. ASSUME NEW q \in PKeys, c \in body[q] PROVE FALSE
  <2>1. header[q].level \in Nat /\ header[q].level # 0
    BY <1>2 DEF LevelsDescend, Shape, TypeOK, HeaderType
  <2> QED BY <1>2, <2>1, RecordsAssumption DEF LevelsDescend
<1> QED BY <1>1, <1>2

\* What expose_split_targets finds and what it writes, for the source p with the
\* reserved targets l and r and the parent b.
Exposed(w, b, p, l, r) ==
    /\ state[p] = Splitting(l, r) /\ Exists(p)
    /\ l # r /\ {l, r} \cap {p, b, Root} = {} /\ ~Exists(l) /\ ~Exists(r)
    /\ l <= highWater /\ r <= highWater
    /\ p = Root => b = Root
    /\ p # Root => /\ p \in body[b] /\ b # p /\ Exists(b)
                   /\ header[b].level = header[p].level + 1
    /\ state' = [state EXCEPT ![p] = DrainingSplit(l, r),
                              ![l] = ReceivingSplit(p), ![r] = ReceivingSplit(p)]
    /\ header' = [q \in PKeys |->
                    CASE q = p -> WithState(header[p], "DrainingSplit")
                      [] q \in {l, r} -> [level |-> header[p].level, count |-> 0,
                                          tag |-> "ReceivingSplit"]
                      [] q = b /\ p # Root -> Added(header[b], 2)
                      [] OTHER -> header[q]]
    /\ body' = IF p = Root THEN body ELSE [body EXCEPT ![b] = @ \cup {l, r}]
    /\ plan' = [PlansAfter({p, l, r, b}) EXCEPT ![w] = Idle]
    /\ UNCHANGED <<highWater, synopsis, stored, location>>

\* Every exposure is of that form.
LEMMA ExposeFacts ==
    ASSUME IInv, NEW w \in Workers, NEW b \in PKeys, ExposeTargets(w, b)
    PROVE  \E p, l, r \in PKeys : Exposed(w, b, p, l, r)
<1> USE DEF IInv
<1>1. PICK p, l, r \in PKeys : p = plan[w].source /\ l = plan[w].left /\ r = plan[w].right
  BY DEF Plans, ExposeTargets
<1>2. state[p] = Splitting(l, r)
  BY <1>1 DEF ExposeTargets
<1>3. state[p].tag = "Splitting" /\ state[p].left = l /\ state[p].right = r
  BY <1>2 DEF Splitting
<1>4. Exists(p)
  BY <1>3 DEF SplitFamilies, TagsAgree, Exists
<1>5. l # r /\ l \in 2..highWater /\ r \in 2..highWater /\ ~Exists(l) /\ ~Exists(r)
  <2>1. \A t \in {l, r} : TargetOf(p, t) /\ l # r
    BY <1>3, Targets DEF IsSplitSource
  <2> QED BY <1>3, <2>1 DEF TargetOf
<1>6. /\ p = Root => b = Root
      /\ p # Root => p \in body[b] /\ header[b].level = header[p].level + 1
  BY <1>1 DEF ExposeTargets, Incoming
<1>7. p # Root => b # p /\ Exists(b)
  BY <1>6 DEF TypeOK, HeaderType, LevelsDescend
<1>8. {l, r} \cap {p, b, Root} = {} /\ l <= highWater /\ r <= highWater
  <2>1. l # Root /\ r # Root /\ l <= highWater /\ r <= highWater
    BY <1>5 DEF Root, TypeOK
  <2> QED BY <1>4, <1>5, <1>6, <1>7, <2>1
<1>9. /\ state' = [state EXCEPT ![p] = DrainingSplit(l, r),
                                ![l] = ReceivingSplit(p), ![r] = ReceivingSplit(p)]
      /\ header' = [q \in PKeys |->
                      CASE q = p -> WithState(header[p], "DrainingSplit")
                        [] q \in {l, r} -> [level |-> header[p].level, count |-> 0,
                                            tag |-> "ReceivingSplit"]
                        [] q = b /\ p # Root -> Added(header[b], 2)
                        [] OTHER -> header[q]]
      /\ body' = IF p = Root THEN body ELSE [body EXCEPT ![b] = @ \cup {l, r}]
      /\ plan' = [PlansAfter({p, l, r, b}) EXCEPT ![w] = Idle]
      /\ UNCHANGED <<highWater, synopsis, stored, location>>
  <2>1. UNCHANGED <<highWater, synopsis, stored, location>>
    BY DEF ExposeTargets
  <2> QED BY <1>1, <2>1 DEF ExposeTargets
<1>10. Exposed(w, b, p, l, r)
  BY <1>2, <1>4, <1>5, <1>6, <1>7, <1>8, <1>9, SMTT(30) DEF Exposed
<1> QED BY <1>10, SMTT(30)

\* expose_split_targets keeps the invariant.
LEMMA ExposeTargetsKeeps ==
    ASSUME IInv, NEW w \in Workers, NEW b \in PKeys, ExposeTargets(w, b)
    PROVE  IInv'
<1> USE DEF IInv
<1>0. PICK p, l, r \in PKeys : Exposed(w, b, p, l, r)
  BY ExposeFacts
<1>1. /\ state[p] = Splitting(l, r) /\ Exists(p)
      /\ l # r /\ {l, r} \cap {p, b, Root} = {} /\ ~Exists(l) /\ ~Exists(r)
      /\ l <= highWater /\ r <= highWater
      /\ p = Root => b = Root
      /\ p # Root => /\ p \in body[b] /\ b # p /\ Exists(b)
                     /\ header[b].level = header[p].level + 1
      /\ UNCHANGED <<highWater, synopsis, stored, location>>
  BY <1>0 DEF Exposed
<1>a. /\ state[p].tag = "Splitting" /\ state[p].left = l /\ state[p].right = r
      /\ IsSplitSource(p)
      /\ l # Root /\ r # Root /\ l # b /\ r # b /\ l # p /\ r # p
  <2>1. state[p] = Splitting(l, r) /\ {l, r} \cap {p, b, Root} = {}
    BY <1>1
  <2>2. state[p].tag = "Splitting" /\ state[p].left = l /\ state[p].right = r
    BY <2>1 DEF Splitting
  <2> QED BY <2>1, <2>2, Zenon DEF IsSplitSource
<1>2. /\ body[l] = {} /\ body[r] = {}
      /\ \A q \in PKeys : l \notin body[q] /\ r \notin body[q]
  BY <1>1, AbsentKeys
<1>3. /\ state'[p] = DrainingSplit(l, r)
      /\ state'[l] = ReceivingSplit(p) /\ state'[r] = ReceivingSplit(p)
      /\ \A q \in PKeys \ {p, l, r} : state'[q] = state[q]
  BY <1>0, <1>a DEF Exposed, TypeOK
<1>4. /\ header'[p] = WithState(header[p], "DrainingSplit")
      /\ \A q \in {l, r} : header'[q] = [level |-> header[p].level, count |-> 0,
                                         tag |-> "ReceivingSplit"]
      /\ p # Root => header'[b] = Added(header[b], 2)
      /\ \A q \in PKeys \ {p, l, r, b} : header'[q] = header[q]
  BY <1>0, <1>a DEF Exposed
<1>5. \A q \in PKeys : body'[q] = IF p # Root /\ q = b THEN body[b] \cup {l, r} ELSE body[q]
  BY <1>0 DEF Exposed, TypeOK
<1>6. /\ \A q \in PKeys \ {l, r} : header'[q].level = header[q].level
      /\ \A q \in PKeys \ {l, r} : Exists(q)' <=> Exists(q)
      /\ \A q \in {l, r} : header'[q].level = header[p].level /\ Exists(q)'
  <2>1. \A q \in {l, r} : header'[q].level = header[p].level /\ Exists(q)'
    BY <1>4 DEF Exists
  <2>2. header'[p].level = header[p].level /\ Exists(p)'
    BY <1>4 DEF WithState, TypeOK, HeaderType, Exists
  <2>3. p # Root => header'[b].level = header[b].level /\ header'[b].tag = header[b].tag
    BY <1>4 DEF Added, TypeOK, HeaderType
  <2>4. \A q \in PKeys \ {p, l, r, b} : header'[q].level = header[q].level /\ header'[q].tag = header[q].tag
    BY <1>4
  <2> QED BY <1>1, <2>1, <2>2, <2>3, <2>4 DEF Exists
<1>7. plan' \in [Workers -> PlanType] /\ Plans'
  <2> DEFINE W == {p, l, r, b}
  <2>1. /\ plan' = [PlansAfter(W) EXCEPT ![w] = Idle]
        /\ \A q \in PKeys \ W : state'[q] = state[q]
    BY <1>0, <1>3 DEF Exposed
  <2> HIDE DEF W
  <2> QED BY <2>1, PlansDoneKeeps, Zenon
<1>8. \A q \in PKeys : header'[q].count = Cardinality(body'[q]) /\ header'[q].count \in Nat
  <2>1. ASSUME NEW q \in {l, r} PROVE header'[q].count = Cardinality(body'[q]) /\ header'[q].count \in Nat
    <3>1. body'[q] = {} /\ header'[q].count = 0
      BY <1>1, <1>2, <1>4, <1>5
    <3> QED BY <3>1, FS_EmptySet
  <2>2. ASSUME p # Root PROVE header'[b].count = Cardinality(body'[b]) /\ header'[b].count \in Nat
    <3>1. IsFiniteSet(body[b]) /\ IsFiniteSet({l, r}) /\ body[b] \cap {l, r} = {}
      BY <1>1, <1>2, BodiesFinite, PairSize, Zenon
    <3>2. Cardinality({l, r}) = 2
      BY <1>1, PairSize
    <3>3. Cardinality(body[b] \cup {l, r}) = Cardinality(body[b]) + 2 /\ Cardinality(body[b]) \in Nat
      <4> DEFINE T == {l, r}
      <4>1. IsFiniteSet(T) /\ Cardinality(T) = 2 /\ body[b] \cap T = {}
        BY <3>1, <3>2
      <4> HIDE DEF T
      <4>2. /\ Cardinality(body[b] \cup T) = Cardinality(body[b]) + Cardinality(T)
            /\ Cardinality(body[b]) \in Nat
        BY <3>1, <4>1, CountChanges, Zenon
      <4> QED BY <4>1, <4>2 DEF T
    <3>4. header'[b].count = header[b].count + 2 /\ header[b].count = Cardinality(body[b])
      BY <2>2, <1>4 DEF Added, TypeOK, HeaderType, ExactMembership
    <3>5. body'[b] = body[b] \cup {l, r}
      BY <1>5, <2>2
    <3> QED BY <3>3, <3>4, <3>5
  <2>3. ASSUME NEW q \in PKeys \ {l, r}, ~(p # Root /\ q = b)
        PROVE  header'[q].count = Cardinality(body'[q]) /\ header'[q].count \in Nat
    <3>1. header'[q].count = header[q].count /\ body'[q] = body[q]
      BY <1>1, <1>4, <1>5, <2>3 DEF WithState, TypeOK, HeaderType
    <3>2. header[q].count = Cardinality(body[q]) /\ header[q].count \in Nat
      BY DEF ExactMembership, TypeOK, HeaderType
    <3> QED BY <3>1, <3>2
  <2> QED BY <2>1, <2>2, <2>3
<1>9. TypeOK'
  <2>1. ASSUME NEW q \in PKeys PROVE header'[q] \in HeaderType
    <3>1. CASE q = p
      BY <1>4, <3>1 DEF WithState, TypeOK, HeaderType, Tags
    <3>2. CASE q \in {l, r}
      BY <1>4, <3>2 DEF TypeOK, HeaderType, Tags
    <3>3. CASE q = b /\ p # Root
      BY <1>4, <3>3 DEF Added, TypeOK, HeaderType
    <3>4. CASE q \notin {p, l, r} /\ ~(q = b /\ p # Root)
      BY <1>1, <1>4, <3>4 DEF TypeOK
    <3> QED BY <3>1, <3>2, <3>3, <3>4
  <2>2. header' = [q \in PKeys |-> header'[q]]
    BY <1>0 DEF Exposed
  <2>3. state' \in [PKeys -> StateType]
    <3>1. DrainingSplit(l, r) \in StateType /\ ReceivingSplit(p) \in StateType
      BY StateValues, ThresholdAssumption DEF PKeys
    <3> QED BY <1>0, <3>1 DEF Exposed, TypeOK
  <2>4. body' \in [PKeys -> SUBSET (Records \cup PKeys)]
    BY <1>0 DEF Exposed, TypeOK
  <2> QED BY <1>1, <1>7, <2>1, <2>2, <2>3, <2>4, ZenonT(30) DEF TypeOK
<1>10. ExactMembership'
  <2>1. \A q \in PKeys, x \in Records : x \in body'[q] <=> x \in body[q]
    BY <1>5, RecordsAssumption
  <2> QED BY <1>1, <1>8, <2>1, Zenon DEF ExactMembership
<1>11. SynopsisCovers'
  BY <1>1, <1>5, RecordsAssumption DEF SynopsisCovers
<1>12. OneParent'
  <2>1. SUFFICES ASSUME NEW c \in PKeys \ {Root}, Exists(c)'
                 PROVE  IF state'[c] = ReceivingSplit(Root)
                        THEN \A x \in PKeys : c \notin body'[x]
                        ELSE /\ \E x \in PKeys : c \in body'[x]
                             /\ \A x, y \in PKeys : c \in body'[x] /\ c \in body'[y] => x = y
    BY DEF OneParent
  <2>2. CASE c \in {l, r}
    <3>1. state'[c] = ReceivingSplit(Root) <=> p = Root
      BY <1>3, <2>2 DEF ReceivingSplit
    <3>2. \A x \in PKeys : c \in body'[x] <=> p # Root /\ x = b
      BY <1>2, <1>5, <2>2
    <3> QED BY <3>1, <3>2
  <2>3. CASE c \notin {l, r}
    <3>1. \A x \in PKeys : c \in body'[x] <=> c \in body[x]
      BY <1>5, <2>3
    <3>2. state'[c] = ReceivingSplit(Root) <=> state[c] = ReceivingSplit(Root)
      <4>1. CASE c = p
        BY <1>a, <1>3, <4>1 DEF DrainingSplit, ReceivingSplit
      <4>2. CASE c # p
        BY <1>3, <2>3, <4>2
      <4> QED BY <4>1, <4>2
    <3>3. Exists(c)
      BY <1>6, <2>1, <2>3
    <3> QED BY <3>1, <3>2, <3>3 DEF OneParent
  <2> QED BY <2>2, <2>3
<1>13. LevelsDescend'
  <2>1. SUFFICES ASSUME NEW q \in PKeys
                 PROVE  /\ ~Exists(q)' => body'[q] = {}
                        /\ header'[q].level = 1 => body'[q] \subseteq Records
                        /\ header'[q].level > 1 =>
                            body'[q] \subseteq {c \in PKeys : Exists(c)' /\ header'[c].level = header'[q].level - 1}
    BY DEF LevelsDescend
  <2>2. CASE q \in {l, r}
    BY <1>1, <1>2, <1>5, <1>6, <2>2
  <2>3. CASE p # Root /\ q = b
    <3>1. header'[q].level > 1 /\ header'[q].level - 1 = header[p].level /\ header[b].level > 1
      <4>1. header'[q].level = header[b].level /\ header[b].level = header[p].level + 1
        BY <1>1, <1>a, <1>6, <2>3
      <4>2. header[p].level \in Nat /\ header[p].level >= 1
        BY <1>1 DEF Shape, TypeOK, HeaderType
      <4> QED BY <4>1, <4>2
    <3>2. \A c \in body[b] : c \in PKeys /\ Exists(c) /\ header[c].level = header[b].level - 1
      BY <2>3, <3>1 DEF LevelsDescend
    <3>3. Exists(q)'
      BY <1>1, <1>6, <2>3, SMTT(30)
    <3>4. \A c \in body[b] : Exists(c)' /\ header'[c].level = header[c].level
      BY <1>2, <1>6, <3>2
    <3> QED BY <1>1, <1>5, <1>6, <2>3, <3>1, <3>2, <3>3, <3>4, SMTT(30) DEF TypeOK, HeaderType
  <2>4. CASE q \notin {l, r} /\ ~(p # Root /\ q = b)
    <3>1. body'[q] = body[q] /\ header'[q].level = header[q].level /\ (Exists(q)' <=> Exists(q))
      BY <1>5, <1>6, <2>4
    <3>2. l \notin body[q] /\ r \notin body[q]
      BY <1>2
    <3> QED BY <1>6, <3>1, <3>2 DEF LevelsDescend
  <2> QED BY <2>2, <2>3, <2>4
<1>14. Shape'
  <2>1. \A q \in PKeys : q > highWater' => ~Exists(q)'
    BY <1>1, <1>6 DEF Shape, TypeOK, PKeys
  <2>2. \A q \in PKeys : Exists(q)' <=> header'[q].level >= 1
    BY <1>1, <1>6, SMTT(30) DEF Shape
  <2>3. \A q \in PKeys : Root \notin body'[q]
    BY <1>a, <1>5 DEF Shape
  <2> QED BY <2>1, <2>2, <2>3 DEF Shape
<1>15. SplitFamilies'
  <2>1. /\ state'[p].tag = "DrainingSplit" /\ state'[p].left = l /\ state'[p].right = r
        /\ \A t \in {l, r} : state'[t].tag = "ReceivingSplit" /\ state'[t].source = p
    BY <1>3 DEF DrainingSplit, ReceivingSplit
  <2>2. \A t \in {l, r} : state[t].tag = "Absent"
    BY <1>1 DEF SplitFamilies, TagsAgree, Exists
  <2>3. TagsAgree'
    <3>1. header'[p].tag = state'[p].tag /\ \A q \in {l, r} : header'[q].tag = state'[q].tag
      BY <1>4, <2>1 DEF TypeOK, HeaderType, WithState
    <3>2. \A q \in PKeys \ {p, l, r} : header'[q].tag = header[q].tag
      BY <1>1, <1>4, SMTT(30) DEF TypeOK, HeaderType, Added
    <3>3. \A q \in PKeys : header[q].tag = state[q].tag
      BY DEF SplitFamilies, TagsAgree
    <3>4. \A q \in PKeys : header'[q].tag = state'[q].tag
      BY <1>3, <3>1, <3>2, <3>3
    <3> QED BY <3>4 DEF TagsAgree
  <2>4. \A q \in PKeys : IsSplitSource(q)' =>
            /\ q \notin {l, r} /\ IsSplitSource(q)
            /\ state'[q].left = state[q].left /\ state'[q].right = state[q].right
    BY <1>a, <1>3, <2>1 DEF IsSplitSource
  <2>5. ASSUME NEW q \in PKeys \ {p, l, r}, IsSplitSource(q), NEW t \in {state[q].left, state[q].right}
        PROVE  TargetOf(q, t)'
    <3>1. TargetOf(q, t) /\ t \in PKeys /\ t # p
      BY <1>a, <2>5, Targets
    <3>2. t \notin {l, r}
      BY <1>a, <2>5, Zenon DEF SplitFamilies, PairsDisjoint
    <3>3. state'[t] = state[t] /\ state'[q] = state[q]
      BY <1>3, <3>1, <3>2
    <3>4. /\ header'[t].level = header[t].level /\ header'[q].level = header[q].level
          /\ Exists(t)' <=> Exists(t)
      BY <1>6, <3>1, <3>2
    <3> QED BY <1>1, <3>1, <3>3, <3>4, SMTT(30) DEF TargetOf
  <2>6. \A t \in {l, r} : TargetOf(p, t)'
    <3>1. \A t \in {l, r} : t \in 2..highWater
      BY <1>a, Targets DEF TargetOf
    <3>2. \A t \in {l, r} : header'[t].level = header'[p].level
      BY <1>a, <1>6
    <3> QED BY <1>1, <1>3, <2>1, <3>1, <3>2, ZenonT(30) DEF TargetOf
  <2>7. SourcesNameTargets'
    <3> SUFFICES ASSUME NEW q \in PKeys, IsSplitSource(q)'
                 PROVE  /\ state'[q].left # state'[q].right
                        /\ \A t \in {state'[q].left, state'[q].right} : TargetOf(q, t)'
      BY DEF SourcesNameTargets
    <3>1. CASE q = p
      BY <1>1, <2>1, <2>6, <3>1, SMTT(30)
    <3>2. CASE q # p
      <4>1. /\ q \notin {l, r} /\ IsSplitSource(q)
            /\ state'[q].left = state[q].left /\ state'[q].right = state[q].right
        BY <2>4
      <4> QED BY <2>5, <3>2, <4>1, Targets
    <3> QED BY <3>1, <3>2
  <2>8. TargetsNameSource'
    <3>1. ASSUME NEW q \in PKeys \ {p, l, r}, state[q].tag = "ReceivingSplit"
          PROVE  NamesSource(q)'
      <4>1. NamesSource(q)
        BY <3>1 DEF SplitFamilies, TargetsNameSource
      <4>2. state[q].source \in PKeys \ {p, l, r}
        BY <1>a, <2>2, <4>1 DEF NamesSource
      <4> QED BY <1>3, <4>1, <4>2 DEF NamesSource
    <3>2. NamesSource(l)' /\ NamesSource(r)'
      BY <2>1 DEF NamesSource
    <3> QED BY <1>3, <2>1, <3>1, <3>2 DEF TargetsNameSource
  <2>9. PairsDisjoint'
    BY <2>4 DEF SplitFamilies, PairsDisjoint
  <2> QED BY <2>3, <2>7, <2>8, <2>9 DEF SplitFamilies
<1> QED BY <1>7, <1>9, <1>10, <1>11, <1>12, <1>13, <1>14, <1>15
=============================================================================
