----------------------- MODULE TopologyFinalizeProofs -----------------------
(***************************************************************************)
(* begin_merge and the steps of Topology that complete a split or a merge  *)
(* keep its inductive invariant.                                           *)
(***************************************************************************)
EXTENDS TopologyMembershipProofs

\* begin_merge keeps the invariant although it does not protect its target: no
\* structural invariant depends on the target still being Ready.
LEMMA BeginMergeKeeps ==
    ASSUME IInv, NEW w \in Workers, BeginMerge(w)
    PROVE  IInv'
<1> DEFINE p == plan[w].source
<1> USE DEF IInv
<1>1. /\ state' = [state EXCEPT ![p] = Merging]
      /\ header' = [header EXCEPT ![p] = WithState(@, "Merging")]
      /\ plan' = [PlansAfter({p}) EXCEPT ![w] = Idle]
      /\ UNCHANGED <<highWater, body, synopsis, stored, location>>
  BY DEF BeginMerge
<1>2. p \in PKeys /\ state[p].tag = "Ready" /\ Exists(p)
  BY DEF BeginMerge, Plans, SplitFamilies, TagsAgree, Exists
<1> HIDE DEF p
<1>3. Merging \in StateType /\ Merging.tag = "Merging"
  BY ThresholdAssumption DEF StateType, Merging, Tags
<1>4. plan' \in [Workers -> PlanType] /\ Plans'
  BY <1>1, PlansDoneKeeps, Zenon DEF TypeOK
<1>5. TypeOK'
  <2>1. header' \in [PKeys -> HeaderType]
    BY <1>1, Zenon DEF TypeOK, HeaderType, WithState, Tags
  <2>2. state' \in [PKeys -> StateType]
    BY <1>1, <1>3, Zenon DEF TypeOK
  <2> QED BY <1>1, <1>4, <2>1, <2>2, Zenon DEF TypeOK
<1>6. \A q \in PKeys : /\ header'[q].level = header[q].level
                       /\ header'[q].count = header[q].count
                       /\ Exists(q)' <=> Exists(q)
  BY <1>1, <1>2 DEF TypeOK, HeaderType, WithState, Exists
<1>7. ExactMembership' /\ SynopsisCovers' /\ LevelsDescend' /\ Shape'
  BY <1>1, <1>6, RootIsKey DEF ExactMembership, SynopsisCovers, LevelsDescend, Shape
<1>8. OneParent'
  <2>1. \A q \in PKeys : state'[q] = ReceivingSplit(Root) <=> state[q] = ReceivingSplit(Root)
    BY <1>1, <1>2, <1>3 DEF TypeOK, ReceivingSplit
  <2> QED BY <1>1, <1>6, <2>1 DEF OneParent
<1>9. SplitFamilies'
  <2> DEFINE C == {p}
  <2>1. /\ \A q \in PKeys \ C : /\ state'[q] = state[q]
                                /\ header'[q].tag = header[q].tag
                                /\ header'[q].level = header[q].level
        /\ \A q \in PKeys \cap C : /\ header'[q].tag = state'[q].tag
                                   /\ state'[q].tag \in {"Absent", "Ready", "Merging"}
    BY <1>1, <1>2, <1>3 DEF TypeOK, HeaderType, WithState
  <2>2. /\ \A q \in PKeys \ C : IsSplitSource(q) => state[q].left \notin C /\ state[q].right \notin C
        /\ \A q \in PKeys \ C : state[q].tag = "ReceivingSplit" => state[q].source \notin C
    BY <1>2, NotInFamily
  <2> HIDE DEF C
  <2> QED BY <1>1, <2>1, <2>2, FamiliesClosed, Zenon
<1> QED BY <1>4, <1>5, <1>7, <1>8, <1>9

\* Removing the empty partition p and its one incoming Child Entry, as
\* remove_incoming_edge and remove_source_prefix do, keeps membership and levels.
LEMMA RemovalKeeps ==
    ASSUME IInv, NEW p \in PKeys, NEW b \in PKeys, p # Root, p # b, p \in body[b],
           state[p].tag \in {"DrainingSplit", "Merging"}, header[p].count = 0,
           RemovedFrom(b, p), UNCHANGED <<highWater, stored, location>>,
           header'[p] = NoHeader, header'[b].count = header[b].count - 1,
           \A q \in PKeys \ {p} : /\ header'[q].level = header[q].level
                                  /\ Exists(q)' <=> Exists(q)
                                  /\ q # b => header'[q].count = header[q].count
                                  /\ state'[q] = ReceivingSplit(Root)
                                        <=> state[q] = ReceivingSplit(Root)
    PROVE  ExactMembership' /\ SynopsisCovers' /\ OneParent' /\ LevelsDescend' /\ Shape'
<1> USE DEF IInv
<1>1. body[p] = {} /\ Exists(p)
  <2>1. IsFiniteSet(body[p]) /\ Cardinality(body[p]) = 0
    BY BodiesFinite DEF ExactMembership
  <2> QED BY <2>1, CountChanges, Zenon DEF SplitFamilies, TagsAgree, Exists
<1>2. /\ body'[b] = body[b] \ {p}
      /\ \A q \in PKeys \ {b} : body'[q] = body[q]
      /\ synopsis'[p] = {} /\ \A q \in PKeys \ {p} : synopsis'[q] = synopsis[q]
  BY DEF RemovedFrom, TypeOK
<1>3. \A q \in PKeys : p \notin body'[q]
  <2>1. state[p] # ReceivingSplit(Root)
    BY DEF ReceivingSplit
  <2>2. \A q \in PKeys : p \in body[q] => q = b
    BY <1>1, <2>1 DEF OneParent
  <2> QED BY <1>2, <2>2
<1>4. \A q \in PKeys : \A c : c # p => (c \in body'[q] <=> c \in body[q])
  BY <1>2
<1>5. header'[p].level = 0 /\ header'[p].count = 0 /\ header'[p].tag = "Absent" /\ ~Exists(p)'
  BY DEF NoHeader, Exists
<1>6. p \notin Records
  BY RecordsAssumption
<1>7. ExactMembership'
  <2>1. \A q \in PKeys : header'[q].count = Cardinality(body'[q])
    <3>1. header'[p].count = Cardinality(body'[p])
      <4>1. body'[p] = {}
        BY <1>1, <1>2
      <4> QED BY <1>5, <4>1, FS_EmptySet
    <3>2. header'[b].count = Cardinality(body'[b])
      <4>1. IsFiniteSet(body[b]) /\ header[b].count = Cardinality(body[b])
        BY BodiesFinite DEF ExactMembership
      <4>2. Cardinality(body[b] \ {p}) = Cardinality(body[b]) - 1
        BY <4>1, FS_RemoveElement, Zenon
      <4> QED BY <1>2, <4>1, <4>2
    <3>3. ASSUME NEW q \in PKeys \ {p, b} PROVE header'[q].count = Cardinality(body'[q])
      <4>1. header'[q].count = header[q].count /\ body'[q] = body[q]
        BY <1>2
      <4> QED BY <4>1 DEF ExactMembership
    <3> QED BY <3>1, <3>2, <3>3
  <2>2. \A q \in PKeys, x \in Records : x \in body'[q] <=> x \in body[q]
    BY <1>4, <1>6
  <2> QED BY <2>1, <2>2 DEF ExactMembership
<1>8. SynopsisCovers'
  BY <1>1, <1>2 DEF SynopsisCovers
<1>9. OneParent'
  <2>1. SUFFICES ASSUME NEW c \in PKeys \ {Root}, Exists(c)'
                 PROVE  IF state'[c] = ReceivingSplit(Root)
                        THEN \A x \in PKeys : c \notin body'[x]
                        ELSE /\ \E x \in PKeys : c \in body'[x]
                             /\ \A x, y \in PKeys : c \in body'[x] /\ c \in body'[y] => x = y
    BY DEF OneParent
  <2>2. c # p /\ Exists(c)
    BY <1>5, <2>1
  <2>3. \A x \in PKeys : c \in body'[x] <=> c \in body[x]
    BY <1>4, <2>2
  <2>4. state'[c] = ReceivingSplit(Root) <=> state[c] = ReceivingSplit(Root)
    BY <2>2
  <2> QED BY <2>2, <2>3, <2>4 DEF OneParent
<1>10. LevelsDescend'
  <2>1. SUFFICES ASSUME NEW q \in PKeys
                 PROVE  /\ ~Exists(q)' => body'[q] = {}
                        /\ header'[q].level = 1 => body'[q] \subseteq Records
                        /\ header'[q].level > 1 =>
                            body'[q] \subseteq {c \in PKeys : Exists(c)' /\ header'[c].level = header'[q].level - 1}
    BY DEF LevelsDescend
  <2>2. CASE q = p
    BY <1>1, <1>2, <1>5, <2>2
  <2>3. CASE q # p
    <3>1. header'[q].level = header[q].level /\ (Exists(q)' <=> Exists(q))
      BY <2>3
    <3>2. \A c \in body'[q] : c \in body[q] /\ c # p
      BY <1>3, <1>4
    <3> QED BY <3>1, <3>2 DEF LevelsDescend
  <2> QED BY <2>2, <2>3
<1>11. Shape'
  <2>1. \A q \in PKeys : q > highWater' => ~Exists(q)'
    BY <1>5 DEF Shape
  <2>2. \A q \in PKeys : Exists(q)' <=> header'[q].level >= 1
    BY <1>5 DEF Shape
  <2>3. \A q \in PKeys : Root \notin body'[q]
    BY <1>4 DEF Shape
  <2> QED BY <2>1, <2>2, <2>3 DEF Shape
<1> QED BY <1>7, <1>8, <1>9, <1>10, <1>11

\* finalize_merge keeps the invariant.
LEMMA FinalizeMergeKeeps ==
    ASSUME IInv, NEW p \in PKeys, NEW b \in PKeys, FinalizeMerge(p, b)
    PROVE  IInv'
<1> USE DEF IInv
<1>1. /\ p # Root /\ state[p].tag = "Merging" /\ header[p].count = 0
      /\ p \in body[b] /\ header[b].level = header[p].level + 1
      /\ state' = [state EXCEPT ![p] = NoState]
      /\ header' = [header EXCEPT ![p] = NoHeader, ![b] = Removed(@, 1)]
      /\ RemovedFrom(b, p)
      /\ plan' = PlansAfter({p, b})
      /\ UNCHANGED <<highWater, stored, location>>
  BY DEF FinalizeMerge, Incoming
<1>2. p # b /\ Exists(p)
  BY <1>1 DEF TypeOK, HeaderType, SplitFamilies, TagsAgree, Exists
<1>3. /\ state'[p] = NoState /\ NoState.tag = "Absent"
      /\ \A q \in PKeys \ {p} : state'[q] = state[q]
  BY <1>1 DEF TypeOK, NoState
<1>4. /\ header'[p] = NoHeader /\ header'[b] = Removed(header[b], 1)
      /\ \A q \in PKeys \ {p, b} : header'[q] = header[q]
  BY <1>1, <1>2 DEF TypeOK
<1>5. /\ header'[b].count = header[b].count - 1
      /\ header'[b].level = header[b].level /\ header'[b].tag = header[b].tag
  BY <1>4 DEF Removed, TypeOK, HeaderType
<1>6. \A q \in PKeys \ {p} : /\ header'[q].level = header[q].level
                             /\ header'[q].tag = header[q].tag
                             /\ Exists(q)' <=> Exists(q)
                             /\ q # b => header'[q].count = header[q].count
  BY <1>4, <1>5 DEF Exists
<1>7. ExactMembership' /\ SynopsisCovers' /\ OneParent' /\ LevelsDescend' /\ Shape'
  BY <1>1, <1>2, <1>3, <1>4, <1>5, <1>6, RemovalKeeps, Zenon
<1>8. plan' \in [Workers -> PlanType] /\ Plans'
  <2> DEFINE W == {p, b}
  <2>1. plan' = PlansAfter(W) /\ \A q \in PKeys \ W : state'[q] = state[q]
    BY <1>1, <1>3, Zenon
  <2> HIDE DEF W
  <2> QED BY <2>1, PlansAfterKeeps
<1>9. TypeOK'
  <2>1. header' \in [PKeys -> HeaderType]
    <3>1. header[b].count \in Nat /\ header[b].count # 0
      <4>1. IsFiniteSet(body[b]) /\ header[b].count = Cardinality(body[b])
        BY BodiesFinite DEF ExactMembership
      <4> QED BY <1>1, <4>1, CountChanges, Zenon
    <3>2. Removed(header[b], 1) \in HeaderType
      BY <3>1 DEF Removed, TypeOK, HeaderType
    <3>3. NoHeader \in HeaderType
      BY DEF NoHeader, HeaderType, Tags
    <3> QED BY <1>1, <1>2, <3>2, <3>3 DEF TypeOK
  <2>2. state' \in [PKeys -> StateType]
    BY <1>1, ThresholdAssumption DEF TypeOK, NoState, StateType, Tags
  <2>3. /\ body' \in [PKeys -> SUBSET (Records \cup PKeys)]
        /\ synopsis' \in [PKeys -> SUBSET Records]
    BY <1>1 DEF RemovedFrom, TypeOK
  <2> QED BY <1>1, <1>8, <2>1, <2>2, <2>3, Zenon DEF TypeOK
<1>10. SplitFamilies'
  <2> DEFINE C == {p}
  <2>1. /\ \A q \in PKeys \ C : /\ state'[q] = state[q]
                                /\ header'[q].tag = header[q].tag
                                /\ header'[q].level = header[q].level
        /\ \A q \in PKeys \cap C : /\ header'[q].tag = state'[q].tag
                                   /\ state'[q].tag \in {"Absent", "Ready", "Merging"}
    <3>1. header'[p].tag = "Absent" /\ state'[p].tag = "Absent"
      BY <1>3, <1>4 DEF NoHeader
    <3> QED BY <1>3, <1>6, <3>1
  <2>2. /\ \A q \in PKeys \ C : IsSplitSource(q) => state[q].left \notin C /\ state[q].right \notin C
        /\ \A q \in PKeys \ C : state[q].tag = "ReceivingSplit" => state[q].source \notin C
    BY <1>1, NotInFamily, Zenon
  <2> HIDE DEF C
  <2> QED BY <1>1, <2>1, <2>2, FamiliesClosed, Zenon
<1> QED BY <1>7, <1>8, <1>9, <1>10

\* finalize_split of a non-root source keeps the invariant.
LEMMA FinalizeSplitKeeps ==
    ASSUME IInv, NEW p \in PKeys, NEW b \in PKeys, FinalizeSplit(p, b)
    PROVE  IInv'
<1> USE DEF IInv
<1>0. state[p].tag = "DrainingSplit"
  BY DEF Drained, FinalizeSplit
<1>1. PICK l, r \in PKeys : l = state[p].left /\ r = state[p].right
  BY <1>0, DrainTargets
<1>2. /\ p # Root /\ header[p].count = 0
      /\ p \in body[b] /\ header[b].level = header[p].level + 1
      /\ state' = [state EXCEPT ![p] = NoState, ![l] = Ready, ![r] = Ready]
      /\ header' = [q \in PKeys |-> CASE q = p -> NoHeader
                                      [] q \in {l, r} -> WithState(header[q], "Ready")
                                      [] q = b -> Removed(header[b], 1)
                                      [] OTHER -> header[q]]
      /\ RemovedFrom(b, p)
      /\ plan' = PlansAfter({p, l, r, b})
      /\ UNCHANGED <<highWater, stored, location>>
  BY <1>1 DEF Drained, FinalizeSplit, Incoming
<1>3. \A t \in {l, r} : /\ t # p /\ t # Root /\ Exists(t)
                        /\ state[t] = ReceivingSplit(p) /\ state[t].tag = "ReceivingSplit"
                        /\ header[t].level = header[p].level
  BY <1>0, <1>1, DrainTargets
<1>4. p # b /\ b \notin {l, r} /\ Exists(p) /\ l # r
  <2>1. header[p].level \in Nat
    BY DEF TypeOK, HeaderType
  <2>2. p # b /\ b \notin {l, r}
    BY <1>2, <1>3, <2>1
  <2>3. l # r
    BY <1>0, <1>1, Targets DEF IsSplitSource
  <2> QED BY <1>0, <2>2, <2>3 DEF SplitFamilies, TagsAgree, Exists
<1>5. /\ state'[p] = NoState /\ NoState.tag = "Absent"
      /\ state'[l] = Ready /\ state'[r] = Ready /\ Ready.tag = "Ready"
      /\ \A q \in PKeys \ {p, l, r} : state'[q] = state[q]
  BY <1>2, <1>3 DEF TypeOK, NoState, Ready
<1>6. /\ header'[p] = NoHeader /\ header'[b] = Removed(header[b], 1)
      /\ \A t \in {l, r} : header'[t] = WithState(header[t], "Ready")
      /\ \A q \in PKeys \ {p, l, r, b} : header'[q] = header[q]
  BY <1>2, <1>3, <1>4
<1>7. /\ header'[b].count = header[b].count - 1
      /\ header'[b].level = header[b].level /\ header'[b].tag = header[b].tag
  BY <1>6 DEF Removed, TypeOK, HeaderType
<1>8. \A t \in {l, r} : /\ header'[t].count = header[t].count
                        /\ header'[t].level = header[t].level /\ header'[t].tag = "Ready"
  BY <1>6 DEF WithState, TypeOK, HeaderType
<1>9. \A q \in PKeys \ {p} : /\ header'[q].level = header[q].level
                             /\ Exists(q)' <=> Exists(q)
                             /\ q # b => header'[q].count = header[q].count
  <2>1. \A q \in {l, r} : Exists(q)'
    BY <1>8 DEF Exists
  <2> QED BY <1>3, <1>6, <1>7, <1>8, <2>1 DEF Exists
<1>10. \A q \in PKeys \ {p} : state'[q] = ReceivingSplit(Root) <=> state[q] = ReceivingSplit(Root)
  <2>1. ReceivingSplit(p) # ReceivingSplit(Root)
    BY <1>2 DEF ReceivingSplit
  <2>2. Ready # ReceivingSplit(Root)
    BY DEF Ready, ReceivingSplit
  <2> QED BY <1>3, <1>5, <2>1, <2>2
<1>11. ExactMembership' /\ SynopsisCovers' /\ OneParent' /\ LevelsDescend' /\ Shape'
  BY <1>0, <1>2, <1>4, <1>6, <1>7, <1>9, <1>10, RemovalKeeps, ZenonT(30)
<1>12. plan' \in [Workers -> PlanType] /\ Plans'
  <2> DEFINE W == {p, l, r, b}
  <2>1. plan' = PlansAfter(W) /\ \A q \in PKeys \ W : state'[q] = state[q]
    BY <1>2, <1>5, Zenon
  <2> HIDE DEF W
  <2> QED BY <2>1, PlansAfterKeeps
<1>13. TypeOK'
  <2>1. header' \in [PKeys -> HeaderType]
    <3>1. header[b].count \in Nat /\ header[b].count # 0
      <4>1. IsFiniteSet(body[b]) /\ header[b].count = Cardinality(body[b])
        BY BodiesFinite DEF ExactMembership
      <4> QED BY <1>2, <4>1, CountChanges, Zenon
    <3>2. Removed(header[b], 1) \in HeaderType
      BY <3>1 DEF Removed, TypeOK, HeaderType
    <3>3. NoHeader \in HeaderType
      BY DEF NoHeader, HeaderType, Tags
    <3>4. \A t \in {l, r} : WithState(header[t], "Ready") \in HeaderType
      BY DEF WithState, TypeOK, HeaderType, Tags
    <3>5. \A q \in PKeys : header'[q] \in HeaderType
      BY <1>6, <3>2, <3>3, <3>4 DEF TypeOK
    <3>6. header' = [q \in PKeys |-> header'[q]]
      BY <1>2
    <3> QED BY <3>5, <3>6
  <2>2. state' \in [PKeys -> StateType]
    <3>1. NoState \in StateType /\ Ready \in StateType
      BY ThresholdAssumption DEF NoState, Ready, StateType, Tags
    <3> QED BY <1>2, <3>1 DEF TypeOK
  <2>3. /\ body' \in [PKeys -> SUBSET (Records \cup PKeys)]
        /\ synopsis' \in [PKeys -> SUBSET Records]
    BY <1>2 DEF RemovedFrom, TypeOK
  <2> QED BY <1>2, <1>12, <2>1, <2>2, <2>3, Zenon DEF TypeOK
<1>14. SplitFamilies'
  <2> DEFINE C == {p, l, r}
  <2>1. /\ \A q \in PKeys \ C : /\ state'[q] = state[q]
                                /\ header'[q].tag = header[q].tag
                                /\ header'[q].level = header[q].level
        /\ \A q \in PKeys \cap C : /\ header'[q].tag = state'[q].tag
                                   /\ state'[q].tag \in {"Absent", "Ready", "Merging"}
    BY <1>5, <1>6, <1>7, <1>8 DEF NoHeader
  <2>2. C = {p, state[p].left, state[p].right}
    BY <1>1
  <2> HIDE DEF C
  <2>3. /\ \A q \in PKeys \ C : IsSplitSource(q) => state[q].left \notin C /\ state[q].right \notin C
        /\ \A q \in PKeys \ C : state[q].tag = "ReceivingSplit" => state[q].source \notin C
    BY <1>0, <2>2, FamilyIsClosed, Zenon
  <2> QED BY <1>2, <2>1, <2>3, FamiliesClosed, ZenonT(30)
<1> QED BY <1>11, <1>12, <1>13, <1>14

\* finalize_split of the root keeps the invariant: the targets, which had no
\* parent, become the only children of Partition Key 1, one level up.
LEMMA FinalizeRootSplitKeeps ==
    ASSUME IInv, FinalizeRootSplit
    PROVE  IInv'
<1> USE DEF IInv
<1>0. state[Root].tag = "DrainingSplit" /\ Root \in PKeys
  BY RootIsKey DEF Drained, FinalizeRootSplit
<1>1. PICK l, r \in PKeys : l = state[Root].left /\ r = state[Root].right
  BY <1>0, DrainTargets
<1>2. /\ header[Root].count = 0
      /\ state' = [state EXCEPT ![Root] = Ready, ![l] = Ready, ![r] = Ready]
      /\ header' = [q \in PKeys |-> CASE q = Root -> [level |-> header[Root].level + 1,
                                                      count |-> 2, tag |-> "Ready"]
                                      [] q \in {l, r} -> WithState(header[q], "Ready")
                                      [] OTHER -> header[q]]
      /\ body' = [body EXCEPT ![Root] = {l, r}]
      /\ synopsis' = [synopsis EXCEPT ![Root] = {}]
      /\ plan' = PlansAfter({Root, l, r})
      /\ UNCHANGED <<highWater, stored, location>>
  BY <1>1 DEF Drained, FinalizeRootSplit
<1>3. \A t \in {l, r} : /\ t # Root /\ Exists(t)
                        /\ state[t] = ReceivingSplit(Root) /\ state[t].tag = "ReceivingSplit"
                        /\ header[t].level = header[Root].level
  BY <1>0, <1>1, DrainTargets
<1>4. l # r /\ Exists(Root) /\ header[Root].level \in Nat /\ header[Root].level >= 1
  <2>1. l # r
    BY <1>0, <1>1, Targets DEF IsSplitSource
  <2>2. Exists(Root)
    BY <1>0 DEF SplitFamilies, TagsAgree, Exists
  <2> QED BY <1>0, <2>1, <2>2 DEF Shape, TypeOK, HeaderType
<1>5. /\ state'[Root] = Ready /\ state'[l] = Ready /\ state'[r] = Ready /\ Ready.tag = "Ready"
      /\ \A q \in PKeys \ {Root, l, r} : state'[q] = state[q]
  BY <1>0, <1>2 DEF TypeOK, Ready
<1>6. /\ header'[Root] = [level |-> header[Root].level + 1, count |-> 2, tag |-> "Ready"]
      /\ \A t \in {l, r} : header'[t] = WithState(header[t], "Ready")
      /\ \A q \in PKeys \ {Root, l, r} : header'[q] = header[q]
  BY <1>0, <1>2, <1>3
<1>7. \A t \in {l, r} : /\ header'[t].count = header[t].count
                        /\ header'[t].level = header[t].level /\ header'[t].tag = "Ready"
  BY <1>6 DEF WithState, TypeOK, HeaderType
<1>8. \A q \in PKeys \ {Root} : header'[q].level = header[q].level
                                /\ header'[q].count = header[q].count
  BY <1>6, <1>7
<1>9. \A q \in PKeys : Exists(q)' <=> Exists(q)
  <2>1. Exists(Root)' /\ \A q \in {l, r} : Exists(q)'
    BY <1>6, <1>7 DEF Exists
  <2> QED BY <1>3, <1>4, <1>6, <2>1 DEF Exists
<1>10. /\ body[Root] = {} /\ body'[Root] = {l, r}
       /\ \A q \in PKeys \ {Root} : body'[q] = body[q]
       /\ \A q \in PKeys : l \notin body[q] /\ r \notin body[q]
  <2>1. IsFiniteSet(body[Root]) /\ Cardinality(body[Root]) = 0
    BY <1>0, <1>2, BodiesFinite DEF ExactMembership
  <2>2. body[Root] = {}
    BY <2>1, CountChanges, Zenon
  <2>3. \A q \in PKeys : l \notin body[q] /\ r \notin body[q]
    BY <1>3 DEF OneParent
  <2> QED BY <1>0, <1>2, <2>2, <2>3 DEF TypeOK
<1>11. plan' \in [Workers -> PlanType] /\ Plans'
  <2> DEFINE W == {Root, l, r}
  <2>1. plan' = PlansAfter(W) /\ \A q \in PKeys \ W : state'[q] = state[q]
    BY <1>2, <1>5, Zenon
  <2> HIDE DEF W
  <2> QED BY <2>1, PlansAfterKeeps
<1>12. TypeOK'
  <2>1. header' \in [PKeys -> HeaderType]
    <3>1. header'[Root] \in HeaderType
      BY <1>4, <1>6 DEF HeaderType, Tags
    <3>2. \A t \in {l, r} : WithState(header[t], "Ready") \in HeaderType
      BY DEF WithState, TypeOK, HeaderType, Tags
    <3>3. \A q \in PKeys : header'[q] \in HeaderType
      BY <1>6, <3>1, <3>2 DEF TypeOK
    <3>4. header' = [q \in PKeys |-> header'[q]]
      BY <1>2
    <3> QED BY <3>3, <3>4, SMTT(30)
  <2>2. state' \in [PKeys -> StateType]
    <3>1. Ready \in StateType
      BY ThresholdAssumption DEF Ready, StateType, Tags
    <3> QED BY <1>2, <3>1 DEF TypeOK
  <2>3. /\ body' \in [PKeys -> SUBSET (Records \cup PKeys)]
        /\ synopsis' \in [PKeys -> SUBSET Records]
    BY <1>2, Zenon DEF TypeOK
  <2> QED BY <1>2, <1>11, <2>1, <2>2, <2>3, ZenonT(30) DEF TypeOK
<1>13. ExactMembership'
  <2>1. header'[Root].count = Cardinality(body'[Root])
    <3>1. header'[Root].count = 2 /\ body'[Root] = {l, r}
      BY <1>6, <1>10
    <3> QED BY <1>4, <3>1, PairSize
  <2>2. ASSUME NEW q \in PKeys \ {Root} PROVE header'[q].count = Cardinality(body'[q])
    <3>1. header'[q].count = header[q].count /\ body'[q] = body[q]
      BY <1>8, <1>10
    <3> QED BY <3>1 DEF ExactMembership
  <2>3. \A q \in PKeys, x \in Records : x \in body'[q] <=> x \in body[q]
    BY <1>10, RecordsAssumption
  <2> QED BY <1>2, <2>1, <2>2, <2>3 DEF ExactMembership
<1>14. SynopsisCovers'
  <2>1. body'[Root] \cap Records = {}
    BY <1>10, RecordsAssumption
  <2>2. \A q \in PKeys \ {Root} : synopsis'[q] = synopsis[q]
    BY <1>2 DEF TypeOK
  <2> QED BY <1>10, <2>1, <2>2 DEF SynopsisCovers
<1>15. OneParent'
  <2>1. SUFFICES ASSUME NEW c \in PKeys \ {Root}, Exists(c)'
                 PROVE  IF state'[c] = ReceivingSplit(Root)
                        THEN \A x \in PKeys : c \notin body'[x]
                        ELSE /\ \E x \in PKeys : c \in body'[x]
                             /\ \A x, y \in PKeys : c \in body'[x] /\ c \in body'[y] => x = y
    BY DEF OneParent
  <2>2. CASE c \in {l, r}
    <3>1. state'[c] # ReceivingSplit(Root)
      BY <1>5, <2>2 DEF ReceivingSplit
    <3>2. \A x \in PKeys : c \in body'[x] <=> x = Root
      BY <1>0, <1>10, <2>2
    <3> QED BY <1>0, <3>1, <3>2
  <2>3. CASE c \notin {l, r}
    <3>1. state'[c] = state[c] /\ Exists(c)
      BY <1>5, <1>9, <2>1, <2>3
    <3>2. \A x \in PKeys : c \in body'[x] <=> c \in body[x]
      BY <1>0, <1>10, <2>3
    <3> QED BY <3>1, <3>2 DEF OneParent
  <2> QED BY <2>2, <2>3
<1>16. LevelsDescend'
  <2>1. SUFFICES ASSUME NEW q \in PKeys
                 PROVE  /\ ~Exists(q)' => body'[q] = {}
                        /\ header'[q].level = 1 => body'[q] \subseteq Records
                        /\ header'[q].level > 1 =>
                            body'[q] \subseteq {c \in PKeys : Exists(c)' /\ header'[c].level = header'[q].level - 1}
    BY DEF LevelsDescend
  <2>2. CASE q = Root
    <3>1. header'[q].level = header[Root].level + 1 /\ body'[q] = {l, r} /\ Exists(q)'
      BY <1>4, <1>6, <1>9, <1>10, <2>2, SMTT(30)
    <3>2. \A c \in {l, r} : Exists(c)' /\ header'[c].level = header[Root].level
      BY <1>3, <1>7, <1>9, SMTT(30)
    <3> QED BY <1>4, <3>1, <3>2
  <2>3. CASE q # Root
    <3>1. header'[q].level = header[q].level /\ body'[q] = body[q] /\ Root \notin body[q]
      BY <1>8, <1>10, <2>3 DEF Shape
    <3> QED BY <1>8, <1>9, <3>1 DEF LevelsDescend
  <2> QED BY <2>2, <2>3
<1>17. Shape'
  <2>1. \A q \in PKeys : Exists(q)' <=> header'[q].level >= 1
    <3>1. header'[Root].level >= 1
      BY <1>4, <1>6
    <3> QED BY <1>4, <1>8, <1>9, <3>1 DEF Shape
  <2>2. \A q \in PKeys : Root \notin body'[q]
    BY <1>3, <1>10 DEF Shape
  <2> QED BY <1>2, <1>9, <2>1, <2>2 DEF Shape
<1>18. SplitFamilies'
  <2> DEFINE C == {Root, l, r}
  <2>1. /\ \A q \in PKeys \ C : /\ state'[q] = state[q]
                                /\ header'[q].tag = header[q].tag
                                /\ header'[q].level = header[q].level
        /\ \A q \in PKeys \cap C : /\ header'[q].tag = state'[q].tag
                                   /\ state'[q].tag \in {"Absent", "Ready", "Merging"}
    BY <1>5, <1>6, <1>7
  <2>2. C = {Root, state[Root].left, state[Root].right}
    BY <1>1
  <2> HIDE DEF C
  <2>3. /\ \A q \in PKeys \ C : IsSplitSource(q) => state[q].left \notin C /\ state[q].right \notin C
        /\ \A q \in PKeys \ C : state[q].tag = "ReceivingSplit" => state[q].source \notin C
    BY <1>0, <2>2, FamilyIsClosed
  <2> QED BY <1>2, <2>1, <2>3, FamiliesClosed, ZenonT(30)
<1> QED BY <1>11, <1>12, <1>13, <1>14, <1>15, <1>16, <1>17, <1>18
=============================================================================
