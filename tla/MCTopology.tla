----------------------------- MODULE MCTopology -----------------------------
(* Instances of Topology for TLC.                                          *)
EXTENDS Topology, TLC

Symmetry == Permutations(Records) \cup Permutations(Workers)

\* A three-level tree as incremental growth leaves it: leaf root 1 split into 2
\* and 3, 2 into 4 and 5, 3 into 6 and 7, 4 into 8 and 9, then the internal root
\* into 10 and 11; leaf 5 under 10 and leaf 6 under 11 have merged away since.
SeedChildren(p) ==
    CASE p = 1 -> {10, 11} [] p = 10 -> {8, 9} [] p = 11 -> {7} [] OTHER -> {}
SeedLevel(p) ==
    CASE p = 1 -> 3 [] p \in {10, 11} -> 2 [] p \in 7..9 -> 1 [] OTHER -> 0

SeedInit ==
    /\ highWater = 11
    /\ \E f \in [7..9 -> Records] :
        /\ \A p, q \in 7..9 : p # q => f[p] # f[q]
        /\ body = [p \in PKeys |-> IF p \in 7..9 THEN {f[p]} ELSE SeedChildren(p)]
        /\ stored = {f[p] : p \in 7..9}
        /\ location = [r \in Records |->
                        IF \E p \in 7..9 : f[p] = r THEN CHOOSE p \in 7..9 : f[p] = r ELSE 0]
    /\ header = [p \in PKeys |->
                    IF SeedLevel(p) > 0
                    THEN [level |-> SeedLevel(p), count |-> Cardinality(body[p]), tag |-> "Ready"]
                    ELSE NoHeader]
    /\ state = [p \in PKeys |-> IF SeedLevel(p) > 0 THEN Ready ELSE NoState]
    /\ synopsis = [p \in PKeys |-> body[p] \cap Records]
    /\ plan = [w \in Workers |-> Idle]

\* A two-level tree: the root over leaves 2 and 3 and all records in leaf 2.
PairInit ==
    /\ highWater = 3
    /\ body = [p \in PKeys |-> CASE p = 1 -> {2, 3} [] p = 2 -> Records [] OTHER -> {}]
    /\ header = [p \in PKeys |->
                    IF p <= 3 THEN [level |-> IF p = 1 THEN 2 ELSE 1,
                                    count |-> Cardinality(body[p]), tag |-> "Ready"]
                    ELSE NoHeader]
    /\ state = [p \in PKeys |-> IF p <= 3 THEN Ready ELSE NoState]
    /\ synopsis = [p \in PKeys |-> body[p] \cap Records]
    /\ stored = Records
    /\ location = [r \in Records |-> 2]
    /\ plan = [w \in Workers |-> Idle]

PairFairSpec == PairInit /\ [][Next]_vars /\ Fairness

SeedSpec == SeedInit /\ [][Next]_vars
=============================================================================
