---------------------------- MODULE SplitBalance ----------------------------
(***************************************************************************)
(* The placement rule of a split drain (src/src/maintenance/split.rs,      *)
(* SplitBalance).  A draining source hands its entries out one at a time.  *)
(* An entry goes to the nearer target unless the entries left after it     *)
(* could not fill a target up to the configured minimum any more.          *)
(*                                                                         *)
(* Distances are abstract: either target may be the nearer one, so Sides   *)
(* returns every outcome some pair of distances produces.                  *)
(***************************************************************************)
EXTENDS Naturals, FiniteSets

\* u32/u64 saturating_sub.
SaturatingSub(a, b) == IF a >= b THEN a - b ELSE 0

Balances == [remaining : Nat, leftNeeded : Nat, rightNeeded : Nat]

\* SplitBalance::new, from the exact counts of the three Headers.
NewBalance(source, left, right, minimum) ==
    [remaining   |-> source,
     leftNeeded  |-> SaturatingSub(minimum, left),
     rightNeeded |-> SaturatingSub(minimum, right)]

\* Both minima can still be reached from what the source holds.
Attainable(b) == b.leftNeeded + b.rightNeeded <= b.remaining

\* A mutant of Sides: the reservation of the last entries is dropped.
SidesByDistanceOnly(b) == {"left", "right"}

\* The targets choose may pick for the next entry.
Sides(b) ==
    LET after == b.remaining - 1
    IN  CASE Attainable(b) /\ b.leftNeeded > after  -> {"left"}
          [] Attainable(b) /\ b.leftNeeded <= after /\ b.rightNeeded > after -> {"right"}
          [] OTHER -> {"left", "right"}

\* What SplitBalance::choose leaves behind once the entry went to side.
Charge(b, side) ==
    [remaining   |-> b.remaining - 1,
     leftNeeded  |-> IF side = "left" THEN SaturatingSub(b.leftNeeded, 1) ELSE b.leftNeeded,
     rightNeeded |-> IF side = "right" THEN SaturatingSub(b.rightNeeded, 1) ELSE b.rightNeeded]

\* The numbers of left placements that k successive choices can produce.
LeftCounts(b, k) ==
    LET After[n \in 0..k] ==
            IF n = 0 THEN {<<b, 0>>}
            ELSE UNION {{<<Charge(x[1], s), x[2] + (IF s = "left" THEN 1 ELSE 0)>> :
                            s \in Sides(x[1])} : x \in After[n - 1]}
    IN  {x[2] : x \in After[k]}
=============================================================================
