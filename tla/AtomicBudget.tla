---------------------------- MODULE AtomicBudget ----------------------------
(***************************************************************************)
(* What services/shared/budget_service promises its callers, in their own  *)
(* words: a commitment, a release or an expense is checked against, and    *)
(* applied to, one and the same state of the event budget and its category *)
(* allocation, and touches both alike.  No reads, no retries, no           *)
(* invocations: each operation is one step.  Totals and allocations stay   *)
(* as they are; Budget says when its calls implement this.                 *)
(***************************************************************************)
EXTENDS Integers

CONSTANTS Categories, Amounts, OpeningBudget, OpeningLines

VARIABLES budget, lines

Remaining(row, ceiling) == ceiling - row.spent - row.committed

Affordable(g, n) ==
  /\ n <= Remaining(budget, budget.total)
  /\ n <= Remaining(lines[g], lines[g].allocated)

Reserved(g, n) == n <= budget.committed /\ n <= lines[g].committed

(* Move spent by s and committed by c, in the event and in the category alike. *)
Shift(g, s, c) ==
  /\ budget' = [budget EXCEPT !.spent = @ + s, !.committed = @ + c]
  /\ lines' = [lines EXCEPT ![g].spent = @ + s, ![g].committed = @ + c]

Commit(g, n)         == Affordable(g, n) /\ Shift(g, 0, n)
Release(g, n)        == Reserved(g, n) /\ Shift(g, 0, -n)
Spend(g, n)          == Affordable(g, n) /\ Shift(g, n, 0)
SpendCommitted(g, n) == Reserved(g, n) /\ Shift(g, n, -n)

Init == budget = OpeningBudget /\ lines = OpeningLines

Next ==
  \E g \in Categories, n \in Amounts :
    Commit(g, n) \/ Release(g, n) \/ Spend(g, n) \/ SpendCommitted(g, n)

Spec == Init /\ [][Next]_<<budget, lines>>
=============================================================================
