------------------------------ MODULE MCBudget ------------------------------
(* Small workloads for Budget: two categories, single-digit rupees. *)
EXTENDS Budget, TLC

CONSTANTS venue, food

Ask(op, g, amounts) == {[op |-> op, category |-> g, amount |-> n] : n \in amounts}

(* An event of total 4: venue 2 (1 committed), food 1; one rupee unallocated. *)
SmallBudget == [total |-> 4, allocated |-> 3, spent |-> 0, committed |-> 1]
SmallLines == (venue :> [allocated |-> 2, spent |-> 0, committed |-> 1])
           @@ (food  :> [allocated |-> 1, spent |-> 0, committed |-> 0])

(* The same event before its food line exists. *)
OneLineBudget == [total |-> 4, allocated |-> 2, spent |-> 0, committed |-> 1]
OneLine == (venue :> [allocated |-> 2, spent |-> 0, committed |-> 1])
        @@ (food  :> NoRow)

EveryOp ==
  Ask("allocate", venue, {0, 3}) \cup Ask("allocate", food, {2})
  \cup Ask("commit", venue, {1}) \cup Ask("commit", food, {0})
  \cup Ask("release", venue, {1}) \cup Ask("expense", venue, {1})
  \cup Ask("expense_committed", venue, {1})
  \cup Ask("set_total", venue, {1, 5})

(* Spending, directly and from reservations, beside releases. *)
Spending ==
  Ask("expense", venue, {1}) \cup Ask("expense", food, {1})
  \cup Ask("expense_committed", venue, {1}) \cup Ask("release", venue, {1})

(* Two leaders set the budget up at once, and allocate to it.               *)
Setup == Ask("set_total", venue, {3}) \cup Ask("allocate", venue, {2})
         \cup Ask("allocate", food, {2})

(* The workload in which the headroom checks do not hold up. *)
CommitAndSpend == Ask("commit", venue, {1}) \cup Ask("expense", venue, {1})

(* Fully allocated: the last uncommitted rupee of the event is the venue's. *)
TightBudget == [total |-> 2, allocated |-> 2, spent |-> 0, committed |-> 1]
TightLines == (venue :> [allocated |-> 2, spent |-> 0, committed |-> 1])
           @@ (food  :> NoRow)

Symmetry == Permutations(Calls)
=============================================================================
