------------------------------- MODULE Budget -------------------------------
(***************************************************************************)
(* The authoritative budget arithmetic of services/shared/budget_service   *)
(* under the concurrency it really runs in: every call is a Lambda         *)
(* invocation of its own, made of separate DynamoDB reads followed by one  *)
(* conditional transaction (or, for the event total, one unconditional     *)
(* write), and calls on the same event interleave freely.                  *)
(*                                                                         *)
(* The store holds one budget row per event and one allocation row (a      *)
(* "line") per category.  One event is modelled; events share no rows.     *)
(***************************************************************************)
EXTENDS Integers, FiniteSetsExt

CONSTANTS
  Calls,         \* Lambda invocations; each one performs a single request
  Categories,    \* budget categories (models/budget.py BudgetCategory)
  Requests,      \* the requests a call may carry: [op, category, amount]
  MaxAttempts,   \* MAX_WRITE_ATTEMPTS
  StaleReads,    \* TRUE: get_item is eventually consistent, as the code uses it
  OpeningBudget, \* the budget row when the calls begin
  OpeningLines,  \* the allocation rows when the calls begin
  FromNothing,   \* TRUE: or they begin before the event has any of these rows
  NoRow          \* "there is no such item"

Counters == {"allocated", "spent", "committed"}
BudgetCounters == Counters \cup {"total"}

Expenses == {"expense", "expense_committed"}
Moves == {"commit", "release"} \cup Expenses
Ops == Moves \cup {"allocate", "set_total"}

BudgetRow == [BudgetCounters -> Int]
LineRow == [Counters -> Int]
Request == [op : Ops, category : Categories, amount : Nat]

ASSUME RequestsAssumption == Requests \subseteq Request
ASSUME AttemptsAssumption == MaxAttempts \in Nat \ {0}
ASSUME ChecksAssumption == {StaleReads, FromNothing} \subseteq BOOLEAN
ASSUME OpeningAssumption ==
  /\ OpeningBudget \in [BudgetCounters -> Nat]
  /\ OpeningLines \in [Categories -> [Counters -> Nat] \cup {NoRow}]
ASSUME NoRowAssumption ==
  NoRow \notin BudgetRow /\ NoRow \notin LineRow /\ NoRow \notin Request

VARIABLES
  budget,      \* the BUDGET item
  lines,       \* the BUDGET_ALLOCATION items, by category
  rows,        \* the EXPENSE item each call wrote
  budgetPast,  \* earlier versions of the BUDGET item a lagging replica may serve
  linesPast,   \* the same for each allocation item
  phase,       \* where each call stands
  req,         \* what each call was asked to do
  tries,       \* transactions of the call that were cancelled
  seenBudget,  \* the budget row the call read
  seenLine     \* the allocation row the call read

store == <<budget, lines, rows, budgetPast, linesPast>>
memory == <<req, tries, seenBudget, seenLine>>
vars == <<budget, lines, rows, budgetPast, linesPast,
          phase, req, tries, seenBudget, seenLine>>

Ended == {"ok", "refused", "conflict", "aborted"}
Active == {"row", "budget", "line", "write", "total_read", "total_put", "total_set"}
Phases == {"idle"} \cup Active \cup Ended

Go(c, next) == phase' = [phase EXCEPT ![c] = next]

---------------------------------------------------------------------------
(* Reads.  get_item does not ask for a consistent read, so it may return   *)
(* an earlier version of the item.                                         *)

Readable(current, past) == {current} \cup past

Remembered(past, old) == IF StaleReads THEN past \cup {old} ELSE past

(* A missing allocation row counts as zeroes wherever it is added up. *)
Zeroes == [k \in Counters |-> 0]
OrZeroes(line) == IF line = NoRow THEN Zeroes ELSE line

---------------------------------------------------------------------------
(* The arithmetic a call performs on what it read.                         *)

(* The counters an operation writes, and therefore pins in its condition. *)
Touched(op) ==
  {k \in Counters : \/ k = "allocated" /\ op = "allocate"
                    \/ k = "spent"     /\ op \in Expenses
                    \/ k = "committed" /\ op \in {"commit", "release", "expense_committed"}}

(* The signed change of counter k, applied to the budget row and the line alike. *)
Delta(r, line, k) ==
  IF k \notin Touched(r.op) THEN 0
  ELSE IF k = "allocated" THEN r.amount - OrZeroes(line).allocated
  ELSE IF k = "spent" \/ r.op = "commit" THEN r.amount
  ELSE -r.amount

(* Mutation of NeedsHeadroom: an expense is not held against the headroom. *)
NeedsHeadroomToCommit(op) == op = "commit"

(* require_event_headroom / require_category_headroom *)
NeedsHeadroom(op) == op \in {"commit", "expense"}

EventHeadroom(b) == b.total - b.spent - b.committed
LineHeadroom(line) == line.allocated - line.spent - line.committed

(* Mutation of CanAllocate: the new line alone is held against the total. *)
CanAllocateEachLine(r, b, line) ==
  /\ r.amount >= OrZeroes(line).spent + OrZeroes(line).committed
  /\ r.amount <= b.total

CanAllocate(r, b, line) ==
  /\ r.amount >= OrZeroes(line).spent + OrZeroes(line).committed
  /\ b.allocated + Delta(r, line, "allocated") <= b.total

CanMove(r, b, line) ==
  /\ line # NoRow
  /\ NeedsHeadroom(r.op) => /\ r.amount <= EventHeadroom(b)
                            /\ r.amount <= LineHeadroom(line)
  /\ \A k \in Touched(r.op) : /\ b[k] + Delta(r, line, k) >= 0
                              /\ line[k] + Delta(r, line, k) >= 0

Admissible(r, b, line) ==
  IF r.op = "allocate" THEN CanAllocate(r, b, line) ELSE CanMove(r, b, line)

---------------------------------------------------------------------------
Init ==
  /\ \/ budget = OpeningBudget /\ lines = OpeningLines
     \/ FromNothing /\ budget = NoRow /\ lines = [g \in Categories |-> NoRow]
  /\ rows = [c \in Calls |-> NoRow]
  /\ budgetPast = {}
  /\ linesPast = [g \in Categories |-> {}]
  /\ phase = [c \in Calls |-> "idle"]
  /\ req = [c \in Calls |-> NoRow]
  /\ tries = [c \in Calls |-> 0]
  /\ seenBudget = [c \in Calls |-> NoRow]
  /\ seenLine = [c \in Calls |-> NoRow]

FirstPhase(r) ==
  IF r.op = "set_total" THEN "total_read"
  ELSE IF r.op \in Moves /\ r.amount = 0 THEN "refused"
  ELSE IF r.op \in Expenses THEN "row"
  ELSE "budget"

(* A call is given a request, and the amount is validated. *)
Accept(c, r) ==
  /\ phase[c] = "idle"
  /\ req' = [req EXCEPT ![c] = r]
  /\ Go(c, FirstPhase(r))
  /\ UNCHANGED <<store, tries, seenBudget, seenLine>>

Start(c) == \E r \in Requests : Accept(c, r)

(* record_expense writes the expense row before any counter moves. *)
PutExpenseRow(c) ==
  /\ phase[c] = "row"
  /\ rows' = [rows EXCEPT ![c] = req[c]]
  /\ Go(c, "budget")
  /\ UNCHANGED <<budget, lines, budgetPast, linesPast, memory>>

(* _load_pair, first read. *)
ReadBudget(c) ==
  /\ phase[c] = "budget"
  /\ \E b \in Readable(budget, budgetPast) :
       /\ seenBudget' = [seenBudget EXCEPT ![c] = b]
       /\ Go(c, IF b = NoRow THEN "refused" ELSE "line")
  /\ UNCHANGED <<store, req, tries, seenLine>>

(* _load_pair, second read, and the checks of allocate or _move on the pair. *)
ReadLine(c) ==
  /\ phase[c] = "line"
  /\ \E line \in Readable(lines[req[c].category], linesPast[req[c].category]) :
       /\ seenLine' = [seenLine EXCEPT ![c] = line]
       /\ Go(c, IF Admissible(req[c], seenBudget[c], line) THEN "write" ELSE "refused")
  /\ UNCHANGED <<store, req, tries, seenBudget>>

(* Mutation of Pinned: the items must exist, their counters are not compared. *)
PinnedExistence(c) ==
  /\ budget # NoRow
  /\ (lines[req[c].category] = NoRow) <=> (seenLine[c] = NoRow)

(* The condition of the transaction: the touched counters of both items    *)
(* still hold the values that were read; a line read as missing is still   *)
(* missing.                                                                *)
Pinned(c) ==
  LET touched == Touched(req[c].op)
      line == lines[req[c].category]
  IN /\ budget # NoRow
     /\ \A k \in touched : budget[k] = seenBudget[c][k]
     /\ (line = NoRow) <=> (seenLine[c] = NoRow)
     /\ line # NoRow => \A k \in touched : line[k] = seenLine[c][k]

(* What the transaction leaves in an item: the touched counters are set to *)
(* the value computed from the read, the others keep what they hold.       *)
Written(c, row, seen) ==
  [k \in DOMAIN row |-> IF k \in Touched(req[c].op)
                        THEN seen[k] + Delta(req[c], seenLine[c], k)
                        ELSE row[k]]

(* A line read as missing is put whole; otherwise the existing one is updated. *)
LineBase(c, line) == IF seenLine[c] = NoRow THEN Zeroes ELSE OrZeroes(line)

(* TransactWriteItems succeeds: both items move, in one step.  ("ok" means  *)
(* applied; the summary read back for the answer changes nothing.)          *)
Apply(c) ==
  LET g == req[c].category
  IN /\ phase[c] = "write"
     /\ Pinned(c)
     /\ budget' = Written(c, budget, seenBudget[c])
     /\ lines' = [lines EXCEPT ![g] = Written(c, LineBase(c, @), OrZeroes(seenLine[c]))]
     /\ budgetPast' = Remembered(budgetPast, budget)
     /\ linesPast' = [linesPast EXCEPT ![g] = Remembered(@, lines[g])]
     /\ Go(c, "ok")
     /\ UNCHANGED <<rows, memory>>

(* Mutation of Cancel: attempts are never counted. *)

CancelUncounted(c) ==
  /\ phase[c] = "write"
  /\ ~Pinned(c) \/ \E d \in Calls \ {c} : phase[d] = "write"
  /\ Go(c, IF tries[c] + 1 < MaxAttempts THEN "budget" ELSE "conflict")
  /\ UNCHANGED <<store, memory>>

(* TransactWriteItems is cancelled, because a condition failed or because  *)
(* another transaction is in progress on the items: the attempt is spent,  *)
(* and the call recomputes from fresh reads or gives up with CONFLICT.     *)
Cancel(c) ==
  /\ phase[c] = "write"
  /\ ~Pinned(c) \/ \E d \in Calls \ {c} : phase[d] = "write"
  /\ tries' = [tries EXCEPT ![c] = @ + 1]
  /\ Go(c, IF tries[c] + 1 < MaxAttempts THEN "budget" ELSE "conflict")
  /\ UNCHANGED <<store, req, seenBudget, seenLine>>

(* ensure_budget reads the row once and decides whether to create it. *)
ReadTotal(c) ==
  /\ phase[c] = "total_read"
  /\ \E b \in Readable(budget, budgetPast) :
       /\ seenBudget' = [seenBudget EXCEPT ![c] = b]
       /\ Go(c, IF b = NoRow THEN "total_put"
                ELSE IF req[c].amount < b.spent + b.committed THEN "refused"
                ELSE "total_set")
  /\ UNCHANGED <<store, req, tries, seenLine>>

(* ... the creation is an unconditional put of zeroed counters, *)
CreateBudget(c) ==
  /\ phase[c] = "total_put"
  /\ budget' = [k \in BudgetCounters |-> IF k = "total" THEN req[c].amount ELSE 0]
  /\ budgetPast' = Remembered(budgetPast, budget)
  /\ Go(c, "ok")
  /\ UNCHANGED <<lines, rows, linesPast, memory>>

(* ... the adjustment an unconditional update of the total alone. *)
SetTotal(c) ==
  /\ phase[c] = "total_set"
  /\ budget' = [budget EXCEPT !["total"] = req[c].amount]
  /\ budgetPast' = Remembered(budgetPast, budget)
  /\ Go(c, "ok")
  /\ UNCHANGED <<lines, rows, linesPast, memory>>

(* The invocation dies, or DynamoDB answers with an error other than a     *)
(* cancellation, which no path retries: nothing more is written.           *)
Abort(c) ==
  /\ phase[c] \in Active
  /\ Go(c, "aborted")
  /\ UNCHANGED <<store, memory>>

Work(c) ==
  \/ PutExpenseRow(c)
  \/ ReadBudget(c)
  \/ ReadLine(c)
  \/ Apply(c)
  \/ Cancel(c)
  \/ ReadTotal(c)
  \/ CreateBudget(c)
  \/ SetTotal(c)

Next == \E c \in Calls : Start(c) \/ Work(c) \/ Abort(c)

Spec == Init /\ [][Next]_vars

(* A running invocation keeps running: the Lambda runtime schedules it, and *)
(* its own code contains no wait.  Nothing obliges a request to arrive or   *)
(* an invocation to die.                                                   *)
FairSpec == Spec /\ \A c \in Calls : WF_vars(Work(c))

---------------------------------------------------------------------------
(* Properties.  Which of them hold depends on which operations may overlap; *)
(* each run names its workload.                                             *)

(* Every variable keeps its type. *)
TypeOK ==
  /\ budget \in BudgetRow \cup {NoRow}
  /\ lines \in [Categories -> LineRow \cup {NoRow}]
  /\ rows \in [Calls -> Request \cup {NoRow}]
  /\ budgetPast \subseteq BudgetRow \cup {NoRow}
  /\ linesPast \in [Categories -> SUBSET (LineRow \cup {NoRow})]
  /\ phase \in [Calls -> Phases]
  /\ req \in [Calls -> Request \cup {NoRow}]
  /\ tries \in [Calls -> 0 .. MaxAttempts]
  /\ seenBudget \in [Calls -> BudgetRow \cup {NoRow}]
  /\ seenLine \in [Calls -> LineRow \cup {NoRow}]

(* No counter of a category, and neither the spending nor the commitments   *)
(* of the event, ever drop below zero: _move refuses that on the figures it *)
(* read, and the condition must carry the refusal over to the row that is   *)
(* actually written.  (The event's allocated counter moves by a difference  *)
(* of two rows and is held above zero by SumsMatch only.)                   *)
NeverBelowZero ==
  /\ budget # NoRow => \A k \in {"total", "spent", "committed"} : budget[k] >= 0
  /\ \A g \in Categories : lines[g] # NoRow => \A k \in Counters : lines[g][k] >= 0

LineTotal(k) == MapThenSumSet(LAMBDA g : OrZeroes(lines[g])[k], Categories)

(* Who set the total, and who created the row to do so.                     *)
TotalSettings == {c \in Calls : phase[c] = "ok" /\ req[c].op = "set_total"}
Creations == {c \in TotalSettings : seenBudget[c] = NoRow}

(* The figures speak of an event whose budget was not created over again:   *)
(* a second creation puts zeroes into a row that is in use (ensure_budget). *)
CreatedOnce == budget # NoRow /\ \A c, d \in Creations : c = d

(* The categories always sum to the event's totals: what the transaction    *)
(* is for ("a budget whose categories do not sum to its totals is worse     *)
(* than a rejected write"), whatever the calls that overlap.                *)
SumsMatch == CreatedOnce => \A k \in Counters : budget[k] = LineTotal(k)

(* One step moves the counters of at most one category, and the event's     *)
(* counters by exactly the same amounts: no call flattens another's write.  *)
(* The creation of the row is the exception.                                *)
Moved(g, k) == OrZeroes(lines'[g])[k] - OrZeroes(lines[g])[k]
OneLineMoves ==
  \E g \in Categories :
    /\ \A k \in Counters : budget'[k] - budget[k] = Moved(g, k)
    /\ \A h \in Categories \ {g} : lines'[h] = lines[h]
MovesTogether ==
  [][Creations' = Creations => budget # NoRow /\ OneLineMoves]_<<budget, lines>>

(* Money is never spent without an expense row that says why (the order     *)
(* record_expense documents), and no row is counted twice: the spent total  *)
(* is the opening one plus the rows of the calls that completed.            *)
Completed == {c \in Calls : rows[c] # NoRow /\ phase[c] = "ok"}
SpentBefore == IF Creations = {} THEN OpeningBudget.spent ELSE 0
SpendingHasRows ==
  CreatedOnce => budget.spent = SpentBefore + MapThenSumSet(LAMBDA c : rows[c].amount, Completed)

(* Whatever moves and however the calls overlap, the totals, the categories *)
(* and the expense rows tell the same story.                                *)
FiguresFollowRows == SumsMatch /\ SpendingHasRows

(* The totals this event has had.                                           *)
Totals ==
  {req[c].amount : c \in TotalSettings}
  \cup (IF Creations = {} THEN {OpeningBudget.total} ELSE {})

(* The sum of the allocations stays within a total the event has had, in    *)
(* whatever order allocations overlap one another and changes of the total  *)
(* (allocate's first documented invariant, and the race of the module       *)
(* docstring).  It may exceed the total of today: ensure_budget lowers that *)
(* without looking at the allocations.                                      *)
NoOverAllocation == CreatedOnce => \E total \in Totals : LineTotal("allocated") <= total

(* The sum of the allocations does not exceed the total, as allocate's      *)
(* docstring has it.                                                        *)
AllocationsFit == budget # NoRow => LineTotal("allocated") <= budget.total

(* What is spent and committed is covered by the event total ...            *)
EventCovered == budget # NoRow => EventHeadroom(budget) >= 0

(* ... and, in each category, by its allocation.                            *)
LinesCovered == \A g \in Categories : lines[g] # NoRow => LineHeadroom(lines[g]) >= 0

(* Spending is covered at both levels: require_event_headroom and           *)
(* require_category_headroom look at figures that other calls move.         *)
SpendingIsCovered == EventCovered /\ LinesCovered

(* Calls without a change of plan (no allocate, no set_total) and without a *)
(* mix of commitments and direct spending are as good as atomic.            *)
Atomic == INSTANCE AtomicBudget WITH Amounts <- {r.amount : r \in Requests}
ImplementsAtomic == Atomic!Spec

(* Every request that was accepted is answered: the retry bound ends even a *)
(* livelock in which transactions keep cancelling one another.              *)
EveryCallAnswers == \A c \in Calls : phase[c] \in Active ~> phase[c] \in Ended
=============================================================================
