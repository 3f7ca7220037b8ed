---------------------------- MODULE BudgetProofs ----------------------------
(***************************************************************************)
(* Proofs about Budget, for every set of calls, categories and requests,   *)
(* every retry bound and every opening state.                              *)
(***************************************************************************)
EXTENDS Budget, Sums

(***************************************************************************)
(* The inductive invariant.  What a call may still do is decided by what   *)
(* it read; CallInv records what its earlier phases have established.      *)
(***************************************************************************)
Moving == {"row", "budget", "line", "write"}
Totalling == {"total_read", "total_put", "total_set"}

CallInv(c) ==
  /\ phase[c] # "idle" => req[c] \in Requests
  /\ phase[c] \in Moving => req[c].op \in Moves \cup {"allocate"}
  /\ phase[c] \in Totalling => req[c].op = "set_total"
  /\ phase[c] \in {"line", "write"} => seenBudget[c] \in BudgetRow
  /\ phase[c] = "write" => Admissible(req[c], seenBudget[c], seenLine[c])
  /\ phase[c] = "total_put" => seenBudget[c] = NoRow
  /\ phase[c] = "total_set" => budget # NoRow /\ seenBudget[c] # NoRow
  /\ phase[c] \in {"idle"} \cup Active => tries[c] < MaxAttempts

(* No version but the first can be a missing budget. *)
Existence == budget = NoRow => budgetPast \subseteq {NoRow}

IInv == TypeOK /\ Existence /\ \A c \in Calls : CallInv(c)

---------------------------------------------------------------------------
(* Facts about the arithmetic. *)

(* An allocation row, or its stand-in, is a row of integers. *)
LEMMA OrZeroesType ==
  ASSUME NEW line \in LineRow \cup {NoRow}
  PROVE  OrZeroes(line) \in LineRow
BY DEF OrZeroes, Zeroes, LineRow, Counters

(* The signed change of a counter is an integer. *)
LEMMA DeltaType ==
  ASSUME NEW r \in Request, NEW line \in LineRow \cup {NoRow}, NEW k \in Counters
  PROVE  Delta(r, line, k) \in Int
<1>1. OrZeroes(line).allocated \in Int
  BY OrZeroesType DEF LineRow, Counters
<1>2. r.amount \in Nat
  BY DEF Request
<1>3. QED
  BY <1>1, <1>2 DEF Delta, Touched, Counters, Expenses

(* A request touches counters of a category only. *)
LEMMA TouchedType == \A op : Touched(op) \subseteq Counters
BY DEF Touched

(* An admissible change leaves every counter it touches at zero or above in *)
(* the category's row; except for the allocations, in the event's row too.  *)
LEMMA AdmissibleStaysNatural ==
  ASSUME NEW r \in Request, r.op \in Moves \cup {"allocate"},
         NEW b \in BudgetRow, NEW line \in LineRow \cup {NoRow},
         Admissible(r, b, line), NEW k \in Touched(r.op)
  PROVE  /\ OrZeroes(line)[k] + Delta(r, line, k) >= 0
         /\ k # "allocated" => b[k] + Delta(r, line, k) >= 0
<1>1. k \in Counters
  BY TouchedType
<1>2. CASE r.op = "allocate"
  <2>1. k = "allocated"
    BY <1>2 DEF Touched, Expenses
  <2>2. Delta(r, line, k) = r.amount - OrZeroes(line).allocated
    BY <1>2, <2>1 DEF Delta, Touched
  <2>3. r.amount \in Nat /\ OrZeroes(line)[k] \in Int
    BY <1>1, OrZeroesType DEF Request, LineRow
  <2>4. QED
    BY <2>1, <2>2, <2>3
<1>3. CASE r.op # "allocate"
  BY <1>3 DEF Admissible, CanMove, OrZeroes
<1>4. QED
  BY <1>2, <1>3

(* What a transaction writes are rows of integers. *)
LEMMA WrittenType ==
  ASSUME TypeOK, NEW c \in Calls, req[c] \in Request,
         budget # NoRow, seenBudget[c] \in BudgetRow
  PROVE  LET g == req[c].category IN
         /\ g \in Categories
         /\ Written(c, budget, seenBudget[c]) \in BudgetRow
         /\ Written(c, LineBase(c, lines[g]), OrZeroes(seenLine[c])) \in LineRow
<1> DEFINE g == req[c].category
           base == LineBase(c, lines[g])
<1>1. g \in Categories
  BY DEF Request
<1>2. \A k \in Counters : Delta(req[c], seenLine[c], k) \in Int
  BY DeltaType DEF TypeOK
<1>3. Written(c, budget, seenBudget[c]) \in BudgetRow
  BY <1>2, TouchedType DEF Written, BudgetRow, BudgetCounters, TypeOK
<1>4. base \in LineRow /\ OrZeroes(seenLine[c]) \in LineRow
  <2>1. Zeroes \in LineRow
    BY DEF Zeroes, LineRow
  <2>2. OrZeroes(lines[g]) \in LineRow /\ OrZeroes(seenLine[c]) \in LineRow
    BY <1>1, OrZeroesType DEF TypeOK
  <2>3. QED
    BY <2>1, <2>2 DEF LineBase
<1>5. Written(c, base, OrZeroes(seenLine[c])) \in LineRow
  BY <1>2, <1>4, TouchedType DEF Written, LineRow
<1>6. QED
  BY <1>1, <1>3, <1>5

---------------------------------------------------------------------------
(* The invariant is inductive. *)

LEMMA InitIInv == Init => IInv
<1> SUFFICES ASSUME Init PROVE IInv
  OBVIOUS
<1> USE DEF Init
<1>1. budget \in BudgetRow \cup {NoRow}
  BY OpeningAssumption DEF BudgetRow
<1>2. lines \in [Categories -> LineRow \cup {NoRow}]
  BY OpeningAssumption DEF LineRow
<1>3. TypeOK
  BY <1>1, <1>2, AttemptsAssumption DEF TypeOK, Phases
<1>4. Existence
  BY DEF Existence
<1>5. ASSUME NEW c \in Calls PROVE CallInv(c)
  BY AttemptsAssumption DEF CallInv, Moving, Totalling, Active
<1>6. QED
  BY <1>3, <1>4, <1>5 DEF IInv

(* A step of one call leaves what the others have established as it was, as *)
(* long as the budget row does not disappear.                               *)
LEMMA OthersUndisturbed ==
  ASSUME IInv, NEW c \in Calls,
         \A d \in Calls \ {c} : /\ phase'[d] = phase[d]
                                /\ req'[d] = req[d]
                                /\ tries'[d] = tries[d]
                                /\ seenBudget'[d] = seenBudget[d]
                                /\ seenLine'[d] = seenLine[d],
         budget # NoRow => budget' # NoRow
  PROVE  \A d \in Calls \ {c} : CallInv(d)'
<1> SUFFICES ASSUME NEW d \in Calls \ {c} PROVE CallInv(d)'
  OBVIOUS
<1>1. CallInv(d)
  BY DEF IInv
<1>2. QED
  BY <1>1 DEF CallInv

LEMMA StartIInv ==
  ASSUME IInv, NEW c \in Calls, Start(c)
  PROVE  IInv'
<1> USE DEF Start, Accept, Go, store
<1>1. PICK r \in Requests : req' = [req EXCEPT ![c] = r] /\ Go(c, FirstPhase(r))
  OBVIOUS
<1>2. r \in Request
  BY RequestsAssumption
<1>3. FirstPhase(r) \in {"total_read", "refused", "row", "budget"}
  BY DEF FirstPhase
<1>4. TypeOK'
  BY <1>1, <1>2, <1>3 DEF IInv, TypeOK, Phases, Active, Ended
<1>5. Existence'
  BY DEF IInv, Existence
<1>6. CallInv(c)'
  <2>1. phase'[c] = FirstPhase(r) /\ req'[c] = r
    BY <1>1 DEF IInv, TypeOK
  <2>2. tries'[c] < MaxAttempts
    <3>1. CallInv(c) /\ phase[c] = "idle"
      BY DEF IInv
    <3>2. QED
      BY <3>1 DEF CallInv
  <2>3. r.op \in Ops
    BY <1>2 DEF Request
  <2>4. QED
    BY <1>3, <2>1, <2>2, <2>3
    DEF CallInv, FirstPhase, Moving, Totalling, Active, Ops, Moves, Expenses
<1>7. \A d \in Calls \ {c} : CallInv(d)'
  BY <1>1, OthersUndisturbed DEF IInv, TypeOK
<1>8. QED
  BY <1>4, <1>5, <1>6, <1>7 DEF IInv

LEMMA PutExpenseRowIInv ==
  ASSUME IInv, NEW c \in Calls, PutExpenseRow(c)
  PROVE  IInv'
<1> USE DEF PutExpenseRow, Go, memory
<1>1. CallInv(c)
  BY DEF IInv
<1>2. req[c] \in Request
  BY <1>1, RequestsAssumption DEF CallInv
<1>3. TypeOK'
  BY <1>2 DEF IInv, TypeOK, Phases, Active
<1>4. Existence'
  BY DEF IInv, Existence
<1>5. CallInv(c)'
  BY <1>1 DEF IInv, TypeOK, CallInv, Moving, Totalling, Active
<1>6. \A d \in Calls \ {c} : CallInv(d)'
  BY OthersUndisturbed DEF IInv, TypeOK
<1>7. QED
  BY <1>3, <1>4, <1>5, <1>6 DEF IInv

LEMMA ReadBudgetIInv ==
  ASSUME IInv, NEW c \in Calls, ReadBudget(c)
  PROVE  IInv'
<1> USE DEF ReadBudget, Go, store
<1>1. CallInv(c)
  BY DEF IInv
<1>2. PICK b \in Readable(budget, budgetPast) :
        /\ seenBudget' = [seenBudget EXCEPT ![c] = b]
        /\ Go(c, IF b = NoRow THEN "refused" ELSE "line")
  OBVIOUS
<1>3. b \in BudgetRow \cup {NoRow}
  BY DEF IInv, TypeOK, Readable
<1>4. TypeOK'
  BY <1>2, <1>3 DEF IInv, TypeOK, Phases, Active, Ended
<1>5. Existence'
  BY DEF IInv, Existence
<1>6. CallInv(c)'
  BY <1>1, <1>2, <1>3 DEF IInv, TypeOK, CallInv, Moving, Totalling, Active
<1>7. \A d \in Calls \ {c} : CallInv(d)'
  BY <1>2, OthersUndisturbed DEF IInv, TypeOK
<1>8. QED
  BY <1>4, <1>5, <1>6, <1>7 DEF IInv

LEMMA ReadLineIInv ==
  ASSUME IInv, NEW c \in Calls, ReadLine(c)
  PROVE  IInv'
<1> USE DEF ReadLine, Go, store
<1>1. CallInv(c) /\ req[c] \in Request
  BY RequestsAssumption DEF IInv, CallInv
<1>2. PICK line \in Readable(lines[req[c].category], linesPast[req[c].category]) :
        /\ seenLine' = [seenLine EXCEPT ![c] = line]
        /\ Go(c, IF Admissible(req[c], seenBudget[c], line) THEN "write" ELSE "refused")
  OBVIOUS
<1>3. line \in LineRow \cup {NoRow}
  BY <1>1 DEF IInv, TypeOK, Readable, Request
<1>4. TypeOK'
  BY <1>2, <1>3 DEF IInv, TypeOK, Phases, Active, Ended
<1>5. Existence'
  BY DEF IInv, Existence
<1>6. CallInv(c)'
  BY <1>1, <1>2 DEF IInv, TypeOK, CallInv, Moving, Totalling, Active
<1>7. \A d \in Calls \ {c} : CallInv(d)'
  BY <1>2, OthersUndisturbed DEF IInv, TypeOK
<1>8. QED
  BY <1>4, <1>5, <1>6, <1>7 DEF IInv

LEMMA ApplyIInv ==
  ASSUME IInv, NEW c \in Calls, Apply(c)
  PROVE  IInv'
<1> USE DEF Apply, Go, memory
<1> DEFINE g == req[c].category
<1>1. CallInv(c) /\ req[c] \in Request
  BY RequestsAssumption DEF IInv, CallInv
<1>2. budget \in BudgetRow
  BY DEF IInv, TypeOK, Pinned
<1>3. seenBudget[c] \in BudgetRow
  BY <1>1 DEF CallInv
<1>4. g \in Categories /\ budget' \in BudgetRow /\ lines'[g] \in LineRow
  BY <1>1, <1>2, <1>3, WrittenType, NoRowAssumption DEF IInv, TypeOK
<1>5. TypeOK'
  <2>1. budgetPast' \subseteq BudgetRow \cup {NoRow}
    BY DEF IInv, TypeOK, Remembered
  <2>2. lines' \in [Categories -> LineRow \cup {NoRow}]
    BY <1>4 DEF IInv, TypeOK
  <2>3. linesPast' \in [Categories -> SUBSET (LineRow \cup {NoRow})]
    BY <1>4 DEF IInv, TypeOK, Remembered
  <2>4. QED
    BY <1>4, <2>1, <2>2, <2>3 DEF IInv, TypeOK, Phases, Ended
<1>6. budget' # NoRow
  BY <1>4, NoRowAssumption
<1>7. Existence'
  BY <1>6 DEF Existence
<1>8. CallInv(c)'
  BY <1>1 DEF IInv, TypeOK, CallInv, Moving, Totalling, Active
<1>9. \A d \in Calls \ {c} : CallInv(d)'
  BY <1>6, OthersUndisturbed DEF IInv, TypeOK
<1>10. QED
  BY <1>5, <1>7, <1>8, <1>9 DEF IInv

LEMMA CancelIInv ==
  ASSUME IInv, NEW c \in Calls, Cancel(c)
  PROVE  IInv'
<1> USE DEF Cancel, Go, store
<1>1. CallInv(c)
  BY DEF IInv
<1>2. tries[c] \in Nat /\ tries[c] < MaxAttempts
  BY <1>1 DEF IInv, TypeOK, CallInv, Active
<1>3. TypeOK'
  <2>1. tries[c] + 1 \in 0 .. MaxAttempts
    BY <1>2, AttemptsAssumption
  <2>2. QED
    BY <2>1 DEF IInv, TypeOK, Phases, Active, Ended
<1>4. Existence'
  BY DEF IInv, Existence
<1>5. CallInv(c)'
  BY <1>1 DEF IInv, TypeOK, CallInv, Moving, Totalling, Active
<1>6. \A d \in Calls \ {c} : CallInv(d)'
  BY OthersUndisturbed DEF IInv, TypeOK
<1>7. QED
  BY <1>3, <1>4, <1>5, <1>6 DEF IInv

LEMMA ReadTotalIInv ==
  ASSUME IInv, NEW c \in Calls, ReadTotal(c)
  PROVE  IInv'
<1> USE DEF ReadTotal, Go, store
<1>1. CallInv(c)
  BY DEF IInv
<1>2. PICK b \in Readable(budget, budgetPast) :
        /\ seenBudget' = [seenBudget EXCEPT ![c] = b]
        /\ Go(c, IF b = NoRow THEN "total_put"
                 ELSE IF req[c].amount < b.spent + b.committed THEN "refused"
                 ELSE "total_set")
  OBVIOUS
<1>3. b \in BudgetRow \cup {NoRow} /\ (b # NoRow => budget # NoRow)
  BY DEF IInv, TypeOK, Readable, Existence
<1>4. TypeOK'
  BY <1>2, <1>3 DEF IInv, TypeOK, Phases, Active, Ended
<1>5. Existence'
  BY DEF IInv, Existence
<1>6. CallInv(c)'
  BY <1>1, <1>2, <1>3 DEF IInv, TypeOK, CallInv, Moving, Totalling, Active
<1>7. \A d \in Calls \ {c} : CallInv(d)'
  BY <1>2, OthersUndisturbed DEF IInv, TypeOK
<1>8. QED
  BY <1>4, <1>5, <1>6, <1>7 DEF IInv

LEMMA WriteTotalIInv ==
  ASSUME IInv, NEW c \in Calls, CreateBudget(c) \/ SetTotal(c)
  PROVE  IInv'
<1> USE DEF CreateBudget, SetTotal, Go, memory
<1>1. CallInv(c) /\ req[c].amount \in Nat
  BY RequestsAssumption DEF IInv, CallInv, Request
<1>2. budget' \in BudgetRow
  <2>1. CASE CreateBudget(c)
    BY <1>1, <2>1 DEF BudgetRow
  <2>2. CASE SetTotal(c)
    <3>1. budget \in BudgetRow
      BY <1>1, <2>2 DEF IInv, TypeOK, CallInv
    <3>2. QED
      BY <1>1, <2>2, <3>1 DEF BudgetRow, BudgetCounters
  <2>3. QED
    BY <2>1, <2>2
<1>3. budget' # NoRow
  BY <1>2, NoRowAssumption
<1>4. TypeOK'
  BY <1>2 DEF IInv, TypeOK, Remembered, Phases, Ended
<1>5. Existence'
  BY <1>3 DEF Existence
<1>6. CallInv(c)'
  BY <1>1 DEF IInv, TypeOK, CallInv, Moving, Totalling, Active
<1>7. \A d \in Calls \ {c} : CallInv(d)'
  BY <1>3, OthersUndisturbed DEF IInv, TypeOK
<1>8. QED
  BY <1>4, <1>5, <1>6, <1>7 DEF IInv

LEMMA AbortIInv ==
  ASSUME IInv, NEW c \in Calls, Abort(c)
  PROVE  IInv'
<1> USE DEF Abort, Go, store, memory
<1>1. TypeOK' /\ Existence'
  BY DEF IInv, TypeOK, Existence, Phases, Ended
<1>2. CallInv(c)'
  BY DEF IInv, TypeOK, CallInv, Moving, Totalling, Active
<1>3. \A d \in Calls \ {c} : CallInv(d)'
  BY OthersUndisturbed DEF IInv, TypeOK
<1>4. QED
  BY <1>1, <1>2, <1>3 DEF IInv

LEMMA NextIInv == IInv /\ [Next]_vars => IInv'
<1> SUFFICES ASSUME IInv, [Next]_vars PROVE IInv'
  OBVIOUS
<1>1. CASE UNCHANGED vars
  BY <1>1 DEF vars, IInv, TypeOK, Existence, CallInv
<1>2. ASSUME NEW c \in Calls, Start(c) \/ Work(c) \/ Abort(c) PROVE IInv'
  BY <1>2, StartIInv, PutExpenseRowIInv, ReadBudgetIInv, ReadLineIInv, ApplyIInv,
     CancelIInv, ReadTotalIInv, WriteTotalIInv, AbortIInv DEF Work
<1>3. QED
  BY <1>1, <1>2 DEF Next

LEMMA SpecIInv == Spec => []IInv
BY InitIInv, NextIInv, PTL DEF Spec

(* Type correctness, for any number of calls on any budget. *)
THEOREM TypeCorrect == Spec => []TypeOK
BY SpecIInv, PTL DEF IInv

---------------------------------------------------------------------------
(* What a successful transaction writes, in terms of the row it replaces. *)

(* Under its condition, a transaction adds the signed changes to whatever   *)
(* the two rows hold at that moment: nothing written in between is lost.    *)
LEMMA ApplyAddsDeltas ==
  ASSUME IInv, NEW c \in Calls, Apply(c)
  PROVE  LET g == req[c].category IN
         /\ budget \in BudgetRow /\ budget' \in BudgetRow
         /\ g \in Categories /\ lines'[g] \in LineRow
         /\ \A h \in Categories \ {g} : lines'[h] = lines[h]
         /\ budget'.total = budget.total
         /\ \A k \in Counters :
              LET d == Delta(req[c], seenLine[c], k) IN
              /\ d \in Int
              /\ budget'[k] = budget[k] + d
              /\ lines'[g][k] = OrZeroes(lines[g])[k] + d
         /\ \A k \in Touched(req[c].op) :
              /\ budget[k] = seenBudget[c][k]
              /\ OrZeroes(lines[g])[k] = OrZeroes(seenLine[c])[k]
<1> USE DEF Apply
<1> DEFINE g == req[c].category
<1>1. CallInv(c) /\ req[c] \in Request
  BY RequestsAssumption DEF IInv, CallInv
<1>2. budget \in BudgetRow /\ seenBudget[c] \in BudgetRow
  BY <1>1 DEF IInv, TypeOK, Pinned, CallInv
<1>3. g \in Categories /\ budget' \in BudgetRow /\ lines'[g] \in LineRow
  BY <1>1, <1>2, WrittenType, NoRowAssumption DEF IInv, TypeOK
<1>4. \A h \in Categories \ {g} : lines'[h] = lines[h]
  BY DEF IInv, TypeOK
<1>5. budget'.total = budget.total
  BY <1>2, TouchedType DEF Written, BudgetRow, BudgetCounters, Counters
<1>6. ASSUME NEW k \in Counters
      PROVE  LET d == Delta(req[c], seenLine[c], k) IN
             /\ d \in Int
             /\ budget'[k] = budget[k] + d
             /\ lines'[g][k] = OrZeroes(lines[g])[k] + d
  <2> DEFINE d == Delta(req[c], seenLine[c], k)
             base == LineBase(c, lines[g])
             seen == OrZeroes(seenLine[c])
  <2>1. d \in Int /\ (k \notin Touched(req[c].op) => d = 0)
    BY <1>1, DeltaType DEF IInv, TypeOK, Delta
  <2>2. k \in BudgetCounters /\ budget[k] \in Int
    BY <1>2 DEF BudgetRow, BudgetCounters
  <2>3. budget'[k] = budget[k] + d
    BY <1>2, <2>1, <2>2 DEF Written, Pinned, BudgetRow
  <2>4. base = OrZeroes(lines[g]) /\ base \in LineRow
    BY <1>3, OrZeroesType DEF LineBase, Pinned, OrZeroes, IInv, TypeOK
  <2>5. k \in Touched(req[c].op) => seen[k] = base[k]
    BY <2>4 DEF Pinned, OrZeroes, LineBase
  <2>6. lines'[g] = Written(c, base, seen)
    BY <1>3 DEF IInv, TypeOK
  <2>7. DOMAIN base = Counters /\ base[k] \in Int
    BY <2>4 DEF LineRow
  <2>8. lines'[g][k] = base[k] + d
    BY <2>1, <2>5, <2>6, <2>7 DEF Written
  <2>9. QED
    BY <2>1, <2>3, <2>4, <2>8
<1>7. ASSUME NEW k \in Touched(req[c].op)
      PROVE  /\ budget[k] = seenBudget[c][k]
             /\ OrZeroes(lines[g])[k] = OrZeroes(seenLine[c])[k]
  BY DEF Pinned, OrZeroes
<1>8. QED
  BY <1>2, <1>3, <1>4, <1>5, <1>6, <1>7

(* No other action changes an allocation row; of those that change the      *)
(* budget row, one replaces its total and one creates it.                   *)
LEMMA QuietSteps ==
  ASSUME NEW c \in Calls, Start(c) \/ Work(c) \/ Abort(c), ~Apply(c)
  PROVE  /\ UNCHANGED lines
         /\ ~CreateBudget(c) /\ ~SetTotal(c) => UNCHANGED budget
BY DEF Start, Accept, Work, Abort, PutExpenseRow, ReadBudget, ReadLine, Cancel, ReadTotal,
       CreateBudget, SetTotal, store

(* Where there was a budget row all along, no call ever takes the event for *)
(* one without a budget, so none creates the row.                           *)
NeverMissing ==
  /\ budget # NoRow
  /\ NoRow \notin budgetPast
  /\ \A c \in Calls : phase[c] # "total_put"

LEMMA NeverMissingStays == IInv /\ IInv' /\ NeverMissing /\ [Next]_vars => NeverMissing'
<1>1. IInv /\ IInv' /\ NeverMissing /\ [Next]_vars => NeverMissing'
  <2> SUFFICES ASSUME IInv, IInv', NeverMissing, [Next]_vars PROVE NeverMissing'
    OBVIOUS
  <2> USE DEF NeverMissing
  <2>1. CASE UNCHANGED vars
    BY <2>1 DEF vars
  <2>2. ASSUME NEW c \in Calls, Apply(c) PROVE NeverMissing'
    <3>1. budget' # NoRow
      BY <2>2, ApplyAddsDeltas, NoRowAssumption
    <3>2. QED
      BY <2>2, <3>1 DEF Apply, Go, Remembered, IInv, TypeOK
  <2>3. ASSUME NEW c \in Calls, SetTotal(c) PROVE NeverMissing'
    <3>1. budget' # NoRow
      <4>1. budget \in BudgetRow /\ req[c].amount \in Int
        BY <2>3, RequestsAssumption DEF IInv, TypeOK, CallInv, SetTotal, Request
      <4>2. budget' \in BudgetRow
        BY <2>3, <4>1 DEF SetTotal, BudgetRow, BudgetCounters
      <4>3. QED
        BY <4>2, NoRowAssumption
    <3>2. QED
      BY <2>3, <3>1 DEF SetTotal, Go, Remembered, IInv, TypeOK
  <2>4. ASSUME NEW c \in Calls, CreateBudget(c) PROVE FALSE
    BY <2>4 DEF CreateBudget
  <2>5. ASSUME NEW c \in Calls, Start(c) PROVE NeverMissing'
    BY <2>5 DEF Start, Accept, Go, store, FirstPhase, IInv, TypeOK
  <2>6. ASSUME NEW c \in Calls,
               PutExpenseRow(c) \/ ReadBudget(c) \/ ReadLine(c) \/ Cancel(c)
                 \/ ReadTotal(c) \/ Abort(c)
        PROVE  NeverMissing'
    BY <2>6 DEF PutExpenseRow, ReadBudget, ReadLine, Cancel, ReadTotal, Abort, Go,
                Readable, store, IInv, TypeOK
  <2>7. QED
    BY <2>1, <2>2, <2>3, <2>4, <2>5, <2>6 DEF Next, Work
<1>2. QED
  BY <1>1

LEMMA NeverMissingInvariant ==
  ASSUME ~FromNothing PROVE Spec => []NeverMissing
<1>1. Init => NeverMissing
  BY OpeningAssumption, NoRowAssumption DEF Init, NeverMissing, BudgetRow
<1>2. QED
  BY <1>1, NeverMissingStays, SpecIInv, PTL DEF Spec

(* What a step does to the settings of the total.                           *)
LEMMA SettingsStep ==
  ASSUME IInv, NEW c \in Calls, Start(c) \/ Work(c) \/ Abort(c)
  PROVE  /\ ~CreateBudget(c) /\ ~SetTotal(c) => TotalSettings' = TotalSettings
         /\ CreateBudget(c) \/ SetTotal(c) =>
              TotalSettings' = TotalSettings \cup {c} /\ req'[c] = req[c]
         /\ ~CreateBudget(c) => Creations' = Creations
         /\ CreateBudget(c) => Creations' = Creations \cup {c} /\ c \notin Creations
         /\ \A d \in TotalSettings : req'[d] = req[d]
<1> USE DEF TotalSettings, Creations
<1>1. \A d \in Calls \ {c} : /\ phase'[d] = phase[d] /\ req'[d] = req[d]
                             /\ seenBudget'[d] = seenBudget[d]
  BY DEF Start, Accept, Work, Abort, PutExpenseRow, ReadBudget, ReadLine, Apply, Cancel,
         ReadTotal, CreateBudget, SetTotal, store, memory, Go, IInv, TypeOK
<1>2. phase[c] # "ok"
  BY DEF Start, Accept, Work, Abort, PutExpenseRow, ReadBudget, ReadLine, Apply, Cancel,
         ReadTotal, CreateBudget, SetTotal, Active
<1>3. CASE CreateBudget(c) \/ SetTotal(c)
  <2>1. /\ phase'[c] = "ok" /\ req' = req /\ seenBudget' = seenBudget
        /\ phase[c] \in {"total_put", "total_set"}
    BY <1>3 DEF CreateBudget, SetTotal, Go, memory, IInv, TypeOK
  <2>2. /\ req[c].op = "set_total"
        /\ phase[c] = "total_put" => seenBudget[c] = NoRow
        /\ phase[c] = "total_set" => seenBudget[c] # NoRow
    BY <2>1 DEF IInv, CallInv, Totalling
  <2>3. CreateBudget(c) <=> phase[c] = "total_put"
    BY <1>3 DEF CreateBudget, SetTotal
  <2>4. QED
    BY <1>1, <1>2, <1>3, <2>1, <2>2, <2>3
<1>4. CASE ~CreateBudget(c) /\ ~SetTotal(c)
  <2>1. phase'[c] = "ok" => req'[c].op # "set_total"
    <3>1. CASE Apply(c)
      BY <3>1 DEF Apply, memory, IInv, CallInv, Moving, Moves, Expenses
    <3>2. CASE ~Apply(c)
      BY <1>4, <3>2 DEF Start, Accept, Work, Abort, PutExpenseRow, ReadBudget, ReadLine, Cancel,
         ReadTotal, Go, FirstPhase, IInv, TypeOK
    <3>3. QED
      BY <3>1, <3>2
  <2>2. QED
    BY <1>1, <1>2, <1>4, <2>1
<1>5. QED
  BY <1>3, <1>4

(* On an event that has a budget, whatever calls overlap: one step moves at *)
(* most one category, and the event's counters by the very same amounts.    *)
THEOREM EventAndCategoryMoveTogether ==
  ASSUME Categories # {}
  PROVE  Spec => MovesTogether
<1>1. IInv /\ [Next]_vars
        => [Creations' = Creations => budget # NoRow /\ OneLineMoves]_<<budget, lines>>
  <2> SUFFICES ASSUME IInv, Next, Creations' = Creations
               PROVE  (budget # NoRow /\ OneLineMoves) \/ UNCHANGED <<budget, lines>>
    BY DEF vars
  <2>1. ASSUME NEW c \in Calls, Apply(c) PROVE budget # NoRow /\ OneLineMoves
    <3> DEFINE g == req[c].category
    <3>1. lines'[g] \in LineRow /\ OrZeroes(lines'[g]) = lines'[g]
      BY <2>1, ApplyAddsDeltas, NoRowAssumption DEF OrZeroes
    <3>2. OrZeroes(lines[g]) \in LineRow /\ budget \in BudgetRow /\ g \in Categories
      BY <2>1, ApplyAddsDeltas, OrZeroesType DEF IInv, TypeOK
    <3>3. ASSUME NEW k \in Counters PROVE budget'[k] - budget[k] = Moved(g, k)
      <4> DEFINE d == Delta(req[c], seenLine[c], k)
      <4>1. /\ d \in Int
            /\ budget'[k] = budget[k] + d
            /\ lines'[g][k] = OrZeroes(lines[g])[k] + d
        BY <2>1, ApplyAddsDeltas
      <4>2. budget[k] \in Int /\ OrZeroes(lines[g])[k] \in Int
        BY <3>2 DEF BudgetRow, BudgetCounters, LineRow
      <4>3. Moved(g, k) = d
        BY <3>1, <4>1, <4>2 DEF Moved
      <4>4. QED
        BY <4>1, <4>2, <4>3
    <3>4. \A h \in Categories \ {g} : lines'[h] = lines[h]
      BY <2>1, ApplyAddsDeltas
    <3>5. QED
      BY <3>2, <3>3, <3>4, NoRowAssumption DEF OneLineMoves
  <2>2. ASSUME NEW c \in Calls, SetTotal(c) PROVE budget # NoRow /\ OneLineMoves
    <3>1. PICK g \in Categories : TRUE
      OBVIOUS
    <3>2. budget \in BudgetRow /\ lines' = lines
      BY <2>2 DEF SetTotal, IInv, TypeOK, CallInv
    <3>3. OrZeroes(lines[g]) \in LineRow
      BY OrZeroesType DEF IInv, TypeOK
    <3>4. ASSUME NEW k \in Counters PROVE budget'[k] = budget[k] /\ budget[k] \in Int
      BY <2>2, <3>2 DEF SetTotal, BudgetRow, BudgetCounters, Counters
    <3>5. ASSUME NEW k \in Counters PROVE Moved(g, k) = 0
      BY <3>2, <3>3 DEF Moved, LineRow
    <3>6. QED
      BY <3>2, <3>4, <3>5, NoRowAssumption DEF OneLineMoves
  <2>3. ASSUME NEW c \in Calls, Start(c) \/ Work(c) \/ Abort(c) PROVE ~CreateBudget(c)
    BY <2>3, SettingsStep
  <2>4. QED
    BY <2>1, <2>2, <2>3, QuietSteps DEF Next
<1>2. QED
  BY <1>1, SpecIInv, PTL DEF Spec, MovesTogether

---------------------------------------------------------------------------
(* Counters stay above zero. *)

(* No call ever takes a category's counters, or the event's spending and    *)
(* commitments, below zero, however the calls overlap.                      *)
THEOREM CountersNeverBelowZero == Spec => []NeverBelowZero
<1>1. Init => NeverBelowZero
  BY OpeningAssumption DEF Init, NeverBelowZero, BudgetCounters, Counters
<1>2. IInv /\ NeverBelowZero /\ [Next]_vars => NeverBelowZero'
  <2> SUFFICES ASSUME IInv, NeverBelowZero, [Next]_vars PROVE NeverBelowZero'
    OBVIOUS
  <2>1. CASE UNCHANGED vars
    BY <2>1 DEF vars, NeverBelowZero
  <2>2. ASSUME NEW c \in Calls, Apply(c) PROVE NeverBelowZero'
    <3> DEFINE g == req[c].category
    <3>1. /\ req[c] \in Request /\ req[c].op \in Moves \cup {"allocate"}
          /\ Admissible(req[c], seenBudget[c], seenLine[c])
          /\ seenBudget[c] \in BudgetRow /\ seenLine[c] \in LineRow \cup {NoRow}
      BY <2>2, RequestsAssumption DEF IInv, TypeOK, CallInv, Apply, Moving
    <3>2. ASSUME NEW k \in Touched(req[c].op)
          PROVE  lines'[g][k] >= 0 /\ (k # "allocated" => budget'[k] >= 0)
      <4>1. k \in Counters
        BY TouchedType
      <4>2. QED
        BY <2>2, <3>1, <4>1, AdmissibleStaysNatural, ApplyAddsDeltas
    <3>3. ASSUME NEW k \in Counters \ Touched(req[c].op)
          PROVE  lines'[g][k] = OrZeroes(lines[g])[k] /\ budget'[k] = budget[k]
      <4>1. Delta(req[c], seenLine[c], k) = 0
        BY DEF Delta
      <4>2. OrZeroes(lines[g])[k] \in Int /\ budget[k] \in Int
        BY <2>2, ApplyAddsDeltas, OrZeroesType
        DEF IInv, TypeOK, LineRow, BudgetRow, BudgetCounters
      <4>3. QED
        BY <2>2, <4>1, <4>2, ApplyAddsDeltas
    <3>4. \A k \in Counters : OrZeroes(lines[g])[k] >= 0 \/ k \in Touched(req[c].op)
      BY <2>2, ApplyAddsDeltas DEF NeverBelowZero, OrZeroes, Zeroes
    <3>5. \A k \in Counters : lines'[g][k] >= 0
      BY <3>2, <3>3, <3>4
    <3>6. \A k \in {"total", "spent", "committed"} : budget'[k] >= 0
      BY <2>2, <3>2, <3>3, ApplyAddsDeltas, NoRowAssumption DEF NeverBelowZero, Counters
    <3>7. QED
      BY <2>2, <3>5, <3>6, ApplyAddsDeltas DEF NeverBelowZero
  <2>3. ASSUME NEW c \in Calls, CreateBudget(c) \/ SetTotal(c) PROVE NeverBelowZero'
    <3>1. req[c].amount \in Nat /\ budget \in BudgetRow \cup {NoRow} /\ lines' = lines
      BY <2>3, RequestsAssumption
      DEF IInv, TypeOK, CallInv, CreateBudget, SetTotal, Request
    <3>2. CASE CreateBudget(c)
      BY <3>1, <3>2 DEF CreateBudget, NeverBelowZero, BudgetCounters, Counters
    <3>3. CASE SetTotal(c)
      <4>1. budget \in BudgetRow
        BY <3>1, <3>3 DEF SetTotal, IInv, CallInv
      <4>2. budget # NoRow
        BY <4>1, NoRowAssumption
      <4>3. QED
        BY <3>1, <3>3, <4>1, <4>2 DEF SetTotal, NeverBelowZero, BudgetRow, BudgetCounters
    <3>4. QED
      BY <2>3, <3>2, <3>3
  <2>4. ASSUME NEW c \in Calls, Start(c) \/ Work(c) \/ Abort(c),
               ~Apply(c), ~CreateBudget(c), ~SetTotal(c)
        PROVE  NeverBelowZero'
    BY <2>4, QuietSteps DEF NeverBelowZero
  <2>5. QED
    BY <2>1, <2>2, <2>3, <2>4 DEF Next, Work
<1>3. QED
  BY <1>1, <1>2, SpecIInv, PTL DEF Spec

---------------------------------------------------------------------------
(* Which figures cannot be stale.  The condition of a transaction pins only *)
(* the counters it changes, so a check that reads another counter is sound  *)
(* exactly when no overlapping request moves that one.                      *)

Untouched ==
  {k \in BudgetCounters : \A r \in Requests :
     k \notin Touched(r.op) /\ ~(k = "total" /\ r.op = "set_total")}

BudgetAgrees(b) == \A k \in Untouched : b[k] = OpeningBudget[k]
LineAgrees(line, g) ==
  \A k \in Untouched \cap Counters : OrZeroes(line)[k] = OrZeroes(OpeningLines[g])[k]

Frozen ==
  /\ \A b \in Readable(budget, budgetPast) : BudgetAgrees(b)
  /\ \A g \in Categories : \A line \in Readable(lines[g], linesPast[g]) : LineAgrees(line, g)
  /\ \A c \in Calls :
       /\ phase[c] \in {"line", "write"} => BudgetAgrees(seenBudget[c])
       /\ phase[c] = "write" => LineAgrees(seenLine[c], req[c].category)

(* Every version of every row, and everything a call has read, agrees with  *)
(* the opening state on the counters no request touches.                    *)
LEMMA FrozenInvariant ==
  ASSUME ~FromNothing PROVE Spec => []Frozen
<1>1. Init => Frozen
  BY DEF Init, Frozen, Readable, BudgetAgrees, LineAgrees
<1>2. IInv /\ NeverMissing /\ Frozen /\ [Next]_vars => Frozen'
  <2> SUFFICES ASSUME IInv, NeverMissing, Frozen, [Next]_vars PROVE Frozen'
    OBVIOUS
  <2>1. CASE UNCHANGED vars
    BY <2>1 DEF vars, Frozen, Readable, BudgetAgrees, LineAgrees
  <2>2. ASSUME NEW c \in Calls, Apply(c) PROVE Frozen'
    <3> DEFINE g == req[c].category
    <3>1. req[c] \in Requests /\ g \in Categories
      BY <2>2, ApplyAddsDeltas DEF IInv, CallInv, Apply
    <3>2. ASSUME NEW k \in Untouched \cap Counters
          PROVE  /\ budget'[k] = budget[k]
                 /\ OrZeroes(lines'[g])[k] = OrZeroes(lines[g])[k]
      <4>1. Delta(req[c], seenLine[c], k) = 0
        <5>1. \A r \in Requests : k \notin Touched(r.op)
          BY DEF Untouched
        <5>2. QED
          BY <3>1, <5>1 DEF Delta
      <4>2. OrZeroes(lines[g])[k] \in Int /\ budget[k] \in Int
        BY <2>2, ApplyAddsDeltas, OrZeroesType
        DEF IInv, TypeOK, LineRow, BudgetRow, BudgetCounters
      <4>3. OrZeroes(lines'[g]) = lines'[g]
        BY <2>2, ApplyAddsDeltas, NoRowAssumption DEF OrZeroes
      <4>4. QED
        BY <2>2, <4>1, <4>2, <4>3, ApplyAddsDeltas
    <3>3. BudgetAgrees(budget')
      BY <2>2, <3>2, ApplyAddsDeltas
      DEF Frozen, Readable, BudgetAgrees, Untouched, BudgetCounters
    <3>4. LineAgrees(lines'[g], g)
      BY <3>1, <3>2 DEF Frozen, Readable, LineAgrees
    <3>5. \A h \in Categories \ {g} : lines'[h] = lines[h]
      BY <2>2, ApplyAddsDeltas
    <3>6. \A b \in Readable(budget, budgetPast)' : BudgetAgrees(b)
      BY <2>2, <3>3 DEF Apply, Readable, Remembered, Frozen
    <3>7. \A h \in Categories : \A line \in Readable(lines[h], linesPast[h])' :
            LineAgrees(line, h)
      BY <2>2, <3>4, <3>5 DEF Apply, Readable, Remembered, Frozen, IInv, TypeOK
    <3>8. \A d \in Calls : phase'[d] \in {"line", "write"} => phase'[d] = phase[d]
      BY <2>2 DEF Apply, Go, IInv, TypeOK
    <3>9. QED
      BY <2>2, <3>6, <3>7, <3>8 DEF Apply, memory, Frozen, BudgetAgrees, LineAgrees
  <2>3. ASSUME NEW c \in Calls, SetTotal(c) PROVE Frozen'
    <3>1. "total" \notin Untouched
      <4>1. req[c] \in Requests /\ req[c].op = "set_total"
        BY <2>3 DEF SetTotal, Totalling, IInv, CallInv
      <4>2. "total" \in Untouched => \A r \in Requests : r.op # "set_total"
        BY DEF Untouched
      <4>3. QED
        BY <4>1, <4>2
    <3>2. budget \in BudgetRow
      BY DEF IInv, TypeOK, NeverMissing
    <3>3. BudgetAgrees(budget')
      BY <2>3, <3>1, <3>2
      DEF SetTotal, Frozen, Readable, BudgetAgrees, BudgetRow, Untouched
    <3>4. \A b \in Readable(budget, budgetPast)' : BudgetAgrees(b)
      BY <2>3, <3>3 DEF SetTotal, Readable, Remembered, Frozen
    <3>5. \A d \in Calls : phase'[d] \in {"line", "write"} => phase'[d] = phase[d]
      BY <2>3 DEF SetTotal, Go, IInv, TypeOK
    <3>6. QED
      BY <2>3, <3>4, <3>5 DEF SetTotal, memory, Readable, Frozen, BudgetAgrees, LineAgrees
  <2>4. ASSUME NEW c \in Calls PROVE ~CreateBudget(c)
    BY DEF NeverMissing, CreateBudget
  <2>5. ASSUME NEW c \in Calls, ReadBudget(c) PROVE Frozen'
    BY <2>5 DEF ReadBudget, Go, store, Readable, Frozen, BudgetAgrees, LineAgrees, IInv, TypeOK
  <2>6. ASSUME NEW c \in Calls, ReadLine(c) PROVE Frozen'
    <3>1. req[c].category \in Categories
      BY <2>6, RequestsAssumption DEF ReadLine, IInv, CallInv, Request
    <3>2. QED
      BY <2>6, <3>1
      DEF ReadLine, Go, store, Readable, Frozen, BudgetAgrees, LineAgrees, IInv, TypeOK
  <2>7. ASSUME NEW c \in Calls,
               Start(c) \/ PutExpenseRow(c) \/ Cancel(c) \/ ReadTotal(c) \/ Abort(c)
        PROVE  Frozen'
    <3>1. UNCHANGED <<budget, lines, budgetPast, linesPast>>
      BY <2>7 DEF Start, Accept, PutExpenseRow, Cancel, ReadTotal, Abort, store
    <3>2. \A d \in Calls : phase'[d] \in {"line", "write"} =>
                             /\ phase'[d] = phase[d]
                             /\ UNCHANGED <<seenBudget[d], seenLine[d], req[d]>>
      BY <2>7 DEF Start, Accept, PutExpenseRow, Cancel, ReadTotal, Abort, Go, store, memory,
                  FirstPhase, IInv, TypeOK
    <3>3. QED
      BY <3>1, <3>2 DEF Readable, Frozen, BudgetAgrees, LineAgrees
  <2>8. QED
    BY <2>1, <2>2, <2>3, <2>4, <2>5, <2>6, <2>7 DEF Next, Work
<1>3. QED
  BY <1>1, <1>2, SpecIInv, NeverMissingInvariant, PTL DEF Spec

(* Only requests of these operations arrive. *)
Only(ops) == \A r \in Requests : r.op \in ops

(* Between the reads of a call that is about to write and its transaction,  *)
(* the counters no request touches have not moved.                          *)
LEMMA ChecksStillHold ==
  ASSUME Frozen, NEW c \in Calls, Apply(c), req[c].category \in Categories
  PROVE  /\ \A k \in Untouched : seenBudget[c][k] = budget[k]
         /\ \A k \in Untouched \cap Counters :
              OrZeroes(seenLine[c])[k] = OrZeroes(lines[req[c].category])[k]
BY DEF Frozen, Apply, Readable, BudgetAgrees, LineAgrees

(* With nobody spending directly and the total left alone, what is spent    *)
(* and committed never exceeds the total, whatever commitments race.        *)
THEOREM CommitmentsStayWithinTotal ==
  ASSUME ~FromNothing, EventHeadroom(OpeningBudget) >= 0,
         Only({"allocate", "commit", "release"})
  PROVE  Spec => []EventCovered
<1>1. "total" \in Untouched /\ "spent" \in Untouched
  BY DEF Untouched, Only, BudgetCounters, Counters, Touched, Expenses
<1>2. Init => EventCovered
  BY DEF Init, EventCovered
<1>3. IInv /\ NeverMissing /\ Frozen /\ EventCovered /\ [Next]_vars => EventCovered'
  <2> SUFFICES ASSUME IInv, NeverMissing, Frozen, EventCovered, [Next]_vars
               PROVE  EventCovered'
    OBVIOUS
  <2>1. CASE UNCHANGED budget
    BY <2>1 DEF EventCovered
  <2>2. ASSUME NEW c \in Calls, Apply(c) PROVE EventCovered'
    <3> DEFINE s == Delta(req[c], seenLine[c], "spent")
               d == Delta(req[c], seenLine[c], "committed")
    <3>1. /\ budget \in BudgetRow /\ budget # NoRow /\ d \in Int /\ s \in Int
          /\ budget'.total = budget.total
          /\ budget'.spent = budget.spent + s
          /\ budget'.committed = budget.committed + d
      BY <2>2, ApplyAddsDeltas, NoRowAssumption DEF Counters
    <3>2. req[c] \in Request /\ req[c].op \in {"allocate", "commit", "release"}
      BY <2>2, RequestsAssumption DEF IInv, CallInv, Apply, Only
    <3>3. s = 0
      BY <3>2 DEF Delta, Touched, Expenses
    <3>4. EventHeadroom(budget) >= 0 /\ EventHeadroom(budget)' = EventHeadroom(budget) - d
      BY <3>1, <3>3
      DEF EventCovered, EventHeadroom, BudgetRow, BudgetCounters, Counters
    <3>5. EventHeadroom(budget) \in Int
      BY <3>1 DEF EventHeadroom, BudgetRow, BudgetCounters, Counters
    <3>6. CASE req[c].op = "commit"
      <4>1. /\ d = req[c].amount /\ "committed" \in Touched(req[c].op)
            /\ req[c].amount <= EventHeadroom(seenBudget[c])
        BY <2>2, <3>6 DEF Delta, Touched, Counters, Apply, IInv, CallInv, Admissible,
                          CanMove, NeedsHeadroom
      <4>2. EventHeadroom(seenBudget[c]) = EventHeadroom(budget)
        BY <1>1, <2>2, <4>1, ApplyAddsDeltas, ChecksStillHold DEF EventHeadroom
      <4>3. QED
        BY <3>1, <3>4, <3>5, <4>1, <4>2 DEF EventCovered
    <3>7. CASE req[c].op # "commit"
      <4>1. d <= 0
        BY <3>2, <3>7 DEF Delta, Touched, Request, Expenses
      <4>2. QED
        BY <3>1, <3>4, <3>5, <4>1 DEF EventCovered
    <3>8. QED
      BY <3>6, <3>7
  <2>3. ASSUME NEW c \in Calls PROVE ~CreateBudget(c) /\ ~SetTotal(c)
    BY DEF NeverMissing, CreateBudget, SetTotal, IInv, CallInv, Totalling, Only
  <2>4. QED
    BY <2>1, <2>2, <2>3, QuietSteps DEF Next, vars
<1>4. QED
  BY <1>2, <1>3, SpecIInv, NeverMissingInvariant, FrozenInvariant, PTL DEF Spec

---------------------------------------------------------------------------
(* Reservations alone are as good as atomic. *)

(* A row in terms of the counters a reservation reads. *)
LEMMA ReservationRow ==
  ASSUME NEW b \in BudgetRow, NEW line \in LineRow
  PROVE  /\ EventHeadroom(b) = Atomic!Remaining(b, b.total)
         /\ LineHeadroom(line) = Atomic!Remaining(line, line.allocated)
BY DEF EventHeadroom, LineHeadroom, Atomic!Remaining

(* While only commitments and releases arrive, every transaction is checked *)
(* against, and applied to, the very state it finds: Budget implements the  *)
(* atomic ledger, and so no reservation can overdraw the event or a         *)
(* category.                                                                *)
THEOREM ReservationsAreAtomic ==
  ASSUME ~FromNothing, Only({"commit", "release"})
  PROVE  Spec => ImplementsAtomic
<1>1. {"total", "spent", "allocated"} \subseteq Untouched
  BY DEF Untouched, Only, BudgetCounters, Counters, Touched, Expenses
<1>2. Init => Atomic!Init
  BY DEF Init, Atomic!Init
<1>3. IInv /\ NeverMissing /\ Frozen /\ [Next]_vars => [Atomic!Next]_<<budget, lines>>
  <2> SUFFICES ASSUME IInv, NeverMissing, Frozen, Next
               PROVE  Atomic!Next \/ UNCHANGED <<budget, lines>>
    BY DEF vars
  <2>1. ASSUME NEW c \in Calls, Apply(c) PROVE Atomic!Next
    <3> DEFINE g == req[c].category
               n == req[c].amount
               d == Delta(req[c], seenLine[c], "committed")
    <3>1. /\ req[c] \in Requests /\ req[c] \in Request
          /\ req[c].op \in {"commit", "release"}
          /\ CanMove(req[c], seenBudget[c], seenLine[c])
      BY <2>1, RequestsAssumption DEF IInv, CallInv, Apply, Admissible, Only
    <3>2. /\ budget \in BudgetRow /\ budget' \in BudgetRow
          /\ g \in Categories /\ lines'[g] \in LineRow
          /\ \A h \in Categories \ {g} : lines'[h] = lines[h]
          /\ budget'.total = budget.total
          /\ d \in Int
          /\ budget'.committed = budget.committed + d
          /\ lines'[g].committed = OrZeroes(lines[g]).committed + d
      BY <2>1, ApplyAddsDeltas DEF Counters
    <3>3. \A k \in {"spent", "allocated"} : Delta(req[c], seenLine[c], k) = 0
      BY <3>1 DEF Delta, Touched, Expenses
    <3>4. seenLine[c] # NoRow /\ lines[g] # NoRow /\ lines[g] \in LineRow
      BY <2>1, <3>1, <3>2 DEF CanMove, Apply, Pinned, IInv, TypeOK
    <3>5. OrZeroes(lines[g]) = lines[g] /\ OrZeroes(seenLine[c]) = seenLine[c]
      BY <3>4 DEF OrZeroes
    <3>6. /\ budget'.spent = budget.spent /\ budget'.allocated = budget.allocated
          /\ lines'[g].spent = lines[g].spent /\ lines'[g].allocated = lines[g].allocated
      <4>1. budget.spent \in Int /\ budget.allocated \in Int
        BY <3>2 DEF BudgetRow, BudgetCounters, Counters
      <4>2. lines[g].spent \in Int /\ lines[g].allocated \in Int
        BY <3>4 DEF LineRow, Counters
      <4>3. QED
        BY <2>1, <3>3, <3>5, <4>1, <4>2, ApplyAddsDeltas DEF Counters
    <3>7. /\ budget' = [budget EXCEPT !.committed = budget.committed + d]
          /\ lines'[g] = [lines[g] EXCEPT !.committed = lines[g].committed + d]
      BY <3>2, <3>4, <3>5, <3>6 DEF BudgetRow, BudgetCounters, LineRow, Counters
    <3>8. Atomic!Shift(g, 0, d)
      <4>1. budget' = [budget EXCEPT !.spent = @ + 0, !.committed = @ + d]
        <5>1. budget.spent \in Int
          BY <3>2 DEF BudgetRow, BudgetCounters, Counters
        <5>2. [budget EXCEPT !.spent = @ + 0] = budget
          BY <3>2, <5>1 DEF BudgetRow
        <5>3. QED
          BY <3>7, <5>2
      <4>2. [lines[g] EXCEPT !.spent = @ + 0, !.committed = @ + d] = lines'[g]
        <5>1. lines[g].spent \in Int
          BY <3>4 DEF LineRow, Counters
        <5>2. [lines[g] EXCEPT !.spent = @ + 0] = lines[g]
          BY <3>4, <5>1 DEF LineRow
        <5>3. QED
          BY <3>7, <5>2
      <4>3. lines' = [lines EXCEPT ![g].spent = @ + 0, ![g].committed = @ + d]
        BY <2>1, <3>2, <4>2 DEF Apply, IInv, TypeOK
      <4>4. QED
        BY <4>1, <4>3 DEF Atomic!Shift
    <3>9. /\ seenBudget[c].committed = budget.committed
          /\ seenLine[c].committed = lines[g].committed
          /\ EventHeadroom(seenBudget[c]) = EventHeadroom(budget)
          /\ LineHeadroom(seenLine[c]) = LineHeadroom(lines[g])
      <4>1. "committed" \in Touched(req[c].op)
        BY <3>1 DEF Touched, Counters
      <4>2. QED
        BY <1>1, <2>1, <3>2, <3>5, <4>1, ApplyAddsDeltas, ChecksStillHold
        DEF EventHeadroom, LineHeadroom, Counters
    <3>10. CASE req[c].op = "commit"
      <4>1. n <= EventHeadroom(budget) /\ n <= LineHeadroom(lines[g])
        BY <3>1, <3>9, <3>10 DEF CanMove, NeedsHeadroom
      <4>2. Atomic!Affordable(g, n) /\ d = n
        BY <3>2, <3>4, <3>10, <4>1, ReservationRow
        DEF Atomic!Affordable, Delta, Touched, Counters
      <4>3. Atomic!Commit(g, n)
        BY <3>8, <4>2 DEF Atomic!Commit
      <4>4. QED
        BY <3>1, <3>2, <4>3 DEF Atomic!Next
    <3>11. CASE req[c].op = "release"
      <4>1. d = -n /\ "committed" \in Touched(req[c].op)
        BY <3>11 DEF Delta, Touched, Counters
      <4>2. seenBudget[c].committed + d >= 0 /\ seenLine[c].committed + d >= 0
        BY <3>1, <4>1 DEF CanMove
      <4>3. Atomic!Reserved(g, n)
        BY <3>1, <3>2, <3>4, <3>9, <4>1, <4>2
        DEF Atomic!Reserved, BudgetRow, BudgetCounters, LineRow, Counters, Request
      <4>4. Atomic!Release(g, n)
        BY <3>8, <4>1, <4>3 DEF Atomic!Release
      <4>5. QED
        BY <3>1, <3>2, <4>4 DEF Atomic!Next
    <3>12. QED
      BY <3>1, <3>10, <3>11
  <2>2. ASSUME NEW c \in Calls PROVE ~CreateBudget(c) /\ ~SetTotal(c)
    BY DEF NeverMissing, CreateBudget, SetTotal, IInv, CallInv, Totalling, Only
  <2>3. QED
    BY <2>1, <2>2, QuietSteps DEF Next
<1>4. QED
  BY <1>2, <1>3, SpecIInv, NeverMissingInvariant, FrozenInvariant, PTL
  DEF Spec, ImplementsAtomic, Atomic!Spec

---------------------------------------------------------------------------
(***************************************************************************)
(* Spending, directly and from reservations, beside releases: the other    *)
(* workload in which the calls of Budget are as good as atomic.  A         *)
(* transaction that spends pins what was spent and not what was committed; *)
(* that is harmless as long as commitments only fall, for then a check on  *)
(* an old figure is stricter than one on the current figure.               *)
(***************************************************************************)
SpendingOps == Expenses \cup {"release"}

LineFell(line, current) ==
  line # NoRow /\ current # NoRow => line.committed >= current.committed

Falling ==
  /\ \A b \in Readable(budget, budgetPast) : b.committed >= budget.committed
  /\ \A g \in Categories : \A line \in Readable(lines[g], linesPast[g]) :
       LineFell(line, lines[g])
  /\ \A c \in Calls :
       /\ phase[c] \in {"line", "write"} => seenBudget[c].committed >= budget.committed
       /\ phase[c] = "write" => LineFell(seenLine[c], lines[req[c].category])

(* What a transaction of this workload does to the two rows: it moves spent *)
(* up, committed down, and nothing else.                                    *)
LEMMA SpendingStep ==
  ASSUME IInv, Only(SpendingOps), NEW c \in Calls, Apply(c)
  PROVE  LET g == req[c].category
             s == Delta(req[c], seenLine[c], "spent")
             d == Delta(req[c], seenLine[c], "committed")
         IN /\ req[c] \in Requests /\ req[c] \in Request /\ req[c].op \in SpendingOps
            /\ CanMove(req[c], seenBudget[c], seenLine[c])
            /\ g \in Categories /\ budget \in BudgetRow
            /\ lines[g] # NoRow /\ lines[g] \in LineRow
            /\ seenLine[c] # NoRow /\ seenLine[c] \in LineRow
            /\ seenBudget[c] \in BudgetRow
            /\ s \in Int /\ d \in Int /\ d <= 0
            /\ budget' = [budget EXCEPT !.spent = @ + s, !.committed = @ + d]
            /\ lines' = [lines EXCEPT ![g].spent = @ + s, ![g].committed = @ + d]
<1> DEFINE g == req[c].category
           s == Delta(req[c], seenLine[c], "spent")
           d == Delta(req[c], seenLine[c], "committed")
<1>1. /\ req[c] \in Requests /\ req[c] \in Request /\ req[c].op \in SpendingOps
      /\ CanMove(req[c], seenBudget[c], seenLine[c])
  BY RequestsAssumption DEF IInv, CallInv, Apply, Admissible, Only, SpendingOps, Expenses
<1>2. /\ budget \in BudgetRow /\ budget' \in BudgetRow
      /\ g \in Categories /\ lines'[g] \in LineRow
      /\ \A h \in Categories \ {g} : lines'[h] = lines[h]
      /\ budget'.total = budget.total
      /\ s \in Int /\ d \in Int
      /\ budget'.spent = budget.spent + s /\ budget'.committed = budget.committed + d
      /\ lines'[g].spent = OrZeroes(lines[g]).spent + s
      /\ lines'[g].committed = OrZeroes(lines[g]).committed + d
  BY ApplyAddsDeltas DEF Counters
<1>3. Delta(req[c], seenLine[c], "allocated") = 0
  BY <1>1 DEF Delta, Touched, SpendingOps, Expenses
<1>4. /\ seenLine[c] # NoRow /\ seenLine[c] \in LineRow
      /\ lines[g] # NoRow /\ lines[g] \in LineRow
      /\ seenBudget[c] \in BudgetRow
  BY <1>1, <1>2 DEF CanMove, Apply, Pinned, IInv, TypeOK, CallInv
<1>5. OrZeroes(lines[g]) = lines[g]
  BY <1>4 DEF OrZeroes
<1>6. budget'.allocated = budget.allocated /\ lines'[g].allocated = lines[g].allocated
  <2>1. budget.allocated \in Int /\ lines[g].allocated \in Int
    BY <1>2, <1>4 DEF BudgetRow, BudgetCounters, LineRow, Counters
  <2>2. QED
    BY <1>3, <1>5, <2>1, ApplyAddsDeltas DEF Counters
<1>7. d <= 0
  BY <1>1 DEF Delta, Touched, SpendingOps, Expenses, Request
<1>8. budget' = [budget EXCEPT !.spent = @ + s, !.committed = @ + d]
  BY <1>2, <1>6 DEF BudgetRow, BudgetCounters, Counters
<1>9. lines'[g] = [lines[g] EXCEPT !.spent = @ + s, !.committed = @ + d]
  BY <1>2, <1>4, <1>5, <1>6 DEF LineRow, Counters
<1>10. lines' = [lines EXCEPT ![g].spent = @ + s, ![g].committed = @ + d]
  BY <1>2, <1>9 DEF Apply, IInv, TypeOK
<1>11. QED
  BY <1>1, <1>2, <1>4, <1>7, <1>8, <1>10

(* Nothing that was read, or may still be read, is below the current        *)
(* commitments.                                                             *)
LEMMA FallingInvariant ==
  ASSUME ~FromNothing, Only(SpendingOps)
  PROVE  Spec => []Falling
<1>1. Init => Falling
  BY OpeningAssumption
  DEF Init, Falling, Readable, LineFell, BudgetRow, BudgetCounters, Counters
<1>2. IInv /\ NeverMissing /\ Falling /\ [Next]_vars => Falling'
  <2> SUFFICES ASSUME IInv, NeverMissing, Falling, [Next]_vars PROVE Falling'
    OBVIOUS
  <2>1. CASE UNCHANGED vars
    BY <2>1 DEF vars, Falling, Readable, LineFell
  <2>2. ASSUME NEW c \in Calls, Apply(c) PROVE Falling'
    <3> DEFINE g == req[c].category
               d == Delta(req[c], seenLine[c], "committed")
    <3>1. /\ d \in Int /\ d <= 0 /\ g \in Categories
          /\ budget \in BudgetRow /\ budget'.committed = budget.committed + d
          /\ lines[g] # NoRow /\ lines[g] \in LineRow
          /\ lines'[g] # NoRow /\ lines'[g].committed = lines[g].committed + d
          /\ \A h \in Categories \ {g} : lines'[h] = lines[h]
      <4>1. lines'[g] \in LineRow /\ lines'[g] # NoRow
        BY <2>2, ApplyAddsDeltas, NoRowAssumption
      <4>2. lines[g] # NoRow => OrZeroes(lines[g]) = lines[g]
        BY DEF OrZeroes
      <4>3. QED
        BY <2>2, <4>1, <4>2, SpendingStep, ApplyAddsDeltas DEF Counters
    <3>2. budget.committed \in Int /\ lines[g].committed \in Int
      BY <3>1 DEF BudgetRow, BudgetCounters, LineRow, Counters
    <3>3. budget'.committed <= budget.committed /\ lines'[g].committed <= lines[g].committed
      BY <3>1, <3>2
    <3>4. \A b \in Readable(budget, budgetPast)' :
            b = budget' \/ b \in Readable(budget, budgetPast)
      BY <2>2 DEF Apply, Readable, Remembered
    <3>5. \A b \in Readable(budget, budgetPast) : b \in BudgetRow
      BY DEF Readable, NeverMissing, IInv, TypeOK
    <3>6. \A b \in BudgetRow : b.committed \in Int
      BY DEF BudgetRow, BudgetCounters, Counters
    <3>7. \A b \in Readable(budget, budgetPast)' : b.committed >= budget'.committed
      BY <3>1, <3>2, <3>3, <3>4, <3>5, <3>6 DEF Falling
    <3>8. \A h \in Categories : \A line \in LineRow \cup {NoRow} :
            LineFell(line, lines[h]) => LineFell(line, lines'[h])
      <4>1. \A line \in LineRow : line.committed \in Int
        BY DEF LineRow, Counters
      <4>2. QED
        BY <3>1, <3>2, <3>3, <4>1 DEF LineFell
    <3>9. ASSUME NEW h \in Categories, NEW line \in Readable(lines[h], linesPast[h])'
          PROVE  LineFell(line, lines'[h])
      <4>1. CASE line = lines'[h]
        <5>1. lines'[h] # NoRow => lines'[h].committed \in Int
          BY <3>1, <3>2 DEF IInv, TypeOK, LineRow, Counters
        <5>2. QED
          BY <4>1, <5>1 DEF LineFell
      <4>2. CASE line # lines'[h]
        <5>1. line \in Readable(lines[h], linesPast[h])
          BY <2>2, <4>2 DEF Apply, Readable, Remembered, IInv, TypeOK
        <5>2. line \in LineRow \cup {NoRow}
          BY <5>1 DEF Readable, IInv, TypeOK
        <5>3. QED
          BY <3>8, <5>1, <5>2 DEF Falling
      <4>3. QED
        BY <4>1, <4>2
    <3>10. ASSUME NEW e \in Calls
           PROVE  /\ phase'[e] \in {"line", "write"} =>
                       seenBudget'[e].committed >= budget'.committed
                  /\ phase'[e] = "write" =>
                       LineFell(seenLine'[e], lines'[req'[e].category])
      <4>1. /\ phase'[e] \in {"line", "write"} => phase'[e] = phase[e]
            /\ UNCHANGED <<seenBudget, seenLine, req>>
        BY <2>2 DEF Apply, Go, memory, IInv, TypeOK
      <4>2. phase[e] \in {"line", "write"} => seenBudget[e].committed \in Int
        BY <3>6 DEF IInv, CallInv
      <4>3. phase[e] = "write" => req[e].category \in Categories
                                  /\ seenLine[e] \in LineRow \cup {NoRow}
        BY RequestsAssumption DEF IInv, CallInv, TypeOK, Request
      <4>4. QED
        BY <3>1, <3>2, <3>3, <3>8, <4>1, <4>2, <4>3 DEF Falling
    <3>11. QED
      BY <3>7, <3>9, <3>10 DEF Falling
  <2>3. ASSUME NEW c \in Calls PROVE ~CreateBudget(c) /\ ~SetTotal(c)
    BY DEF NeverMissing, CreateBudget, SetTotal, IInv, CallInv, Totalling, Only,
           SpendingOps, Expenses
  <2>4. ASSUME NEW c \in Calls, ReadBudget(c) PROVE Falling'
    BY <2>4 DEF ReadBudget, Go, store, Readable, Falling, LineFell, IInv, TypeOK
  <2>5. ASSUME NEW c \in Calls, ReadLine(c) PROVE Falling'
    <3>1. req[c].category \in Categories
      BY <2>5, RequestsAssumption DEF ReadLine, IInv, CallInv, Request
    <3>2. QED
      BY <2>5, <3>1 DEF ReadLine, Go, store, Readable, Falling, LineFell, IInv, TypeOK
  <2>6. ASSUME NEW c \in Calls,
               Start(c) \/ PutExpenseRow(c) \/ Cancel(c) \/ ReadTotal(c) \/ Abort(c)
        PROVE  Falling'
    <3>1. UNCHANGED <<budget, lines, budgetPast, linesPast>>
      BY <2>6 DEF Start, Accept, PutExpenseRow, Cancel, ReadTotal, Abort, store
    <3>2. \A d \in Calls : phase'[d] \in {"line", "write"} =>
                             /\ phase'[d] = phase[d]
                             /\ UNCHANGED <<seenBudget[d], seenLine[d], req[d]>>
      BY <2>6 DEF Start, Accept, PutExpenseRow, Cancel, ReadTotal, Abort, Go, store, memory,
                  FirstPhase, IInv, TypeOK
    <3>3. QED
      BY <3>1, <3>2 DEF Readable, Falling, LineFell
  <2>7. QED
    BY <2>1, <2>2, <2>3, <2>4, <2>5, <2>6 DEF Next, Work
<1>3. QED
  BY <1>1, <1>2, SpecIInv, NeverMissingInvariant, PTL DEF Spec

(* The checks a transaction passed on what it read hold of what it finds. *)
LEMMA SpendingChecked ==
  ASSUME ~FromNothing, Only(SpendingOps), IInv, Frozen, Falling,
         NEW c \in Calls, Apply(c)
  PROVE  LET g == req[c].category
             n == req[c].amount
             s == Delta(req[c], seenLine[c], "spent")
             d == Delta(req[c], seenLine[c], "committed")
         IN \/ /\ req[c].op = "expense" /\ s = n /\ d = 0
               /\ n <= EventHeadroom(budget) /\ n <= LineHeadroom(lines[g])
            \/ /\ req[c].op = "release" /\ s = 0 /\ d = -n
               /\ n <= budget.committed /\ n <= lines[g].committed
            \/ /\ req[c].op = "expense_committed" /\ s = n /\ d = -n
               /\ n <= budget.committed /\ n <= lines[g].committed
<1> DEFINE g == req[c].category
           n == req[c].amount
           s == Delta(req[c], seenLine[c], "spent")
           d == Delta(req[c], seenLine[c], "committed")
           seenB == seenBudget[c]
           seenL == seenLine[c]
<1>1. /\ req[c] \in Requests /\ req[c] \in Request /\ req[c].op \in SpendingOps
      /\ CanMove(req[c], seenB, seenL)
      /\ g \in Categories /\ budget \in BudgetRow
      /\ lines[g] # NoRow /\ lines[g] \in LineRow
      /\ seenL # NoRow /\ seenL \in LineRow /\ seenB \in BudgetRow
  BY SpendingStep
<1>2. n \in Nat
  BY <1>1 DEF Request
<1>3. /\ \A b \in {budget, seenB} : b.total \in Int /\ b.spent \in Int /\ b.committed \in Int
      /\ \A l \in {lines[g], seenL} :
           l.allocated \in Int /\ l.spent \in Int /\ l.committed \in Int
  BY <1>1 DEF BudgetRow, BudgetCounters, LineRow, Counters
<1>4. OrZeroes(lines[g]) = lines[g] /\ OrZeroes(seenL) = seenL
  BY <1>1 DEF OrZeroes
<1>5. \A k \in Touched(req[c].op) : budget[k] = seenB[k] /\ lines[g][k] = seenL[k]
  BY <1>4, ApplyAddsDeltas
<1>6. seenB.total = budget.total /\ seenL.allocated = lines[g].allocated
  <2>1. "total" \in Untouched /\ "allocated" \in Untouched \cap Counters
    BY DEF Untouched, Only, SpendingOps, BudgetCounters, Counters, Touched, Expenses
  <2>2. QED
    BY <1>1, <1>4, <2>1, ChecksStillHold
<1>7. CASE req[c].op = "expense"
  <2>1. /\ s = n /\ d = 0 /\ "spent" \in Touched(req[c].op)
        /\ n <= EventHeadroom(seenB) /\ n <= LineHeadroom(seenL)
    BY <1>1, <1>7 DEF Delta, Touched, Expenses, Counters, CanMove, NeedsHeadroom
  <2>2. seenB.committed >= budget.committed /\ seenL.committed >= lines[g].committed
    BY <1>1 DEF Falling, Apply, LineFell
  <2>3. n <= EventHeadroom(budget) /\ n <= LineHeadroom(lines[g])
    BY <1>2, <1>3, <1>5, <1>6, <2>1, <2>2 DEF EventHeadroom, LineHeadroom
  <2>4. QED
    BY <1>7, <2>1, <2>3
<1>8. CASE req[c].op # "expense"
  <2>1. /\ d = -n /\ "committed" \in Touched(req[c].op)
        /\ seenB.committed + d >= 0 /\ seenL.committed + d >= 0
    BY <1>1, <1>8 DEF Delta, Touched, Expenses, Counters, CanMove, SpendingOps
  <2>2. n <= budget.committed /\ n <= lines[g].committed
    BY <1>2, <1>3, <1>5, <2>1
  <2>3. s = IF req[c].op = "release" THEN 0 ELSE n
    BY <1>1, <1>8 DEF Delta, Touched, Expenses, Counters, SpendingOps
  <2>4. QED
    BY <1>1, <1>8, <2>1, <2>2, <2>3 DEF SpendingOps, Expenses
<1>9. QED
  BY <1>7, <1>8

(* Every transaction is one step of the atomic ledger. *)
LEMMA SpendingRefines ==
  ASSUME ~FromNothing, Only(SpendingOps), IInv, Frozen, Falling,
         NEW c \in Calls, Apply(c)
  PROVE  Atomic!Next
<1> DEFINE g == req[c].category
           n == req[c].amount
           s == Delta(req[c], seenLine[c], "spent")
           d == Delta(req[c], seenLine[c], "committed")
<1>1. /\ g \in Categories /\ n \in {r.amount : r \in Requests}
      /\ budget \in BudgetRow /\ lines[g] \in LineRow
      /\ Atomic!Shift(g, s, d)
  BY SpendingStep DEF Atomic!Shift
<1>2. CASE req[c].op = "expense"
  <2>1. s = n /\ d = 0 /\ n <= EventHeadroom(budget) /\ n <= LineHeadroom(lines[g])
    BY <1>2, SpendingChecked
  <2>2. Atomic!Affordable(g, n)
    BY <1>1, <2>1, ReservationRow DEF Atomic!Affordable
  <2>3. Atomic!Spend(g, n)
    BY <1>1, <2>1, <2>2 DEF Atomic!Spend
  <2>4. QED
    BY <1>1, <2>3 DEF Atomic!Next
<1>3. CASE req[c].op = "release"
  <2>1. s = 0 /\ d = -n /\ n <= budget.committed /\ n <= lines[g].committed
    BY <1>3, SpendingChecked
  <2>2. Atomic!Release(g, n)
    BY <1>1, <2>1 DEF Atomic!Release, Atomic!Reserved
  <2>3. QED
    BY <1>1, <2>2 DEF Atomic!Next
<1>4. CASE req[c].op = "expense_committed"
  <2>1. s = n /\ d = -n /\ n <= budget.committed /\ n <= lines[g].committed
    BY <1>4, SpendingChecked
  <2>2. Atomic!SpendCommitted(g, n)
    BY <1>1, <2>1 DEF Atomic!SpendCommitted, Atomic!Reserved
  <2>3. QED
    BY <1>1, <2>2 DEF Atomic!Next
<1>5. QED
  BY <1>2, <1>3, <1>4, SpendingChecked

(* With commitments only falling, every expense, payment and release is     *)
(* checked against, and applied to, one state (record_expense, release).    *)
THEOREM SpendingIsAtomic ==
  ASSUME ~FromNothing, Only(SpendingOps)
  PROVE  Spec => ImplementsAtomic
<1>1. Init => Atomic!Init
  BY DEF Init, Atomic!Init
<1>2. IInv /\ NeverMissing /\ Frozen /\ Falling /\ [Next]_vars
        => [Atomic!Next]_<<budget, lines>>
  <2> SUFFICES ASSUME IInv, NeverMissing, Frozen, Falling, Next
               PROVE  Atomic!Next \/ UNCHANGED <<budget, lines>>
    BY DEF vars
  <2>1. ASSUME NEW c \in Calls PROVE ~CreateBudget(c) /\ ~SetTotal(c)
    BY DEF NeverMissing, CreateBudget, SetTotal, IInv, CallInv, Totalling, Only,
           SpendingOps, Expenses
  <2>2. QED
    BY <2>1, SpendingRefines, QuietSteps DEF Next
<1>3. QED
  BY <1>1, <1>2, SpecIInv, NeverMissingInvariant, FrozenInvariant, FallingInvariant, PTL
  DEF Spec, ImplementsAtomic, Atomic!Spec

(* ... and so what is spent and committed stays covered, by the total and,  *)
(* in each category, by its allocation.                                     *)
LEMMA CoverInvariant ==
  ASSUME ~FromNothing, Only(SpendingOps), EventHeadroom(OpeningBudget) >= 0,
         \A g \in Categories : OpeningLines[g] # NoRow => LineHeadroom(OpeningLines[g]) >= 0
  PROVE  Spec => [](EventCovered /\ LinesCovered)
<1>1. Init => EventCovered /\ LinesCovered
  BY DEF Init, EventCovered, LinesCovered
<1>2. IInv /\ NeverMissing /\ Frozen /\ Falling /\ (EventCovered /\ LinesCovered) /\ [Next]_vars
        => (EventCovered /\ LinesCovered)'
  <2> SUFFICES ASSUME IInv, NeverMissing, Frozen, Falling, EventCovered, LinesCovered,
                      [Next]_vars
               PROVE  EventCovered' /\ LinesCovered'
    OBVIOUS
  <2>1. CASE UNCHANGED <<budget, lines>>
    BY <2>1 DEF EventCovered, LinesCovered
  <2>2. ASSUME NEW c \in Calls, Apply(c) PROVE EventCovered' /\ LinesCovered'
    <3> DEFINE g == req[c].category
               n == req[c].amount
               s == Delta(req[c], seenLine[c], "spent")
               d == Delta(req[c], seenLine[c], "committed")
    <3>1. /\ g \in Categories /\ n \in Nat
          /\ budget \in BudgetRow /\ lines[g] # NoRow /\ lines[g] \in LineRow
          /\ s \in Int /\ d \in Int
          /\ budget' = [budget EXCEPT !.spent = @ + s, !.committed = @ + d]
          /\ lines' = [lines EXCEPT ![g].spent = @ + s, ![g].committed = @ + d]
      BY <2>2, SpendingStep DEF Request
    <3>2. /\ budget.total \in Int /\ budget.spent \in Int /\ budget.committed \in Int
          /\ lines[g].allocated \in Int /\ lines[g].spent \in Int
          /\ lines[g].committed \in Int
      BY <3>1 DEF BudgetRow, BudgetCounters, LineRow, Counters
    <3>3. EventHeadroom(budget) >= 0 /\ LineHeadroom(lines[g]) >= 0
      BY <3>1 DEF NeverMissing, EventCovered, LinesCovered
    <3>4. s + d <= EventHeadroom(budget) /\ s + d <= LineHeadroom(lines[g])
      <4>1. \/ s + d = n /\ n <= EventHeadroom(budget) /\ n <= LineHeadroom(lines[g])
            \/ s + d <= 0
        BY <2>2, <3>1, SpendingChecked
      <4>2. EventHeadroom(budget) \in Int /\ LineHeadroom(lines[g]) \in Int
        BY <3>2 DEF EventHeadroom, LineHeadroom
      <4>3. QED
        BY <3>1, <3>3, <4>1, <4>2
    <3>5. /\ budget'.total = budget.total /\ budget'.spent = budget.spent + s
          /\ budget'.committed = budget.committed + d
      BY <3>1 DEF BudgetRow, BudgetCounters, Counters
    <3>6. /\ lines'[g].allocated = lines[g].allocated
          /\ lines'[g].spent = lines[g].spent + s
          /\ lines'[g].committed = lines[g].committed + d
          /\ \A h \in Categories \ {g} : lines'[h] = lines[h]
      BY <3>1 DEF LineRow, Counters, IInv, TypeOK
    <3>7. EventHeadroom(budget') >= 0
      BY <3>1, <3>2, <3>4, <3>5 DEF EventHeadroom
    <3>8. LineHeadroom(lines'[g]) >= 0
      BY <3>1, <3>2, <3>4, <3>6 DEF LineHeadroom
    <3>9. QED
      BY <3>6, <3>7, <3>8 DEF EventCovered, LinesCovered
  <2>3. ASSUME NEW c \in Calls PROVE ~CreateBudget(c) /\ ~SetTotal(c)
    BY DEF NeverMissing, CreateBudget, SetTotal, IInv, CallInv, Totalling, Only,
           SpendingOps, Expenses
  <2>4. QED
    BY <2>1, <2>2, <2>3, QuietSteps DEF Next, vars
<1>3. QED
  BY <1>1, <1>2, SpecIInv, NeverMissingInvariant, FrozenInvariant, FallingInvariant, PTL
  DEF Spec

(* No overlap of expenses, payments and releases overdraws the event.       *)
THEOREM SpendingCoveredByTotal ==
  ASSUME ~FromNothing, Only(SpendingOps), EventHeadroom(OpeningBudget) >= 0,
         \A g \in Categories : OpeningLines[g] # NoRow => LineHeadroom(OpeningLines[g]) >= 0
  PROVE  Spec => []EventCovered
BY CoverInvariant, PTL

(* ... nor any of its categories.                                           *)
THEOREM SpendingCoveredByLines ==
  ASSUME ~FromNothing, Only(SpendingOps), EventHeadroom(OpeningBudget) >= 0,
         \A g \in Categories : OpeningLines[g] # NoRow => LineHeadroom(OpeningLines[g]) >= 0
  PROVE  Spec => []LinesCovered
BY CoverInvariant, PTL

(* Expenses, payments and releases leave both levels covered.               *)
THEOREM SpendingStaysCovered ==
  ASSUME ~FromNothing, Only(SpendingOps), EventHeadroom(OpeningBudget) >= 0,
         \A g \in Categories : OpeningLines[g] # NoRow => LineHeadroom(OpeningLines[g]) >= 0
  PROVE  Spec => []SpendingIsCovered
BY SpendingCoveredByTotal, SpendingCoveredByLines, PTL DEF SpendingIsCovered

---------------------------------------------------------------------------
(* The sums.  A figure of the event is a fold over its categories, and what *)
(* was spent one over the calls that completed.                             *)

Figures(k) == [g \in Categories |-> OrZeroes(lines[g])[k]]
Amounts == [c \in Calls |-> rows[c].amount]

LEMMA LineTotalIsSum ==
  ASSUME IsFiniteSet(Categories), NEW k
  PROVE  LineTotal(k) = SumOver(Figures(k), Categories)
<1> DEFINE Folds(iter) ==
             iter = [s \in SUBSET Categories |->
                       IF s = {} THEN 0 ELSE OrZeroes(lines[Some(s)])[k] + iter[s \ {Some(s)}]]
           fold == CHOOSE iter : Folds(iter)
<1>1. LineTotal(k) = fold[Categories]
  BY DEF LineTotal, MapThenSumSet, MapThenFoldSet, Some
<1>2. \A s \in SUBSET Categories : s # {} => Figures(k)[Some(s)] = OrZeroes(lines[Some(s)])[k]
  BY PicksOne DEF Figures
<1>3. \A iter : Folds(iter) <=> IsFold(Figures(k), iter, Categories)
  BY <1>2 DEF IsFold, SumStep
<1>4. \E iter : Folds(iter)
  BY <1>3, SumExists
<1>5. IsFold(Figures(k), fold, Categories)
  BY <1>3, <1>4
<1>6. QED
  BY <1>1, <1>5, FoldSums

LEMMA RowTotalIsSum ==
  ASSUME IsFiniteSet(Completed)
  PROVE  MapThenSumSet(LAMBDA c : rows[c].amount, Completed) = SumOver(Amounts, Completed)
<1> DEFINE Folds(iter) ==
             iter = [s \in SUBSET Completed |->
                       IF s = {} THEN 0 ELSE rows[Some(s)].amount + iter[s \ {Some(s)}]]
           fold == CHOOSE iter : Folds(iter)
<1>1. MapThenSumSet(LAMBDA c : rows[c].amount, Completed) = fold[Completed]
  BY DEF MapThenSumSet, MapThenFoldSet, Some
<1>2. \A s \in SUBSET Completed : s # {} => Amounts[Some(s)] = rows[Some(s)].amount
  BY PicksOne DEF Amounts, Completed
<1>3. \A iter : Folds(iter) <=> IsFold(Amounts, iter, Completed)
  BY <1>2 DEF IsFold, SumStep
<1>4. \E iter : Folds(iter)
  BY <1>3, SumExists
<1>5. IsFold(Amounts, fold, Completed)
  BY <1>3, <1>4
<1>6. QED
  BY <1>1, <1>5, FoldSums

(* Where a transaction moves one category, the sums move with the event.    *)
FiguresMatch == \A k \in Counters : budget[k] = SumOver(Figures(k), Categories)

LEMMA FiguresStayMatched ==
  ASSUME IsFiniteSet(Categories), IInv, IInv', budget # NoRow, FiguresMatch, [Next]_vars,
         \A c \in Calls : ~CreateBudget(c)
  PROVE  FiguresMatch'
<1>1. CASE UNCHANGED <<budget, lines>>
  BY <1>1 DEF FiguresMatch, Figures
<1>2. ASSUME NEW c \in Calls, Apply(c) PROVE FiguresMatch'
  <2> SUFFICES ASSUME NEW k \in Counters PROVE budget'[k] = SumOver(Figures(k)', Categories)
    BY DEF FiguresMatch
  <2> DEFINE g == req[c].category
             d == Delta(req[c], seenLine[c], k)
             f == Figures(k)
             h == Figures(k)'
  <2>1. /\ g \in Categories /\ d \in Int
        /\ budget'[k] = budget[k] + d
        /\ lines'[g] \in LineRow /\ lines'[g][k] = OrZeroes(lines[g])[k] + d
        /\ \A x \in Categories \ {g} : lines'[x] = lines[x]
    BY <1>2, ApplyAddsDeltas
  <2>2. f[g] = OrZeroes(lines[g])[k] /\ h[g] = OrZeroes(lines'[g])[k]
    BY <2>1 DEF Figures
  <2>3. OrZeroes(lines'[g]) = lines'[g]
    BY <2>1, NoRowAssumption DEF OrZeroes
  <2>4. ASSUME NEW x \in Categories PROVE f[x] \in Int /\ h[x] \in Int
    <3>1. OrZeroes(lines[x]) \in LineRow /\ OrZeroes(lines[x])' \in LineRow
      BY OrZeroesType DEF IInv, TypeOK
    <3>2. QED
      BY <3>1 DEF Figures, LineRow
  <2>5. \A x \in Categories \ {g} : f[x] = h[x]
    BY <2>1 DEF Figures
  <2>6. h[g] - f[g] = d
    BY <2>1, <2>2, <2>3, <2>4
  <2>7. budget[k] = SumOver(f, Categories)
    BY DEF FiguresMatch
  <2> HIDE DEF f, h, g, d
  <2>8. SumOver(h, Categories) - SumOver(f, Categories) = h[g] - f[g]
    BY <2>1, <2>4, <2>5, SumChanges
  <2>9. SumOver(f, Categories) \in Int /\ SumOver(h, Categories) \in Int
    BY <2>4, SumIsInt
  <2>10. budget'[k] = SumOver(h, Categories)
    BY <2>1, <2>6, <2>7, <2>8, <2>9
  <2>11. QED
    BY <2>10 DEF h
<1>3. ASSUME NEW c \in Calls, SetTotal(c) PROVE FiguresMatch'
  <2>1. budget \in BudgetRow /\ lines' = lines
    BY <1>3 DEF SetTotal, IInv, TypeOK
  <2>2. \A k \in Counters : budget'[k] = budget[k]
    BY <1>3, <2>1 DEF SetTotal, BudgetRow, BudgetCounters, Counters
  <2>3. QED
    BY <2>1, <2>2 DEF FiguresMatch, Figures
<1>4. QED
  BY <1>1, <1>2, <1>3, QuietSteps DEF Next, vars

(* Each expense row is of its call, which puts it before it moves money.    *)
RowFits(c) ==
  /\ rows[c] \in {NoRow, req[c]}
  /\ phase[c] \in {"idle", "row"} => rows[c] = NoRow
  /\ phase[c] = "row" => req[c].op \in Expenses
  /\ rows[c] # NoRow => req[c].op \in Expenses
  /\ phase[c] \in {"budget", "line", "write"} /\ req[c].op \in Expenses => rows[c] # NoRow

RowsFit == \A c \in Calls : RowFits(c)

LEMMA RowsStayFit ==
  ASSUME IInv, IInv', RowsFit, [Next]_vars
  PROVE  RowsFit'
<1>1. CASE UNCHANGED vars
  BY <1>1 DEF vars, RowsFit, RowFits
<1>2. ASSUME NEW c \in Calls, Start(c) \/ Work(c) \/ Abort(c)
      PROVE  RowsFit'
  <2>1. \A d \in Calls \ {c} : rows'[d] = rows[d] /\ phase'[d] = phase[d] /\ req'[d] = req[d]
    BY <1>2 DEF Start, Accept, Work, Abort, PutExpenseRow, ReadBudget, ReadLine, Apply, Cancel,
       ReadTotal, CreateBudget, SetTotal, store, memory, Go, IInv, TypeOK
  <2>2. RowFits(c)'
    <3>1. CASE Start(c)
      <4>1. PICK r \in Requests : Accept(c, r)
        BY <3>1 DEF Start
      <4>2. rows'[c] = NoRow /\ req'[c] = r /\ phase'[c] = FirstPhase(r)
        BY <4>1 DEF Accept, store, Go, RowsFit, RowFits, IInv, TypeOK
      <4>3. /\ r.op \in Expenses => phase'[c] \in {"row", "refused"}
            /\ phase'[c] = "row" => r.op \in Expenses
        BY <4>2 DEF FirstPhase, Expenses, Moves
      <4>4. QED
        BY <4>2, <4>3 DEF RowFits
    <3>2. CASE PutExpenseRow(c)
      <4>1. rows'[c] = req[c] /\ req'[c] = req[c] /\ phase'[c] = "budget" /\ phase[c] = "row"
        BY <3>2 DEF PutExpenseRow, Go, IInv, TypeOK, memory
      <4>2. req[c].op \in Expenses
        BY <4>1 DEF RowsFit, RowFits
      <4>3. req[c] # NoRow
        BY <4>1, RequestsAssumption, NoRowAssumption DEF IInv, CallInv
      <4>4. QED
        BY <4>1, <4>2, <4>3 DEF RowFits
    <3>3. CASE ReadBudget(c) \/ ReadLine(c) \/ Apply(c) \/ Cancel(c) \/ ReadTotal(c) \/ CreateBudget(c)
               \/ SetTotal(c) \/ Abort(c)
      <4>1. rows' = rows /\ req' = req
        BY <3>3 DEF ReadBudget, ReadLine, Apply, Cancel, ReadTotal, CreateBudget, SetTotal, Abort,
           store, memory
      <4>2. phase'[c] \in {"idle", "row"} => FALSE
        BY <3>3 DEF ReadBudget, ReadLine, Apply, Cancel, ReadTotal, CreateBudget, SetTotal, Abort,
           Go, IInv, TypeOK
      <4>3. phase'[c] \in {"budget", "line", "write"} => phase[c] \in {"budget", "line", "write"}
        BY <3>3 DEF ReadBudget, ReadLine, Apply, Cancel, ReadTotal, CreateBudget, SetTotal, Abort,
           Go, IInv, TypeOK
      <4>4. QED
        BY <4>1, <4>2, <4>3 DEF RowsFit, RowFits
    <3>4. QED
      BY <1>2, <3>1, <3>2, <3>3 DEF Work
  <2>3. QED
    BY <2>1, <2>2 DEF RowsFit, RowFits
<1>3. QED
  BY <1>1, <1>2 DEF Next

(* Of a call that has moved its money, the row is in the sum; of one that   *)
(* has not, it is not, and a row that is in the sum is never written again. *)
SpentMatches == budget.spent = SpentBefore + SumOver(Amounts, Completed)

LEMMA CompletedUnmoved ==
  ASSUME IsFiniteSet(Calls), SpentMatches, budget'.spent = budget.spent,
         SpentBefore' = SpentBefore, Completed' = Completed, \A c \in Completed : rows'[c] = rows[c]
  PROVE  SpentMatches'
<1>1. IsFiniteSet(Completed)
  BY FS_Subset DEF Completed
<1>2. \A c \in Completed : Amounts[c] = Amounts'[c]
  BY DEF Amounts, Completed
<1> DEFINE old == Amounts
           new == Amounts'
<1> HIDE DEF old, new
<1>3. SumOver(old, Completed) = SumOver(new, Completed)
  BY <1>1, <1>2, SumsEqual DEF old, new
<1>4. QED
  BY <1>3 DEF SpentMatches, old, new

LEMMA SpentStaysMatched ==
  ASSUME IsFiniteSet(Calls), IInv, IInv', budget # NoRow,
         RowsFit, RowsFit', SpentMatches, [Next]_vars, \A c \in Calls : ~CreateBudget(c)
  PROVE  SpentMatches'
<1>1. CASE UNCHANGED vars
  <2>1. Completed' = Completed /\ SpentBefore' = SpentBefore /\ rows' = rows /\ budget' = budget
    BY <1>1 DEF vars, Completed, SpentBefore, Creations, TotalSettings
  <2>2. QED
    BY <2>1, CompletedUnmoved
<1>0. ASSUME NEW c \in Calls, Start(c) \/ Work(c) \/ Abort(c) PROVE SpentBefore' = SpentBefore
  BY <1>0, SettingsStep DEF SpentBefore
<1>2. ASSUME NEW c \in Calls, Start(c) \/ Work(c) \/ Abort(c), ~Apply(c) PROVE SpentMatches'
  <2>1. \A d \in Calls \ {c} : rows'[d] = rows[d] /\ phase'[d] = phase[d]
    BY <1>2 DEF Start, Accept, Work, Abort, PutExpenseRow, ReadBudget, ReadLine, Cancel,
       ReadTotal, CreateBudget, SetTotal, store, memory, Go, IInv, TypeOK
  <2>2. phase[c] # "ok"
    BY <1>2 DEF Start, Accept, Work, Abort, PutExpenseRow, ReadBudget, ReadLine, Cancel,
       ReadTotal, CreateBudget, SetTotal, Active
  <2>3. ~CreateBudget(c)
    OBVIOUS
  <2>4. phase'[c] # "ok" \/ rows'[c] = NoRow
    <3>1. CASE SetTotal(c)
      <4>1. req[c].op = "set_total" /\ rows' = rows
        BY <3>1 DEF SetTotal, IInv, CallInv, Totalling
      <4>2. QED
        BY <4>1 DEF RowsFit, RowFits, Expenses
    <3>2. CASE ~SetTotal(c)
      BY <1>2, <2>3, <3>2 DEF Start, Accept, Work, Abort, PutExpenseRow, ReadBudget, ReadLine,
         Cancel, ReadTotal, FirstPhase, Go, IInv, TypeOK
    <3>3. QED
      BY <3>1, <3>2
  <2>5. Completed' = Completed /\ \A d \in Completed : rows'[d] = rows[d]
    BY <2>1, <2>2, <2>4 DEF Completed
  <2>6. budget'.spent = budget.spent
    <3>1. CASE SetTotal(c)
      BY <3>1 DEF SetTotal, IInv, TypeOK, BudgetRow, BudgetCounters, Counters
    <3>2. CASE ~SetTotal(c)
      BY <1>2, <2>3, <3>2, QuietSteps
    <3>3. QED
      BY <3>1, <3>2
  <2>7. QED
    BY <1>0, <1>2, <2>5, <2>6, CompletedUnmoved
<1>3. ASSUME NEW c \in Calls, Apply(c) PROVE SpentMatches'
  <2> DEFINE d == Delta(req[c], seenLine[c], "spent")
  <2>1. /\ d \in Int /\ budget \in BudgetRow /\ budget'.spent = budget.spent + d
    BY <1>3, ApplyAddsDeltas DEF Counters
  <2>2. /\ rows' = rows /\ phase[c] = "write" /\ phase' = [phase EXCEPT ![c] = "ok"]
        /\ req[c] \in Request
    BY <1>3, RequestsAssumption DEF Apply, Go, IInv, CallInv
  <2>3. CASE req[c].op \notin Expenses
    <3>1. rows[c] = NoRow
      BY <2>3 DEF RowsFit, RowFits
    <3>2. d = 0
      BY <2>3 DEF Delta, Touched
    <3>3. budget'.spent = budget.spent
      BY <2>1, <3>2 DEF BudgetRow, BudgetCounters, Counters
    <3>4. Completed' = Completed /\ \A x \in Completed : rows'[x] = rows[x]
      BY <2>2, <3>1 DEF Completed, IInv, TypeOK
    <3>5. QED
      BY <1>0, <1>3, <3>3, <3>4, CompletedUnmoved DEF Work
  <2>4. CASE req[c].op \in Expenses
    <3>1. rows[c] = req[c] /\ rows[c] # NoRow
      BY <2>2, <2>4 DEF RowsFit, RowFits
    <3>2. d = rows[c].amount /\ rows[c].amount \in Int
      BY <2>2, <2>4, <3>1 DEF Delta, Touched, Counters, Expenses, Request
    <3>3. /\ c \notin Completed /\ Completed' = Completed \cup {c}
          /\ Completed' \in SUBSET Calls /\ Completed' \ {c} = Completed
      BY <2>2, <3>1 DEF Completed, IInv, TypeOK
    <3>4. \A x \in Completed' : Amounts[x] \in Int
      <4> SUFFICES ASSUME NEW x \in Completed' PROVE rows[x].amount \in Int
        BY <3>3 DEF Amounts
      <4>1. rows[x] \in Request \cup {NoRow} /\ rows[x] # NoRow
        BY <2>2, <3>3 DEF Completed, IInv, TypeOK
      <4>2. QED
        BY <4>1 DEF Request
    <3> DEFINE done == Completed'
               before == Completed
               f == Amounts
    <3>5. IsFiniteSet(done) /\ IsFiniteSet(before) /\ c \in done /\ done \ {c} = before
      BY <3>3, FS_Subset
    <3>6. f[c] = d
      BY <3>2 DEF Amounts
    <3>7. budget.spent = SpentBefore + SumOver(f, before)
      BY DEF SpentMatches
    <3>8. SpentBefore \in Int /\ SpentBefore' = SpentBefore
      BY <1>0, <1>3, OpeningAssumption DEF SpentBefore, BudgetCounters, Counters, Work
    <3>9. Amounts' = f
      BY <2>2 DEF Amounts
    <3>10. \A x \in done : f[x] \in Int
      BY <3>4
    <3> HIDE DEF f, done, before, d
    <3>11. SumOver(f, done) = f[c] + SumOver(f, before) /\ SumOver(f, before) \in Int
      BY <3>5, <3>10, SumTakes, SumIsInt
    <3>12. budget'.spent = SpentBefore' + SumOver(f, done)
      BY <2>1, <3>6, <3>7, <3>8, <3>11
    <3>13. QED
      BY <3>9, <3>12 DEF SpentMatches, done
  <2>5. QED
    BY <2>3, <2>4
<1>4. QED
  BY <1>1, <1>2, <1>3 DEF Next, Work

OpeningFigures(k) == [g \in Categories |-> OrZeroes(OpeningLines[g])[k]]
OpeningTotal(k) == MapThenSumSet(LAMBDA g : OrZeroes(OpeningLines[g])[k], Categories)

LEMMA OpeningTotalIsSum ==
  ASSUME IsFiniteSet(Categories), NEW k
  PROVE  OpeningTotal(k) = SumOver(OpeningFigures(k), Categories)
<1> DEFINE Folds(iter) ==
             iter = [s \in SUBSET Categories |->
                       IF s = {} THEN 0
                       ELSE OrZeroes(OpeningLines[Some(s)])[k] + iter[s \ {Some(s)}]]
           fold == CHOOSE iter : Folds(iter)
<1>1. OpeningTotal(k) = fold[Categories]
  BY DEF OpeningTotal, MapThenSumSet, MapThenFoldSet, Some
<1>2. \A s \in SUBSET Categories :
        s # {} => OpeningFigures(k)[Some(s)] = OrZeroes(OpeningLines[Some(s)])[k]
  BY PicksOne DEF OpeningFigures
<1>3. \A iter : Folds(iter) <=> IsFold(OpeningFigures(k), iter, Categories)
  BY <1>2 DEF IsFold, SumStep
<1>4. \E iter : Folds(iter)
  BY <1>3, SumExists
<1>5. IsFold(OpeningFigures(k), fold, Categories)
  BY <1>3, <1>4
<1>6. QED
  BY <1>1, <1>5, FoldSums

(* An event before its budget: nothing has moved, and nobody thinks it has. *)
Blank ==
  /\ budget = NoRow
  /\ \A g \in Categories : lines[g] = NoRow
  /\ Creations = {} /\ Completed = {}
  /\ \A c \in Calls : phase[c] \notin {"line", "write"}

(* Where the row came from: nowhere yet, from the start, from a creation.   *)
Origin == Blank \/ (NeverMissing /\ Creations = {}) \/ Creations # {}

LEMMA BlankStays ==
  ASSUME IInv, RowsFit, Blank, NEW c \in Calls, Start(c) \/ Work(c) \/ Abort(c),
         ~CreateBudget(c)
  PROVE  Blank'
<1>1. ~Apply(c) /\ ~SetTotal(c) /\ ~ReadLine(c) /\ ~Cancel(c)
  BY DEF Blank, Apply, SetTotal, ReadLine, Cancel, IInv, CallInv
<1>2. UNCHANGED <<budget, lines>>
  BY <1>1, QuietSteps
<1>3. Creations' = Creations
  BY SettingsStep
<1>4. \A d \in Calls \ {c} : phase'[d] = phase[d] /\ rows'[d] = rows[d]
  BY <1>1 DEF Start, Accept, Work, Abort, PutExpenseRow, ReadBudget, ReadTotal,
       store, memory, Go, IInv, TypeOK
<1>5. phase'[c] \notin {"line", "write", "ok"}
  <2>1. CASE ReadBudget(c)
    BY <2>1 DEF ReadBudget, Readable, Blank, Go, IInv, TypeOK, Existence
  <2>2. CASE ~ReadBudget(c)
    BY <1>1, <2>2 DEF Start, Accept, FirstPhase, Work, Abort, PutExpenseRow, ReadTotal, Go,
         IInv, TypeOK
  <2>3. QED
    BY <2>1, <2>2
<1>6. Completed' = {}
  BY <1>4, <1>5 DEF Blank, Completed
<1>7. QED
  BY <1>2, <1>3, <1>4, <1>5, <1>6 DEF Blank

LEMMA OriginStays ==
  ASSUME IInv, IInv', RowsFit, Origin, [Next]_vars
  PROVE  Origin'
<1>1. CASE UNCHANGED vars
  BY <1>1 DEF vars, Origin, Blank, NeverMissing, Creations, TotalSettings, Completed
<1>2. ASSUME NEW c \in Calls, Start(c) \/ Work(c) \/ Abort(c) PROVE Origin'
  <2>1. CASE Creations # {} \/ CreateBudget(c)
    BY <1>2, <2>1, SettingsStep DEF Origin
  <2>2. CASE Blank /\ ~CreateBudget(c)
    BY <1>2, <2>2, BlankStays DEF Origin
  <2>3. CASE NeverMissing /\ Creations = {} /\ ~CreateBudget(c)
    BY <1>2, <2>3, SettingsStep, NeverMissingStays DEF Origin
  <2>4. QED
    BY <2>1, <2>2, <2>3 DEF Origin
<1>3. QED
  BY <1>1, <1>2 DEF Next

(* The row is created where there was none, or the event has had its one    *)
(* budget before the step.                                                  *)
LEMMA CreatedOnceBefore ==
  ASSUME IInv, Origin, [Next]_vars, CreatedOnce'
  PROVE  \/ CreatedOnce /\ \A c \in Calls : ~CreateBudget(c)
         \/ Blank /\ \E c \in Calls : CreateBudget(c)
<1>1. ASSUME NEW c \in Calls, CreateBudget(c) PROVE Blank
  <2>1. Creations' = Creations \cup {c} /\ c \notin Creations /\ Creations \subseteq Calls
    BY <1>1, SettingsStep DEF Work, Creations, TotalSettings
  <2>2. Creations = {}
    BY <2>1 DEF CreatedOnce
  <2>3. ~NeverMissing
    BY <1>1 DEF NeverMissing, CreateBudget
  <2>4. QED
    BY <2>2, <2>3 DEF Origin
<1>2. ASSUME \A c \in Calls : ~CreateBudget(c) PROVE CreatedOnce
  <2>1. Creations' = Creations
    BY <1>2, SettingsStep DEF Next, vars, Creations, TotalSettings
  <2>2. budget # NoRow
    <3>1. CASE UNCHANGED vars
      BY <3>1 DEF vars, CreatedOnce
    <3>2. ASSUME NEW c \in Calls, Start(c) \/ Work(c) \/ Abort(c) PROVE budget # NoRow
      <4>1. CASE Apply(c)
        BY <4>1 DEF Apply, Pinned
      <4>2. CASE SetTotal(c)
        BY <4>2 DEF SetTotal, IInv, CallInv
      <4>3. QED
        BY <1>2, <3>2, <4>1, <4>2, QuietSteps DEF CreatedOnce
    <3>3. QED
      BY <3>1, <3>2 DEF Next
  <2>3. QED
    BY <2>1, <2>2 DEF CreatedOnce
<1>3. QED
  BY <1>1, <1>2

(* Every total that was ever read or stored is one the event has had, and   *)
(* the allocations are within one of them.                                  *)
TotalsKnown ==
  /\ \A b \in Readable(budget, budgetPast) : b # NoRow => b.total \in Totals
  /\ \A c \in Calls : phase[c] \in {"line", "write"} => seenBudget[c].total \in Totals
  /\ \E total \in Totals : budget.allocated <= total

LEMMA TotalsStayKnown ==
  ASSUME IInv, IInv', budget # NoRow, TotalsKnown, [Next]_vars,
         \A c \in Calls : ~CreateBudget(c)
  PROVE  TotalsKnown'
<1>1. CASE UNCHANGED vars
  BY <1>1 DEF vars, TotalsKnown, Readable, Totals, Creations, TotalSettings
<1>2. ASSUME NEW c \in Calls, Start(c) \/ Work(c) \/ Abort(c) PROVE TotalsKnown'
  <2>1. Totals \subseteq Totals' /\ (SetTotal(c) => req[c].amount \in Totals')
    BY <1>2, SettingsStep DEF Totals
  <2>2. budget \in BudgetRow /\ budget.total \in Totals
    BY DEF IInv, TypeOK, TotalsKnown, Readable
  <2>3. CASE Apply(c)
    <3>1. budget'.total = budget.total /\ budget' \in BudgetRow
      BY <2>3, ApplyAddsDeltas
    <3>2. budgetPast' \subseteq budgetPast \cup {budget} /\ seenBudget' = seenBudget
      BY <2>3 DEF Apply, Remembered, memory
    <3>3. \A d \in Calls : phase'[d] \in {"line", "write"} => phase'[d] = phase[d]
      BY <2>3 DEF Apply, Go, IInv, TypeOK
    <3>4. \E total \in Totals : budget'.allocated <= total
      <4> DEFINE d == Delta(req[c], seenLine[c], "allocated")
      <4>1. d \in Int /\ budget'.allocated = budget.allocated + d
        BY <2>3, ApplyAddsDeltas DEF Counters
      <4>2. CASE "allocated" \notin Touched(req[c].op)
        <5>1. d = 0
          BY <4>2 DEF Delta
        <5>2. budget'.allocated = budget.allocated
          BY <2>2, <4>1, <5>1 DEF BudgetRow, BudgetCounters, Counters
        <5>3. QED
          BY <5>2 DEF TotalsKnown
      <4>3. CASE "allocated" \in Touched(req[c].op)
        <5>1. CanAllocate(req[c], seenBudget[c], seenLine[c])
          BY <2>3, <4>3 DEF Touched, Apply, IInv, CallInv, Admissible
        <5>2. seenBudget[c].allocated = budget.allocated /\ seenBudget[c].total \in Totals
          BY <2>3, <4>3, ApplyAddsDeltas DEF TotalsKnown, Apply
        <5>3. QED
          BY <4>1, <5>1, <5>2 DEF CanAllocate
      <4>4. QED
        BY <4>2, <4>3
    <3>5. QED
      BY <2>1, <2>2, <3>1, <3>2, <3>3, <3>4 DEF TotalsKnown, Readable
  <2>4. CASE SetTotal(c)
    <3>1. /\ budget'.total = req[c].amount /\ budget'.allocated = budget.allocated
          /\ budgetPast' \subseteq budgetPast \cup {budget} /\ seenBudget' = seenBudget
      BY <2>2, <2>4 DEF SetTotal, Remembered, memory, BudgetRow, BudgetCounters, Counters
    <3>2. \A d \in Calls : phase'[d] \in {"line", "write"} => phase'[d] = phase[d]
      BY <2>4 DEF SetTotal, Go, IInv, TypeOK
    <3>3. QED
      BY <2>1, <2>2, <2>4, <3>1, <3>2 DEF TotalsKnown, Readable
  <2>5. CASE ~Apply(c) /\ ~SetTotal(c)
    <3>1. UNCHANGED <<budget, budgetPast>>
      BY <1>2, <2>5 DEF Start, Accept, Work, Abort, PutExpenseRow, ReadBudget, ReadLine, Cancel,
         ReadTotal, store
    <3>2. ASSUME NEW d \in Calls, phase'[d] \in {"line", "write"}
          PROVE  seenBudget'[d].total \in Totals
      <4>1. CASE ReadBudget(c)
        BY <3>2, <4>1 DEF ReadBudget, Go, TotalsKnown, IInv, TypeOK
      <4>2. CASE ~ReadBudget(c)
        <5>1. seenBudget'[d] = seenBudget[d] /\ phase[d] \in {"line", "write"}
          BY <1>2, <2>5, <3>2, <4>2 DEF Start, Accept, FirstPhase, Work, Abort, PutExpenseRow,
             ReadLine, Cancel, ReadTotal, Go, store, memory, IInv, TypeOK
        <5>2. QED
          BY <5>1 DEF TotalsKnown
      <4>3. QED
        BY <4>1, <4>2
    <3>3. QED
      BY <2>1, <3>1, <3>2 DEF TotalsKnown, Readable
  <2>6. QED
    BY <2>3, <2>4, <2>5
<1>3. QED
  BY <1>1, <1>2 DEF Next

(* On an event that has its one budget, the figures are in order.           *)
InOrder == FiguresMatch /\ SpentMatches /\ TotalsKnown
FiguresInv == RowsFit /\ Origin /\ (CreatedOnce => InOrder)

LEMMA CreationStartsInOrder ==
  ASSUME IsFiniteSet(Calls), IsFiniteSet(Categories), IInv, IInv', RowsFit, Blank,
         NEW c \in Calls, CreateBudget(c)
  PROVE  InOrder'
<1>1. /\ \A k \in Counters : budget'[k] = 0
      /\ budget'.total = req[c].amount /\ req[c].amount \in Nat
      /\ req[c].op = "set_total" /\ lines' = lines /\ rows' = rows
      /\ phase' = [phase EXCEPT ![c] = "ok"]
  BY RequestsAssumption
  DEF CreateBudget, Go, BudgetCounters, Counters, IInv, CallInv, Totalling, Request
<1>2. FiguresMatch'
  <2> SUFFICES ASSUME NEW k \in Counters PROVE budget'[k] = SumOver(Figures(k)', Categories)
    BY DEF FiguresMatch
  <2> DEFINE h == Figures(k)'
  <2>1. \A x \in Categories : h[x] = 0
    BY <1>1 DEF Figures, Blank, OrZeroes, Zeroes
  <2> HIDE DEF h
  <2>2. SumOver(h, Categories) = 0
    BY <2>1, SumOfZeroes
  <2>3. QED
    BY <1>1, <2>2 DEF h
<1>3. c \in Creations' /\ c \in TotalSettings' /\ req'[c] = req[c]
  BY SettingsStep DEF Work, Creations
<1>4. SpentMatches'
  <2>1. Completed' = {}
    BY <1>1 DEF Completed, Blank, RowsFit, RowFits, Expenses
  <2> DEFINE f == Amounts'
             done == Completed'
  <2>2. IsFiniteSet(done) /\ done = {}
    BY <2>1, FS_EmptySet
  <2> HIDE DEF f, done
  <2>3. SumOver(f, done) = 0
    BY <2>2, SumUnfolds
  <2>4. budget'.spent = 0 /\ SpentBefore' = 0
    BY <1>1, <1>3 DEF SpentBefore, Counters
  <2>5. QED
    BY <2>3, <2>4 DEF SpentMatches, f, done
<1>5. TotalsKnown'
  <2>1. req[c].amount \in Totals'
    BY <1>3 DEF Totals
  <2>2. budgetPast' \subseteq {NoRow}
    BY DEF CreateBudget, Remembered, Blank, IInv, Existence
  <2>3. \A d \in Calls : phase'[d] \notin {"line", "write"}
    BY <1>1 DEF Blank, IInv, TypeOK
  <2>4. budget'.allocated = 0
    BY <1>1 DEF Counters
  <2>5. QED
    BY <1>1, <2>1, <2>2, <2>3, <2>4 DEF TotalsKnown, Readable
<1>6. QED
  BY <1>2, <1>4, <1>5 DEF InOrder

LEMMA FiguresInvariant ==
  ASSUME IsFiniteSet(Calls), IsFiniteSet(Categories),
         \A k \in Counters : OpeningBudget[k] = OpeningTotal(k),
         OpeningBudget.allocated <= OpeningBudget.total
  PROVE  Spec => []FiguresInv
<1>1. Init => FiguresInv
  <2> SUFFICES ASSUME Init PROVE FiguresInv
    OBVIOUS
  <2>1. RowsFit
    BY DEF Init, RowsFit, RowFits
  <2>2. Completed = {} /\ Creations = {} /\ TotalSettings = {}
    BY DEF Init, Completed, Creations, TotalSettings
  <2>3. CASE budget = NoRow /\ lines = [g \in Categories |-> NoRow]
    BY <2>1, <2>2, <2>3 DEF Init, FiguresInv, Origin, Blank, CreatedOnce
  <2>4. CASE budget = OpeningBudget /\ lines = OpeningLines
    <3>1. FiguresMatch
      <4> SUFFICES ASSUME NEW k \in Counters PROVE budget[k] = SumOver(Figures(k), Categories)
        BY DEF FiguresMatch
      <4>1. Figures(k) = OpeningFigures(k)
        BY <2>4 DEF Figures, OpeningFigures
      <4>2. QED
        BY <2>4, <4>1, OpeningTotalIsSum
    <3>2. budget.spent \in Int /\ budget # NoRow /\ SpentBefore = budget.spent
      BY <2>2, <2>4, OpeningAssumption, NoRowAssumption
      DEF SpentBefore, BudgetCounters, Counters, BudgetRow
    <3>3. SpentMatches
      <4> DEFINE f == Amounts
                 done == Completed
      <4>1. IsFiniteSet(done) /\ done = {}
        BY <2>2, FS_EmptySet
      <4> HIDE DEF f, done
      <4>2. SumOver(f, done) = 0
        BY <4>1, SumUnfolds
      <4>3. QED
        BY <3>2, <4>2 DEF SpentMatches, f, done
    <3>4. Totals = {budget.total} /\ budgetPast = {}
      BY <2>2, <2>4 DEF Totals, Init
    <3>5. TotalsKnown
      BY <2>4, <3>4 DEF TotalsKnown, Readable, Init
    <3>6. Origin
      BY <2>2, <3>2, <3>4 DEF Origin, NeverMissing, Init
    <3>7. QED
      BY <2>1, <3>1, <3>3, <3>5, <3>6 DEF FiguresInv, InOrder
  <2>5. QED
    BY <2>3, <2>4 DEF Init
<1>2. IInv /\ IInv' /\ FiguresInv /\ [Next]_vars => FiguresInv'
  <2> SUFFICES ASSUME IInv, IInv', FiguresInv, [Next]_vars PROVE FiguresInv'
    OBVIOUS
  <2> USE DEF FiguresInv
  <2>1. RowsFit' /\ Origin'
    BY RowsStayFit, OriginStays
  <2>2. ASSUME CreatedOnce' PROVE InOrder'
    <3>1. CASE CreatedOnce /\ \A c \in Calls : ~CreateBudget(c)
      BY <2>1, <3>1, FiguresStayMatched, SpentStaysMatched, TotalsStayKnown DEF InOrder, CreatedOnce
    <3>2. CASE Blank /\ \E c \in Calls : CreateBudget(c)
      BY <3>2, CreationStartsInOrder
    <3>3. QED
      BY <2>2, <3>1, <3>2, CreatedOnceBefore
  <2>3. QED
    BY <2>1, <2>2
<1>3. QED
  BY <1>1, <1>2, SpecIInv, PTL DEF Spec

(* Whatever calls overlap, lag, collide and die, on an event that has a     *)
(* budget or is given one: the categories sum to the totals of the event,   *)
(* and its spending is the opening one plus the expense rows of the calls   *)
(* that completed.                                                          *)
THEOREM FiguresStayTrue ==
  ASSUME IsFiniteSet(Calls), IsFiniteSet(Categories),
         \A k \in Counters : OpeningBudget[k] = OpeningTotal(k),
         OpeningBudget.allocated <= OpeningBudget.total
  PROVE  Spec => []FiguresFollowRows
<1>1. FiguresInv => FiguresFollowRows
  <2> SUFFICES ASSUME FiguresInv PROVE FiguresFollowRows
    OBVIOUS
  <2>1. SumsMatch
    BY LineTotalIsSum DEF SumsMatch, FiguresInv, InOrder, FiguresMatch
  <2>2. IsFiniteSet(Completed)
    BY FS_Subset DEF Completed
  <2>3. SpendingHasRows
    BY <2>2, RowTotalIsSum DEF SpendingHasRows, FiguresInv, InOrder, SpentMatches
  <2>4. QED
    BY <2>1, <2>3 DEF FiguresFollowRows
<1>2. QED
  BY <1>1, FiguresInvariant, PTL

(* However allocations and changes of the total overlap and lag, the lines  *)
(* never sum past a total the event has had: the two +40,000 writes of the  *)
(* module docstring cannot both go through.                                 *)
THEOREM AllocationsStayWithinTotal ==
  ASSUME IsFiniteSet(Calls), IsFiniteSet(Categories),
         \A k \in Counters : OpeningBudget[k] = OpeningTotal(k),
         OpeningBudget.allocated <= OpeningBudget.total
  PROVE  Spec => []NoOverAllocation
<1>1. FiguresInv => NoOverAllocation
  <2> SUFFICES ASSUME FiguresInv, CreatedOnce
               PROVE  \E total \in Totals : LineTotal("allocated") <= total
    BY DEF NoOverAllocation
  <2>1. LineTotal("allocated") = budget.allocated
    BY LineTotalIsSum DEF FiguresInv, InOrder, FiguresMatch, Counters
  <2>2. QED
    BY <2>1 DEF FiguresInv, InOrder, TotalsKnown
<1>2. QED
  BY <1>1, FiguresInvariant, PTL
=============================================================================
