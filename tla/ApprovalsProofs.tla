--------------------------- MODULE ApprovalsProofs ---------------------------
(***************************************************************************)
(* Proofs about Approvals, for every set of invocations and approvals,     *)
(* under any overlap, failure and lag of reads.                            *)
(***************************************************************************)
EXTENDS Approvals, BudgetProofs

(* What an approval that anybody may find APPROVED has been through. *)
Cleared(a) == Asks[a].tier # "NEVER" /\ (Financial(a) => reserved[a] > 0)

Deciding(c) == task[c].kind = "decide"
Approving(c) == Deciding(c) /\ task[c].decision = "APPROVED"

(* The part of type correctness the argument needs. *)
Shape ==
  /\ regime \in Regimes
  /\ approval \in [ApprovalIds -> Statuses]
  /\ approvalPast \in [ApprovalIds -> SUBSET Statuses]
  /\ phase \in [Calls -> Phases]
  /\ stage \in [Calls -> {"idle", "read", "money", "write", "end"}]
  /\ task \in [Calls -> Tasks \cup {NoRow}]
  /\ reserved \in [ApprovalIds -> Nat] /\ paid \in [ApprovalIds -> Nat]
  /\ \A c \in Calls : InFlight(c) => task[c] \in Tasks

(* What an invocation has established about its approval by the stage it is *)
(* in.                                                                      *)
StageInv(c) ==
  LET a == task[c].id
  IN /\ stage[c] = "money" /\ Deciding(c) =>
          /\ Asks[a].tier # "NEVER"
          /\ phase[c] = "ok" => reserved[a] > 0
     /\ stage[c] = "money" /\ ~Deciding(c) => Cleared(a)
     /\ stage[c] = "write" => Deciding(c)
     /\ stage[c] = "write" /\ Approving(c) => Cleared(a)

AskInv(a) ==
  /\ "APPROVED" \in Readable(approval[a], approvalPast[a]) => Cleared(a)
  /\ reserved[a] > 0 \/ paid[a] > 0 => Asks[a].tier # "NEVER"
  /\ paid[a] > 0 /\ Financial(a) => reserved[a] > 0

AInv == Shape /\ (\A c \in Calls : StageInv(c)) /\ (\A a \in ApprovalIds : AskInv(a))

---------------------------------------------------------------------------
(* A task is a decision or a payment; either names an approval. *)
LEMMA TaskShape ==
  ASSUME NEW t \in Tasks
  PROVE  /\ t.id \in ApprovalIds
         /\ t.kind = "decide" => t.decision \in Decisions
         /\ t.kind # "decide" => t.kind = "pay" /\ t.amount \in PaidAmounts
BY DEF Tasks, Decide, Pay

(* What a reader of an approval may find afterwards is what it could find   *)
(* before, or the status just written.                                      *)
LEMMA WriteReadable ==
  ASSUME Shape, NEW a \in ApprovalIds, NEW status, Write(a, status),
         NEW b \in ApprovalIds
  PROVE  Readable(approval'[b], approvalPast'[b])
           \subseteq Readable(approval[b], approvalPast[b])
                     \cup (IF b = a THEN {status} ELSE {})
BY DEF Shape, Write, Readable

LEMMA WriteShape ==
  ASSUME Shape, NEW a \in ApprovalIds, NEW status \in Statuses, Write(a, status)
  PROVE  /\ approval' \in [ApprovalIds -> Statuses]
         /\ approvalPast' \in [ApprovalIds -> SUBSET Statuses]
BY DEF Shape, Write

(* An invocation that stays as it was keeps what it has established, since  *)
(* reservations are never taken back.                                       *)
LEMMA StageKept ==
  ASSUME NEW c \in Calls, StageInv(c), Shape, InFlight(c) => task[c] \in Tasks,
         stage'[c] = stage[c], task'[c] = task[c], phase'[c] = phase[c],
         \A a \in ApprovalIds : reserved'[a] >= reserved[a],
         reserved' \in [ApprovalIds -> Nat]
  PROVE  StageInv(c)'
<1> DEFINE a == task[c].id
<1>1. CASE stage[c] \in {"money", "write"}
  <2>1. a \in ApprovalIds
    BY <1>1, TaskShape DEF InFlight
  <2>2. reserved[a] > 0 => reserved'[a] > 0
    BY <2>1 DEF Shape
  <2>3. Cleared(a) => Cleared(a)'
    BY <2>2 DEF Cleared, Financial
  <2>4. QED
    BY <2>2, <2>3 DEF StageInv, Deciding, Approving, Cleared, Financial
<1>2. CASE stage[c] \notin {"money", "write"}
  BY <1>2 DEF StageInv
<1>3. QED
  BY <1>1, <1>2

(* An approval nobody writes keeps its part while money is reserved only.   *)
LEMMA AskKept ==
  ASSUME NEW a \in ApprovalIds, AskInv(a), approval'[a] = approval[a],
         approvalPast'[a] = approvalPast[a], reserved'[a] = reserved[a],
         paid'[a] = paid[a]
  PROVE  AskInv(a)'
BY DEF AskInv, Cleared, Financial, Readable

---------------------------------------------------------------------------
(* The invariant is inductive. *)

LEMMA InitAInv == ApprovalsInit => AInv
<1> SUFFICES ASSUME ApprovalsInit PROVE AInv
  OBVIOUS
<1> USE DEF ApprovalsInit, Init
<1>1. Shape
  BY DEF Shape, Statuses, Phases, InFlight
<1>2. \A c \in Calls : StageInv(c)
  BY DEF StageInv
<1>3. \A a \in ApprovalIds : AskInv(a)
  BY DEF AskInv, Readable
<1>4. QED
  BY <1>1, <1>2, <1>3 DEF AInv

(* Steps that touch neither an approval nor the money. *)
LEMMA QuietStep ==
  ASSUME AInv, NEW c \in Calls,
         UNCHANGED <<regime, approval, approvalPast, reserved, paid>>,
         Shape', StageInv(c)',
         \A d \in Calls \ {c} : /\ stage'[d] = stage[d]
                                /\ task'[d] = task[d]
                                /\ phase'[d] = phase[d]
  PROVE  AInv'
<1>1. \A d \in Calls \ {c} : StageInv(d)'
  <2> SUFFICES ASSUME NEW d \in Calls \ {c} PROVE StageInv(d)'
    OBVIOUS
  <2>1. reserved' \in [ApprovalIds -> Nat] /\ \A a \in ApprovalIds : reserved'[a] >= reserved[a]
    BY DEF AInv, Shape
  <2>2. QED
    BY <2>1, StageKept DEF AInv, Shape
<1>2. \A a \in ApprovalIds : AskInv(a)'
  BY AskKept DEF AInv
<1>3. QED
  BY <1>1, <1>2 DEF AInv

LEMMA RaiseAInv ==
  ASSUME AInv, NEW a \in ApprovalIds, Raise(a)
  PROVE  AInv'
<1> USE DEF Raise
<1>1. Shape'
  <2>1. "PENDING" \in Statuses
    BY DEF Statuses
  <2>2. QED
    BY <2>1, WriteShape DEF AInv, Shape, InFlight, vars
<1>2. \A c \in Calls : StageInv(c)'
  BY DEF AInv, StageInv, Cleared, Deciding, Approving, Financial, vars
<1>3. ASSUME NEW b \in ApprovalIds PROVE AskInv(b)'
  <2>1. "APPROVED" \in Readable(approval'[b], approvalPast'[b]) =>
          "APPROVED" \in Readable(approval[b], approvalPast[b])
    BY WriteReadable DEF AInv
  <2>2. QED
    BY <2>1 DEF AInv, AskInv, Cleared, Financial
<1>4. QED
  BY <1>1, <1>2, <1>3 DEF AInv

LEMMA BeginAInv ==
  ASSUME AInv, NEW c \in Calls, Begin(c)
  PROVE  AInv'
<1> USE DEF Begin, Step
<1>1. PICK t \in Tasks : task' = [task EXCEPT ![c] = t]
  BY RegimesAssumption DEF AInv, Shape
<1>2. Shape'
  BY <1>1 DEF AInv, Shape, InFlight, vars
<1>3. StageInv(c)'
  BY <1>1 DEF AInv, Shape, StageInv
<1>4. QED
  BY <1>1, <1>2, <1>3, QuietStep DEF AInv, Shape, vars

(* Accepting a request for the budget service disturbs no other call, and   *)
(* the call has not succeeded yet.                                          *)
LEMMA AcceptPhase ==
  ASSUME Shape, NEW c \in Calls, NEW r, Accept(c, r)
  PROVE  /\ phase' \in [Calls -> Phases]
         /\ phase'[c] # "ok"
         /\ \A d \in Calls \ {c} : phase'[d] = phase[d]
<1>1. FirstPhase(r) \in Phases \ {"ok"}
  BY DEF FirstPhase, Phases, Active, Ended
<1>2. QED
  BY <1>1 DEF Shape, Accept, Go

LEMMA ReadForDecisionAInv ==
  ASSUME AInv, NEW c \in Calls, ReadForDecision(c)
  PROVE  AInv'
<1> DEFINE a == task[c].id
           d == task[c].decision
           spends == d = "APPROVED" /\ Asks[a].amount > 0
           locked == d = "APPROVED" /\ Asks[a].tier = "NEVER"
<1>1. Shape /\ stage[c] = "read" /\ Deciding(c) /\ task' = task
  BY DEF AInv, ReadForDecision, Deciding
<1>2. a \in ApprovalIds /\ d \in Decisions
  BY <1>1, TaskShape DEF Shape, InFlight, Deciding
<1>3. UNCHANGED <<regime, approval, approvalPast, task, reserved, paid>>
  BY DEF ReadForDecision
<1>4. CASE Step(c, "end") /\ UNCHANGED vars
  <2>1. Shape'
    BY <1>1, <1>3, <1>4 DEF Shape, Step, vars, InFlight
  <2>2. StageInv(c)'
    BY <1>1, <1>4 DEF StageInv, Step, Shape
  <2>3. QED
    BY <1>1, <1>3, <1>4, <2>1, <2>2, QuietStep DEF Step, vars, Shape
<1>5. CASE ~locked /\ ~spends /\ Step(c, "write") /\ UNCHANGED vars
  <2>1. Shape'
    BY <1>1, <1>3, <1>5 DEF Shape, Step, vars, InFlight
  <2>2. Asks[a].amount \in Nat
    BY <1>2, ApprovalsAssumption
  <2>3. Approving(c) => Cleared(a)
    BY <1>5, <2>2 DEF Approving, Cleared, Financial
  <2>4. stage'[c] = "write"
    BY <1>1, <1>5 DEF Step, Shape
  <2>5. StageInv(c)'
    BY <1>1, <1>3, <2>3, <2>4 DEF StageInv, Cleared, Financial, Approving, Deciding
  <2>6. QED
    BY <1>1, <1>3, <1>5, <2>1, <2>5, QuietStep DEF Step, vars, Shape
<1>6. CASE ~locked /\ spends /\ Step(c, "money") /\ Accept(c, Commitment(a))
  <2>1. /\ phase' \in [Calls -> Phases] /\ phase'[c] # "ok"
        /\ \A e \in Calls \ {c} : phase'[e] = phase[e]
    BY <1>1, <1>6, AcceptPhase
  <2>2. Shape'
    BY <1>1, <1>3, <1>6, <2>1 DEF Shape, Step, InFlight
  <2>3. stage'[c] = "money"
    BY <1>1, <1>6 DEF Step, Shape
  <2>4. StageInv(c)'
    BY <1>1, <1>3, <1>6, <2>1, <2>3 DEF StageInv, Deciding
  <2>5. QED
    BY <1>1, <1>3, <1>6, <2>1, <2>2, <2>4, QuietStep DEF Step, Shape
<1>7. QED
  BY <1>4, <1>5, <1>6 DEF ReadForDecision

LEMMA ReadForPaymentAInv ==
  ASSUME AInv, NEW c \in Calls, ReadForPayment(c)
  PROVE  AInv'
<1> DEFINE a == task[c].id
<1>1. Shape /\ stage[c] = "read" /\ task[c].kind = "pay"
      /\ UNCHANGED <<regime, approval, approvalPast, task, reserved, paid>>
  BY DEF AInv, ReadForPayment
<1>2. a \in ApprovalIds
  BY <1>1, TaskShape DEF Shape, InFlight
<1>3. CASE Step(c, "end") /\ UNCHANGED vars
  <2>1. Shape'
    BY <1>1, <1>3 DEF Shape, Step, vars, InFlight
  <2>2. StageInv(c)'
    BY <1>1, <1>3 DEF StageInv, Step, Shape
  <2>3. QED
    BY <1>1, <1>3, <2>1, <2>2, QuietStep DEF Step, vars, Shape
<1>4. CASE /\ "APPROVED" \in Readable(approval[a], approvalPast[a])
           /\ Step(c, "money") /\ Accept(c, Payment(task[c]))
  <2>1. /\ phase' \in [Calls -> Phases]
        /\ \A e \in Calls \ {c} : phase'[e] = phase[e]
    BY <1>1, <1>4, AcceptPhase
  <2>2. Shape'
    BY <1>1, <1>4, <2>1 DEF Shape, Step, InFlight
  <2>3. Cleared(a)
    BY <1>2, <1>4 DEF AInv, AskInv
  <2>4. stage'[c] = "money"
    BY <1>1, <1>4 DEF Step, Shape
  <2>5. StageInv(c)'
    BY <1>1, <2>3, <2>4 DEF StageInv, Deciding, Cleared, Financial
  <2>6. QED
    BY <1>1, <1>4, <2>1, <2>2, <2>5, QuietStep DEF Step, Shape
<1>5. QED
  BY <1>3, <1>4 DEF ReadForPayment

(* The budget service's steps keep to the call they work for. *)
LEMMA WorkPhase ==
  ASSUME Shape, NEW c \in Calls, Work(c)
  PROVE  /\ phase' \in [Calls -> Phases]
         /\ \A d \in Calls \ {c} : phase'[d] = phase[d]
<1>1. PICK next \in Phases : Go(c, next)
  BY DEF Work, PutExpenseRow, ReadBudget, ReadLine, Apply, Cancel, ReadTotal, CreateBudget,
         SetTotal, Go, Phases, Active, Ended
<1>2. QED
  BY <1>1 DEF Go, Shape

LEMMA MoneyAInv ==
  ASSUME AInv, NEW c \in Calls, Money(c)
  PROVE  AInv'
<1> DEFINE a == task[c].id
           moves == phase'[c] = "ok"
<1>1. Shape /\ stage[c] = "money" /\ UNCHANGED <<regime, approval, approvalPast, stage, task>>
  BY DEF AInv, Money
<1>2. a \in ApprovalIds /\ StageInv(c)
  BY <1>1, TaskShape DEF AInv, Shape, InFlight
<1>3. Deciding(c) \/ (task[c].kind = "pay" /\ task[c].amount \in Nat \ {0})
  BY <1>1, TaskShape, ApprovalsAssumption DEF Shape, InFlight, Deciding
<1>4. /\ phase' \in [Calls -> Phases]
      /\ \A d \in Calls \ {c} : phase'[d] = phase[d]
  BY <1>1, WorkPhase DEF Money
<1>5. /\ reserved' = IF moves /\ Deciding(c) THEN [reserved EXCEPT ![a] = @ + 1] ELSE reserved
      /\ paid' = IF moves /\ ~Deciding(c)
                 THEN [paid EXCEPT ![a] = @ + task[c].amount] ELSE paid
  BY <1>3 DEF Money, Deciding
<1>6. /\ reserved' \in [ApprovalIds -> Nat] /\ paid' \in [ApprovalIds -> Nat]
      /\ \A b \in ApprovalIds : reserved'[b] >= reserved[b]
  BY <1>1, <1>2, <1>3, <1>5 DEF Shape
<1>7. Shape'
  BY <1>1, <1>4, <1>6 DEF Shape, InFlight
<1>8. ASSUME NEW d \in Calls \ {c} PROVE StageInv(d)'
  BY <1>1, <1>4, <1>6, StageKept DEF AInv, Shape
<1>9. StageInv(c)'
  <2>1. CASE Deciding(c)
    <3>1. phase'[c] = "ok" => reserved'[a] > 0
      BY <1>1, <1>2, <1>5, <2>1 DEF Shape
    <3>2. QED
      BY <1>1, <1>2, <2>1, <3>1 DEF StageInv, Deciding
  <2>2. CASE ~Deciding(c)
    BY <1>1, <1>2, <1>5, <2>2 DEF StageInv, Deciding, Cleared, Financial
  <2>3. QED
    BY <2>1, <2>2
<1>10. ASSUME NEW b \in ApprovalIds PROVE AskInv(b)'
  <2>1. CASE b # a
    <3>1. reserved'[b] = reserved[b] /\ paid'[b] = paid[b]
      BY <1>1, <1>5, <2>1 DEF Shape
    <3>2. QED
      BY <1>1, <3>1, AskKept DEF AInv
  <2>2. CASE b = a /\ Deciding(c)
    <3>1. Asks[a].tier # "NEVER"
      BY <1>1, <1>2, <2>2 DEF StageInv
    <3>2. reserved[a] \in Nat /\ reserved'[a] \in Nat /\ reserved'[a] >= reserved[a]
          /\ paid' = paid
      BY <1>1, <1>2, <1>5, <1>6, <2>2 DEF Shape
    <3>3. reserved[a] > 0 => reserved'[a] > 0
      BY <3>2
    <3>4. QED
      BY <1>1, <2>2, <3>1, <3>2, <3>3 DEF AInv, AskInv, Cleared, Financial, Readable
  <2>3. CASE b = a /\ ~Deciding(c)
    <3>1. Cleared(a) /\ reserved' = reserved
      BY <1>1, <1>2, <1>5, <2>3 DEF StageInv
    <3>2. QED
      BY <1>1, <2>3, <3>1 DEF AskInv, Cleared, Financial
  <2>4. QED
    BY <2>1, <2>2, <2>3
<1>11. QED
  BY <1>7, <1>8, <1>9, <1>10 DEF AInv

LEMMA AnsweredAInv ==
  ASSUME AInv, NEW c \in Calls, Answered(c)
  PROVE  AInv'
<1> DEFINE a == task[c].id
           writes == phase[c] = "ok" /\ Deciding(c)
<1>1. /\ Shape /\ stage[c] = "money" /\ StageInv(c)
      /\ UNCHANGED <<vars, regime, approval, approvalPast, task, reserved, paid>>
      /\ stage' = [stage EXCEPT ![c] = IF writes THEN "write" ELSE "end"]
  BY DEF AInv, Answered, Step, Deciding
<1>2. Shape'
  BY <1>1 DEF Shape, InFlight, vars
<1>3. writes => Cleared(a)
  BY <1>1 DEF StageInv, Cleared
<1>4. StageInv(c)'
  BY <1>1, <1>3 DEF StageInv, Deciding, Cleared, Financial, Shape
<1>5. QED
  BY <1>1, <1>2, <1>4, QuietStep DEF vars, Shape

LEMMA WriteDecisionAInv ==
  ASSUME AInv, NEW c \in Calls, WriteDecision(c)
  PROVE  AInv'
<1> DEFINE a == task[c].id
           decision == task[c].decision
<1>1. /\ Shape /\ stage[c] = "write" /\ StageInv(c) /\ Deciding(c)
      /\ Write(a, decision) /\ UNCHANGED <<vars, regime, task, reserved, paid>>
      /\ stage' = [stage EXCEPT ![c] = "end"]
  BY DEF AInv, StageInv, WriteDecision, Step
<1>2. a \in ApprovalIds /\ decision \in Decisions
  BY <1>1, TaskShape DEF Shape, InFlight, Deciding
<1>3. Shape'
  BY <1>1, <1>2, WriteShape DEF Shape, InFlight, Statuses, vars
<1>4. ASSUME NEW d \in Calls PROVE StageInv(d)'
  BY <1>1 DEF AInv, Shape, StageInv, Deciding, Approving, Cleared, Financial, vars
<1>5. ASSUME NEW b \in ApprovalIds PROVE AskInv(b)'
  <2>1. decision = "APPROVED" => Cleared(a)
    BY <1>1 DEF StageInv, Approving
  <2>2. "APPROVED" \in Readable(approval'[b], approvalPast'[b]) => Cleared(b)
    BY <1>1, <1>2, <2>1, WriteReadable DEF AInv, AskInv
  <2>3. QED
    BY <1>1, <2>2 DEF AInv, AskInv, Cleared, Financial
<1>6. QED
  BY <1>3, <1>4, <1>5 DEF AInv

LEMMA FailAInv ==
  ASSUME AInv, NEW c \in Calls, Fail(c)
  PROVE  AInv'
<1> USE DEF Fail, Step
<1>1. Shape'
  BY DEF AInv, Shape, InFlight, vars
<1>2. StageInv(c)'
  BY DEF AInv, Shape, StageInv
<1>3. QED
  BY <1>1, <1>2, QuietStep DEF AInv, Shape, vars

LEMMA NextAInv == AInv /\ [ApprovalsNext]_allVars => AInv'
<1> SUFFICES ASSUME AInv, [ApprovalsNext]_allVars PROVE AInv'
  OBVIOUS
<1>1. CASE UNCHANGED allVars
  BY <1>1 DEF allVars, approvalVars, vars, AInv, Shape, StageInv, AskInv, Cleared, Financial,
              Deciding, Approving, InFlight, Readable
<1>2. ASSUME NEW a \in ApprovalIds, Raise(a) PROVE AInv'
  BY <1>2, RaiseAInv
<1>3. ASSUME NEW c \in Calls, Begin(c) \/ Proceed(c) \/ Fail(c) PROVE AInv'
  BY <1>3, BeginAInv, ReadForDecisionAInv, ReadForPaymentAInv, MoneyAInv, AnsweredAInv,
     WriteDecisionAInv, FailAInv DEF Proceed
<1>4. QED
  BY <1>1, <1>2, <1>3 DEF ApprovalsNext

LEMMA SpecAInv == ApprovalsSpec => []AInv
BY InitAInv, NextAInv, PTL DEF ApprovalsSpec

---------------------------------------------------------------------------
(* A financial approval never reads APPROVED with nothing reserved, however *)
(* decisions overlap, fail and are repeated (decide_approval commits first).*)
THEOREM ApprovalNeedsReservation == ApprovalsSpec => []ApprovedIsReserved
<1>1. AInv => ApprovedIsReserved
  BY DEF AInv, AskInv, ApprovedIsReserved, Cleared, Readable
<1>2. QED
  BY <1>1, SpecAInv, PTL

(* No sequence of decisions and payments unlocks a NEVER-tier action.       *)
THEOREM NeverTierIsNeverUnlocked == ApprovalsSpec => []NeverTierStaysLocked
<1>1. AInv => NeverTierStaysLocked
  BY DEF AInv, AskInv, Shape, NeverTierStaysLocked, Cleared, Readable
<1>2. QED
  BY <1>1, SpecAInv, PTL

(* The type of every variable of this module. *)
THEOREM ApprovalsTypeCorrect == ApprovalsSpec => []ApprovalsTypeOK
<1>1. AInv => ApprovalsTypeOK
  BY DEF AInv, Shape, ApprovalsTypeOK
<1>2. QED
  BY <1>1, SpecAInv, PTL

(* If every approval is about money, none is paid against before money was  *)
(* committed for it.                                                        *)
THEOREM NoPaymentBeforeReservation ==
  ASSUME \A a \in ApprovalIds : Financial(a)
  PROVE  ApprovalsSpec => []PaymentFollowsReservation
<1>1. AInv => PaymentFollowsReservation
  BY DEF AInv, AskInv, PaymentFollowsReservation
<1>2. QED
  BY <1>1, SpecAInv, PTL

---------------------------------------------------------------------------
(***************************************************************************)
(* Invocations one after another on current reads of the approvals.        *)
(***************************************************************************)
HalfWay(c) == stage[c] \in {"money", "write"} /\ Deciding(c)

OneAtWork ==
  /\ \A a \in ApprovalIds : approvalPast[a] = {}
  /\ \A c, d \in Calls : InFlight(c) /\ InFlight(d) => c = d
  /\ \A c \in Calls : HalfWay(c) => approval[task[c].id] = "PENDING"

LEMMA RegimeKept == [ApprovalsNext]_allVars => regime' = regime
BY DEF ApprovalsNext, allVars, approvalVars, Raise, Begin, Proceed, ReadForDecision,
       ReadForPayment, Money, Answered, WriteDecision, Fail

(* A call that proceeds or dies is in flight and changes only its own stage.*)
LEMMA OwnStage ==
  ASSUME Shape, NEW c \in Calls, Proceed(c) \/ Fail(c)
  PROVE  /\ InFlight(c) /\ task' = task
         /\ \A d \in Calls \ {c} : stage'[d] = stage[d]
BY DEF Shape, Proceed, ReadForDecision, ReadForPayment, Money, Answered, WriteDecision,
       Fail, Step, InFlight

(* Only the write of a decision changes an approval that has been raised.   *)
LEMMA ApprovalChanges ==
  ASSUME NEW c \in Calls, Proceed(c) \/ Fail(c), ~WriteDecision(c)
  PROVE  UNCHANGED <<approval, approvalPast>>
BY DEF Proceed, ReadForDecision, ReadForPayment, Money, Answered, Fail

LEMMA OneAtWorkInvariant == ApprovalsSpec => [](InTurn => OneAtWork)
<1>1. ApprovalsInit => OneAtWork
  BY DEF ApprovalsInit, OneAtWork, InFlight, HalfWay
<1>2. AInv /\ (InTurn => OneAtWork) /\ [ApprovalsNext]_allVars => (InTurn => OneAtWork)'
  <2> SUFFICES ASSUME AInv, InTurn => OneAtWork, [ApprovalsNext]_allVars, InTurn'
               PROVE  OneAtWork'
    OBVIOUS
  <2>0. InTurn /\ OneAtWork /\ Shape
    BY RegimeKept DEF AInv, InTurn
  <2>1. CASE UNCHANGED allVars
    BY <2>0, <2>1 DEF allVars, approvalVars, OneAtWork, InFlight, HalfWay, Deciding
  <2>2. ASSUME NEW a \in ApprovalIds, Raise(a) PROVE OneAtWork'
    <3>1. approvalPast' = approvalPast /\ UNCHANGED <<stage, task>>
      BY <2>0, <2>2 DEF Raise, Write, InTurn
    <3>2. \A c \in Calls : HalfWay(c) => approval'[task[c].id] = "PENDING"
      BY <2>0, <2>2 DEF Raise, Write, OneAtWork, Shape
    <3>3. QED
      BY <2>0, <3>1, <3>2 DEF OneAtWork, InFlight, HalfWay, Deciding
  <2>3. ASSUME NEW c \in Calls, Begin(c) PROVE OneAtWork'
    <3>1. \A d \in Calls : ~InFlight(d)
      BY <2>0, <2>3 DEF Begin, InTurn
    <3>2. stage'[c] = "read" /\ \A d \in Calls \ {c} : stage'[d] = stage[d]
      BY <2>0, <2>3 DEF Begin, Step, Shape
    <3>3. UNCHANGED <<approval, approvalPast>>
      BY <2>3 DEF Begin
    <3>4. QED
      BY <2>0, <3>1, <3>2, <3>3 DEF OneAtWork, InFlight, HalfWay
  <2>4. ASSUME NEW c \in Calls, Proceed(c) \/ Fail(c) PROVE OneAtWork'
    <3>1. /\ InFlight(c) /\ task' = task
          /\ \A d \in Calls \ {c} : stage'[d] = stage[d] /\ ~InFlight(d)
      BY <2>0, <2>4, OwnStage DEF OneAtWork
    <3>2. \A a \in ApprovalIds : approvalPast'[a] = {}
      BY <2>0, <2>4, ApprovalChanges DEF WriteDecision, Write, OneAtWork, InTurn
    <3>3. HalfWay(c)' => approval'[task[c].id] = "PENDING"
      <4>1. CASE WriteDecision(c)
        BY <2>0, <4>1 DEF WriteDecision, Step, HalfWay, Shape
      <4>2. CASE ReadForDecision(c)
        <5>1. UNCHANGED <<approval, task>> /\ task[c].id \in ApprovalIds
          BY <2>0, <3>1, <4>2, TaskShape DEF ReadForDecision, Shape
        <5>2. Readable(approval[task[c].id], approvalPast[task[c].id])
                = {approval[task[c].id]}
          BY <2>0, <5>1 DEF Readable, OneAtWork
        <5>3. approval[task[c].id] # "PENDING" => stage'[c] = "end"
          BY <2>0, <4>2, <5>2 DEF ReadForDecision, Step, Shape
        <5>4. QED
          BY <5>1, <5>3 DEF HalfWay
      <4>3. CASE ReadForPayment(c)
        BY <2>0, <3>1, <4>3 DEF ReadForPayment, HalfWay, Deciding
      <4>4. CASE Money(c) \/ Answered(c) \/ Fail(c)
        <5>1. approval' = approval /\ (HalfWay(c)' => HalfWay(c))
          BY <2>0, <3>1, <4>4 DEF Money, Answered, Fail, Step, HalfWay, Deciding, Shape
        <5>2. QED
          BY <2>0, <5>1 DEF OneAtWork
      <4>5. QED
        BY <2>4, <4>1, <4>2, <4>3, <4>4 DEF Proceed
    <3>4. QED
      BY <3>1, <3>2, <3>3 DEF OneAtWork, InFlight, HalfWay
  <2>5. QED
    BY <2>1, <2>2, <2>3, <2>4 DEF ApprovalsNext
<1>3. QED
  BY <1>1, <1>2, SpecAInv, PTL DEF ApprovalsSpec

(* In turn, nothing rewrites a decision, wherever an invocation dies.       *)
THEOREM DecisionsStand == ApprovalsSpec => DecisionIsFinal
<1>1. AInv /\ (InTurn => OneAtWork) /\ [ApprovalsNext]_allVars =>
        [\A a \in ApprovalIds :
           InTurn /\ approval[a] \in Decisions => approval'[a] = approval[a]]_allVars
  <2> SUFFICES ASSUME AInv, InTurn => OneAtWork, ApprovalsNext, NEW a \in ApprovalIds,
                      InTurn, approval[a] \in Decisions
               PROVE  approval'[a] = approval[a]
    BY DEF allVars, approvalVars
  <2>0. OneAtWork /\ Shape
    BY DEF AInv
  <2>1. ASSUME NEW b \in ApprovalIds, Raise(b) PROVE approval'[a] = approval[a]
    BY <2>0, <2>1 DEF Raise, Write, Decisions, Shape
  <2>2. ASSUME NEW c \in Calls, Begin(c) PROVE approval'[a] = approval[a]
    BY <2>2 DEF Begin
  <2>3. ASSUME NEW c \in Calls, Proceed(c) \/ Fail(c) PROVE approval'[a] = approval[a]
    <3>1. CASE WriteDecision(c)
      <4>1. stage[c] = "write" /\ StageInv(c)
        BY <3>1 DEF WriteDecision, AInv
      <4>2. approval[task[c].id] = "PENDING"
        BY <2>0, <4>1 DEF StageInv, HalfWay, OneAtWork
      <4>3. QED
        BY <2>0, <3>1, <4>2 DEF WriteDecision, Write, Decisions, Shape
    <3>2. CASE ~WriteDecision(c)
      BY <2>3, <3>2, ApprovalChanges
    <3>3. QED
      BY <3>1, <3>2
  <2>4. QED
    BY <2>1, <2>2, <2>3 DEF ApprovalsNext
<1>2. QED
  BY <1>1, SpecAInv, OneAtWorkInvariant, PTL DEF ApprovalsSpec, DecisionIsFinal

---------------------------------------------------------------------------
(***************************************************************************)
(* In turn and unfailing: what is reserved for an approval follows from    *)
(* its status, or from how far the one call that decides it has come.      *)
(***************************************************************************)
Due(a, status) == IF status = "APPROVED" /\ Financial(a) THEN 1 ELSE 0

Progressed(c) ==
  LET a == task[c].id
  IN /\ stage[c] = "money" => /\ Approving(c) /\ Financial(a)
                             /\ reserved[a] = IF phase[c] = "ok" THEN 1 ELSE 0
     /\ stage[c] = "write" => reserved[a] = Due(a, task[c].decision)

Accounted ==
  /\ \A c \in Calls : HalfWay(c) => Progressed(c)
  /\ \A a \in ApprovalIds :
       (\A c \in Calls : HalfWay(c) => task[c].id # a) => reserved[a] = Due(a, approval[a])

(* The budget service works only while it has not answered.                 *)
LEMMA WorkAdvances == ASSUME NEW c \in Calls, Work(c) PROVE phase[c] # "ok"
BY DEF Work, PutExpenseRow, ReadBudget, ReadLine, Apply, Cancel, ReadTotal, CreateBudget,
       SetTotal

LEMMA AccountedStep ==
  ASSUME AInv, OneAtWork, Accounted, NEW c \in Calls, Proceed(c)
  PROVE  Accounted'
<1> DEFINE a == task[c].id
<1>0. /\ Shape /\ InFlight(c) /\ task' = task /\ a \in ApprovalIds /\ task[c] \in Tasks
      /\ \A d \in Calls \ {c} : stage'[d] = stage[d] /\ ~InFlight(d)
  <2>1. Shape /\ InFlight(c) /\ task' = task
        /\ \A d \in Calls \ {c} : stage'[d] = stage[d] /\ ~InFlight(d)
    BY OwnStage DEF AInv, OneAtWork
  <2>2. QED
    BY <2>1, TaskShape DEF Shape
<1>1. \A d \in Calls \ {c} : ~HalfWay(d) /\ ~HalfWay(d)'
  BY <1>0 DEF HalfWay, InFlight
<1>2. \A b \in ApprovalIds \ {a} : reserved[b] = Due(b, approval[b])
  BY <1>0, <1>1 DEF Accounted
<1>3. ~HalfWay(c) => reserved[a] = Due(a, approval[a])
  BY <1>0, <1>1 DEF Accounted
<1>4. SUFFICES /\ HalfWay(c)' => Progressed(c)'
               /\ ~HalfWay(c)' => reserved'[a] = Due(a, approval'[a])
               /\ \A b \in ApprovalIds \ {a} : /\ reserved'[b] = reserved[b]
                                               /\ approval'[b] = approval[b]
  BY <1>0, <1>1, <1>2 DEF Accounted, Due, Financial
<1>5. CASE ReadForDecision(c)
  <2>1. /\ stage[c] = "read" /\ Deciding(c)
        /\ UNCHANGED <<regime, approval, approvalPast, task, reserved, paid>>
    BY <1>5 DEF ReadForDecision, Deciding
  <2>2. reserved[a] = Due(a, approval[a])
    BY <1>3, <2>1 DEF HalfWay
  <2>3. /\ Readable(approval[a], approvalPast[a]) = {approval[a]}
    BY <1>0 DEF Readable, OneAtWork
  <2>4. CASE Step(c, "end")
    BY <1>0, <2>1, <2>2, <2>4 DEF Step, HalfWay, Shape
  <2>5. CASE /\ approval[a] = "PENDING" /\ Step(c, "write")
             /\ ~(task[c].decision = "APPROVED" /\ Asks[a].amount > 0)
    BY <1>0, <2>1, <2>2, <2>5 DEF Step, HalfWay, Deciding, Progressed, Due, Financial, Shape
  <2>6. CASE /\ approval[a] = "PENDING" /\ Step(c, "money") /\ Accept(c, Commitment(a))
             /\ task[c].decision = "APPROVED" /\ Asks[a].amount > 0
    <3>1. phase'[c] # "ok"
      BY <1>0, <2>6, AcceptPhase
    <3>2. reserved[a] = 0
      BY <2>2, <2>6 DEF Due
    <3>3. stage'[c] = "money"
      BY <1>0, <2>6 DEF Step, Shape
    <3>4. QED
      BY <2>1, <2>6, <3>1, <3>2, <3>3
         DEF HalfWay, Deciding, Approving, Progressed, Financial
  <2>7. QED
    BY <1>5, <2>3, <2>4, <2>5, <2>6 DEF ReadForDecision
<1>6. CASE ReadForPayment(c)
  <2>1. stage[c] = "read" /\ ~Deciding(c)
        /\ UNCHANGED <<regime, approval, approvalPast, task, reserved, paid>>
    BY <1>6 DEF ReadForPayment, Deciding
  <2>2. QED
    BY <1>3, <2>1 DEF HalfWay, Deciding
<1>7. CASE Money(c)
  <2>1. /\ stage[c] = "money" /\ Work(c)
        /\ UNCHANGED <<regime, approval, approvalPast, stage, task>>
    BY <1>7 DEF Money
  <2>2. CASE ~Deciding(c)
    <3>1. reserved' = reserved
      BY <1>7, <2>2 DEF Money, Deciding
    <3>2. QED
      BY <1>3, <2>1, <2>2, <3>1 DEF HalfWay, Deciding
  <2>3. CASE Deciding(c)
    <3>1. Progressed(c) /\ phase[c] # "ok"
      BY <2>1, <2>3, WorkAdvances DEF Accounted, HalfWay
    <3>2. reserved' = IF phase'[c] = "ok" THEN [reserved EXCEPT ![a] = @ + 1] ELSE reserved
      BY <1>7, <2>3 DEF Money, Deciding
    <3>3. reserved[a] = 0 /\ Approving(c) /\ Financial(a)
      BY <2>1, <3>1 DEF Progressed
    <3>4. reserved'[a] = (IF phase'[c] = "ok" THEN 1 ELSE 0)
          /\ \A b \in ApprovalIds \ {a} : reserved'[b] = reserved[b]
      BY <1>0, <3>2, <3>3 DEF Shape
    <3>5. QED
      BY <2>1, <2>3, <3>3, <3>4 DEF HalfWay, Deciding, Approving, Progressed, Financial
  <2>4. QED
    BY <2>2, <2>3
<1>8. CASE Answered(c)
  <2>1. /\ stage[c] = "money" /\ UNCHANGED <<approval, task, reserved, phase>>
        /\ stage'[c] = IF phase[c] = "ok" /\ Deciding(c) THEN "write" ELSE "end"
    BY <1>0, <1>8 DEF Answered, Step, Deciding, Shape, vars, store
  <2>2. CASE ~Deciding(c)
    BY <1>3, <2>1, <2>2 DEF HalfWay, Deciding
  <2>3. CASE Deciding(c)
    <3>1. Progressed(c) /\ approval[a] = "PENDING"
      BY <2>1, <2>3 DEF Accounted, OneAtWork, HalfWay
    <3>2. /\ task[c].decision = "APPROVED" /\ Financial(a)
          /\ reserved[a] = IF phase[c] = "ok" THEN 1 ELSE 0
      BY <2>1, <3>1 DEF Progressed, Approving
    <3>3. QED
      BY <2>1, <2>3, <3>1, <3>2 DEF HalfWay, Deciding, Progressed, Due, Financial
  <2>4. QED
    BY <2>2, <2>3
<1>9. CASE WriteDecision(c)
  <2>1. /\ stage[c] = "write" /\ UNCHANGED <<task, reserved>> /\ stage'[c] = "end"
        /\ Deciding(c)
    BY <1>0, <1>9 DEF WriteDecision, Step, Shape, AInv, StageInv
  <2>2. reserved[a] = Due(a, task[c].decision)
    BY <2>1 DEF Accounted, HalfWay, Progressed
  <2>3. approval' = [approval EXCEPT ![a] = task[c].decision]
    BY <1>9 DEF WriteDecision, Write
  <2>4. QED
    BY <1>0, <2>1, <2>2, <2>3 DEF HalfWay, Shape
<1>10. QED
  BY <1>5, <1>6, <1>7, <1>8, <1>9 DEF Proceed

LEMMA AccountedInvariant == ApprovalsSpec => [](Orderly => Accounted)
<1>1. ApprovalsInit => Accounted
  BY DEF ApprovalsInit, Accounted, HalfWay, Due
<1>2. /\ AInv /\ (InTurn => OneAtWork) /\ (Orderly => Accounted) /\ [ApprovalsNext]_allVars
      => (Orderly => Accounted)'
  <2> SUFFICES ASSUME AInv, InTurn => OneAtWork, Orderly => Accounted,
                      [ApprovalsNext]_allVars, Orderly'
               PROVE  Accounted'
    OBVIOUS
  <2>0. Orderly /\ OneAtWork /\ Accounted /\ Shape
    BY RegimeKept DEF AInv, InTurn, Orderly
  <2>1. CASE UNCHANGED allVars
    BY <2>0, <2>1 DEF allVars, approvalVars, vars, store, Accounted, HalfWay, Progressed,
                      Deciding, Approving, Due, Financial
  <2>2. ASSUME NEW a \in ApprovalIds, Raise(a) PROVE Accounted'
    <3>1. /\ approval[a] = "NONE" /\ approval' = [approval EXCEPT ![a] = "PENDING"]
          /\ UNCHANGED <<vars, stage, task, reserved>>
      BY <2>2 DEF Raise, Write
    <3>2. \A b \in ApprovalIds : Due(b, approval'[b]) = Due(b, approval[b])
      BY <2>0, <3>1 DEF Due, Shape
    <3>3. QED
      BY <2>0, <3>1, <3>2 DEF Accounted, HalfWay, Progressed, Deciding, Approving, Due,
                              Financial, vars, store
  <2>3. ASSUME NEW c \in Calls, Begin(c) PROVE Accounted'
    <3>1. \A d \in Calls : ~InFlight(d)
      BY <2>0, <2>3 DEF Begin, Orderly, InTurn
    <3>2. stage'[c] = "read" /\ \A d \in Calls \ {c} : stage'[d] = stage[d]
      BY <2>0, <2>3 DEF Begin, Step, Shape
    <3>3. \A d \in Calls : ~HalfWay(d) /\ ~HalfWay(d)'
      BY <3>1, <3>2 DEF HalfWay, InFlight
    <3>4. UNCHANGED <<approval, reserved>>
      BY <2>3 DEF Begin
    <3>5. QED
      BY <2>0, <3>3, <3>4 DEF Accounted, Due, Financial
  <2>4. ASSUME NEW c \in Calls, Proceed(c) PROVE Accounted'
    BY <2>0, <2>4, AccountedStep
  <2>5. ASSUME NEW c \in Calls, Fail(c) PROVE Accounted'
    BY <2>0, <2>5 DEF Fail, Orderly
  <2>6. QED
    BY <2>1, <2>2, <2>3, <2>4, <2>5 DEF ApprovalsNext
<1>3. QED
  BY <1>1, <1>2, SpecAInv, OneAtWorkInvariant, PTL DEF ApprovalsSpec, Orderly

(* In turn, a financial approval holds one reservation if it is approved    *)
(* and none otherwise, once nobody is deciding it: a refused commitment     *)
(* leaves it PENDING and unreserved.                                        *)
THEOREM NoReservationIsStranded == ApprovalsSpec => []NothingStranded
<1>1. (Orderly => Accounted) => NothingStranded
  BY DEF Accounted, NothingStranded, HalfWay, InFlight, Due
<1>2. QED
  BY <1>1, AccountedInvariant, PTL

(* In turn, deciding twice reserves once. *)
THEOREM DecisionsReserveOnce == ApprovalsSpec => []ReservedOnceInTurn
<1>1. (Orderly => Accounted) => ReservedOnceInTurn
  <2> SUFFICES ASSUME Orderly, Accounted, NEW a \in ApprovalIds PROVE reserved[a] <= 1
    BY DEF ReservedOnceInTurn, ReservedOnce
  <2>1. CASE \A c \in Calls : HalfWay(c) => task[c].id # a
    BY <2>1 DEF Accounted, Due
  <2>2. ASSUME NEW c \in Calls, HalfWay(c), task[c].id = a PROVE reserved[a] <= 1
    BY <2>2 DEF Accounted, HalfWay, Progressed, Due
  <2>3. QED
    BY <2>1, <2>2
<1>2. QED
  BY <1>1, AccountedInvariant, PTL

(* If every approval is about money, no decision and no payment gets ahead  *)
(* of its reservation.                                                      *)
THEOREM MoneyComesFirst ==
  ASSUME \A a \in ApprovalIds : Financial(a)
  PROVE  ApprovalsSpec => []MoneyIsReservedFirst
BY ApprovalNeedsReservation, NoPaymentBeforeReservation, PTL DEF MoneyIsReservedFirst

(* In turn and unfailing, the reservations are those of the decisions.      *)
THEOREM EveryReservationIsDecided == ApprovalsSpec => []ReservationsAreAccounted
BY NoReservationIsStranded, DecisionsReserveOnce, PTL DEF ReservationsAreAccounted

---------------------------------------------------------------------------
(* The budget service beneath: what it does for approvals is what it does   *)
(* for any call.                                                            *)

LEMMA StepOfBudget == AInv /\ [ApprovalsNext]_allVars => [Next]_vars
<1> SUFFICES ASSUME AInv, ApprovalsNext PROVE [Next]_vars
  BY DEF allVars
<1>1. ASSUME NEW c \in Calls, NEW r \in MoneyRequests, Accept(c, r) PROVE Next
  BY <1>1, MoneyRequestsAssumption DEF Next, Start
<1>2. ASSUME NEW c \in Calls, ReadForDecision(c) PROVE [Next]_vars
  <2>1. Commitment(task[c].id) \in MoneyRequests
    BY <1>2, TaskShape DEF AInv, Shape, InFlight, ReadForDecision, MoneyRequests
  <2>2. QED
    BY <1>1, <1>2, <2>1 DEF ReadForDecision
<1>3. ASSUME NEW c \in Calls, ReadForPayment(c) PROVE [Next]_vars
  <2>1. Payment(task[c]) \in MoneyRequests
    BY <1>3 DEF AInv, Shape, InFlight, ReadForPayment, MoneyRequests
  <2>2. QED
    BY <1>1, <1>3, <2>1 DEF ReadForPayment
<1>4. ASSUME NEW c \in Calls, Money(c) PROVE Next
  BY <1>4 DEF Money, Next
<1>5. QED
  BY <1>2, <1>3, <1>4 DEF ApprovalsNext, Proceed, Raise, Begin, Answered, WriteDecision, Fail

(* Deciding and paying never do anything with the budget that a call of the *)
(* budget service could not do: what is proved of Budget holds under them.  *)
THEOREM ApprovalsUseBudget == ApprovalsSpec => Spec
<1>1. ApprovalsInit => Init
  BY DEF ApprovalsInit
<1>2. QED
  BY <1>1, StepOfBudget, SpecAInv, PTL DEF ApprovalsSpec, Spec

---------------------------------------------------------------------------
(* The commitments of the event are those of its approvals. *)

(* What an approval holds of the committed balance. *)
Held == [a \in ApprovalIds |-> reserved[a] * Asks[a].amount - paid[a]]

TraceMatches == budget.committed = OpeningBudget.committed + SumOver(Held, ApprovalIds)

(* Money is asked for as the decision or the payment says. *)
AskFits(c) ==
  stage[c] = "money" =>
    req[c] = IF Deciding(c) THEN Commitment(task[c].id) ELSE Payment(task[c])

LEMMA HeldIsSum ==
  ASSUME IsFiniteSet(ApprovalIds)
  PROVE  MapThenSumSet(LAMBDA a : reserved[a] * Asks[a].amount - paid[a], ApprovalIds)
           = SumOver(Held, ApprovalIds)
<1> DEFINE Folds(iter) ==
             iter = [s \in SUBSET ApprovalIds |->
                       IF s = {} THEN 0
                       ELSE (reserved[Some(s)] * Asks[Some(s)].amount - paid[Some(s)])
                              + iter[s \ {Some(s)}]]
           fold == CHOOSE iter : Folds(iter)
<1>1. MapThenSumSet(LAMBDA a : reserved[a] * Asks[a].amount - paid[a], ApprovalIds)
        = fold[ApprovalIds]
  BY DEF MapThenSumSet, MapThenFoldSet, Some
<1>2. \A s \in SUBSET ApprovalIds :
        s # {} => Held[Some(s)] = reserved[Some(s)] * Asks[Some(s)].amount - paid[Some(s)]
  BY PicksOne DEF Held
<1>3. \A iter : Folds(iter) <=> IsFold(Held, iter, ApprovalIds)
  BY <1>2 DEF IsFold, SumStep
<1>4. \E iter : Folds(iter)
  BY <1>3, SumExists
<1>5. IsFold(Held, fold, ApprovalIds)
  BY <1>3, <1>4
<1>6. QED
  BY <1>1, <1>5, FoldSums

LEMMA AsksFit ==
  ASSUME AInv, \A c \in Calls : AskFits(c), IInv, [ApprovalsNext]_allVars
  PROVE  \A c \in Calls : AskFits(c)'
<1> SUFFICES ASSUME NEW c \in Calls PROVE AskFits(c)'
  OBVIOUS
<1> USE DEF AskFits, Deciding
<1>1. CASE UNCHANGED allVars
  BY <1>1 DEF allVars, approvalVars, vars
<1>2. ASSUME NEW a \in ApprovalIds, Raise(a) PROVE AskFits(c)'
  BY <1>2 DEF Raise, vars
<1>3. ASSUME NEW d \in Calls, Begin(d) \/ Answered(d) \/ WriteDecision(d) \/ Fail(d)
      PROVE AskFits(c)'
  BY <1>3 DEF Begin, Answered, WriteDecision, Fail, Step, vars, AInv, Shape, InFlight
<1>4. ASSUME NEW d \in Calls, ReadForDecision(d) \/ ReadForPayment(d) PROVE AskFits(c)'
  <2>1. CASE d # c
    BY <1>4, <2>1 DEF ReadForDecision, ReadForPayment, Step, vars, AInv, Shape, Accept,
       IInv, TypeOK
  <2>2. CASE d = c /\ stage'[c] # "money"
    BY <2>2
  <2>3. CASE d = c /\ stage'[c] = "money"
    BY <1>4, <2>3 DEF ReadForDecision, ReadForPayment, Step, Accept, AInv, Shape, IInv, TypeOK
  <2>4. QED
    BY <2>1, <2>2, <2>3
<1>5. ASSUME NEW d \in Calls, Money(d) PROVE AskFits(c)'
  <2>1. req' = req
    BY <1>5 DEF Money, Work, PutExpenseRow, ReadBudget, ReadLine, Apply, Cancel, ReadTotal,
       CreateBudget, SetTotal, memory
  <2>2. QED
    BY <1>5, <2>1 DEF Money
<1>6. QED
  BY <1>1, <1>2, <1>3, <1>4, <1>5 DEF ApprovalsNext, Proceed

(* Where no money moves, neither side of the trace does. *)
LEMMA TraceUndisturbed ==
  ASSUME TraceMatches, budget' = budget, reserved' = reserved, paid' = paid
  PROVE  TraceMatches'
BY DEF TraceMatches, Held

(* The step that moves the money moves what the approval holds as far.      *)
LEMMA MoneyIsTraced ==
  ASSUME IsFiniteSet(ApprovalIds), ~FromNothing, AInv, AInv', IInv, TraceMatches,
         NEW c \in Calls, AskFits(c), Money(c)
  PROVE  TraceMatches'
<1> DEFINE a == task[c].id
<1>1. /\ Shape /\ stage[c] = "money" /\ Work(c) /\ task[c] \in Tasks /\ a \in ApprovalIds
      /\ Deciding(c) \/ (task[c].kind = "pay" /\ task[c].amount \in Nat \ {0})
  BY TaskShape, ApprovalsAssumption DEF AInv, Shape, InFlight, Money, Deciding
<1>2. req[c] = IF Deciding(c) THEN Commitment(a) ELSE Payment(task[c])
  BY <1>1 DEF AskFits
<1>3. req[c].op = IF Deciding(c) THEN "commit" ELSE "expense_committed"
  BY <1>2 DEF Commitment, Payment
<1>4. ~CreateBudget(c) /\ ~SetTotal(c)
  BY <1>3 DEF CreateBudget, SetTotal, IInv, CallInv, Totalling
<1>5. CASE ~Apply(c)
  <2>1. budget' = budget
    BY <1>1, <1>4, <1>5, QuietSteps
  <2>2. phase'[c] # "ok"
    BY <1>1, <1>4, <1>5 DEF Work, PutExpenseRow, ReadBudget, ReadLine, Cancel, ReadTotal, Go,
       Shape
  <2>3. reserved' = reserved /\ paid' = paid
    BY <2>2 DEF Money
  <2>4. QED
    BY <2>1, <2>3, TraceUndisturbed
<1>6. CASE Apply(c)
  <2> DEFINE d == Delta(req[c], seenLine[c], "committed")
             n == IF Deciding(c) THEN Asks[a].amount ELSE task[c].amount
             f == Held
             h == Held'
  <2>1. /\ budget \in BudgetRow /\ budget'.committed = budget.committed + d
    BY <1>6, ApplyAddsDeltas DEF Counters
  <2>2. n \in Nat /\ d = IF Deciding(c) THEN n ELSE -n
    <3>1. Asks[a].amount \in Nat
      BY <1>1, ApprovalsAssumption
    <3>2. req[c].amount = n
      BY <1>2 DEF Commitment, Payment
    <3>3. QED
      BY <1>1, <1>3, <3>1, <3>2 DEF Delta, Touched, Counters, Expenses
  <2>3. phase'[c] = "ok"
    BY <1>1, <1>6 DEF Apply, Go, Shape
  <2>4. /\ reserved' = IF Deciding(c) THEN [reserved EXCEPT ![a] = @ + 1] ELSE reserved
        /\ paid' = IF Deciding(c) THEN paid ELSE [paid EXCEPT ![a] = @ + n]
    BY <1>1, <2>3 DEF Money, Deciding
  <2>5. h[a] - f[a] = d
    <3>1. reserved[a] \in Nat /\ paid[a] \in Nat /\ Asks[a].amount \in Nat
      BY <1>1, ApprovalsAssumption DEF Shape
    <3>2. /\ f[a] = reserved[a] * Asks[a].amount - paid[a]
          /\ h[a] = reserved'[a] * Asks[a].amount - paid'[a]
      BY <1>1 DEF Held
    <3>3. CASE Deciding(c)
      <4>1. reserved'[a] = reserved[a] + 1 /\ paid'[a] = paid[a] /\ n = Asks[a].amount
        BY <1>1, <2>4, <3>3 DEF Shape
      <4>2. (reserved[a] + 1) * Asks[a].amount = reserved[a] * Asks[a].amount + Asks[a].amount
        BY <3>1
      <4>3. reserved[a] * Asks[a].amount \in Int
        BY <3>1
      <4>4. QED
        BY <2>2, <3>1, <3>2, <3>3, <4>1, <4>2, <4>3
    <3>4. CASE ~Deciding(c)
      <4>1. reserved'[a] = reserved[a] /\ paid'[a] = paid[a] + n
        BY <1>1, <2>4, <3>4 DEF Shape
      <4>2. reserved[a] * Asks[a].amount \in Int
        BY <3>1
      <4>3. QED
        BY <2>2, <3>1, <3>2, <3>4, <4>1, <4>2
    <3>5. QED
      BY <3>3, <3>4
  <2>6. \A x \in ApprovalIds \ {a} : f[x] = h[x]
    BY <1>1, <2>4 DEF Held, Shape
  <2>7. ASSUME NEW x \in ApprovalIds PROVE f[x] \in Int /\ h[x] \in Int
    <3>1. /\ reserved[x] \in Nat /\ paid[x] \in Nat
          /\ reserved'[x] \in Nat /\ paid'[x] \in Nat
      BY DEF AInv, Shape
    <3>2. Asks[x].amount \in Nat
      BY ApprovalsAssumption
    <3>3. reserved[x] * Asks[x].amount \in Nat /\ reserved'[x] * Asks[x].amount \in Nat
      BY <3>1, <3>2
    <3>4. QED
      BY <3>1, <3>3 DEF Held
  <2>8. budget.committed = OpeningBudget.committed + SumOver(f, ApprovalIds)
    BY DEF TraceMatches
  <2>9. OpeningBudget.committed \in Int
    BY OpeningAssumption DEF BudgetCounters, Counters
  <2>10. d \in Int
    BY <2>2
  <2> HIDE DEF f, h, d, a
  <2>11. SumOver(h, ApprovalIds) - SumOver(f, ApprovalIds) = h[a] - f[a]
    BY <1>1, <2>6, <2>7, SumChanges
  <2>12. SumOver(f, ApprovalIds) \in Int /\ SumOver(h, ApprovalIds) \in Int
    BY <2>7, SumIsInt
  <2>13. budget'.committed = OpeningBudget.committed + SumOver(h, ApprovalIds)
    BY <2>1, <2>5, <2>8, <2>9, <2>10, <2>11, <2>12
  <2>14. QED
    BY <2>13 DEF TraceMatches, h
<1>7. QED
  BY <1>5, <1>6

LEMMA TraceKept ==
  ASSUME IsFiniteSet(ApprovalIds), ~FromNothing, AInv, AInv', IInv, TraceMatches,
         \A c \in Calls : AskFits(c), [ApprovalsNext]_allVars
  PROVE  TraceMatches'
<1>1. CASE UNCHANGED allVars
  BY <1>1, TraceUndisturbed DEF allVars, approvalVars, vars
<1>2. ASSUME NEW a \in ApprovalIds, Raise(a) PROVE TraceMatches'
  BY <1>2, TraceUndisturbed DEF Raise, vars
<1>3. ASSUME NEW c \in Calls, Begin(c) \/ Answered(c) \/ WriteDecision(c) \/ Fail(c)
      PROVE  TraceMatches'
  BY <1>3, TraceUndisturbed DEF Begin, Answered, WriteDecision, Fail, vars
<1>4. ASSUME NEW c \in Calls, ReadForDecision(c) \/ ReadForPayment(c) PROVE TraceMatches'
  BY <1>4, TraceUndisturbed DEF ReadForDecision, ReadForPayment, Accept, store, vars
<1>5. ASSUME NEW c \in Calls, Money(c) PROVE TraceMatches'
  BY <1>5, MoneyIsTraced
<1>6. QED
  BY <1>1, <1>2, <1>3, <1>4, <1>5 DEF ApprovalsNext, Proceed

(* However decisions and payments overlap, lag and die: the committed       *)
(* balance of the event is the opening one, plus what approvals reserved,   *)
(* less what was paid against them.                                         *)
THEOREM CommitmentsAreTraced ==
  ASSUME IsFiniteSet(ApprovalIds), ~FromNothing
  PROVE  ApprovalsSpec => []CommitmentsTrace
<1> DEFINE Fit == \A c \in Calls : AskFits(c)
<1>1. ApprovalsInit => TraceMatches /\ Fit
  <2> SUFFICES ASSUME ApprovalsInit PROVE TraceMatches /\ Fit
    OBVIOUS
  <2>1. Fit
    BY DEF ApprovalsInit, AskFits
  <2>2. /\ budget.committed = OpeningBudget.committed /\ OpeningBudget.committed \in Int
        /\ \A a \in ApprovalIds : Held[a] = 0
    <3>1. \A a \in ApprovalIds : Asks[a].amount \in Nat
      BY ApprovalsAssumption
    <3>2. QED
      BY <3>1, OpeningAssumption DEF ApprovalsInit, Init, Held, BudgetCounters, Counters
  <2>3. SumOver(Held, ApprovalIds) = 0
    BY <2>2, SumOfZeroes
  <2>4. QED
    BY <2>1, <2>2, <2>3 DEF TraceMatches
<1>2. /\ AInv /\ AInv' /\ IInv /\ TraceMatches /\ Fit /\ [ApprovalsNext]_allVars
      => TraceMatches' /\ Fit'
  BY TraceKept, AsksFit
<1>3. TraceMatches => CommitmentsTrace
  BY HeldIsSum DEF TraceMatches, CommitmentsTrace
<1>4. QED
  BY <1>1, <1>2, <1>3, SpecAInv, ApprovalsUseBudget, SpecIInv, PTL DEF ApprovalsSpec
=============================================================================
