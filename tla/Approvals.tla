------------------------------ MODULE Approvals ------------------------------
(***************************************************************************)
(* Approval requests and the money they reserve: services/api/             *)
(* approvals_handler (request_approval, decide_approval) and the           *)
(* pre-approved branch of services/api/budget_handler.record_expense,      *)
(* composed with Budget, whose calls carry out the commitment of an        *)
(* approved request and the payment of an approved expense.                *)
(*                                                                         *)
(* A call of this module is one Lambda invocation: it reads the approval,  *)
(* hands the money to the budget service if there is any, and writes the   *)
(* decision.  Nothing ties the read to the write.                          *)
(***************************************************************************)
EXTENDS Budget

CONSTANTS
  ApprovalIds,  \* approval requests of the event
  Asks,         \* what each one asks: [category, amount, tier]
  PaidAmounts,  \* amounts an expense recorded against an approval may carry
  Regimes       \* what the environment of a behaviour may do

Decisions == {"APPROVED", "DECLINED", "EDITED"}
Statuses == {"NONE", "PENDING"} \cup Decisions

ASSUME ApprovalsAssumption ==
  /\ Asks \in [ApprovalIds -> [category : Categories, amount : Nat, tier : {"HIGH", "NEVER"}]]
  /\ PaidAmounts \subseteq Nat \ {0}

Decide(a, d) == [kind |-> "decide", id |-> a, decision |-> d]
Pay(a, g, n) == [kind |-> "pay", id |-> a, category |-> g, amount |-> n]

Tasks == {Decide(a, d) : a \in ApprovalIds, d \in Decisions}
         \cup {Pay(a, g, n) : a \in ApprovalIds, g \in Categories, n \in PaidAmounts}

(* tasks: what leaders come to do; overlap: invocations may overlap;        *)
(* stale: a read of an approval may lag (a read of the budget always may,   *)
(* as StaleReads says); failures: an invocation may die, or DynamoDB may    *)
(* fail it, midway.                                                         *)
ASSUME RegimesAssumption ==
  Regimes \subseteq [tasks : SUBSET Tasks, overlap : BOOLEAN,
                    stale : BOOLEAN, failures : BOOLEAN]

VARIABLES
  regime,        \* chosen when the behaviour begins, and never changed
  approval,      \* status of each APPROVAL item; NONE before it is raised
  approvalPast,  \* earlier statuses a lagging read may return
  stage,         \* where each invocation stands
  task,          \* what it does: decide one approval or pay one
  reserved,      \* history: commitments made for each approval
  paid           \* history: rupees spent against each approval

approvalVars == <<regime, approval, approvalPast, stage, task, reserved, paid>>
allVars == <<vars, approvalVars>>

Raised == {t.id : t \in regime.tasks}
Step(c, next) == stage' = [stage EXCEPT ![c] = next]
InFlight(c) == stage[c] \in {"read", "money", "write"}

ApprovalsInit ==
  /\ Init
  /\ regime \in Regimes
  /\ approval = [a \in ApprovalIds |-> "NONE"]
  /\ approvalPast = [a \in ApprovalIds |-> {}]
  /\ stage = [c \in Calls |-> "idle"]
  /\ task = [c \in Calls |-> NoRow]
  /\ reserved = [a \in ApprovalIds |-> 0]
  /\ paid = [a \in ApprovalIds |-> 0]

Write(a, status) ==
  /\ approval' = [approval EXCEPT ![a] = status]
  /\ approvalPast' = IF regime.stale
                     THEN [approvalPast EXCEPT ![a] = @ \cup {approval[a]}] ELSE approvalPast

(* request_approval, and the agent's and the workflows' requests like it. *)
Raise(a) ==
  /\ a \in Raised /\ approval[a] = "NONE"
  /\ Write(a, "PENDING")
  /\ UNCHANGED <<vars, regime, stage, task, reserved, paid>>

(* A leader decides an approval or records an expense against one. *)
Begin(c) ==
  /\ stage[c] = "idle"
  /\ regime.overlap \/ \A d \in Calls : ~InFlight(d)
  /\ \E t \in regime.tasks : task' = [task EXCEPT ![c] = t]
  /\ Step(c, "read")
  /\ UNCHANGED <<vars, regime, approval, approvalPast, reserved, paid>>

(* Mutation of Payment: a pre-approved expense draws on uncommitted money. *)
PaymentUncommitted(t) == [op |-> "expense", category |-> t.category, amount |-> t.amount]

(* The commitment an approved decision makes, the spending a payment makes  *)
(* (its category and amount come with the request, not from the approval).  *)
Commitment(a) ==
  [op |-> "commit", category |-> Asks[a].category, amount |-> Asks[a].amount]
Payment(t) == [op |-> "expense_committed", category |-> t.category, amount |-> t.amount]

(* What the calls of this module ask of the budget service. *)
MoneyRequests == {Commitment(a) : a \in ApprovalIds}
                 \cup {Payment(t) : t \in {u \in Tasks : u.kind = "pay"}}

ASSUME MoneyRequestsAssumption == MoneyRequests \subseteq Requests

(* Mutations of ReadForDecision: the tier is not looked at; the status is   *)
(* not looked at; every decision commits the money.                         *)
ReadForDecisionAnyTier(c) ==
  LET a == task[c].id
      spends == task[c].decision = "APPROVED" /\ Asks[a].amount > 0
  IN /\ stage[c] = "read" /\ task[c].kind = "decide"
     /\ \E status \in Readable(approval[a], approvalPast[a]) :
          \/ status # "PENDING" /\ Step(c, "end") /\ UNCHANGED vars
          \/ status = "PENDING" /\ ~spends /\ Step(c, "write") /\ UNCHANGED vars
          \/ status = "PENDING" /\ spends /\ Step(c, "money") /\ Accept(c, Commitment(a))
     /\ UNCHANGED <<regime, approval, approvalPast, task, reserved, paid>>

ReadForDecisionAnyStatus(c) ==
  LET a == task[c].id
      spends == task[c].decision = "APPROVED" /\ Asks[a].amount > 0
  IN /\ stage[c] = "read" /\ task[c].kind = "decide" /\ approval[a] # "NONE"
     /\ \/ ~spends /\ Step(c, "write") /\ UNCHANGED vars
        \/ spends /\ Step(c, "money") /\ Accept(c, Commitment(a))
     /\ UNCHANGED <<regime, approval, approvalPast, task, reserved, paid>>

ReadForDecisionAlwaysCommits(c) ==
  LET a == task[c].id
  IN /\ stage[c] = "read" /\ task[c].kind = "decide"
     /\ \/ /\ approval[a] # "PENDING" /\ Step(c, "end") /\ UNCHANGED vars
        \/ /\ approval[a] = "PENDING" /\ Step(c, "money") /\ Accept(c, Commitment(a))
     /\ UNCHANGED <<regime, approval, approvalPast, task, reserved, paid>>

(* decide_approval up to the call of the budget service: a decided approval *)
(* is refused, and so is the approval of an action no person may delegate.  *)
ReadForDecision(c) ==
  LET a == task[c].id
      d == task[c].decision
      spends == d = "APPROVED" /\ Asks[a].amount > 0
  IN /\ stage[c] = "read" /\ task[c].kind = "decide"
     /\ \E status \in Readable(approval[a], approvalPast[a]) :
          \/ /\ status # "PENDING" \/ (d = "APPROVED" /\ Asks[a].tier = "NEVER")
             /\ Step(c, "end") /\ UNCHANGED vars
          \/ /\ status = "PENDING" /\ ~(d = "APPROVED" /\ Asks[a].tier = "NEVER")
             /\ ~spends /\ Step(c, "write") /\ UNCHANGED vars
          \/ /\ status = "PENDING" /\ ~(d = "APPROVED" /\ Asks[a].tier = "NEVER")
             /\ spends /\ Step(c, "money") /\ Accept(c, Commitment(a))
     /\ UNCHANGED <<regime, approval, approvalPast, task, reserved, paid>>

(* record_expense with an approval_id: only the status of the approval is   *)
(* looked at.                                                               *)
ReadForPayment(c) ==
  LET a == task[c].id
  IN /\ stage[c] = "read" /\ task[c].kind = "pay"
     /\ \E status \in Readable(approval[a], approvalPast[a]) :
          \/ status # "APPROVED" /\ Step(c, "end") /\ UNCHANGED vars
          \/ status = "APPROVED" /\ Step(c, "money") /\ Accept(c, Payment(task[c]))
     /\ UNCHANGED <<regime, approval, approvalPast, task, reserved, paid>>

(* The budget service works on the call's behalf; the step that moves the   *)
(* money is recorded in the history.                                        *)
Money(c) ==
  LET a == task[c].id
      moves == phase'[c] = "ok"
  IN /\ stage[c] = "money"
     /\ Work(c)
     /\ reserved' = IF moves /\ task[c].kind = "decide"
                    THEN [reserved EXCEPT ![a] = @ + 1] ELSE reserved
     /\ paid' = IF moves /\ task[c].kind = "pay"
                THEN [paid EXCEPT ![a] = @ + task[c].amount] ELSE paid
     /\ UNCHANGED <<regime, approval, approvalPast, stage, task>>

(* Mutations of Answered: a refusal does not stop the decision; the         *)
(* decision is not written once the money has moved.                        *)
AnsweredAnyhow(c) ==
  /\ stage[c] = "money" /\ phase[c] \in Ended
  /\ Step(c, IF task[c].kind = "decide" THEN "write" ELSE "end")
  /\ UNCHANGED <<vars, regime, approval, approvalPast, task, reserved, paid>>

AnsweredOnly(c) ==
  /\ stage[c] = "money" /\ phase[c] \in Ended
  /\ Step(c, "end")
  /\ UNCHANGED <<vars, regime, approval, approvalPast, task, reserved, paid>>

(* The budget service has answered.  A refusal aborts the whole decision    *)
(* and leaves the approval PENDING.                                         *)
Answered(c) ==
  /\ stage[c] = "money" /\ phase[c] \in Ended
  /\ Step(c, IF phase[c] = "ok" /\ task[c].kind = "decide" THEN "write" ELSE "end")
  /\ UNCHANGED <<vars, regime, approval, approvalPast, task, reserved, paid>>

(* The decision is written, whatever the status has become since the read. *)
WriteDecision(c) ==
  /\ stage[c] = "write"
  /\ Write(task[c].id, task[c].decision)
  /\ Step(c, "end")
  /\ UNCHANGED <<vars, regime, task, reserved, paid>>

(* The invocation dies or a DynamoDB call fails: the rest does not happen.  *)
(* This includes the read-back after the commitment (get_budget, inside     *)
(* _move's try), whose failure decide_approval answers as a refusal.        *)
Fail(c) ==
  /\ regime.failures
  /\ InFlight(c)
  /\ Step(c, "end")
  /\ UNCHANGED <<vars, regime, approval, approvalPast, task, reserved, paid>>

Proceed(c) ==
  \/ ReadForDecision(c)
  \/ ReadForPayment(c)
  \/ Money(c)
  \/ Answered(c)
  \/ WriteDecision(c)

ApprovalsNext ==
  \/ \E a \in ApprovalIds : Raise(a)
  \/ \E c \in Calls : Begin(c) \/ Proceed(c) \/ Fail(c)

(* An invocation that is running keeps running; nothing makes a leader act. *)
ApprovalsSpec ==
  /\ ApprovalsInit
  /\ [][ApprovalsNext]_allVars
  /\ \A c \in Calls : WF_allVars(Proceed(c))

---------------------------------------------------------------------------
(* Type correctness of the approval side (Budget's TypeOK covers the rest). *)
ApprovalsTypeOK ==
  /\ regime \in Regimes
  /\ approval \in [ApprovalIds -> Statuses]
  /\ approvalPast \in [ApprovalIds -> SUBSET Statuses]
  /\ stage \in [Calls -> {"idle", "read", "money", "write", "end"}]
  /\ task \in [Calls -> Tasks \cup {NoRow}]
  /\ reserved \in [ApprovalIds -> Nat] /\ paid \in [ApprovalIds -> Nat]

Financial(a) == Asks[a].amount > 0

(* An approval never reads APPROVED unless its funds were reserved: the     *)
(* order decide_approval documents, under overlap, failure and stale reads. *)
ApprovedIsReserved ==
  \A a \in ApprovalIds : approval[a] = "APPROVED" /\ Financial(a) => reserved[a] > 0

(* No approval unlocks an action of the NEVER tier, and none reserves or    *)
(* spends money for one.                                                    *)
NeverTierStaysLocked ==
  \A a \in ApprovalIds : Asks[a].tier = "NEVER" =>
    approval[a] # "APPROVED" /\ reserved[a] = 0 /\ paid[a] = 0

(* Money leaves the committed balance for an approval only after money was  *)
(* committed for it.                                                        *)
PaymentFollowsReservation == \A a \in ApprovalIds : paid[a] > 0 => reserved[a] > 0

(* The money comes first (the order of decide_approval): neither a decision *)
(* nor a payment gets ahead of its reservation.                             *)
MoneyIsReservedFirst == ApprovedIsReserved /\ PaymentFollowsReservation

(* Every committed rupee traces to an approval: the event's commitments are *)
(* what approvals reserved less what was paid against them.                 *)
CommitmentsTrace ==
  budget.committed = OpeningBudget.committed
    + MapThenSumSet(LAMBDA a : reserved[a] * Asks[a].amount - paid[a], ApprovalIds)

(* "Deciding twice must not double-commit" (decide_approval). *)
ReservedOnce == \A a \in ApprovalIds : reserved[a] <= 1

(* Invocations one after another, each reading what the last one decided.   *)
InTurn == ~regime.overlap /\ ~regime.stale
Orderly == InTurn /\ ~regime.failures

(* One after another and unfailing, decisions commit once at most.          *)
ReservedOnceInTurn == Orderly => ReservedOnce

(* In turn, a decided approval "cannot be decided again" (decide_approval), *)
(* wherever an invocation dies.                                             *)
DecisionIsFinal ==
  [][\A a \in ApprovalIds :
       InTurn /\ approval[a] \in Decisions => approval'[a] = approval[a]]_allVars

(* In turn, and when nobody is deciding it, an approval holds a reservation *)
(* exactly if it is approved and financial: none is stranded behind another *)
(* status unless an invocation dies.                                        *)
NothingStranded ==
  Orderly => \A a \in ApprovalIds :
    (\A c \in Calls : InFlight(c) => task[c].id # a) =>
      reserved[a] = IF approval[a] = "APPROVED" /\ Financial(a) THEN 1 ELSE 0

(* Decisions in turn account for every reservation: one for what is         *)
(* approved, none besides.                                                  *)
ReservationsAreAccounted == NothingStranded /\ ReservedOnceInTurn

(* In turn, money reserved for an approval takes the approval out of        *)
(* PENDING, whatever happens to the calls besides it.                       *)
ReservationGetsDecided ==
  \A a \in ApprovalIds : Orderly /\ reserved[a] > 0 ~> approval[a] # "PENDING"
=============================================================================
