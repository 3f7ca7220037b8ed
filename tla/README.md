# TLA+ verification of the event operations platform

The repository is a community-event platform: a Python back end of AWS Lambda
handlers over one DynamoDB table, two Step Functions workflows, an agent runtime
with a tool registry, and a React application. This directory holds TLA+ modules
for the parts of it in which state is shared and steps interleave, TLC
configurations that check them, and TLAPS proofs.

    tlc -workers 2 -config budget_mixed.cfg MCBudget      # one run
    tlapm ApprovalsProofs.tla                             # one module's proofs

What makes this system hard is always the same thing. A handler is a Lambda
invocation of its own. It *reads* an item (`get_item`, which does not ask for a
consistent read, `services/shared/dynamodb.py:95`), *decides* on what it read, and
*writes* with separate calls. Only three kinds of write protect themselves: the
conditional put (`put_item_idempotent`), the atomic `ADD` (`atomic_update`), and
`transact_write` with conditions. Everything else is an unconditional `put_item` or
`update_item`. Between any two of these calls another invocation may run, and the
invocation itself may die.

## 1. Inventory

| Component | State it keeps | Operations | Hard behaviour | What makes it correct | Module |
|---|---|---|---|---|---|
| Budget service (`budget_service.py`, `budget_handler.py`) | the BUDGET row, one BUDGET_ALLOCATION row per category, EXPENSE rows | `ensure_budget`, `allocate`, `commit`, `release`, `record_expense` | two reads and a conditional transaction per call, retried; the budget created and its total written unconditionally | rows agree; nothing negative; allocations within the total; spending covered; calls end | Budget |
| Approvals (`approvals_handler.py`) | APPROVAL items | request, decide, pay with `approval_id` | status checked, money moved, status written in three calls | approved means reserved, reserved once; decisions final; NEVER-tier stays locked | Approvals, Consents |
| Tickets (`tickets_handler.py`, `ticket_service.py`) | TICKET item, the PDF in S3, downloaded copies | issue, revoke, recover, scan | record and PDF written separately; recovery and issuing race | PDF and record agree; held copies verify unless revoked; revocation sticks | Tickets |
| Check-in service (`checkin/handlers.py`, `verification.py`) | CHECKIN item, `is_checked_in` flag, audit events, recovery cases | search, verify, complete, reconcile, recover, verify-qr | three writes per completion, two of them allowed to fail | one check-in per person; the flag never ahead of the item | CheckIn |
| Check-in page (`CheckinConsole.tsx`, `checkinFlow.ts`) | what is on screen, busy flags | search, pick, scan, verify, recover, complete, start over, try again | responses overtake one another | verdict belongs to the person shown; nobody let in unverified; spinners end | CheckinConsole |
| Incident API (`incidents_handler.py`) | INCIDENT item, comments, linked tasks, counts | create, update, comment, resolve, reopen | status check and write apart; counters and an index key beside their source | counts match what they count; each reopening answers a closing | Incidents |
| Incident workflow (`incident_response.py`, its ASL) | one execution per incident | analyse, recommend, ask, execute, escalate, resolve | approval wait with a timeout; retries; unconditional writes beside the API's | nothing serious executed without approval; every execution ends | Incidents |
| Speaker follow-up (`speaker_followup.py`, its ASL), speakers API | SPEAKER item, `followup_count` | invite, wait, check, follow up, ask, escalate; update | counter read and set under retries; day-long waits; edits beside it | follow-ups counted, few of them unapproved; outreach ends; CONFIRMED only after a response | Speakers |
| Agent gate (`agent_handler.py`, `runtime.py`, `registry.py`, `policy.py`) | the transcript, one tool loop per exchange, approvals and audit records | chat, ask the model, invoke a tool, raise an approval | the model answers anything; gates in an order; a bounded loop; audit after the act | no call outside its caller's authority; each on record; each approval reported; exchanges end | AgentGate |
| Teams (`teams_handler.py`) | TEAM item with `member_count`, TEAM_MEMBER items | create, default teams, update, add, remove | a count beside what it counts | no added member uncounted; never negative | Teams |
| Tasks (`tasks_handler.py`, task tools) | TASK item with two index keys | create, update, reassign, and three agent tools | four writers with different checks; keys that repeat the status | keys, reason and completion time follow the status; only who may writes | Tasks |
| Events, planning (`events_handler.py`, `planning.py`) | EVENT item, plan, copy | create, update, lifecycle, archive, prepare, duplicate | status check and write apart; batches that stop halfway | life has one direction; a plan is whole, ordered and ahead of today | Events |
| Simulation (`simulation_handler.py`) | a counter and ids on the EVENT item | nine steps, reset | every step writes real records before it saves its progress, and decides on an index | money only for approved requests; the counter never ahead of its records | Simulation |
| Documents (`documents_handler.py`) | DOCUMENT item, S3 object, upload URL | request, confirm, delete | the browser writes to S3 by itself | what is listed has arrived and can be downloaded | Documents |
| Aggregates, health (`aggregate.py`, `health.py`) | none | the score of a snapshot | eight capped signals | relief never raises it; a critical incident shows | Health |
| DynamoDB repository (`dynamodb.py`) | the table | get, put, conditional put, update, ADD, transactions, batches | eventual consistency, cancelled transactions | modelled through its use | every module |
| Authentication, tenancy (`principal.py`, `tenancy.py`) | none | decide on one request's claims | pure | roles and scopes are part of the guards | AgentGate, Tasks, Incidents |
| Audit, notifications | append-only items | append | must never fail the caller | audit of tool calls and check-ins is modelled | AgentGate, CheckIn |
| Operations, demo, notification and audit APIs | none (projections) | read | - | - | - |
| Domain models, keys, validation | none | format, validate | pure | status enumerations only | - |
| Other pages of the web application, infrastructure, scripts | session, cached lists | render, deploy, seed | - | - | - |

The components call one another in few places, and the modules follow those:
approvals commit through the budget service (Approvals EXTENDS Budget); a task is
written by whoever is on its team (Tasks EXTENDS Teams); the page calls the check-in
service (CheckinConsole EXTENDS CheckIn); the workflow, the API, the agent's tools and
the simulation share one INCIDENT item (all in Incidents); the agent calls tools whose
effects are in Tasks, Incidents and Speakers. Every component with its status is in
`PROJECT.json` (`components`); the hazards of the code, each at its line with the
property that watches it, are in `hazards`.

## 2. Modules

    AtomicBudget        what budget_service promises: each operation one step
       ^  implemented by (INSTANCE, ImplementsAtomic)
    Budget              the calls as they run        BudgetProofs
       ^ EXTENDS
    Approvals           decisions and payments       ApprovalsProofs

    Tickets             ticket, PDF and copies       TicketsProofs
    CheckIn             the check-in handlers
       ^ EXTENDS
    CheckinConsole      the page that calls them     CheckInProofs

    Consents            the approvals a workflow waits on, EXTENDED by Incidents, Speakers

    Invocations         a Lambda invocation and the regime of a behaviour; EXTENDED by
                        Tickets, CheckIn, Consents and
       Incidents        incident API, tools, response workflow              ResponseProofs
       Speakers         speakers API, follow-up workflow                    ResponseProofs
       AgentGate        chat, tool loop, gates                              ResponseProofs
       Teams <- Tasks   memberships and their count; the task
                        they decide about                    TasksProofs <- BoardProofs
       Events           life, plan and copy of an event                     BoardProofs
       Simulation       the stepwise simulation                             BoardProofs
       Documents        rows, objects and URLs                              BoardProofs
       Health           the score                                           BoardProofs

    Sums                sums over finite sets, for BudgetProofs and BoardProofs

    MCBudget, MCApprovals, MCEntrance, MCResponse, MCBoard   instances for TLC

**Budget.** One event; events share no rows. `budget` and `lines` are the items,
`budgetPast` and `linesPast` the earlier versions a lagging replica may serve (empty
when `StaleReads = FALSE`). A *call* is one invocation: `phase` is its program
counter, `seenBudget` and `seenLine` its local copies.

| Action | Code |
|---|---|
| `Start` | the validation of the amount in each operation (`amount <= 0` is refused, except for an allocation or a total) |
| `PutExpenseRow` | `record_expense` puts the EXPENSE row before the counters move |
| `ReadBudget`, `ReadLine` | `_load_pair`, followed by the checks of `allocate` or `_move` (`Admissible`) |
| `Apply` | `_transact` succeeds: condition `Pinned`, new values `Written`; a line read as missing is put whole |
| `Cancel` | the transaction is cancelled (condition or conflict); recompute, or CONFLICT after `MAX_WRITE_ATTEMPTS` |
| `ReadTotal`, `CreateBudget`, `SetTotal` | `ensure_budget`: read, then an unconditional put of zeroes or an update of the total |
| `Abort` | the invocation dies, or DynamoDB fails it with an error no path retries |

Two details are kept because properties turn on them. The condition pins only the
counters the operation *writes* (`Touched`), not those it checks. And a call writes
"value read + change", not an increment, so the pin is what prevents lost updates.
With `FromNothing` the calls may also begin before the event has a budget, so that one
of them, or two at once, create it. `CreatedOnce` says that this happened at most once;
it is what the figures of the event rest on, and `budget_created_twice` what happens
otherwise.

**AtomicBudget.** The contract in the words of the docstrings: a commitment, release
or expense is checked against and applied to one state, in the event and in the
category alike.

**Approvals.** EXTENDS Budget and runs its calls: an invocation (`stage`, `task`) reads
the APPROVAL item, lets the budget service work (`Money` is Budget's `Work`), and
writes the decision (`WriteDecision`). `MoneyRequests` are the calls it makes, and the
`Requests` of the budget service include them. `reserved` and `paid` are history variables,
recorded in the step in which the money moves; no guard reads them. What the
environment of a behaviour does is its `regime`, chosen at the start: which tasks there
are, whether invocations overlap, read stale items, or die. Dying includes the failure
of the summary read-back *inside* `_move`'s `try` (`budget_service.py:619`) that makes
an applied commitment look refused.

**Tickets.** One registration. A payload is named by the invocation that signed it
(each generation signs a fresh timestamp, so no two are equal). `Generate` uploads the
PDF, `PutTicket` puts the record, `Download` lets an attendee keep what the S3 object
holds at that moment, `Scan` compares a held copy with the stored signature.
`CountReissue` is an atomic ADD for `issue_ticket` and a SET of a computed value for
`recover_handler`. What a scan answered is its verdict and the status it reports
(`Answer`). A regime says besides whether reads may lag (`stale`).

**CheckIn, CheckinConsole.** `CheckIn` serves requests in the steps of `verify_handler`
and `complete_handler`; an answer waits until the page takes it. `CheckinConsole` is the
page: one action per button, with the condition under which the button is enabled,
and one per then-callback, applied to whatever the page shows when it runs; "Try again"
is a disjunct of each. `flags` are its six busy flags. Search, scan, reconcile and
recover are modelled by what they can answer (any registration, several, none, a
ticket); their matching rules decide nothing the page's control depends on, and what a
recovery does to the ticket is in Tickets. A registration may be cancelled, paid or
refunded at any moment (`RegistrationMoves`), between its verification and its
completion too; `vouched` is the history of who passed a verification.

**Invocations.** What the remaining modules share: an invocation is a record `[at, req,
saw]` (where it stands, its request, what it uses of its read); a regime says which
component is at work, who calls, which kinds of request there are, whether they
overlap and whether they die. Stale reads of items are in Budget, Approvals, Tickets and
CheckIn, and the lag of the index in Simulation; in the others a read sees the latest
version.

**Incidents.** One INCIDENT item and its writers: `ReadIncident`/`WriteIncident` are
`update_incident`, `resolve_incident` and `reopen_incident` and the tools of the same
effect, refused by role and by the status read; a comment is task (if it creates one),
comment, atomic ADD, in this order; `Analyse` is the simulation's step, which sets the
count it computed. The response workflow is one action per handler call, under the
names of its state machine: `AfterFailure` is its Retry and Catch (only the Lambda
service error that a Retry lists is retried, any other ends the execution),
`ApprovalTimeout` its `TimeoutSeconds`. The workflow writes the status and leaves the index key (`Mark`), the
API rewrites both (`Moved`). Nothing in `src/` answers the task token or starts the
execution; `Answer` and `StartResponse` stand for whoever does.

**Consents.** The APPROVAL item a workflow raises and waits on. `decide_approval` checks the
status in one step (`MayDecide`, `Deciding`) and writes its decision in a later one
(`Decided`), so two leaders may both find it pending and the later write wins; the token
is answered with what the item says at that moment, or with anything else.

**Speakers.** The SPEAKER item, edited by `update_speaker` and written by one or more
executions of the follow-up workflow. `_send_followup` is read, write, return, each of
which may fail, and be retried from the start if the failure is one the state machine
lists (`AfterError`): that is how a message goes out that the counter does not show. `CheckResponse` opens a round; the approval asked
for in it is `permission`.

**AgentGate.** One chat session. An exchange checks scope, loads a capped history, asks
the model up to `MaxToolTurns` times, and stores two turns. The model may answer any
sequence of calls, with unknown tools, bad arguments, or other people's events and teams.
The history is what `_load_history` finds of the session, the turns there are in the
order of their sequence numbers (`Stored`, `Before`). `CallVerdict` is
`ToolRegistry.invoke` up to its effect, gate after gate in the code's order;
`OutOfScope` is `authorize_scope`, for the event and for the team; `EvaluatePolicy` is
the tier table. A call that acts, is refused or raises an
approval goes through `AuditCall` next, which may fail silently. A tool is its tier, its
roles and whether it writes, so that all forty are instances of one step.

**Teams, Tasks.** `FindTeam`, `PutMember`, `CountMember` are `add_member` (conditional
put, then ADD); `Reactivate` is its other branch, which counts nothing. A task request
passes `TaskRefused` on the item it read and writes `TaskWritten` over the item there
is; both index keys are fields. `resolve_principal` reads the memberships when the
request begins, so a member removed later still writes.

**Events.** `CheckTransition`/`WriteTransition` are the two halves of
`change_lifecycle` and `archive_event`. `prepare_event` reads the event, then the titles
there are, one query per team, then writes the missing tasks `BatchSize` at a time, in
any order: `batch_writer` sends what was not processed again later. `Deadline` is
`_deadline` in hours. `duplicate_event` puts the copy (each invocation its own; `CopyOf`
says which fields stay, the simulation's among them), reads the structure as it is by
then, team by team, writes batches, and puts the budget last. `DayPasses` moves the
clock between requests, and `SimulationRuns` stands for the simulation's writes to the
EVENT item.

**Simulation.** Each `advance` reads progress and ids, takes one snapshot, runs the step
write by write, and saves progress without a condition. The snapshot is a query of an
index: in a regime that `lags` it misses the latest items and shows earlier versions of
others (`Behind`); otherwise it has caught up. Step 6 reads the budget
(`ChooseCategory`) and puts the request later (`RequestHire`). An event that
`duplicate_event` made begins with a counter and ids of its source, whose records are
`Elsewhere`; `inherited` says so until a reset. Money is one indivisible move here;
Budget shows how it moves.

**Documents.** The row, the object and the URL, each changed by another party: the
handlers, the browser (`BrowserPuts`, any number of times while the URL holds), S3
(`UrlExpires`).

**Health.** `compute_health` as a function of the counts it looks at (signals, caps,
thresholds, Python's rounding), and steps that change the records one at a time.

Left out of all modules: wording, formatting, audit text where no property reads it,
notification fan-out, and pagination. Rupee amounts are integers in Python too, so no
width is modelled. Properties, mutations (definitions commented "Mutation of ...")
and the constants of the MC modules are not translations of code; everything else
is, and `PROJECT.json` (`map`) gives its lines.

## 3. Runs

A run asks what one instance can answer; a property of a run is often a conjunction of
named parts that are about one thing (the parts are in the column "parts").

| Run | Question | Properties (parts) | Instance |
|---|---|---|---|
| `budget_mixed` | Do the rows agree whatever overlaps? | `FiguresFollowRows` (`SumsMatch`, `SpendingHasRows`), `MovesTogether`, `NoOverAllocation` | 3 calls, all 6 operations, totals raised and lowered, 2 categories (one without a row yet) or no budget at all, stale reads, 3 attempts |
| `budget_spending` | Are spending and releasing as good as atomic, and is every call answered? | `ImplementsAtomic`, `SpendingIsCovered` (`EventCovered`, `LinesCovered`), `EveryCallAnswers` | 3 calls of expense (both categories), pre-approved expense, release; stale reads; 2 attempts; FairSpec |
| `budget_overspend` | *violation*: does the condition carry the headroom check? | `EventCovered` | 2 calls, commit 1 and expense 1, 1 rupee left |
| `budget_created_twice` | *violation*: does the sum of allocations stay within the total? | `AllocationsFit` | 4 calls: create with total 3, allocate 2 to either category |
| `approvals` | What survives overlap, failure and stale reads; what do decisions in turn promise besides? | `MoneyIsReservedFirst` (`ApprovedIsReserved`, `PaymentFollowsReservation`), `NeverTierStaysLocked`, `CommitmentsTrace`, `ReservationsAreAccounted` (`NothingStranded`, `ReservedOnceInTurn`), `DecisionIsFinal`, `ReservationGetsDecided` | 3 calls; one regime at once (a HIGH and a NEVER approval, stale, failing), one in turn (two HIGH ones, payments of 1 and 2) |
| `approvals_double_commit` | *violation*: does "still PENDING" prevent a second commitment? | `ReservedOnce` | 2 invocations overlap on one approval |
| `entrance` | Is everybody let in once, on their own checks, and does every spinner end? Do PDF, record and copies agree? Does issuing stand up to races? | `CompletionIsTrue` (`CheckedInOnce`, `FlagNeedsCheckin`), `VerdictDecides` (`VerdictMatchesPerson`, `OnlyVerifiedAdmitted`), `PageRecovers`, `HeldTicketsWork` (`PdfMatchesTicket`, `GateAcceptsHeld`), `RevocationSticks`, `TicketNeedsEligibility`, `CountsItsIssues` | five regimes, below; MCFairSpec |
| `tickets_revoked_scan` | *violation*: is a revoked ticket rejected at the gate? | `RevokedIsRefused` | 3 invocations in turn |
| `checkin_wrong_person` | *violation*: does the page bypass verification? | `OnlyVerifiedAdmitted` | 1 desk, 2 requests in flight, scanner, no failures |
| `response_chat` | Do incident, speaker and chat keep their promises beside their workflows, failures and an arbitrary model? | `IncidentIsConsistent`, `SeriousNeedsApproval`, `FollowupsAreAccounted`, `ConfirmedAfterResponse`, `ActsWithinAuthority`, `AnswersReportApprovals`, `CallsAreAudited`, `FollowUpsMakeSense`, `StartedWorkEnds` (`ResponseEnds`, `OutreachEnds`, `ChatEnds`), `ResponseTypeOK` | nine regimes, below |
| `board_events` | Do the records on the console's board agree with one another? | `MemberCountIsAccounted`, `TaskIsConsistent`, `TaskWritersAreEntitled`, `LifecycleIsOneWay`, `DeadlinesAreUsable`, `PlansAreWhole`, `CommittedIsApproved`, `RunsFollowTheirRecords`, `ListingIsTrue`, `ScoreIsSound`, `BoardTypeOK` | nineteen regimes, below |
| `team_count_drift` | *violation*: is the member count never negative? | `CountIsNatural` | one member, removed, added and removed, in turn |

`IncidentIsConsistent` is `CommentsCounted`, `CommentTasksExist`, `IndexFollowsStatus`
and `ReopeningsFollowClosings`; `FollowupsAreAccounted` is `FollowupsCounted` and
`AutomaticFollowupsBounded`; `TaskIsConsistent` is `StatusIndexFollows`,
`DueIndexFollows`, `CompletedHasTime` and `BlockedHasReason`; `TaskWritersAreEntitled`
is `OnlyLeadersMoveWork` and `MembersWriteTheirOwn`; `LifecycleIsOneWay` is
`ArchivedWasOver` and `OverStaysOver`; `DeadlinesAreUsable` is `PlanCanBeWorked` and
`PlannedAhead`; `PlansAreWhole` is `NothingHalfDone`, `PlanIsFilled` and
`CopyFollowsPlan`; `RunsFollowTheirRecords` is `StepsAreEarned` and
`TroubleCountsComments`; `ListingIsTrue` is `ListedCanBeDownloaded` and
`NothingListedUnseen`; `ScoreIsSound` is `ReliefDoesNotHurt`, `CriticalShows` and
`NoSignalAloneIsRed`.

**Side by side.** `MCEntrance`, `MCResponse` and `MCBoard` put components beside each other that share
no variable but the regime. The regime's `part` says which of them moves in a behaviour,
so the state space of a run is the sum of its components', not their product, and each
behaviour is one of the component alone. Nothing is lost: where components do interact
they are in one module. The regimes of `entrance`: two desks with lagging reads whose
handlers may die; two desks while registrations change; a desk with its scanner and two
requests in flight, where everything may fail; ticket requests of every kind in turn,
any of which may die; three issues, revocations and scans that overlap, on lagging
reads. The regimes of `response_chat`: an incident with three
overlapping requests that may die; three in turn beside the simulation's step; the
workflow with one request beside it; a speaker with one execution and two edits that
overlap and fail; two executions beside one edit; four exchanges of a session in turn;
three at once that fail; one exchange with every tool and caller, with and without
failures. Those of `board_events` likewise: each component overlapping, dying, and in
turn, and the simulation of a copied event and over a lagging index besides (`MCBoard`
says what each regime is for).

**Bounds, and why they are enough.** The interesting cases need two calls in a
conflict and a third that acts between them or afterwards; the runs have three
wherever that third exists. `MaxAttempts` is the code's `MAX_WRITE_ATTEMPTS`, 3
(`budget_service.py:63`), or 2 where that is enough for a cancellation, a success after
it, and exhaustion. Amounts are chosen so that each
check can just pass and just fail (zero, the last free rupee, one more). Two
categories are what "sum of the categories" and "another category untouched" need.
Two people, one eligible, are enough to mix them up. The number of requests in flight
bounds the browser's queue; two already overtake one another.
`ResponseRetries` and `FollowupRetries` are the `MaxAttempts` of the state machines, 2. Follow-ups have the code's limits (2
automatic, 3 in all). `MaxToolTurns = 2` is one pass after another and the ceiling;
`HistoryTurns = 1` is exceeded by the third exchange of a session. `BatchSize = 1`
with three planned tasks gives every point at which a batch can be the last one
written. `EventDays` 0, 4 and 40 with offsets of 3 and 21 days put deadlines in the past,
partly in the past and ahead; `MaxDay = 1` lets a day pass between two runs. In the
simulation, `records` bounds the incidents, tasks and approvals made: two of each are a
run and its repetition or successor. `MaxTasks = 5` reaches the cap on overdue work
(30 = 5 x 6) and on blocked work (16 = 4 x 4), `MaxIncidents = 1` beside the one tasks
wait for reaches the cap of the incident signal (48 < 36 + 18); `Amounts` lie on both
sides of 75 %, 90 % and the total.

`CHECK_DEADLOCK FALSE` stands in every run because invocations are finite and really
end. Symmetry is used only in runs that check safety.

The passing runs reach 1,036,389 (`budget_mixed`), 372,519 (`budget_spending`), 124,729
(`entrance`), 598,319 (`response_chat`) and 1,072,925 (`board_events`) distinct states;
none takes more than three minutes on two workers.

**Fairness.** `FairSpec` (Budget) and `ApprovalsSpec` assume that a
running invocation keeps running: the Lambda runtime schedules it and no handler
waits for another. `MCFairSpec` of the entrance assumes that a request is eventually
answered, possibly with an error, and that the browser runs the callback. `IncidentSpec` and
`SpeakersSpec` assume that Step Functions runs the states of an execution that has been
started, and its timers; `AgentSpec` that an exchange that has begun runs on. Nothing
obliges a request to arrive, a person to press a button, decide or answer a token, an
invocation to die, or a transaction to succeed: `EveryCallAnswers` holds although
transactions may keep cancelling one another, because attempts are counted, and
`ResponseEnds` and `OutreachEnds` although nobody ever answers, because waits have
timeouts and follow-ups a limit. Executions and exchanges are started once each, so
"every one that starts ends" is stated as "from some time on none is under way".

Each property of a passing run has a mutant in `PROJECT.json`: a plausible bug in one
mapped definition under which the same run finds the property violated. Properties with
a restriction ("in turn", "undisturbed") have it because the code does not keep them
without; section 5 says what happens then.

## 4. Proofs

Every theorem holds for every value of the constants that satisfies the `ASSUME`s of
its module and the assumption named here (the theorems about the verdict add that `None`
is not a registration): any number of calls, categories, approvals, registrations,
desks, people, executions, tools and model answers, any retry bound, plan template,
batch size, start date and document size, any opening state, any set of regimes.

What the `ASSUME`s ask is what the code has: requests have the fields their handlers
read, a regime those its component looks at, `None` is not a record, a status or a
date, the calls approvals make are calls the budget service takes. Three of them say
more. `EventsAssumption`: in a plan template titles differ, and what
a task needs has the longer lead time (`planning.py:51-116`).
`TeamsAssumption`: a team opens with finitely many members. `AgentAssumption`:
`MaxHistoryTurns` is at least 2 (the code has 12, `runtime.py:71`): of a window of one
turn `_history_messages`, which drops a leading answer, would leave nothing.

| Module | Theorem | Statement | Assumes |
|---|---|---|---|
| `BudgetProofs` | `TypeCorrect` | `Spec => []TypeOK` | - |
| | `CountersNeverBelowZero` | `Spec => []NeverBelowZero` | - |
| | `EventAndCategoryMoveTogether` | `Spec => MovesTogether` | some category exists |
| | `AllocationsStayWithinTotal` | `Spec => []NoOverAllocation` | as `FiguresStayTrue` |
| | `CommitmentsStayWithinTotal` | `Spec => []EventCovered` | starts covered; a budget row exists; only allocate, commit, release |
| | `ReservationsAreAtomic` | `Spec => ImplementsAtomic` | only commit and release; a budget row exists |
| | `SpendingIsAtomic` | `Spec => ImplementsAtomic` | only expense, pre-approved expense and release; a budget row exists |
| | `SpendingStaysCovered` | `Spec => []SpendingIsCovered` (`SpendingCoveredByTotal`, `SpendingCoveredByLines`) | as above; starts covered |
| | `FiguresStayTrue` | `Spec => []FiguresFollowRows` | finitely many calls and categories; a row that is there at first opens with the sums of its lines, within its total |
| `ApprovalsProofs` | `ApprovalsTypeCorrect` | `ApprovalsSpec => []ApprovalsTypeOK` | - |
| | `NeverTierIsNeverUnlocked` | `ApprovalsSpec => []NeverTierStaysLocked` | - |
| | `ApprovalNeedsReservation` | `ApprovalsSpec => []ApprovedIsReserved` | - |
| | `MoneyComesFirst` | `ApprovalsSpec => []MoneyIsReservedFirst` (with `NoPaymentBeforeReservation`) | every approval is financial |
| | `CommitmentsAreTraced` | `ApprovalsSpec => []CommitmentsTrace` | finitely many approvals; a budget row exists |
| | `ApprovalsUseBudget` | `ApprovalsSpec => Spec` (of `Budget`) | - |
| | `DecisionsStand` | `ApprovalsSpec => DecisionIsFinal` | - (the property speaks of decisions in turn) |
| | `EveryReservationIsDecided` | `ApprovalsSpec => []ReservationsAreAccounted` (with `NoReservationIsStranded`, `DecisionsReserveOnce`) | - (in turn, unfailing) |
| `TicketsProofs` | `TypeCorrect` | `TicketsSpec => []TicketsTypeOK` | - |
| | `TicketsAreVouchedFor` | `TicketsSpec => []TicketNeedsEligibility` | - (without recovery) |
| | `IssuesAreCounted` | `TicketsSpec => []CountsItsIssues` | - (without recovery) |
| | `TicketsKeepWorking` | `TicketsSpec => []HeldTicketsWork` (with `PdfIsTheTickets`, `HeldTicketsVerify`) | - (in turn) |
| | `RevocationIsFinal` | `TicketsSpec => RevocationSticks` | - (in turn) |
| `CheckInProofs` | `CompletionFollowsItem` | `Spec => []CompletionIsTrue` (with `CompletedOnce`, `FlagFollowsItem`) | - |
| | `VerdictsDecide` | `Spec => []VerdictDecides` (verdict and person, verification and admission) | - (without the scanner) |
| `ResponseProofs` | `NothingSeriousUnapproved` | `IncidentSpec => []SeriousNeedsApproval` | - |
| | `ItemAgreesWithItsParts` | `IncidentSpec => []IncidentIsConsistent` | - |
| | `IncidentTypeCorrect` | `IncidentSpec => []IncidentTypeOK` | - |
| | `FollowupsStayAccounted` | `SpeakersSpec => []FollowupsAreAccounted` | - |
| | `ConfirmationFollowsResponse` | `SpeakersSpec => []ConfirmedAfterResponse` | - |
| | `SpeakerTypeCorrect` | `SpeakersSpec => []SpeakersTypeOK` | - |
| | `AuthorityIsKept` | `AgentSpec => []ActsWithinAuthority` | - |
| | `EveryCallIsOnRecord` | `AgentSpec => []CallsAreAudited` | - (without failures) |
| | `AnswersAreComplete` | `AgentSpec => []AnswersReportApprovals` | - |
| | `FollowUpsStayMeaningful` | `AgentSpec => []FollowUpsMakeSense` | - (in turn, unfailing) |
| | `AgentTypeCorrect` | `AgentSpec => []AgentTypeOK` | - |
| | `ResponsesKeepTheirSteps` | `MCSpec => IncidentSpec /\ SpeakersSpec /\ AgentSpec` | - |
| | `ResponseKeepsTypes` | `MCSpec => []ResponseTypeOK` | - |
| `TasksProofs` | `TaskTypeCorrect` | `TasksSpec => []TasksTypeOK` | - |
| | `TaskStaysConsistent` | `TasksSpec => []TaskIsConsistent` | - (the deadline key in turn) |
| | `WritersAreEntitled` | `TasksSpec => TaskWritersAreEntitled` | - (in turn) |
| | `CountStaysAccounted` | `TasksSpec => []MemberCountIsAccounted` | - (while nobody leaves or dies) |
| `BoardProofs` | `LifeHasOneWay` | `EventsSpec => LifecycleIsOneWay` | - (`OverStaysOver` in turn) |
| | `PlansCanBeWorked` | `EventsSpec => DeadlinesAreUsable` | - |
| | `PlansEndUpWhole` | `EventsSpec => PlansAreWhole` | - |
| | `ListingStaysTrue` | `DocumentsSpec => []ListingIsTrue` | - |
| | `RunsStayEarned` | `SimulationSpec => []RunsFollowTheirRecords` | - (in turn, index caught up) |
| | `MoneyIsApproved` | `SimulationSpec => []CommittedIsApproved` | - (equality in turn, index caught up) |
| | `ScoreStaysSound` | `HealthSpec => ScoreIsSound` | - |
| | `PartsKeepTheirSteps` | `MCSpec => TasksSpec /\ EventsSpec /\ SimulationSpec /\ DocumentsSpec /\ HealthSpec` | - |
| | `BoardKeepsTypes` | `MCSpec => []BoardTypeOK` | - |

An assumption that restricts the workload is there because the code needs it: section 5
has a counterexample for what it excludes. A restriction in parentheses is part of the
property itself.

**Budget.** None of the properties is inductive: a call that stands at its write may
hold any figures. The inductive invariant `IInv` is `TypeOK`, `Existence` (while there is
no budget row, no earlier version is one) and `CallInv` for each call: what the phases a
call has passed have established about its copies, above all that a call at its write
found its change `Admissible` *on what it read*. The step that matters is `Apply`.
`ApplyAddsDeltas` shows that the condition makes "value read + change" equal to "current
value + change" for every counter written; with `AdmissibleStaysNatural` that gives
`NeverBelowZero` and `MovesTogether`.

For the next three theorems the check has to survive for counters that are *not*
pinned. `Frozen` says that a counter no request touches is the same in the row, in its
earlier versions and in every copy; `ChecksStillHold` uses it to carry the check from
the copy to the row. The workload restrictions (`Only`) are exactly what makes the
unpinned counters frozen, and `budget_overspend` shows that they cannot be dropped.

Spending needs more than `Frozen`, because an expense checks `committed`, which
it does not pin and which a release or a pre-approved expense may be lowering. The
invariant `Falling` says that every version a call holds, or may still read, has
`committed` at least as high as now: a stale check errs on the safe side.

**Sums.** The figures of a budget are sums over its categories, the committed balance is
traced to a sum over approvals, the score is a sum of signals; `MapThenSumSet` is a
recursive fold in the order in which CHOOSE picks elements, and the induction theorems of
the library take an operator. `Sums` does the induction by a smallest counterexample
instead: the subsets of a finite set on which two candidates for the fold differ have a
smallest one (`SmallestSubset`), and there the two agree after all. `FoldSums` so obtains
the fold as a function on subsets, `SumTakes` takes any element out first, and
from it follow the lemmas that proofs cite: a change at one element changes the sum by
as much (`SumChanges`), a sum of larger terms is larger (`SumIsMonotone`), no term
exceeds it (`SumHasPart`).

`FiguresStayTrue` is then two equations. `FiguresMatch` compares the event with its
lines, and each move shifts one term of the sum and the event by the same amount
(`ApplyAddsDeltas`). `SpentMatches` compares spending with the expense rows of completed
calls; it needs `RowsFit`: a call that reaches its write has put its own row and no
other. `TotalsKnown` adds that the event's counter of allocations is within a total the
event has had, which with the first equation is `NoOverAllocation`. All three hold while
the budget is created once: `Origin` says of an event without one that nothing has moved
(`Blank`), so that its creation establishes them (`CreationStartsInOrder`), and
`CreatedOnceBefore` that afterwards no step is a creation.

**Approvals.** An approval is `Cleared` if it is not NEVER-tier and, being financial, has
reserved. `AInv` says of each approval that whoever may read APPROVED reads it of a
cleared one (`AskInv`), and of each invocation that one about to write APPROVED, or to
pay, holds a cleared one (`StageInv`). Reservations are never taken back, so neither
part can be undone by others: no assumption about overlap, failure or lag is needed.
For decisions in turn, `OneAtWork` says that at most one invocation is in flight, that
what it is deciding still reads PENDING, and that there is no earlier version to read.
`Accounted` rests on it: an approval nobody is deciding holds exactly the reservation
its status calls for (`Due`), and one that is being decided what its call has moved so
far (`Progressed`). `CommitmentsAreTraced` compares the committed balance with the sum of
what each approval holds, reserved less paid (`Held`): `AskFits` says that the call an
invocation runs is the one its task asks for, so that what `Apply` moves in the event
is what the history records. `ApprovalsUseBudget` shows that every step here is one of
`Budget`, or moves none of its variables: the invariants of `BudgetProofs` are invariants
of approvals too, and this proof uses them.

**Tickets.** For issuing, `Vouched` says that an issue past its eligibility check found
the registration eligible at some time, and that the stored count is the number of times
the ticket on record was handed out. For requests in turn, `OneTicket` says
that a ticket is generated only where there is none, so that link, record and every copy
anybody holds carry one payload, and a revoked ticket is never replaced; a scan then
finds nothing but that payload.

**Check-in.** The completion rests on `OnceInv`: at most one request ever "holds" a
registration, that is, has created its item and has not answered. The verdict's part
shows that without the scanner a desk has at most one request in flight, because the
busy flag it raised disables every other button (`RequestInv`, `OneFlight`); hence an
answer that arrives is about the person on screen, and what enables completion is that
person's own verification, whatever becomes of the registration later. With the scanner
that is false (`checkin_wrong_person`).

**Agent.** `AuthorityIsKept` needs nothing but the gate: `PassedTheGate` and
`RunsWithoutApproval` say what a verdict of "run" or "approval" implies, whatever the
call. The other two are about the record kept in a second step. Every step of an
exchange is one of three kinds (`EveryStepIsClassified`): *quiet* (no record changes and
no audit is due), *acting* (one call enters one of the records, and its audit is due) or
*accounting* (the audit and the report of that call). The invariant `Accounted` says of
each exchange that its trail is what it did, but for the call whose audit is due, and
that it has reported the approvals it raised, but for that call's; each kind of step
keeps it. `AnswersStand` adds that who has answered does nothing any more.

**The conversation.** `FollowUpsMakeSense` compares what an exchange loaded with what the
last one answered, and between them lie a capped load, two writes at numbers computed
from the length of that load, and the code's trimming. `TalkInv` says, of exchanges in turn
that do not fail, that the numbers in use have no gap and alternate (`InConversation`), and
that whoever is past its load holds the history there still is (`HasHistory`). The lemmas
on the way say which turns a history without gaps shows, at the cap as well as below it.

**Incidents.** `Gated` says of the execution that it is on the automatic branch only with
a severity that is not serious, that it executes only once the approval reads
APPROVED, and that what it records as resolved came by one of the two. Nothing else
writes the execution or its approval, so requests beside it do not matter.
`IncidentIsConsistent` compares a counter with the cardinality of a set that another
step grew. `ItemInv` names the invocations between the two: each stored one comment at
most, and is at the counter or past it (`ThreadPlaced`), so the count is that of the
comments less those still on their way (`CommentsCounted`). That a reopening answers a
closing needs `ReopeningsBehind`: strictly fewer reopenings than closings while the
incident is closed, and while one is at its write.

**Speakers.** The count of follow-ups is set from a read, so it is right only while what
an execution is about to count still holds: `OnItsOwn` says so of one execution, and
bounds what it has sent since its round began by its tries, which is where the allowance
for retries in `AutomaticFollowupsBounded` comes from. `EditFits` carries the check of
`update_speaker` to its write: nothing takes `responded` back.

**Teams, tasks.** `ShapeInv` places every invocation (`Asking`) and keeps memberships
away while there is no team. `CountInv` is an equation, while nobody leaves, between
`member_count`, the cardinality of the memberships and that of the invocations between
the membership row and the counter; each step moves two of its terms or none.
`TurnInv` says that in turn what a
call read is what there is, and that it asks for somebody who was on the team when
it began; the writers' rights follow. In `ItemInv`, `Knows` adds what survives overlap:
a call that read a completed task writes one that has its time.

**Events.** `LifeInv` keeps with each call at its transition that its target was allowed
from where the event is (in turn), or that the event was over (`MoverFits`). `PlanInv` is
about the run rather than the task: the tasks a run has written and is still to write
are `Ordered` together, and `Closed` under what they need unless it may die; so nothing
is lost when a batch lands. `BudgetInv` says that a missing budget, of the event or of a
copy (`CopyFits`), is somebody's next step, `WholeInv` that in turn the titles written
and those pending are disjoint and, once every team has been read, all there are
(`FillsInTurn`, team by team).

**Simulation.** `Earned` is what a step number has to show for itself in the records,
and `StageFits` what each stage of a step has established: a step is earned before it is
saved, and stays earned through a reset, which forgets only the numbers. All of this is
of an index that has caught up, where the snapshot is what there is (`Current`); a copied
event has earned nothing until it is reset (`inherited`). `TallyInv` keeps
the count of comments beside the comments. The inequality of `MoneyInv` needs no order at all: it compares
the sum of approved requests, of calls between commitment and decision and of calls that
died there with what is committed, move by move.

**Documents.** `FilesInTurn` says that the row an invocation found, and the object it saw
at `head_object`, are there while it acts; `arrived` never goes back, and that is enough
for the half that overlap keeps.

**Health.** `SignalsAreCapped` gives each signal its cap, none of which reaches the
threshold of RED. `SignalsEase` compares two boards signal by signal: fewer of each kind of
trouble give fewer points, through the caps, the percentage rounded half to even
(`RoundedKeepsOrder`) and the discount for work an incident already accounts for
(`BlockedEases`); `SumIsMonotone` carries it to the score.

**Compositions.** `MCResponse` and `MCBoard` are shown to implement the specification of
each of their parts, the first with its fairness: a step of the composition is one of
one part and leaves the variables of the others alone. So every theorem about a part is
one about the composition that the run checks.

**How the invariants were found.** TLC checked each inductive invariant on the instances
of section 3 before it was proved. Two attempts that failed were about the model:
`FollowUpsMakeSense` with a window of one turn (above), and the history, which was
a filter over a sequence that the provers cannot compute with and is now stated by
the place of each turn.

**Only model-checked.** The liveness properties (`EveryCallAnswers`,
`ReservationGetsDecided`, `PageRecovers`, `StartedWorkEnds`): TLAPS does not prove
fairness arguments. Every other property of a passing run is stated by a theorem.

## 5. Where the code and its documentation part

Six runs end in a violation, each listed under `findings`:

* `budget_overspend`. A commitment and a direct expense read the same headroom; one
  pins `committed`, the other `spent`; both succeed. `budget_service.py:289` says the
  condition pins every counter the caller read.
* `approvals_double_commit`. Two leaders approve at once; both find PENDING, both
  commit. `approvals_handler.py:306` says deciding twice must not double-commit.
* `checkin_wrong_person`. The page accepts a scan while a search is running; two
  verifications are in flight, the later response wins, and "Complete" sends the
  registration on screen. `checkinFlow.ts:275` says verification is never bypassed.
* `budget_created_twice`. `ensure_budget` finds no budget and puts a row of zeroes
  unconditionally (`budget_service.py:236`). A second creation that read before the first
  wrote erases the event's counters, the lines keep theirs, and the same total is
  allocated again. `budget_service.py:412` says the sum of allocations may not exceed it.
* `tickets_revoked_scan`. The gate compares the signature and reports the status without
  judging it (`handlers.py:707`), so a revoked ticket scans as valid.
  `tickets_handler.py:447-449` and the message at 499 say the gate rejects it.
* `team_count_drift`. Add, remove, add, remove leaves `member_count` at -1: an add that
  re-activates a row counts nothing (`teams_handler.py:408`), every removal subtracts one
  (509). `models/team.py:73` gives the counter `ge=0`.

Others were met while modelling and have no run of their own. Each is why a property
above carries its restriction; the behaviour is in the model, and shows when the
restriction is dropped or the constants named are changed.

* *Budget.* Allocate overlapping a commitment of the same line can leave less
  allocated than committed (`LinesCovered`, Requests with both). `ensure_budget`
  checks a lower total against spending and commitments, not against allocations
  (`budget_service.py:259`): after it the allocations may exceed the total on record.
  `NoOverAllocation` therefore compares their sum with the totals the event has
  had, and counts the rows of the lines, not the event's counter. It speaks of
  histories in which one creation found no budget (`CreatedOnce`); the others are
  `budget_created_twice`.
* *Approvals.* With failures a retry after a lost answer commits again
  (`ReservedOnce`, `NothingStranded`). With overlap an approval is decided
  twice (`DecisionIsFinal`). A payment is matched with its approval by status alone, so
  it may exceed it and draw on what others reserved (`budget_handler.py:263`); that is
  why `PaymentFollowsReservation` compares no amounts. The same check does not ask
  whether the approval was about money: one that reserved nothing can be paid against,
  so `NoPaymentBeforeReservation` assumes every approval financial.
* *Tickets.* Two first issues that overlap both find no ticket and mint one each, the
  "two valid tickets for one registration" that `tickets_handler.py:341` means to rule
  out; the second replaces the first and its count starts at 1, so `CountsItsIssues`
  speaks of the ticket on record. With overlap or stale reads `PdfMatchesTicket`,
  `GateAcceptsHeld` and `RevocationSticks` fail: the unconditional put of a generation
  lands after another generation or a revocation. Recovery checks no eligibility and
  counts by read and set, so `TicketNeedsEligibility` and `CountsItsIssues` fail with
  it. `GateAcceptsHeld` says nothing of the scan of a revoked ticket, in either direction.
* *Check-in.* A completion that dies before its audit event is never audited: the
  retry finds the item and answers "already" (hence `<=` in `CheckedInOnce`). A failed
  flag update is swallowed (`handlers.py:619`), hence one direction in
  `FlagNeedsCheckin`. Each failed reconcile opens a new recovery case
  (`handlers.py:530`), where the design asks for one.
* *Incidents.* The workflow never rewrites the index key it changes the status of, so
  the status index goes on listing what it resolved (`IndexFollowsStatus` without its
  restriction). The severity is read once: an incident raised to CRITICAL between
  `_analyze` and `AutoResolve` is resolved without an approval, although
  `models/incident.py:18` lists what the agent may resolve by itself. Members may
  take an incident out of a closed status with an update, which `reopen_incident` keeps
  for leaders; two reopenings that overlap count twice. The simulation sets
  `comment_count` from its read (`simulation_handler.py:625`), so a comment beside it is
  lost from the count: `response_chat` has the step only in turn. Two leaders may decide
  the approval a workflow waits for at once: both find PENDING and
  the later write stays, whatever the workflow was told (`Consents`). Nothing calls
  SendTaskSuccess for either workflow or starts a state machine.
* *Speakers.* A retried `_send_followup` sends a message that is not counted, and two
  executions count from the same read: hence the allowance for retries and the
  restriction to one execution. `_update_speaker` and the escalation overwrite whatever
  a leader set meanwhile, DECLINED and CONFIRMED included; the workflow confirms
  without an approval where `speakers_handler.py:260-265` describes one.
* *Agent.* Turns are numbered by the length of the history that was loaded
  (`agent_handler.py:105`), and that is capped: from the thirteenth exchange on, each
  overwrites the last turns, which the docstring (`agent_handler.py:15-17`) rules out.
  A failed load starts over at 0; a lost answer leaves two user turns in a row.
  "Never raises" (`registry.py:312`) does not hold of the approval builder
  (`registry.py:433`). No call passes `has_approval`, so the handlers of HIGH-tier tools
  never run, approved or not. A model that offers the same HIGH call twice raises two
  approvals.
* *Teams.* The default teams are put over a team created in between, and over its count.
* *Tasks.* An update with an empty `blocked_reason` and no status clears the reason of a
  blocked task. `DueIndexFollows` fails for overlapping requests, since the due date in
  the key is the one read. A member removed after `resolve_principal` still writes.
* *Events.* Two lifecycle requests at once may take a cancelled event back to ACTIVE, or
  an archived one to COMPLETED (`OverStaysOver` with overlap). Two runs of `prepare`
  at once plan every title twice. A run that fills the gaps of one that died links its
  tasks only to one another: dependencies across the two are lost. `batch_put` is
  called idempotent by key (`dynamodb.py:484`), but the keys are new in each run.
* *Simulation.* "A double-click cannot commit the same money twice"
  (`simulation_handler.py:27`) holds of requests in turn only: two overlapping step-7
  requests both commit for one approval. A step that dies after its writes is repeated,
  with a second incident or approval; one that dies after the commitment commits again
  (`orphaned` counts these). A late step takes the progress back. A step reads its
  records through an index that may lag, so a repeat may not find what its predecessor
  wrote and write it again, or commit again: `CommittedIsApproved` and `StepsAreEarned` ask
  for a caught-up index where they claim equality. `duplicate_event` copies
  `simulation_step` and the ids of the simulation's records (`inherited`), although its
  comment (`events_handler.py:487-488`) says a copy must not "claim the old one's history".
* *Documents.* `update_item` creates what it does not find: a confirmation racing a
  delete leaves a listed row without a key. A delete that dies halfway leaves a listed row
  whose object is gone. The presigned PUT has no size condition, against
  `documents_handler.py:135-137`; the size is checked at confirmation, and may be changed
  again while the URL holds. The bucket expires objects after 90 days
  (`template.yaml:245`) and the rows stay; that expiry is not in the model.
* *Health.* Resolving an incident over work that stays blocked raises the score: that
  work then counts by itself (`health.py:157-160` says resolving clears both).

## 6. Not modelled, and what is next

Not modelled: projections (operations, attention lists, workloads, notification and audit
listings), the demo sign-in, formatting and validation, which keep no state and are
covered by unit tests; token decoding and the tenant header (one request, no state);
what the forty tools compute beside what Incidents and Tasks model; notifications, which
are append-only and read by nothing that decides; recovery cases; rendering, routing
and sessions of the other pages; infrastructure, seeding and scripts.

Partly modelled components are those of `PROJECT.json` with that status; each note says
what is left out.

Next modules: the web application's session (sign-in, refresh, expiry); recovery cases
in CheckIn; stale reads in the other modules over Invocations; the registrations' life cycle
shared by Tickets and CheckIn.

Next proofs: the workloads between `ReservationsAreAtomic` and `SpendingIsAtomic` that
mix allocations in; an abstract specification of the check-in desk that `CheckinConsole`
implements, and one of a decision that `Approvals` implements in turn.
