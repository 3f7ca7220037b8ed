------------------------------- MODULE Events -------------------------------
(***************************************************************************)
(* One event: its life (services/api/events_handler), the operational plan *)
(* prepare_event generates (services/api/planning) and the copy            *)
(* duplicate_event makes.  Its default teams are the batch of Teams; its   *)
(* budget row is the one ensure_budget of Budget puts.                     *)
(***************************************************************************)
EXTENDS Integers, FiniteSets, Invocations

CONSTANTS
  PlanTeams,     \* how many teams the checklist is for
  Template,      \* the checklist: [title, its team, days before the event, the title needed]
  BatchSize,     \* items batch_put writes in one request
  EventDays,     \* start dates an event may be given, in days
  MaxDay,        \* bound: the last day the clock reaches
  EventRequests

EventStatuses == {"DRAFT", "PUBLISHED", "ACTIVE", "PAUSED", "COMPLETED", "CANCELLED", "ARCHIVED"}

Lifecycle(target) == [kind |-> "lifecycle", target |-> target]
Archive == [kind |-> "archive"]
SetStart(day) == [kind |-> "update_event", day |-> day]
Prepare == [kind |-> "prepare"]
Duplicate == [kind |-> "duplicate"]

(* What the handlers let through: a status there is, a date of the calendar. *)
AnyEventRequest ==
  {Lifecycle(s) : s \in EventStatuses} \cup {SetStart(d) : d \in EventDays}
  \cup {Archive, Prepare, Duplicate}

EventRecord ==
  [status : EventStatuses, key : EventStatuses, start : EventDays \cup {None},
   paused : BOOLEAN, total : BOOLEAN, simulated : BOOLEAN]

Titles == {Template[i].title : i \in DOMAIN Template}
EntryOf(t) == CHOOSE i \in DOMAIN Template : Template[i].title = t
TitlesFor(k) == {t \in Titles : Template[EntryOf(t)].team = k}

(* Titles are told apart, and what a task needs has the longer lead time.   *)
ASSUME EventsAssumption ==
  /\ \A i, j \in DOMAIN Template : Template[i].title = Template[j].title => i = j
  /\ \A i \in DOMAIN Template :
       /\ Template[i].days \in Nat /\ Template[i].team \in 1 .. PlanTeams
       /\ Template[i].needs # None =>
            \E j \in DOMAIN Template : /\ Template[j].title = Template[i].needs
                                      /\ Template[j].days > Template[i].days
  /\ PlanTeams \in Nat \ {0} /\ BatchSize \in Nat \ {0} /\ MaxDay \in Nat /\ EventDays \subseteq Nat
  /\ EventRequests \subseteq AnyEventRequest
  /\ None \notin Titles \cup Calls \cup EventDays \cup EventRecord

VARIABLES
  event,     \* the EVENT item, or None
  budgetRow, \* its BUDGET item is there
  plan,      \* the TASK items of the plan: title, the invocation that made the
             \* id, deadline, whether it depends on another, what it blocks
  copies,    \* of each invocation the copy it makes: the EVENT item, or None, whether its
             \* BUDGET item is there, and the titles of its TASK items
  clerks,    \* the invocations; saw is what they read or have still to write
  day,       \* today
  wasOver    \* history: the event was COMPLETED or CANCELLED at some time

eventVars == <<event, budgetRow, plan, copies, clerks, day, wasOver, regime>>

(* A day has 24 hours, in which deadlines are counted. *)
Hours(d) == 24 * d

EventsInit ==
  /\ event = None /\ budgetRow = FALSE
  /\ plan = {} /\ copies = [c \in Calls |-> [event |-> None, budget |-> FALSE, titles |-> {}]]
  /\ clerks = AllIdle
  /\ day = 0
  /\ wasOver = FALSE
  /\ regime \in Regimes

(* An invocation is short: days pass between requests. *)
DayPasses ==
  /\ day < MaxDay /\ \A c \in Calls : ~Active(clerks, c)
  /\ day' = day + 1
  /\ UNCHANGED <<event, budgetRow, plan, copies, clerks, wasOver, regime>>

---------------------------------------------------------------------------
(* The event's life. *)

(* create_event puts the item, then the budget if a total is given.         *)
CreateEvent(c) ==
  /\ event = None /\ MayBegin(clerks, c)
  /\ \E start \in EventDays \cup {None}, total \in BOOLEAN :
       /\ event' = [status |-> "DRAFT", key |-> "DRAFT", start |-> start, paused |-> FALSE,
                    total |-> total, simulated |-> FALSE]
       /\ clerks' = IF total THEN [clerks EXCEPT ![c] = Invocation("budget", None, None)]
                    ELSE clerks
  /\ UNCHANGED <<budgetRow, plan, copies, day, wasOver, regime>>

EnsureEventBudget(c) ==
  /\ clerks[c].at = "budget"
  /\ budgetRow' = TRUE
  /\ clerks' = Done(clerks, c)
  /\ UNCHANGED <<event, plan, copies, day, wasOver, regime>>

BeginEventRequest(c) ==
  /\ event # None /\ MayBegin(clerks, c)
  /\ \E r \in EventRequests : r.kind \in regime.kinds /\ clerks' = Begun(clerks, c, r)
  /\ UNCHANGED <<event, budgetRow, plan, copies, day, wasOver, regime>>

(* The simulation leaves its counter and its ids on the item.               *)
SimulationRuns ==
  /\ event # None /\ "simulate" \in regime.kinds
  /\ event' = [event EXCEPT !.simulated = TRUE]
  /\ UNCHANGED <<budgetRow, plan, copies, clerks, day, wasOver, regime>>

(* Mutation of AllowedTransitions: what is completed may be taken up again. *)
AllowedTransitionsReopened(status) ==
  CASE status = "DRAFT" -> {"PUBLISHED", "CANCELLED"}
    [] status = "PUBLISHED" -> {"ACTIVE", "DRAFT", "CANCELLED"}
    [] status = "ACTIVE" -> {"PAUSED", "COMPLETED", "CANCELLED"}
    [] status = "PAUSED" -> {"ACTIVE", "CANCELLED"}
    [] status \in {"COMPLETED", "CANCELLED"} -> {"ACTIVE", "ARCHIVED"}
    [] status = "ARCHIVED" -> {}

AllowedTransitions(status) ==
  CASE status = "DRAFT" -> {"PUBLISHED", "CANCELLED"}
    [] status = "PUBLISHED" -> {"ACTIVE", "DRAFT", "CANCELLED"}
    [] status = "ACTIVE" -> {"PAUSED", "COMPLETED", "CANCELLED"}
    [] status = "PAUSED" -> {"ACTIVE", "CANCELLED"}
    [] status \in {"COMPLETED", "CANCELLED"} -> {"ARCHIVED"}
    [] status = "ARCHIVED" -> {}

TargetOf(r) == IF r.kind = "archive" THEN "ARCHIVED" ELSE r.target

AsksEvent(c, kinds) == clerks[c].at = "read" /\ clerks[c].req.kind \in kinds

(* change_lifecycle and archive_event read the status and check it, ...     *)
CheckTransition(c) ==
  /\ AsksEvent(c, {"lifecycle", "archive"})
  /\ clerks' = IF TargetOf(clerks[c].req) \in AllowedTransitions(event.status)
               THEN GoneTo(clerks, c, "transition") ELSE Done(clerks, c)
  /\ UNCHANGED <<event, budgetRow, plan, copies, day, wasOver, regime>>

(* ... then write the new one without a condition.                          *)
Moves(e, target) ==
  [e EXCEPT !.status = target, !.key = target,
            !.paused = IF target = "PAUSED" THEN TRUE ELSE IF target = "ACTIVE" THEN FALSE ELSE @]

WriteTransition(c) ==
  LET target == TargetOf(clerks[c].req) IN
  /\ clerks[c].at = "transition"
  /\ event' = Moves(event, target)
  /\ wasOver' = (wasOver \/ target \in {"COMPLETED", "CANCELLED"})
  /\ clerks' = Done(clerks, c)
  /\ UNCHANGED <<budgetRow, plan, copies, day, regime>>

(* update_event: of the fields it may change, the start date matters here.  *)
UpdateEvent(c) ==
  /\ AsksEvent(c, {"update_event"})
  /\ event' = [event EXCEPT !.start = clerks[c].req.day]
  /\ clerks' = Done(clerks, c)
  /\ UNCHANGED <<budgetRow, plan, copies, day, wasOver, regime>>

---------------------------------------------------------------------------
(* The plan. *)

(* Mutation of Deadline: what is late already stays late. *)
DeadlineUnclamped(start, days) ==
  IF start = None THEN Hours(day) + Hours(IF days < 30 THEN 30 - days ELSE 1)
  ELSE Hours(start) - Hours(days)

(* _deadline: counted back from the start, or forward from today if there   *)
(* is none, and at least an hour ahead.                                     *)
Deadline(start, days) ==
  LET target == IF start = None
                THEN Hours(day) + Hours(IF days < 30 THEN 30 - days ELSE 1)
                ELSE Hours(start) - Hours(days)
  IN IF target < Hours(day) + 1 THEN Hours(day) + 1 ELSE target

Planned == {t.title : t \in plan}

(* Mutation of MissingTitles: the checklist is appended again. *)
MissingTitlesAll(k) == TitlesFor(k)

MissingTitles(k) == TitlesFor(k) \ Planned

(* The tasks one run makes of the titles it misses: only these are linked.  *)
PlannedTask(c, start, missing, title) ==
  LET e == Template[EntryOf(title)] IN
  [title |-> title, by |-> c, due |-> Deadline(start, e.days),
   depends |-> e.needs \in missing,
   blocks |-> {t \in missing : Template[EntryOf(t)].needs = title}]

NewTasks(c, start, missing) == {PlannedTask(c, start, missing, t) : t \in missing}

(* prepare_event reads the event, ... *)
ReadForPlan(c) ==
  /\ AsksEvent(c, {"prepare"})
  /\ clerks' = After(clerks, c, "titles", [start |-> event.start, team |-> 1, missing |-> {}])
  /\ UNCHANGED <<event, budgetRow, plan, copies, day, wasOver, regime>>

(* ... generate_operational_plan sees to the teams and asks for the titles  *)
(* there are, team by team, ...                                             *)
ReadTitles(c) ==
  LET saw == clerks[c].saw
      missing == saw.missing \cup MissingTitles(saw.team)
      tasks == NewTasks(c, saw.start, missing)
  IN
  /\ clerks[c].at = "titles"
  /\ clerks' =
       IF saw.team < PlanTeams
       THEN After(clerks, c, "titles",
                  [start |-> saw.start, team |-> saw.team + 1, missing |-> missing])
       ELSE IF tasks = {} THEN Done(clerks, c) ELSE After(clerks, c, "batch", tasks)
  /\ UNCHANGED <<event, budgetRow, plan, copies, day, wasOver, regime>>

(* What batch_put may write next of the items that are left.                *)
NextBatch(left) ==
  IF Cardinality(left) <= BatchSize THEN {left}
  ELSE {b \in SUBSET left : Cardinality(b) = BatchSize}

(* ... and batch_put writes the others, so many at a time: in their order,  *)
(* but for what the table did not take, which is sent again later.          *)
WritePlanBatch(c) ==
  /\ clerks[c].at = "batch"
  /\ \E b \in NextBatch(clerks[c].saw) :
       LET left == clerks[c].saw \ b IN
       /\ plan' = plan \cup b
       /\ clerks' = IF left = {} THEN Done(clerks, c) ELSE After(clerks, c, "batch", left)
  /\ UNCHANGED <<event, budgetRow, copies, day, wasOver, regime>>

---------------------------------------------------------------------------
(* The copies: of each the event item, then the structure as it is by then, *)
(* team by team, written in batches, then a budget of the source's total.   *)

(* The item keeps every field but those named: the total, and what a        *)
(* simulation left.                                                         *)
CopyOf(source) ==
  [source EXCEPT !.status = "DRAFT", !.key = "DRAFT", !.start = None, !.paused = FALSE]

PutCopy(c) ==
  /\ AsksEvent(c, {"duplicate"})
  /\ copies' = [copies EXCEPT ![c].event = CopyOf(event)]
  /\ clerks' = After(clerks, c, "structure", [team |-> 1, titles |-> {}])
  /\ UNCHANGED <<event, budgetRow, plan, day, wasOver, regime>>

ReadStructure(c) ==
  /\ clerks[c].at = "structure"
  /\ LET saw == clerks[c].saw
         titles == saw.titles \cup (TitlesFor(saw.team) \cap Planned)
     IN clerks' = IF saw.team < PlanTeams
                  THEN After(clerks, c, "structure", [team |-> saw.team + 1, titles |-> titles])
                  ELSE After(clerks, c, "copy", titles)
  /\ UNCHANGED <<event, budgetRow, plan, copies, day, wasOver, regime>>

WriteCopyBatch(c) ==
  /\ clerks[c].at = "copy"
  /\ \E b \in NextBatch(clerks[c].saw) :
       LET left == clerks[c].saw \ b IN
       /\ copies' = [copies EXCEPT ![c].titles = @ \cup b]
       /\ clerks' = IF left # {} THEN After(clerks, c, "copy", left)
                    ELSE IF copies[c].event.total THEN GoneTo(clerks, c, "copybudget")
                    ELSE Done(clerks, c)
  /\ UNCHANGED <<event, budgetRow, plan, day, wasOver, regime>>

EnsureCopyBudget(c) ==
  /\ clerks[c].at = "copybudget"
  /\ copies' = [copies EXCEPT ![c].budget = TRUE]
  /\ clerks' = Done(clerks, c)
  /\ UNCHANGED <<event, budgetRow, plan, day, wasOver, regime>>

EventCallDies(c) ==
  /\ regime.failures /\ Active(clerks, c)
  /\ clerks' = Dead(clerks, c)
  /\ UNCHANGED <<event, budgetRow, plan, copies, day, wasOver, regime>>

ServeEvent(c) ==
  \/ EnsureEventBudget(c) \/ CheckTransition(c) \/ WriteTransition(c) \/ UpdateEvent(c)
  \/ ReadForPlan(c) \/ ReadTitles(c) \/ WritePlanBatch(c)
  \/ PutCopy(c) \/ ReadStructure(c) \/ WriteCopyBatch(c) \/ EnsureCopyBudget(c)

EventsNext ==
  \/ DayPasses \/ SimulationRuns
  \/ \E c \in Calls : CreateEvent(c) \/ BeginEventRequest(c) \/ ServeEvent(c) \/ EventCallDies(c)

EventsSpec == EventsInit /\ [][EventsNext]_eventVars

---------------------------------------------------------------------------
(* Every variable keeps its type. *)
PlanTask ==
  [title : Titles, by : Calls, due : Nat, depends : BOOLEAN, blocks : SUBSET Titles]

EventsTypeOK ==
  /\ event \in EventRecord \cup {None}
  /\ budgetRow \in BOOLEAN /\ wasOver \in BOOLEAN
  /\ plan \subseteq PlanTask
  /\ DOMAIN copies = Calls
  /\ \A c \in Calls : /\ copies[c].event \in EventRecord \cup {None}
                      /\ copies[c].titles \subseteq Titles /\ copies[c].budget \in BOOLEAN
  /\ DOMAIN clerks = Calls
  /\ day \in 0 .. MaxDay

(* "Only permitted from a terminal status" (archive_event): however leaders *)
(* overlap, what reads ARCHIVED was completed or cancelled at some time,    *)
(* and the status index finds it under the status it has.                   *)
ArchivedWasOver ==
  event # None => (event.status = "ARCHIVED" => wasOver) /\ event.key = event.status

(* In turn, an event that is over or archived never comes back to life, and *)
(* one that runs is not marked as paused.                                   *)
OverStaysOver ==
  [][(event # None /\ ~regime.overlap) =>
       /\ event.status = "ARCHIVED" => event'.status = "ARCHIVED"
       /\ event.status \in {"COMPLETED", "CANCELLED"} =>
            event'.status \in {event.status, "ARCHIVED"}
       /\ event'.status = "ACTIVE" => ~event'.paused]_eventVars

(* The life of an event has one direction: change_lifecycle and             *)
(* archive_event check a status that may have moved before they write.      *)
LifecycleIsOneWay == []ArchivedWasOver /\ OverStaysOver

(* "Re-running prepare on a half-planned event fills the gaps instead of    *)
(* duplicating work": in turn, a run that ends leaves every title planned   *)
(* once, wherever earlier runs died between two batches.                    *)
PlanIsFilled ==
  [][\A c \in Calls :
       (clerks[c].at = "batch" /\ clerks'[c].at = "end" /\ ~regime.overlap)
         => \A title \in Titles : Cardinality({t \in plan' : t.title = title}) = 1]_eventVars

(* A plan has an order one can work in: nothing is due before the task it   *)
(* depends on, whether the event has no start date, a near one or one in    *)
(* the past.                                                                *)
PlanCanBeWorked ==
  \A t \in plan :
    t.depends => \A u \in plan : u.by = t.by /\ u.title = Template[EntryOf(t.title)].needs
                                   => u.due <= t.due /\ t.title \in u.blocks

(* Whenever a task is planned, its deadline is still to come. *)
PlannedAhead == [][\A t \in plan' \ plan : t.due > Hours(day)]_eventVars

(* The deadlines of a plan can be met.                                      *)
DeadlinesAreUsable == []PlanCanBeWorked /\ PlannedAhead

(* Of undisturbed requests nothing is half done: an event with a total has  *)
(* its budget, and so has every copy, and what a planned task needs or      *)
(* blocks is on the plan.                                                   *)
NothingHalfDone ==
  ~regime.failures /\ event # None /\ (\A c \in Calls : ~Active(clerks, c)) =>
    /\ event.total => budgetRow
    /\ \A c \in Calls : copies[c].event # None => (copies[c].event.total => copies[c].budget)
    /\ \A t \in plan :
      /\ t.depends => \E u \in plan : u.by = t.by /\ u.title = Template[EntryOf(t.title)].needs
      /\ \A b \in t.blocks : \E u \in plan : u.by = t.by /\ u.title = b /\ u.depends

(* A copy never has work its source did not plan, and one whose request is  *)
(* served in turn has all of it.                                            *)
CopyFollowsPlan ==
  [][\A c \in Calls :
       /\ copies'[c].titles \subseteq {t.title : t \in plan'}
       /\ (clerks[c].at = "copy" /\ clerks'[c].at \in {"copybudget", "end"} /\ ~regime.overlap)
            => copies'[c].titles = {t.title : t \in plan}]_eventVars

(* What is written in batches ends up whole: a plan has each title once,    *)
(* with what it needs and blocks, and a copy all of its source.             *)
PlansAreWhole ==
  []NothingHalfDone /\ PlanIsFilled /\ CopyFollowsPlan
=============================================================================
