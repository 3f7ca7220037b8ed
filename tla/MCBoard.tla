------------------------------- MODULE MCBoard -------------------------------
(***************************************************************************)
(* The console's board: a team and its task, the event, the simulation, a  *)
(* document and the health score, beside each other.  The part of a        *)
(* behaviour's regime says which of them is at work, the others rest.      *)
(***************************************************************************)
EXTENDS Tasks, Events, Simulation, Documents, Health

CONSTANTS c1, c2, c3, c4, asha, ravi, early, venue, talks, agenda, s1, s2

Regime(part, callers, kinds, overlap, failures) ==
  [part |-> part, callers |-> callers, kinds |-> kinds, overlap |-> overlap,
   failures |-> failures]
With(r, more) == [f \in DOMAIN r \cup DOMAIN more |-> IF f \in DOMAIN r THEN r[f] ELSE more[f]]

---------------------------------------------------------------------------
(* The team: four people adding each other at once, requests of every kind  *)
(* in turn, and three at once that may die.  The task: three requests at    *)
(* once by two members and a leader, and in turn while members leave.       *)
TeamWork ==
  {CreateTeam, DefaultTeams, UpdateTeam(asha), AddMember(asha, TRUE), AddMember(ravi, FALSE),
   RemoveMember(asha), RemoveMember(ravi)}

TaskWork ==
  {UpdateTask(asha, "COMPLETED", None, None, None), UpdateTask(Leader, "IN_PROGRESS", None, None, None),
   UpdateTask(asha, "BLOCKED", None, None, "given"), UpdateTask(Leader, "BLOCKED", None, None, None),
   UpdateTask(Leader, None, early, None, None), UpdateTask(Leader, None, None, asha, None),
   UpdateTask(ravi, "REVIEW", early, None, None),
   UpdateTaskTool(asha, "COMPLETED", None), UpdateTaskTool(ravi, "BLOCKED", None),
   UpdateTaskTool(Leader, "BLOCKED", "given"),
   Reassign(Leader, ravi), Reassign(asha, ravi), AssignTool(ravi, asha)}

TeamKinds == {"create_team", "add", "update_team", "default_teams", "remove"}
TaskKinds == {"task", "update", "tool_update", "reassign", "tool_assign"}
On(people) == [opening |-> people]

BoardRegimes ==
  {With(Regime("board", Calls, {"create_team", "add"}, TRUE, FALSE), On({})),
   With(Regime("board", Calls, TeamKinds, FALSE, FALSE), On({})),
   With(Regime("board", {c1, c2, c3}, TeamKinds, TRUE, TRUE), On({asha})),
   With(Regime("board", {c1, c2, c3}, TaskKinds, TRUE, TRUE), On({asha, ravi})),
   With(Regime("board", {c1, c2, c3}, TaskKinds \cup {"remove", "add"}, FALSE, TRUE),
        On({asha, ravi}))}

(* One person on a team, removed, added again and removed, in turn.         *)
RemovedTwice ==
  {With(Regime("board", {c1, c2, c3}, {"add", "remove"}, FALSE, FALSE), On({asha}))}

---------------------------------------------------------------------------
(* The event: its life with overlapping and with dying requests, and its    *)
(* plan, of three tasks for two teams of which one needs another, written   *)
(* one at a time.                                                           *)
Checklist ==
  <<[title |-> venue, team |-> 1, days |-> 21, needs |-> None],
    [title |-> talks, team |-> 2, days |-> 21, needs |-> None],
    [title |-> agenda, team |-> 2, days |-> 3, needs |-> talks]>>

EventWork ==
  {Lifecycle(s) : s \in {"PUBLISHED", "ACTIVE", "PAUSED", "COMPLETED", "CANCELLED"}}
  \cup {Archive, SetStart(0), SetStart(40), Prepare, Duplicate}

Life == {"lifecycle", "archive"}
Planning == {"prepare", "update_event", "duplicate", "simulate"}

EventRegimes ==
  {Regime("events", {c1, c2, c3}, Life, TRUE, FALSE), Regime("events", Calls, Life, FALSE, TRUE),
   Regime("events", {c1, c2, c3}, Planning, FALSE, TRUE),
   Regime("events", {c1, c2}, Planning, TRUE, FALSE)}

---------------------------------------------------------------------------
(* The simulation: by one leader, reset and run again, with and without     *)
(* requests that die; of a copied event; with an index that lags; and by    *)
(* two leaders at once.                                                     *)
Money(equipment, emergency, records) ==
  [equipment |-> equipment, emergency |-> emergency, records |-> records]
Of(copied, lags) == [copied |-> copied, lags |-> lags]

SimulationRegimes ==
  {With(Regime("simulation", {c1}, {"reset"}, FALSE, FALSE), With(Money(1, 1, 2), Of(FALSE, FALSE))),
   With(Regime("simulation", {c1}, {"reset"}, FALSE, TRUE), With(Money(0, 2, 2), Of(FALSE, FALSE))),
   With(Regime("simulation", {c1}, {"reset"}, FALSE, TRUE), With(Money(0, 2, 1), Of(TRUE, FALSE))),
   With(Regime("simulation", {c1}, {}, FALSE, TRUE), With(Money(0, 2, 1), Of(FALSE, TRUE))),
   With(Regime("simulation", {c1, c2}, {}, TRUE, TRUE), With(Money(0, 2, 1), Of(FALSE, FALSE)))}

(* One document, three requests after or beside its upload.                 *)
Filing == {"upload", "confirm", "delete"}
DocumentRegimes ==
  {Regime("documents", Calls, Filing, FALSE, FALSE), Regime("documents", Calls, Filing, FALSE, TRUE),
   Regime("documents", {c1, c2, c3}, Filing, TRUE, TRUE)}

(* The score: of work and incidents, long and shortly before the event, and *)
(* of the other signals while an incident is open.                          *)
HealthRegimes ==
  {With(Regime("health", {}, {"tasks", "incidents", "start"}, FALSE, FALSE),
        [board |-> CalmBoard]),
   With(Regime("health", {}, {"people", "money"}, FALSE, FALSE),
        [board |-> [CalmBoard EXCEPT !.incident = "HIGH"]])}

AllRegimes ==
  BoardRegimes \cup EventRegimes \cup SimulationRegimes \cup DocumentRegimes \cup HealthRegimes

---------------------------------------------------------------------------
OfTasks == <<team, membership, working, task>>
OfEvents == <<event, budgetRow, plan, copies, clerks, day, wasOver>>
OfSimulation == <<EventItem, Records, players, orphaned>>
OfDocuments == <<document, object, upload, arrived, filers>>

MCInit == TasksInit /\ EventsInit /\ SimulationInit /\ DocumentsInit /\ HealthInit

MCNext ==
  \/ /\ regime.part = "board" /\ TasksNext
     /\ UNCHANGED <<OfEvents, OfSimulation, OfDocuments, board>>
  \/ /\ regime.part = "events" /\ EventsNext
     /\ UNCHANGED <<OfTasks, OfSimulation, OfDocuments, board>>
  \/ /\ regime.part = "simulation" /\ SimulationNext
     /\ UNCHANGED <<OfTasks, OfEvents, OfDocuments, board>>
  \/ /\ regime.part = "documents" /\ DocumentsNext
     /\ UNCHANGED <<OfTasks, OfEvents, OfSimulation, board>>
  \/ /\ regime.part = "health" /\ HealthNext
     /\ UNCHANGED <<OfTasks, OfEvents, OfSimulation, OfDocuments>>

MCSpec ==
  MCInit /\ [][MCNext]_<<OfTasks, OfEvents, OfSimulation, OfDocuments, board, regime>>

(* The items keep their types, deadlines the range of the calendar.         *)
BoardTypeOK == TasksTypeOK /\ EventsTypeOK
=============================================================================
