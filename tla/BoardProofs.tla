------------------------------ MODULE BoardProofs ------------------------------
(***************************************************************************)
(* Proofs about the event and its plan, the document and the simulation,   *)
(* for any number of requests of every regime.  With those of TasksProofs  *)
(* they carry over to MCBoard, where the parts stand beside each other.    *)
(***************************************************************************)
EXTENDS MCBoard, TasksProofs, Sums

(***************************************************************************)
(* The event and its plan.                                                 *)
(***************************************************************************)
LEMMA EventConstants ==
  /\ PlanTeams \in Nat \ {0} /\ BatchSize \in Nat /\ EventDays \subseteq Nat /\ MaxDay \in Nat
  /\ EventRequests \subseteq AnyEventRequest
  /\ None \notin Titles /\ None \notin Calls /\ None \notin EventDays /\ None \notin EventRecord
BY EventsAssumption

LEMMA EventRequestForms ==
  ASSUME NEW r \in EventRequests
  PROVE  /\ r.kind \in {"lifecycle", "archive"} => TargetOf(r) \in EventStatuses
         /\ r.kind = "update_event" => r.day \in EventDays
<1>1. \/ \E s \in EventStatuses : r = Lifecycle(s)
      \/ \E d \in EventDays : r = SetStart(d)
      \/ r \in {Archive, Prepare, Duplicate}
  BY EventConstants DEF AnyEventRequest
<1>2. QED
  BY <1>1 DEF Lifecycle, SetStart, Archive, Prepare, Duplicate, TargetOf, EventStatuses

TitlesOf(tasks) == {t.title : t \in tasks}

(* What a step of c leaves of the other invocations. *)
ClerkTurn(c) ==
  /\ DOMAIN clerks' = Calls /\ DOMAIN clerks'[c] = {"at", "req", "saw"}
  /\ \A d \in Calls \ {c} : clerks'[d] = clerks[d]
  /\ UNCHANGED <<day, regime>>

ClerkShape == DOMAIN clerks = Calls /\ \A c \in Calls : DOMAIN clerks[c] = {"at", "req", "saw"}

EventStep(c) == CreateEvent(c) \/ BeginEventRequest(c) \/ ServeEvent(c) \/ EventCallDies(c)

LEMMA EventStepTurns ==
  ASSUME ClerkShape, NEW c \in Calls, EventStep(c)
  PROVE  ClerkTurn(c)
<1>1. DOMAIN clerks = Calls /\ DOMAIN clerks[c] = {"at", "req", "saw"}
  BY DEF ClerkShape
<1> USE <1>1 DEF ClerkTurn, Done, GoneTo, After, Dead, Begun, Invocation
<1>2. CASE CreateEvent(c)
  BY <1>2 DEF CreateEvent
<1>3. CASE BeginEventRequest(c)
  BY <1>3 DEF BeginEventRequest
<1>4. CASE EnsureEventBudget(c) \/ CheckTransition(c) \/ WriteTransition(c) \/ UpdateEvent(c)
  BY <1>4 DEF EnsureEventBudget, CheckTransition, WriteTransition, UpdateEvent
<1>5. CASE ReadForPlan(c) \/ ReadTitles(c) \/ WritePlanBatch(c)
  BY <1>5 DEF ReadForPlan, ReadTitles, WritePlanBatch
<1>6. CASE PutCopy(c) \/ ReadStructure(c) \/ WriteCopyBatch(c) \/ EnsureCopyBudget(c)
  BY <1>6 DEF PutCopy, ReadStructure, WriteCopyBatch, EnsureCopyBudget
<1>7. CASE EventCallDies(c)
  BY <1>7 DEF EventCallDies
<1>8. QED
  BY <1>2, <1>3, <1>4, <1>5, <1>6, <1>7 DEF EventStep, ServeEvent

LEMMA BatchIsPart ==
  ASSUME NEW left, NEW b \in NextBatch(left)
  PROVE  b \subseteq left
BY DEF NextBatch

---------------------------------------------------------------------------
(* The life of the event. *)

AloneAtWork == \A c, d \in Calls : Active(clerks, c) /\ Active(clerks, d) => c = d
Mover(c) == clerks[c].at = "transition"

MoverFits(c) ==
  /\ clerks[c].req \in EventRequests /\ clerks[c].req.kind \in {"lifecycle", "archive"}
  /\ TargetOf(clerks[c].req) = "ARCHIVED" => wasOver
  /\ ~regime.overlap => TargetOf(clerks[c].req) \in AllowedTransitions(event.status)

ItemFits ==
  /\ event \in EventRecord \cup {None} /\ wasOver \in BOOLEAN
  /\ event # None =>
       /\ event.status \in {"COMPLETED", "CANCELLED", "ARCHIVED"} => wasOver
       /\ event.key = event.status
       /\ event.status = "ACTIVE" => event.paused = FALSE

LifeInv ==
  /\ ClerkShape /\ ItemFits
  /\ \A c \in Calls :
       /\ Active(clerks, c) => event # None
       /\ clerks[c].at = "read" => clerks[c].req \in EventRequests
       /\ Mover(c) => MoverFits(c)
  /\ ~regime.overlap => AloneAtWork

LEMMA MovedItem ==
  ASSUME NEW e \in EventRecord, NEW target \in EventStatuses
  PROVE  /\ Moves(e, target) \in EventRecord
         /\ Moves(e, target).status = target /\ Moves(e, target).key = target
         /\ target = "ACTIVE" => Moves(e, target).paused = FALSE
         /\ Moves(e, target).total = e.total
<1>1. ASSUME NEW p \in BOOLEAN, NEW m, m = [e EXCEPT !.status = target, !.key = target, !.paused = p]
      PROVE  m \in EventRecord /\ m.status = target /\ m.key = target /\ m.paused = p
             /\ m.total = e.total
  BY <1>1 DEF EventRecord
<1>2. CASE target = "PAUSED"
  BY <1>1, <1>2 DEF Moves
<1>3. CASE target = "ACTIVE"
  BY <1>1, <1>3 DEF Moves
<1>4. CASE target \notin {"PAUSED", "ACTIVE"}
  <2>1. e.paused \in BOOLEAN
    BY DEF EventRecord
  <2>2. Moves(e, target) = [e EXCEPT !.status = target, !.key = target, !.paused = e.paused]
    BY <1>4 DEF Moves
  <2>3. QED
    BY <1>1, <1>4, <2>1, <2>2
<1>5. QED
  BY <1>2, <1>3, <1>4

LEMMA WorkersTakeTurns ==
  ASSUME LifeInv, NEW c \in Calls, EventStep(c), ClerkTurn(c)
  PROVE  /\ ~regime'.overlap => AloneAtWork'
         /\ ~regime.overlap => \A d \in Calls \ {c} : ~Active(clerks, d) /\ ~Active(clerks, d)'
<1>1. Active(clerks, c) \/ MayBegin(clerks, c)
  BY DEF EventStep, CreateEvent, BeginEventRequest, ServeEvent, EventCallDies, EnsureEventBudget,
     CheckTransition, WriteTransition, UpdateEvent, ReadForPlan, ReadTitles, WritePlanBatch,
     PutCopy, ReadStructure, WriteCopyBatch, EnsureCopyBudget, AsksEvent, Active, Resting
<1>2. ~regime.overlap => \A d \in Calls \ {c} : ~Active(clerks, d)
  BY <1>1 DEF MayBegin, LifeInv, AloneAtWork, Active
<1>3. QED
  BY <1>2 DEF ClerkTurn, AloneAtWork, Active

(* Steps that leave the item alone, and what they make of c.                *)
LEMMA LifeAside ==
  ASSUME LifeInv, NEW c \in Calls, EventStep(c), UNCHANGED <<event, wasOver>>,
         Active(clerks, c)' => event # None,
         clerks'[c].at = "read" => clerks'[c].req \in EventRequests,
         Mover(c)' => MoverFits(c)'
  PROVE  LifeInv'
<1>1. ClerkTurn(c)
  BY EventStepTurns DEF LifeInv
<1>2. ClerkShape' /\ ItemFits'
  BY <1>1 DEF LifeInv, ClerkShape, ItemFits, ClerkTurn
<1>3. ASSUME NEW d \in Calls \ {c}
      PROVE  /\ Active(clerks, d)' => event' # None
             /\ clerks'[d].at = "read" => clerks'[d].req \in EventRequests
             /\ Mover(d)' => MoverFits(d)'
  BY <1>1 DEF LifeInv, Active, Mover, MoverFits, ClerkTurn
<1>4. QED
  BY <1>1, <1>2, <1>3, WorkersTakeTurns DEF LifeInv

LEMMA LifeStep ==
  ASSUME LifeInv, NEW c \in Calls, EventStep(c)
  PROVE  LifeInv'
<1>1. ClerkTurn(c) /\ DOMAIN clerks = Calls /\ DOMAIN clerks[c] = {"at", "req", "saw"}
  BY EventStepTurns DEF LifeInv, ClerkShape
<1>2. CASE CreateEvent(c)
  <2>1. event = None /\ wasOver' = wasOver
    BY <1>2 DEF CreateEvent
  <2>2. PICK start \in EventDays \cup {None}, total \in BOOLEAN :
          event' = [status |-> "DRAFT", key |-> "DRAFT", start |-> start, paused |-> FALSE,
                    total |-> total, simulated |-> FALSE]
    BY <1>2 DEF CreateEvent
  <2>3. event' \in EventRecord /\ event'.status = "DRAFT" /\ event'.key = "DRAFT"
    BY <2>2 DEF EventRecord, EventStatuses
  <2>4. clerks'[c].at \in {"idle", "budget"}
    BY <1>1, <1>2 DEF CreateEvent, MayBegin, Invocation
  <2>5. ItemFits' /\ ClerkShape'
    BY <1>1, <2>1, <2>3 DEF LifeInv, ItemFits, ClerkShape, ClerkTurn
  <2>6. \A d \in Calls \ {c} : ~Active(clerks, d)'
    BY <1>1, <2>1 DEF LifeInv, ClerkTurn, Active
  <2>7. event' # None
    BY <2>3, EventConstants
  <2>8. \A d \in Calls : clerks'[d].at \in Resting \cup {"budget"}
    BY <2>4, <2>6 DEF Active, Resting
  <2>9. QED
    BY <1>1, <1>2, <2>5, <2>7, <2>8, WorkersTakeTurns DEF LifeInv, Mover, Resting, EventStep
<1>3. CASE BeginEventRequest(c)
  <2>1. event # None /\ clerks'[c].at = "read" /\ clerks'[c].req \in EventRequests
        /\ UNCHANGED <<event, wasOver>>
    BY <1>1, <1>3 DEF BeginEventRequest, Begun, Invocation
  <2>2. QED
    BY <1>3, <2>1, LifeAside DEF Mover, EventStep
<1>4. CASE CheckTransition(c)
  <2>1. clerks[c].req \in EventRequests /\ clerks[c].req.kind \in {"lifecycle", "archive"}
        /\ event # None /\ UNCHANGED <<event, wasOver, regime>>
    BY <1>4 DEF CheckTransition, AsksEvent, LifeInv, Active, Resting
  <2>2. CASE TargetOf(clerks[c].req) \in AllowedTransitions(event.status)
    <3>1. clerks'[c].at = "transition" /\ clerks'[c].req = clerks[c].req
      BY <1>1, <1>4, <2>2 DEF CheckTransition, GoneTo
    <3>2. TargetOf(clerks[c].req) = "ARCHIVED" => event.status \in {"COMPLETED", "CANCELLED"}
      BY <2>1, <2>2 DEF AllowedTransitions, LifeInv, ItemFits, EventRecord, EventStatuses
    <3>3. MoverFits(c)'
      BY <2>1, <2>2, <3>1, <3>2 DEF MoverFits, LifeInv, ItemFits
    <3>4. QED
      BY <1>4, <2>1, <3>1, <3>3, LifeAside DEF EventStep, ServeEvent
  <2>3. CASE TargetOf(clerks[c].req) \notin AllowedTransitions(event.status)
    BY <1>1, <1>4, <2>1, <2>3, LifeAside DEF CheckTransition, Done, Invocation, Mover, EventStep,
       ServeEvent
  <2>4. QED
    BY <2>2, <2>3
<1>5. CASE WriteTransition(c) \/ UpdateEvent(c)
  <2>1. event \in EventRecord
    BY <1>5 DEF WriteTransition, UpdateEvent, AsksEvent, LifeInv, ItemFits, Active, Resting
  <2>2. clerks'[c].at = "end"
    BY <1>1, <1>5 DEF WriteTransition, UpdateEvent, Done, Invocation
  <2>3. event' \in EventRecord /\ ItemFits' /\ (wasOver => wasOver')
    <3>1. CASE WriteTransition(c)
      <4> DEFINE target == TargetOf(clerks[c].req)
      <4>1. MoverFits(c) /\ event' = Moves(event, target)
            /\ wasOver' = (wasOver \/ target \in {"COMPLETED", "CANCELLED"})
        BY <3>1 DEF WriteTransition, LifeInv, Mover
      <4>2. target \in EventStatuses
        BY <4>1, EventRequestForms DEF MoverFits
      <4>3. event' \in EventRecord /\ event'.status = target /\ event'.key = target
            /\ (target = "ACTIVE" => event'.paused = FALSE)
        BY <2>1, <4>1, <4>2, MovedItem
      <4>4. QED
        BY <4>1, <4>3 DEF ItemFits, MoverFits
    <3>2. CASE UpdateEvent(c)
      <4>1. clerks[c].req.day \in EventDays /\ event' = [event EXCEPT !.start = clerks[c].req.day]
            /\ wasOver' = wasOver
        BY <3>2, EventRequestForms DEF UpdateEvent, AsksEvent, LifeInv
      <4>2. event' \in EventRecord /\ event'.status = event.status /\ event'.key = event.key
            /\ event'.paused = event.paused
        BY <2>1, <4>1 DEF EventRecord
      <4>3. QED
        BY <2>1, <4>1, <4>2, EventConstants DEF LifeInv, ItemFits
    <3>3. QED
      BY <1>5, <3>1, <3>2
  <2>4. event' # None
    BY <2>3, EventConstants
  <2>5. ASSUME NEW d \in Calls
        PROVE  /\ clerks'[d].at = "read" => clerks'[d].req \in EventRequests
               /\ Mover(d)' => MoverFits(d)'
    <3>1. CASE d = c
      BY <2>2, <3>1 DEF Mover
    <3>2. CASE d # c
      <4>1. clerks'[d] = clerks[d] /\ regime' = regime
        BY <1>1, <3>2 DEF ClerkTurn
      <4>2. Mover(d) => regime.overlap
        BY <1>1, <1>5, <3>2, WorkersTakeTurns DEF Mover, Active, Resting, EventStep, ServeEvent
      <4>3. QED
        BY <2>3, <4>1, <4>2 DEF LifeInv, Mover, MoverFits
    <3>3. QED
      BY <3>1, <3>2
  <2>6. QED
    BY <1>1, <1>5, <2>3, <2>4, <2>5, WorkersTakeTurns DEF LifeInv, ClerkShape, ClerkTurn, EventStep,
       ServeEvent
<1>6. CASE EnsureEventBudget(c) \/ ReadForPlan(c) \/ ReadTitles(c) \/ WritePlanBatch(c)
           \/ PutCopy(c) \/ ReadStructure(c) \/ WriteCopyBatch(c) \/ EnsureCopyBudget(c)
           \/ EventCallDies(c)
  <2>1. event # None
    BY <1>6 DEF EnsureEventBudget, ReadForPlan, ReadTitles, WritePlanBatch, PutCopy, ReadStructure,
       WriteCopyBatch, EnsureCopyBudget, EventCallDies, AsksEvent, LifeInv, Active, Resting
  <2>2. clerks'[c].at \notin {"read", "transition"} /\ UNCHANGED <<event, wasOver>>
    BY <1>1, <1>6 DEF EnsureEventBudget, ReadForPlan, ReadTitles, WritePlanBatch, PutCopy,
       ReadStructure, WriteCopyBatch, EnsureCopyBudget, EventCallDies, Done, GoneTo, After, Dead,
       Invocation
  <2>3. QED
    BY <1>6, <2>1, <2>2, LifeAside DEF Mover, EventStep, ServeEvent
<1>7. QED
  BY <1>2, <1>3, <1>4, <1>5, <1>6 DEF EventStep, ServeEvent

(* The simulation leaves all else of the item.                              *)
LEMMA SimulatedItem ==
  ASSUME event \in EventRecord \cup {None}, SimulationRuns
  PROVE  /\ event' \in EventRecord /\ event # None
         /\ event'.status = event.status /\ event'.key = event.key
         /\ event'.paused = event.paused /\ event'.total = event.total
<1>1. event \in EventRecord /\ event # None /\ event' = [event EXCEPT !.simulated = TRUE]
  BY DEF SimulationRuns
<1>2. TRUE \in BOOLEAN
  OBVIOUS
<1>3. QED
  BY <1>1, <1>2 DEF EventRecord

LEMMA SimulationKeepsLife ==
  ASSUME LifeInv, SimulationRuns
  PROVE  LifeInv'
<1>1. UNCHANGED <<clerks, wasOver, regime>>
  BY DEF SimulationRuns
<1>2. /\ event' \in EventRecord /\ event' # None /\ event # None
      /\ event'.status = event.status /\ event'.key = event.key /\ event'.paused = event.paused
  BY SimulatedItem, EventConstants DEF LifeInv, ItemFits
<1>3. ClerkShape' /\ ItemFits'
  BY <1>1, <1>2 DEF LifeInv, ClerkShape, ItemFits
<1>4. ASSUME NEW c \in Calls PROVE Mover(c)' => MoverFits(c)'
  BY <1>1, <1>2 DEF LifeInv, Mover, MoverFits
<1>5. QED
  BY <1>1, <1>2, <1>3, <1>4 DEF LifeInv, AloneAtWork, Active

LEMMA LifeInvIsInvariant == EventsSpec => []LifeInv
<1>1. EventsInit => LifeInv
  <2> SUFFICES ASSUME EventsInit PROVE LifeInv
    OBVIOUS
  <2>1. ClerkShape /\ \A c \in Calls : clerks[c].at = "idle"
    BY DEF EventsInit, ClerkShape, AllIdle, Invocation
  <2>2. event = None /\ wasOver = FALSE
    BY DEF EventsInit
  <2>3. QED
    BY <2>1, <2>2 DEF LifeInv, ItemFits, AloneAtWork, Active, Resting, Mover
<1>2. ASSUME LifeInv, DayPasses \/ UNCHANGED eventVars PROVE LifeInv'
  <2>1. UNCHANGED <<event, wasOver, clerks, regime>>
    BY <1>2 DEF DayPasses, eventVars
  <2>2. ClerkShape' /\ ItemFits'
    BY <1>2, <2>1 DEF LifeInv, ClerkShape, ItemFits
  <2>3. ASSUME NEW c \in Calls PROVE Mover(c)' => MoverFits(c)'
    BY <1>2, <2>1 DEF LifeInv, Mover, MoverFits
  <2>4. QED
    BY <1>2, <2>1, <2>2, <2>3 DEF LifeInv, AloneAtWork, Active
<1>3. LifeInv /\ [EventsNext]_eventVars => LifeInv'
  BY <1>2, LifeStep, SimulationKeepsLife DEF EventsNext, EventStep
<1>4. QED
  BY <1>1, <1>3, PTL DEF EventsSpec

LEMMA OneWayStep ==
  ASSUME LifeInv, LifeInv', [EventsNext]_eventVars, event # None, ~regime.overlap
  PROVE  /\ event.status = "ARCHIVED" => event'.status = "ARCHIVED"
         /\ event.status \in {"COMPLETED", "CANCELLED"} => event'.status \in {event.status, "ARCHIVED"}
         /\ event'.status = "ACTIVE" => ~event'.paused
<1>1. event \in EventRecord
  BY DEF LifeInv, ItemFits
<1>2. event' # None => (event'.status = "ACTIVE" => event'.paused = FALSE)
  BY DEF LifeInv, ItemFits
<1>3. event' \in EventRecord /\ (event'.status = event.status
        \/ event'.status \in AllowedTransitions(event.status))
  <2>1. ASSUME NEW c \in Calls, WriteTransition(c)
        PROVE  event' \in EventRecord /\ event'.status \in AllowedTransitions(event.status)
    <3>1. MoverFits(c) /\ event' = Moves(event, TargetOf(clerks[c].req))
      BY <2>1 DEF WriteTransition, LifeInv, Mover
    <3>2. QED
      BY <1>1, <3>1, MovedItem, EventRequestForms DEF MoverFits
  <2>2. ASSUME NEW c \in Calls, UpdateEvent(c)
        PROVE  event' \in EventRecord /\ event'.status = event.status
    <3>1. clerks[c].req.day \in EventDays /\ event' = [event EXCEPT !.start = clerks[c].req.day]
      BY <2>2, EventRequestForms DEF UpdateEvent, AsksEvent, LifeInv
    <3>2. QED
      BY <1>1, <3>1 DEF EventRecord
  <2>3. ASSUME NEW c \in Calls, EventStep(c), ~WriteTransition(c), ~UpdateEvent(c)
        PROVE  event' = event
    BY <2>3 DEF EventStep, ServeEvent, CreateEvent, BeginEventRequest, EventCallDies, EnsureEventBudget,
       CheckTransition, ReadForPlan, ReadTitles, WritePlanBatch, PutCopy, ReadStructure,
       WriteCopyBatch, EnsureCopyBudget
  <2>4. DayPasses \/ UNCHANGED eventVars => event' = event
    BY DEF DayPasses, eventVars
  <2>5. SimulationRuns => event' \in EventRecord /\ event'.status = event.status
    BY <1>1, SimulatedItem
  <2>6. QED
    BY <1>1, <2>1, <2>2, <2>3, <2>4, <2>5 DEF EventsNext, EventStep
<1>4. QED
  BY <1>1, <1>2, <1>3, EventConstants DEF AllowedTransitions

(* However leaders overlap, what reads ARCHIVED was over, and the status    *)
(* index finds the event; in turn nothing that is over comes back.          *)
THEOREM LifeHasOneWay == EventsSpec => LifecycleIsOneWay
<1>1. LifeInv => ArchivedWasOver
  BY DEF LifeInv, ItemFits, ArchivedWasOver
<1>2. LifeInv /\ LifeInv' /\ [EventsNext]_eventVars =>
        [(event # None /\ ~regime.overlap) =>
           /\ event.status = "ARCHIVED" => event'.status = "ARCHIVED"
           /\ event.status \in {"COMPLETED", "CANCELLED"} =>
                event'.status \in {event.status, "ARCHIVED"}
           /\ event'.status = "ACTIVE" => ~event'.paused]_eventVars
  BY OneWayStep
<1>3. QED
  BY <1>1, <1>2, LifeInvIsInvariant, PTL DEF LifecycleIsOneWay, OverStaysOver, EventsSpec

---------------------------------------------------------------------------
(* The tasks of one run of prepare_event. *)

Needed(t) == Template[EntryOf(t.title)].needs

(* Nothing is due before what it needs, and that knows what it blocks.      *)
Ordered(tasks) ==
  \A t, u \in tasks : t.depends /\ u.title = Needed(t) => u.due <= t.due /\ t.title \in u.blocks

(* What is needed and what is blocked are tasks of the run. *)
Closed(tasks) ==
  \A t \in tasks :
    /\ t.depends => \E u \in tasks : u.title = Needed(t)
    /\ \A b \in t.blocks : \E u \in tasks : u.title = b /\ u.depends

LEMMA Entries ==
  ASSUME NEW t \in Titles
  PROVE  /\ EntryOf(t) \in DOMAIN Template /\ Template[EntryOf(t)].title = t
         /\ Template[EntryOf(t)].days \in Nat
<1>1. \E i \in DOMAIN Template : Template[i].title = t
  BY DEF Titles
<1>2. QED
  BY <1>1, EventsAssumption DEF EntryOf

LEMMA NeededIsEarlier ==
  ASSUME NEW t \in Titles, NEW u \in Titles, u = Template[EntryOf(t)].needs
  PROVE  Template[EntryOf(u)].days >= Template[EntryOf(t)].days
<1>1. PICK j \in DOMAIN Template :
        Template[j].title = u /\ Template[j].days >= Template[EntryOf(t)].days
  BY Entries, EventConstants, EventsAssumption
<1>2. EntryOf(u) = j
  BY <1>1, Entries, EventsAssumption
<1>3. QED
  BY <1>1, <1>2

LEMMA Deadlines ==
  ASSUME day \in Nat, NEW start \in EventDays \cup {None}, NEW d \in Nat, NEW e \in Nat, e >= d
  PROVE  /\ Deadline(start, d) \in Nat /\ Deadline(start, d) > Hours(day)
         /\ Deadline(start, e) <= Deadline(start, d)
<1>1. CASE start = None
  BY <1>1 DEF Deadline, Hours
<1>2. CASE start # None
  <2>1. start \in Nat
    BY <1>2, EventConstants
  <2>2. QED
    BY <1>2, <2>1 DEF Deadline, Hours
<1>3. QED
  BY <1>1, <1>2

LEMMA PlannedFields ==
  ASSUME NEW c, NEW start, NEW missing, NEW t
  PROVE  /\ PlannedTask(c, start, missing, t).title = t
         /\ PlannedTask(c, start, missing, t).by = c
         /\ PlannedTask(c, start, missing, t).due = Deadline(start, Template[EntryOf(t)].days)
         /\ PlannedTask(c, start, missing, t).depends <=> Template[EntryOf(t)].needs \in missing
         /\ PlannedTask(c, start, missing, t).blocks
              = {b \in missing : Template[EntryOf(b)].needs = t}
BY DEF PlannedTask

LEMMA NewTasksFit ==
  ASSUME day \in Nat, NEW c \in Calls, NEW start \in EventDays \cup {None},
         NEW missing \in SUBSET Titles
  PROVE  /\ NewTasks(c, start, missing) \subseteq PlanTask
         /\ \A t \in NewTasks(c, start, missing) : t.by = c /\ t.due > Hours(day)
         /\ Ordered(NewTasks(c, start, missing)) /\ Closed(NewTasks(c, start, missing))
         /\ TitlesOf(NewTasks(c, start, missing)) = missing
         /\ \A t, u \in NewTasks(c, start, missing) : t.title = u.title => t = u
<1> DEFINE T(x) == PlannedTask(c, start, missing, x)
<1> DEFINE new == NewTasks(c, start, missing)
<1>1. ASSUME NEW x \in missing
      PROVE  /\ T(x).title = x /\ T(x).by = c
             /\ T(x).due = Deadline(start, Template[EntryOf(x)].days)
             /\ T(x).depends <=> Template[EntryOf(x)].needs \in missing
             /\ T(x).blocks = {b \in missing : Template[EntryOf(b)].needs = x}
             /\ T(x).due \in Nat /\ T(x).due > Hours(day)
  BY PlannedFields, Entries, Deadlines
<1>2. ASSUME NEW x \in missing PROVE T(x) \in PlanTask
  <2>1. /\ x \in Titles /\ Deadline(start, Template[EntryOf(x)].days) \in Nat
        /\ (Template[EntryOf(x)].needs \in missing) \in BOOLEAN
        /\ {b \in missing : Template[EntryOf(b)].needs = x} \in SUBSET Titles
    BY <1>1
  <2>2. QED
    BY <2>1 DEF PlannedTask, PlanTask
<1>3. \A t \in new : \E x \in missing : t = T(x)
  BY DEF NewTasks
<1>4. \A x \in missing : T(x) \in new
  BY DEF NewTasks
<1>5. Ordered(new)
  <2> SUFFICES ASSUME NEW x \in missing, NEW y \in missing, T(x).depends, T(y).title = Needed(T(x))
               PROVE  T(y).due <= T(x).due /\ T(x).title \in T(y).blocks
    BY <1>3 DEF Ordered
  <2>1. y = Template[EntryOf(x)].needs
    BY <1>1 DEF Needed
  <2>2. Template[EntryOf(y)].days >= Template[EntryOf(x)].days
    BY <2>1, NeededIsEarlier
  <2>3. T(y).due <= T(x).due
    BY <1>1, <2>2, Entries, Deadlines
  <2>4. QED
    BY <1>1, <2>1, <2>3
<1>6. Closed(new)
  <2> SUFFICES ASSUME NEW x \in missing
               PROVE  /\ T(x).depends => \E u \in new : u.title = Needed(T(x))
                      /\ \A b \in T(x).blocks : \E u \in new : u.title = b /\ u.depends
    BY <1>3 DEF Closed
  <2>1. T(x).depends => \E u \in new : u.title = Needed(T(x))
    BY <1>1, <1>4 DEF Needed
  <2>2. ASSUME NEW b \in T(x).blocks PROVE \E u \in new : u.title = b /\ u.depends
    BY <1>1, <1>4
  <2>3. QED
    BY <2>1, <2>2
<1>7. TitlesOf(new) = missing
  BY <1>1, <1>3, <1>4 DEF TitlesOf
<1>8. \A t, u \in new : t.title = u.title => t = u
  BY <1>1, <1>3
<1>9. QED
  BY <1>1, <1>2, <1>3, <1>5, <1>6, <1>7, <1>8

---------------------------------------------------------------------------
(* The plan.  What a run has made is on the plan or still to be written.    *)

Pending(c) == IF clerks[c].at = "batch" THEN clerks[c].saw ELSE {}
TasksOf(c) == {t \in plan : t.by = c} \cup Pending(c)

TitlesFit(saw) ==
  /\ saw.start \in EventDays \cup {None} /\ saw.team \in 1 .. PlanTeams
  /\ saw.missing \subseteq Titles

RunFits(c) ==
  /\ clerks[c].at = "titles" => TitlesFit(clerks[c].saw)
  /\ Pending(c) \subseteq PlanTask
  /\ \A t \in Pending(c) : t.by = c /\ t.due > Hours(day)
  /\ clerks[c].at \notin {"batch", "end", "died"} => TasksOf(c) = {}
  /\ Ordered(TasksOf(c))
  /\ ~regime.failures => Closed(TasksOf(c))

PlanInv ==
  /\ plan \subseteq PlanTask /\ day \in 0 .. MaxDay
  /\ \A c \in Calls : RunFits(c)

(* A step that makes no task and loses none, or dies.                       *)
LEMMA PlanAside ==
  ASSUME PlanInv, NEW c \in Calls, ClerkTurn(c), plan' = plan,
         clerks[c].at \in {"batch", "end", "died"} => clerks'[c].at = "died" /\ regime.failures,
         clerks'[c].at # "batch",
         clerks'[c].at = "titles" => TitlesFit(clerks'[c].saw)
  PROVE  PlanInv'
<1>1. Pending(c)' = {}
  BY DEF Pending
<1>2. TasksOf(c)' \subseteq TasksOf(c) /\ (clerks[c].at \notin {"batch", "end", "died"} => TasksOf(c)' = {})
  BY <1>1 DEF TasksOf, PlanInv, RunFits
<1>3. Ordered(TasksOf(c)')
  BY <1>2 DEF Ordered, PlanInv, RunFits
<1>4. ~regime.failures => Closed(TasksOf(c)')
  BY <1>2 DEF Closed
<1>5. RunFits(c)'
  <2>1. Ordered(TasksOf(c))' /\ (~regime'.failures => Closed(TasksOf(c))')
    BY <1>3, <1>4 DEF Ordered, Closed, Needed, ClerkTurn
  <2>2. clerks'[c].at \notin {"batch", "end", "died"} => TasksOf(c)' = {}
    BY <1>2
  <2>3. QED
    BY <1>1, <2>1, <2>2 DEF RunFits, TitlesFit
<1>6. ASSUME NEW d \in Calls \ {c} PROVE RunFits(d)'
  <2>1. RunFits(d) /\ clerks'[d] = clerks[d] /\ UNCHANGED <<day, regime>>
    BY DEF PlanInv, ClerkTurn
  <2>2. Pending(d)' = Pending(d) /\ TasksOf(d)' = TasksOf(d)
    BY <2>1 DEF Pending, TasksOf
  <2>3. QED
    BY <2>1, <2>2 DEF RunFits, TitlesFit, Ordered, Closed, Needed
<1>7. QED
  BY <1>5, <1>6 DEF PlanInv, ClerkTurn

LEMMA ReadingTitlesKeepsPlan ==
  ASSUME PlanInv, NEW c \in Calls, ClerkTurn(c), ClerkShape, ReadTitles(c)
  PROVE  PlanInv'
<1> DEFINE saw == clerks[c].saw
           missing == saw.missing \cup MissingTitles(saw.team)
           new == NewTasks(c, saw.start, missing)
           next == [start |-> saw.start, team |-> saw.team + 1, missing |-> missing]
<1>1. /\ clerks[c].at = "titles" /\ UNCHANGED <<plan, day, regime>>
      /\ clerks' = IF saw.team < PlanTeams THEN After(clerks, c, "titles", next)
                   ELSE IF new = {} THEN Done(clerks, c) ELSE After(clerks, c, "batch", new)
  BY DEF ReadTitles
<1>2. RunFits(c) /\ TitlesFit(saw) /\ TasksOf(c) = {}
      /\ DOMAIN clerks = Calls /\ DOMAIN clerks[c] = {"at", "req", "saw"} /\ day \in Nat
  BY <1>1, EventConstants DEF PlanInv, RunFits, ClerkShape
<1>3. missing \in SUBSET Titles
  BY <1>2 DEF TitlesFit, MissingTitles, TitlesFor
<1>4. /\ new \subseteq PlanTask /\ \A t \in new : t.by = c /\ t.due > Hours(day)
      /\ Ordered(new) /\ Closed(new)
  <2> HIDE DEF missing, saw
  <2>1. QED
    BY <1>2, <1>3, NewTasksFit DEF TitlesFit
<1>5. TitlesFit(next) \/ ~(saw.team < PlanTeams)
  BY <1>2, <1>3, EventConstants DEF TitlesFit
<1> HIDE DEF new, next, missing, saw
<1>6. CASE saw.team < PlanTeams
  <2>1. clerks'[c].at = "titles" /\ clerks'[c].saw = next
    BY <1>1, <1>2, <1>6 DEF After
  <2>2. QED
    BY <1>1, <1>5, <1>6, <2>1, PlanAside
<1>7. CASE ~(saw.team < PlanTeams) /\ new = {}
  BY <1>1, <1>2, <1>7, PlanAside DEF Done, Invocation
<1>8. CASE ~(saw.team < PlanTeams) /\ new # {}
  <2>1. clerks'[c].at = "batch" /\ clerks'[c].saw = new
    BY <1>1, <1>2, <1>8 DEF After
  <2>2. Pending(c)' = new /\ TasksOf(c)' = new
    BY <1>1, <1>2, <2>1 DEF Pending, TasksOf
  <2>3. Ordered(TasksOf(c))' /\ Closed(TasksOf(c))'
    BY <1>4, <2>2 DEF Ordered, Closed, Needed
  <2>4. RunFits(c)'
    BY <1>1, <1>4, <2>1, <2>2, <2>3 DEF RunFits
  <2>5. ASSUME NEW d \in Calls \ {c} PROVE RunFits(d)'
    <3>1. RunFits(d) /\ clerks'[d] = clerks[d]
      BY DEF PlanInv, ClerkTurn
    <3>2. Pending(d)' = Pending(d) /\ TasksOf(d)' = TasksOf(d)
      BY <1>1, <3>1 DEF Pending, TasksOf
    <3>3. QED
      BY <1>1, <3>1, <3>2 DEF RunFits, TitlesFit, Ordered, Closed, Needed
  <2>6. QED
    BY <1>1, <2>4, <2>5 DEF PlanInv
<1>9. QED
  BY <1>6, <1>7, <1>8

(* A batch moves tasks from those to be written to the plan: the run has    *)
(* what it had.                                                             *)
LEMMA BatchMoves ==
  ASSUME PlanInv, NEW c \in Calls, ClerkShape, WritePlanBatch(c)
  PROVE  \E b \in SUBSET clerks[c].saw :
           /\ plan' = plan \cup b
           /\ Pending(c)' = clerks[c].saw \ b
           /\ clerks'[c].at = IF clerks[c].saw \ b = {} THEN "end" ELSE "batch"
<1>1. PICK b \in NextBatch(clerks[c].saw) :
        /\ plan' = plan \cup b
        /\ clerks' = IF clerks[c].saw \ b = {} THEN Done(clerks, c)
                     ELSE After(clerks, c, "batch", clerks[c].saw \ b)
  BY DEF WritePlanBatch
<1>2. b \subseteq clerks[c].saw
  BY BatchIsPart
<1>3. DOMAIN clerks = Calls /\ DOMAIN clerks[c] = {"at", "req", "saw"}
  BY DEF ClerkShape
<1>4. CASE clerks[c].saw \ b = {}
  <2>1. clerks'[c].at = "end"
    BY <1>1, <1>3, <1>4 DEF Done, Invocation
  <2>2. QED
    BY <1>1, <1>2, <1>4, <2>1 DEF Pending
<1>5. CASE clerks[c].saw \ b # {}
  <2>1. clerks'[c].at = "batch" /\ clerks'[c].saw = clerks[c].saw \ b
    BY <1>1, <1>3, <1>5 DEF After
  <2>2. QED
    BY <1>1, <1>2, <1>5, <2>1 DEF Pending
<1>6. QED
  BY <1>4, <1>5

LEMMA BatchKeepsPlan ==
  ASSUME PlanInv, NEW c \in Calls, ClerkTurn(c), ClerkShape, WritePlanBatch(c)
  PROVE  PlanInv'
<1>1. PICK b \in SUBSET clerks[c].saw :
        /\ plan' = plan \cup b /\ Pending(c)' = clerks[c].saw \ b
        /\ clerks'[c].at = IF clerks[c].saw \ b = {} THEN "end" ELSE "batch"
  BY BatchMoves
<1>2. clerks[c].at = "batch" /\ Pending(c) = clerks[c].saw /\ UNCHANGED <<day, regime>> /\ RunFits(c)
  BY DEF WritePlanBatch, Pending, PlanInv
<1>3. TasksOf(c)' = TasksOf(c)
  BY <1>1, <1>2 DEF TasksOf, RunFits
<1>4. RunFits(c)'
  <2>1. Ordered(TasksOf(c))' /\ (~regime'.failures => Closed(TasksOf(c))')
    BY <1>2, <1>3 DEF RunFits, Ordered, Closed, Needed
  <2>2. QED
    BY <1>1, <1>2, <2>1 DEF RunFits
<1>5. ASSUME NEW d \in Calls \ {c} PROVE RunFits(d)'
  <2>1. RunFits(d) /\ clerks'[d] = clerks[d] /\ \A t \in b : t.by = c
    BY <1>2 DEF PlanInv, ClerkTurn, RunFits
  <2>2. Pending(d)' = Pending(d) /\ TasksOf(d)' = TasksOf(d)
    BY <1>1, <2>1 DEF Pending, TasksOf
  <2>3. QED
    BY <1>2, <2>1, <2>2 DEF RunFits, TitlesFit, Ordered, Closed, Needed
<1>6. QED
  BY <1>1, <1>2, <1>4, <1>5 DEF PlanInv, RunFits

LEMMA PlanStep ==
  ASSUME LifeInv, PlanInv, NEW c \in Calls, EventStep(c)
  PROVE  PlanInv'
<1>1. ClerkTurn(c) /\ ClerkShape /\ DOMAIN clerks = Calls /\ DOMAIN clerks[c] = {"at", "req", "saw"}
  BY EventStepTurns DEF LifeInv, ClerkShape
<1>2. CASE CreateEvent(c) \/ BeginEventRequest(c)
  <2>1. /\ clerks[c].at = "idle" /\ plan' = plan
        /\ clerks'[c].at \in {"idle", "budget", "read"}
    BY <1>1, <1>2 DEF CreateEvent, BeginEventRequest, MayBegin, Begun, Invocation
  <2>2. QED
    BY <1>1, <2>1, PlanAside
<1>3. CASE EnsureEventBudget(c) \/ CheckTransition(c) \/ WriteTransition(c) \/ UpdateEvent(c)
  <2>1. /\ clerks[c].at \in {"budget", "read", "transition"} /\ plan' = plan
        /\ clerks'[c].at \in {"end", "transition"}
    BY <1>1, <1>3 DEF EnsureEventBudget, CheckTransition, WriteTransition, UpdateEvent, AsksEvent,
       Done, GoneTo, Invocation
  <2>2. QED
    BY <1>1, <2>1, PlanAside
<1>4. CASE ReadForPlan(c)
  <2>1. /\ clerks[c].at = "read" /\ plan' = plan
        /\ clerks'[c].at = "titles"
        /\ clerks'[c].saw = [start |-> event.start, team |-> 1, missing |-> {}]
    BY <1>1, <1>4 DEF ReadForPlan, AsksEvent, After
  <2>2. event \in EventRecord
    BY <2>1 DEF LifeInv, ItemFits, Active, Resting
  <2>3. event.start \in EventDays \cup {None}
    BY <2>2 DEF EventRecord
  <2>4. TitlesFit(clerks'[c].saw)
    BY <2>1, <2>3, EventConstants DEF TitlesFit
  <2>5. QED
    BY <1>1, <2>1, <2>4, PlanAside
<1>5. CASE ReadTitles(c)
  BY <1>1, <1>5, ReadingTitlesKeepsPlan
<1>6. CASE WritePlanBatch(c)
  BY <1>1, <1>6, BatchKeepsPlan
<1>7. CASE PutCopy(c) \/ ReadStructure(c) \/ WriteCopyBatch(c) \/ EnsureCopyBudget(c)
  <2>1. /\ clerks[c].at \in {"read", "structure", "copy", "copybudget"} /\ plan' = plan
        /\ clerks'[c].at \in {"structure", "copy", "copybudget", "end"}
    BY <1>1, <1>7 DEF PutCopy, ReadStructure, WriteCopyBatch, EnsureCopyBudget, AsksEvent, After,
       Done, GoneTo, Invocation
  <2>2. QED
    BY <1>1, <2>1, PlanAside
<1>8. CASE EventCallDies(c)
  <2>1. /\ regime.failures /\ plan' = plan /\ clerks'[c].at = "died"
    BY <1>1, <1>8 DEF EventCallDies, Dead, Invocation
  <2>2. QED
    BY <1>1, <2>1, PlanAside
<1>9. QED
  BY <1>2, <1>3, <1>4, <1>5, <1>6, <1>7, <1>8 DEF EventStep, ServeEvent

LEMMA DayKeepsPlan ==
  ASSUME PlanInv, DayPasses
  PROVE  PlanInv'
<1>1. UNCHANGED <<plan, clerks, regime>> /\ day' \in 0 .. MaxDay /\ \A c \in Calls : Pending(c) = {}
  BY EventConstants DEF DayPasses, PlanInv, Pending, Active, Resting
<1>2. ASSUME NEW c \in Calls PROVE RunFits(c)'
  <2>1. RunFits(c) /\ Pending(c)' = {} /\ TasksOf(c)' = TasksOf(c)
    BY <1>1 DEF PlanInv, Pending, TasksOf
  <2>2. QED
    BY <1>1, <2>1 DEF RunFits, TitlesFit, Ordered, Closed, Needed
<1>3. QED
  BY <1>1, <1>2 DEF PlanInv

LEMMA PlanInvIsInvariant == EventsSpec => []PlanInv
<1>1. EventsInit => PlanInv
  <2> SUFFICES ASSUME EventsInit PROVE PlanInv
    OBVIOUS
  <2>1. plan = {} /\ day = 0 /\ \A c \in Calls : clerks[c].at = "idle"
    BY DEF EventsInit, AllIdle, Invocation
  <2>2. \A c \in Calls : RunFits(c)
    BY <2>1 DEF RunFits, TasksOf, Pending, Ordered, Closed
  <2>3. QED
    BY <2>1, <2>2, EventConstants DEF PlanInv
<1>2. ASSUME PlanInv, SimulationRuns \/ UNCHANGED eventVars PROVE PlanInv'
  <2>1. UNCHANGED <<plan, day, clerks, regime>>
    BY <1>2 DEF eventVars, SimulationRuns
  <2>2. ASSUME NEW c \in Calls PROVE RunFits(c)'
    <3>1. RunFits(c) /\ Pending(c)' = Pending(c) /\ TasksOf(c)' = TasksOf(c)
      BY <1>2, <2>1 DEF PlanInv, Pending, TasksOf
    <3>2. QED
      BY <2>1, <3>1 DEF RunFits, TitlesFit, Ordered, Closed, Needed
  <2>3. QED
    BY <1>2, <2>1, <2>2 DEF PlanInv
<1>3. LifeInv /\ PlanInv /\ [EventsNext]_eventVars => PlanInv'
  BY <1>2, PlanStep, DayKeepsPlan DEF EventsNext, EventStep
<1>4. QED
  BY <1>1, <1>3, LifeInvIsInvariant, PTL DEF EventsSpec

(* A plan has an order one can work in, and no deadline of it has passed    *)
(* when it is written: for every template, start date and batch size,       *)
(* however runs overlap and wherever they die.                              *)
THEOREM PlansCanBeWorked == EventsSpec => DeadlinesAreUsable
<1>1. PlanInv => PlanCanBeWorked
  BY DEF PlanInv, PlanTask, RunFits, TasksOf, Ordered, Needed, PlanCanBeWorked
<1>2. LifeInv /\ PlanInv /\ [EventsNext]_eventVars => [\A t \in plan' \ plan : t.due > Hours(day)]_eventVars
  <2> SUFFICES ASSUME LifeInv, PlanInv, EventsNext, NEW t \in plan' \ plan PROVE t.due > Hours(day)
    OBVIOUS
  <2>1. PICK c \in Calls : WritePlanBatch(c)
    BY DEF EventsNext, DayPasses, SimulationRuns, CreateEvent, BeginEventRequest, EventCallDies, ServeEvent,
       EnsureEventBudget, CheckTransition, WriteTransition, UpdateEvent, ReadForPlan, ReadTitles,
       PutCopy, ReadStructure, WriteCopyBatch, EnsureCopyBudget
  <2>2. t \in clerks[c].saw /\ clerks[c].at = "batch"
    BY <2>1, BatchIsPart DEF WritePlanBatch
  <2>3. QED
    BY <2>2 DEF PlanInv, RunFits, Pending
<1>3. QED
  BY <1>1, <1>2, LifeInvIsInvariant, PlanInvIsInvariant, PTL
     DEF DeadlinesAreUsable, PlannedAhead, EventsSpec

---------------------------------------------------------------------------
(* What ends up whole.  Unless invocations die, whatever budget the event   *)
(* or a copy does not have yet is one that a call is on its way to put...   *)
Copying == {"structure", "copy", "copybudget"}

BudgetFollows == budgetRow = TRUE \/ \E c \in Calls : clerks[c].at = "budget"

CopyFits(c) ==
  /\ DOMAIN copies[c] = {"event", "budget", "titles"}
  /\ copies[c].event \in EventRecord \cup {None} /\ copies[c].budget \in BOOLEAN
  /\ ~regime.failures /\ copies[c].event # None =>
       (copies[c].event.total = TRUE => copies[c].budget = TRUE \/ clerks[c].at \in Copying)

BudgetInv ==
  /\ budgetRow \in BOOLEAN
  /\ ~regime.failures /\ event # None => (event.total = TRUE => BudgetFollows)
  /\ DOMAIN copies = Calls /\ \A c \in Calls : CopyFits(c)

LEMMA TotalStays ==
  ASSUME LifeInv, NEW c \in Calls, EventStep(c), ~CreateEvent(c)
  PROVE  /\ event' = None <=> event = None
         /\ event # None => event'.total = event.total
<1>1. CASE WriteTransition(c)
  <2>1. event \in EventRecord /\ TargetOf(clerks[c].req) \in EventStatuses
        /\ event' = Moves(event, TargetOf(clerks[c].req))
    BY <1>1, EventRequestForms DEF WriteTransition, LifeInv, ItemFits, Mover, MoverFits, Active, Resting
  <2>2. event' \in EventRecord /\ event'.total = event.total
    BY <2>1, MovedItem
  <2>3. QED
    BY <2>1, <2>2, EventConstants
<1>2. CASE UpdateEvent(c)
  <2>1. event \in EventRecord /\ clerks[c].req.day \in EventDays
        /\ event' = [event EXCEPT !.start = clerks[c].req.day]
    BY <1>2, EventRequestForms DEF UpdateEvent, AsksEvent, LifeInv, ItemFits, Active, Resting
  <2>2. event' \in EventRecord /\ event'.total = event.total
    BY <2>1 DEF EventRecord
  <2>3. QED
    BY <2>1, <2>2, EventConstants
<1>3. CASE ~WriteTransition(c) /\ ~UpdateEvent(c)
  BY <1>3 DEF EventStep, ServeEvent, BeginEventRequest, EventCallDies, EnsureEventBudget,
     CheckTransition, ReadForPlan, ReadTitles, WritePlanBatch, PutCopy, ReadStructure,
     WriteCopyBatch, EnsureCopyBudget
<1>4. QED
  BY <1>1, <1>2, <1>3

LEMMA CopiedItem ==
  ASSUME NEW e \in EventRecord
  PROVE  CopyOf(e) \in EventRecord
<1>1. /\ "DRAFT" \in EventStatuses /\ None \in EventDays \cup {None} /\ FALSE \in BOOLEAN
  BY DEF EventStatuses
<1>2. QED
  BY <1>1 DEF CopyOf, EventRecord

(* A step of c writes no copy but the one c makes, and that follows.        *)
LEMMA CopyTurn ==
  ASSUME LifeInv, BudgetInv, NEW c \in Calls, EventStep(c)
  PROVE  /\ DOMAIN copies' = Calls /\ \A d \in Calls \ {c} : copies'[d] = copies[d]
         /\ CopyFits(c)'
<1>1. ClerkTurn(c) /\ DOMAIN clerks = Calls /\ DOMAIN clerks[c] = {"at", "req", "saw"}
  BY EventStepTurns DEF LifeInv, ClerkShape
<1>2. /\ DOMAIN copies = Calls /\ CopyFits(c) /\ DOMAIN copies[c] = {"event", "budget", "titles"}
      /\ regime' = regime
  BY <1>1 DEF BudgetInv, CopyFits, ClerkTurn
<1>3. CASE PutCopy(c)
  <2>1. /\ copies' = [copies EXCEPT ![c].event = CopyOf(event)]
        /\ clerks'[c].at = "structure" /\ event \in EventRecord
    BY <1>1, <1>3 DEF PutCopy, AsksEvent, After, LifeInv, ItemFits, Active, Resting
  <2>2. /\ DOMAIN copies' = Calls /\ \A d \in Calls \ {c} : copies'[d] = copies[d]
        /\ DOMAIN copies'[c] = {"event", "budget", "titles"}
        /\ copies'[c].event = CopyOf(event) /\ copies'[c].budget = copies[c].budget
    BY <1>2, <2>1
  <2>3. CopyOf(event) \in EventRecord
    BY <2>1, CopiedItem
  <2>4. QED
    BY <1>2, <2>1, <2>2, <2>3 DEF CopyFits, Copying
<1>4. CASE WriteCopyBatch(c)
  <2>1. PICK b \in NextBatch(clerks[c].saw) :
          /\ copies' = [copies EXCEPT ![c].titles = @ \cup b]
          /\ clerks' = IF clerks[c].saw \ b # {} THEN After(clerks, c, "copy", clerks[c].saw \ b)
                       ELSE IF copies[c].event.total THEN GoneTo(clerks, c, "copybudget")
                       ELSE Done(clerks, c)
    BY <1>4 DEF WriteCopyBatch
  <2>2. /\ DOMAIN copies' = Calls /\ \A d \in Calls \ {c} : copies'[d] = copies[d]
        /\ DOMAIN copies'[c] = {"event", "budget", "titles"}
        /\ copies'[c].event = copies[c].event /\ copies'[c].budget = copies[c].budget
    BY <1>2, <2>1
  <2>3. copies[c].event.total = TRUE => clerks'[c].at \in Copying
    BY <1>1, <2>1 DEF After, GoneTo, Copying
  <2>4. QED
    BY <1>2, <2>2, <2>3 DEF CopyFits
<1>5. CASE EnsureCopyBudget(c)
  <2>1. copies' = [copies EXCEPT ![c].budget = TRUE]
    BY <1>5 DEF EnsureCopyBudget
  <2>2. /\ DOMAIN copies' = Calls /\ \A d \in Calls \ {c} : copies'[d] = copies[d]
        /\ DOMAIN copies'[c] = {"event", "budget", "titles"}
        /\ copies'[c].event = copies[c].event /\ copies'[c].budget = TRUE
    BY <1>2, <2>1
  <2>3. QED
    BY <1>2, <2>2 DEF CopyFits
<1>6. CASE ~PutCopy(c) /\ ~WriteCopyBatch(c) /\ ~EnsureCopyBudget(c)
  <2>1. copies' = copies
    BY <1>6 DEF EventStep, ServeEvent, CreateEvent, BeginEventRequest, EventCallDies, EnsureEventBudget,
       CheckTransition, WriteTransition, UpdateEvent, ReadForPlan, ReadTitles, WritePlanBatch,
       ReadStructure
  <2>2. ASSUME ~regime.failures, clerks[c].at \in Copying PROVE clerks'[c].at \in Copying
    <3>1. ReadStructure(c)
      BY <1>6, <2>2 DEF Copying, EventStep, ServeEvent, CreateEvent, BeginEventRequest, MayBegin,
         EventCallDies, EnsureEventBudget, CheckTransition, WriteTransition, UpdateEvent, ReadForPlan,
         ReadTitles, WritePlanBatch, AsksEvent
    <3>2. QED
      BY <1>1, <3>1 DEF ReadStructure, After, Copying
  <2>3. QED
    BY <1>2, <2>1, <2>2 DEF CopyFits
<1>7. QED
  BY <1>3, <1>4, <1>5, <1>6

LEMMA BudgetStep ==
  ASSUME LifeInv, BudgetInv, NEW c \in Calls, EventStep(c)
  PROVE  BudgetInv'
<1>1. ClerkTurn(c) /\ DOMAIN clerks = Calls /\ DOMAIN clerks[c] = {"at", "req", "saw"}
  BY EventStepTurns DEF LifeInv, ClerkShape
<1>2. DOMAIN copies' = Calls /\ \A d \in Calls : CopyFits(d)'
  <2>1. ASSUME NEW d \in Calls \ {c} PROVE CopyFits(d)'
    <3>1. copies'[d] = copies[d] /\ clerks'[d] = clerks[d] /\ regime' = regime /\ CopyFits(d)
      BY <1>1, CopyTurn DEF ClerkTurn, BudgetInv
    <3>2. QED
      BY <3>1 DEF CopyFits
  <2>2. QED
    BY <2>1, CopyTurn
<1>3. CASE CreateEvent(c)
  <2>1. PICK start \in EventDays \cup {None}, total \in BOOLEAN :
          /\ event' = [status |-> "DRAFT", key |-> "DRAFT", start |-> start, paused |-> FALSE,
                       total |-> total, simulated |-> FALSE]
          /\ clerks' = IF total THEN [clerks EXCEPT ![c] = Invocation("budget", None, None)] ELSE clerks
    BY <1>3 DEF CreateEvent
  <2>2. event'.total = TRUE => clerks'[c].at = "budget"
    BY <1>1, <2>1 DEF Invocation
  <2>3. budgetRow' = budgetRow
    BY <1>3 DEF CreateEvent
  <2>4. QED
    BY <1>2, <2>2, <2>3 DEF BudgetInv, BudgetFollows
<1>4. CASE ~CreateEvent(c)
  <2>1. /\ event' = None <=> event = None
        /\ event # None => event'.total = event.total
    BY <1>4, TotalStays
  <2>2. budgetRow' \in BOOLEAN /\ (budgetRow = TRUE => budgetRow' = TRUE)
    <3>1. budgetRow' = TRUE \/ budgetRow' = budgetRow
      BY <1>4 DEF EventStep, ServeEvent, BeginEventRequest, EventCallDies, EnsureEventBudget,
         CheckTransition, WriteTransition, UpdateEvent, ReadForPlan, ReadTitles, WritePlanBatch,
         PutCopy, ReadStructure, WriteCopyBatch, EnsureCopyBudget
    <3>2. QED
      BY <3>1 DEF BudgetInv
  <2>3. ASSUME ~regime.failures, clerks[c].at = "budget" PROVE budgetRow' = TRUE
    BY <1>4, <2>3 DEF EventStep, ServeEvent, BeginEventRequest, MayBegin, EventCallDies, EnsureEventBudget,
       CheckTransition, WriteTransition, UpdateEvent, ReadForPlan, ReadTitles, WritePlanBatch, PutCopy,
       ReadStructure, WriteCopyBatch, EnsureCopyBudget, AsksEvent
  <2>4. ASSUME ~regime.failures, BudgetFollows PROVE BudgetFollows'
    BY <1>1, <2>2, <2>3, <2>4 DEF BudgetFollows, ClerkTurn
  <2>5. QED
    BY <1>1, <1>2, <2>1, <2>2, <2>4 DEF BudgetInv, ClerkTurn
<1>5. QED
  BY <1>3, <1>4

(* ... the titles of the plan, each of them once when requests come in turn, *)
(* and those of the copy.                                                   *)

Distinct(tasks) == \A t, u \in tasks : t.title = u.title => t = u

TitlesBefore(k) == {t \in Titles : Template[EntryOf(t)].team < k}

FillsInTurn(c) ==
  /\ Distinct(Pending(c)) /\ TitlesOf(Pending(c)) \cap TitlesOf(plan) = {}
  /\ clerks[c].at = "titles" =>
       clerks[c].saw.missing = TitlesBefore(clerks[c].saw.team) \ TitlesOf(plan)
  /\ clerks[c].at = "batch" => TitlesOf(Pending(c)) \cup TitlesOf(plan) = Titles
  /\ clerks[c].at = "structure" =>
       clerks[c].saw.titles = TitlesBefore(clerks[c].saw.team) \cap TitlesOf(plan)
  /\ clerks[c].at = "copy" => clerks[c].saw \cup copies[c].titles = TitlesOf(plan)

ReadFits(c) ==
  /\ copies[c].titles \subseteq TitlesOf(plan)
  /\ clerks[c].at = "structure" => /\ clerks[c].saw.team \in 1 .. PlanTeams
                                  /\ clerks[c].saw.titles \subseteq TitlesOf(plan)
  /\ clerks[c].at = "copy" => clerks[c].saw \subseteq TitlesOf(plan)

WholeInv ==
  /\ \A c \in Calls : ReadFits(c)
  /\ ~regime.overlap => Distinct(plan) /\ \A c \in Calls : FillsInTurn(c)

LEMMA TeamsInOrder ==
  ASSUME NEW k \in 1 .. PlanTeams
  PROVE  /\ TitlesBefore(k + 1) = TitlesBefore(k) \cup TitlesFor(k)
         /\ TitlesBefore(1) = {}
         /\ ~(k < PlanTeams) => TitlesBefore(k + 1) = Titles
<1>1. \A t \in Titles : Template[EntryOf(t)].team \in 1 .. PlanTeams
  BY Entries, EventsAssumption
<1>2. PlanTeams \in Nat
  BY EventConstants
<1>3. QED
  BY <1>1, <1>2 DEF TitlesBefore, TitlesFor

(* What a step of c leaves to another call, and in turn to none.            *)
LEMMA OthersRead ==
  ASSUME LifeInv, BudgetInv, WholeInv, NEW c \in Calls, EventStep(c), plan \subseteq plan'
  PROVE  /\ \A d \in Calls \ {c} : ReadFits(d)'
         /\ ~regime.overlap => \A d \in Calls \ {c} : FillsInTurn(d)'
<1>1. ClerkTurn(c)
  BY EventStepTurns DEF LifeInv
<1>2. ASSUME NEW d \in Calls \ {c} PROVE ReadFits(d)'
  <2>1. copies'[d] = copies[d] /\ clerks'[d] = clerks[d] /\ ReadFits(d)
    BY <1>1, CopyTurn DEF ClerkTurn, WholeInv
  <2>2. TitlesOf(plan) \subseteq TitlesOf(plan)'
    BY DEF TitlesOf
  <2>3. QED
    BY <2>1, <2>2 DEF ReadFits
<1>3. ~regime.overlap => \A d \in Calls \ {c} : FillsInTurn(d)'
  <2> SUFFICES ASSUME ~regime.overlap, NEW d \in Calls \ {c} PROVE FillsInTurn(d)'
    OBVIOUS
  <2>1. clerks'[d].at \in Resting
    BY <1>1, WorkersTakeTurns DEF Active
  <2>2. QED
    BY <2>1 DEF FillsInTurn, Pending, Distinct, TitlesOf, Resting
<1>4. QED
  BY <1>2, <1>3

(* A step that writes no task, and what it has to say of c.                 *)
LEMMA WholeAside ==
  ASSUME LifeInv, BudgetInv, WholeInv, NEW c \in Calls, EventStep(c), plan' = plan,
         ReadFits(c)', ~regime.overlap => FillsInTurn(c)'
  PROVE  WholeInv'
<1>1. ClerkTurn(c)
  BY EventStepTurns DEF LifeInv
<1>2. QED
  BY <1>1, OthersRead DEF WholeInv, Distinct, ClerkTurn

(* A call that has read no title yet, or has no more use for them.          *)
LEMMA WholeApart ==
  ASSUME LifeInv, BudgetInv, WholeInv, NEW c \in Calls, EventStep(c), plan' = plan,
         copies'[c].titles = copies[c].titles,
         clerks'[c].at \notin {"titles", "batch", "structure", "copy"}
  PROVE  WholeInv'
<1>1. TitlesOf(plan)' = TitlesOf(plan) /\ ReadFits(c)
  BY DEF TitlesOf, WholeInv
<1>2. ReadFits(c)' /\ FillsInTurn(c)'
  BY <1>1 DEF ReadFits, FillsInTurn, Pending, Distinct, TitlesOf
<1>3. QED
  BY <1>2, WholeAside

LEMMA ReadingTitlesIsWhole ==
  ASSUME LifeInv, PlanInv, BudgetInv, WholeInv, NEW c \in Calls, ReadTitles(c)
  PROVE  WholeInv'
<1>1. EventStep(c) /\ DOMAIN clerks = Calls /\ DOMAIN clerks[c] = {"at", "req", "saw"}
  BY DEF EventStep, ServeEvent, LifeInv, ClerkShape
<1> DEFINE saw == clerks[c].saw
           missing == saw.missing \cup MissingTitles(saw.team)
           new == NewTasks(c, saw.start, missing)
           next == [start |-> saw.start, team |-> saw.team + 1, missing |-> missing]
<1>2. /\ clerks[c].at = "titles" /\ UNCHANGED <<plan, copies, regime>>
      /\ clerks' = IF saw.team < PlanTeams THEN After(clerks, c, "titles", next)
                   ELSE IF new = {} THEN Done(clerks, c) ELSE After(clerks, c, "batch", new)
  BY DEF ReadTitles
<1>3. TitlesFit(saw) /\ ReadFits(c) /\ (~regime.overlap => FillsInTurn(c)) /\ day \in Nat
  BY <1>2, EventConstants DEF PlanInv, RunFits, WholeInv
<1>4. saw.team \in 1 .. PlanTeams /\ missing \in SUBSET Titles /\ saw.start \in EventDays \cup {None}
  BY <1>3 DEF TitlesFit, MissingTitles, TitlesFor
<1>5. TitlesOf(plan)' = TitlesOf(plan) /\ TitlesOf(plan) = Planned
  BY <1>2 DEF TitlesOf, Planned
<1>6. ~regime.overlap => missing = TitlesBefore(saw.team + 1) \ TitlesOf(plan)
  <2>1. ~regime.overlap => saw.missing = TitlesBefore(saw.team) \ TitlesOf(plan)
    BY <1>2, <1>3 DEF FillsInTurn
  <2>2. MissingTitles(saw.team) = TitlesFor(saw.team) \ TitlesOf(plan)
    BY <1>5 DEF MissingTitles
  <2>3. QED
    BY <1>4, <2>1, <2>2, TeamsInOrder
<1>7. TitlesOf(new) = missing /\ Distinct(new)
  <2> HIDE DEF missing, saw
  <2>1. QED
    BY <1>3, <1>4, NewTasksFit DEF Distinct
<1>8. TitlesOf(plan) \subseteq Titles
  BY DEF PlanInv, PlanTask, TitlesOf
<1>9. next.team = saw.team + 1 /\ next.missing = missing
  OBVIOUS
<1> HIDE DEF new, missing, next
<1>10. CASE saw.team < PlanTeams
  <2>1. clerks'[c].at = "titles" /\ clerks'[c].saw = next
    BY <1>1, <1>2, <1>10 DEF After
  <2>2. ReadFits(c)' /\ Pending(c)' = {}
    BY <1>2, <1>3, <1>5, <2>1 DEF ReadFits, Pending
  <2>3. ~regime.overlap => FillsInTurn(c)'
    BY <1>5, <1>6, <1>9, <2>1, <2>2 DEF FillsInTurn, Distinct, TitlesOf
  <2>4. QED
    BY <1>1, <1>2, <2>2, <2>3, WholeAside
<1>11. CASE ~(saw.team < PlanTeams) /\ new = {}
  <2>1. clerks'[c].at = "end"
    BY <1>1, <1>2, <1>11 DEF Done, Invocation
  <2>2. QED
    BY <1>1, <1>2, <2>1, WholeApart
<1>12. CASE ~(saw.team < PlanTeams) /\ new # {}
  <2>1. clerks'[c].at = "batch" /\ Pending(c)' = new
    BY <1>1, <1>2, <1>12 DEF After, Pending
  <2>2. ReadFits(c)' /\ TitlesOf(Pending(c))' = TitlesOf(new)
    BY <1>2, <1>3, <1>5, <2>1 DEF ReadFits, TitlesOf
  <2>3. ~regime.overlap => FillsInTurn(c)'
    <3>1. ~regime.overlap => missing = Titles \ TitlesOf(plan)
      BY <1>4, <1>6, <1>12, TeamsInOrder
    <3>2. QED
      BY <1>5, <1>7, <1>8, <2>1, <2>2, <3>1 DEF FillsInTurn, Distinct
  <2>4. QED
    BY <1>1, <1>2, <2>2, <2>3, WholeAside
<1>13. QED
  BY <1>10, <1>11, <1>12

LEMMA WritingIsWhole ==
  ASSUME LifeInv, PlanInv, BudgetInv, WholeInv, NEW c \in Calls, WritePlanBatch(c)
  PROVE  WholeInv'
<1>1. EventStep(c) /\ ClerkTurn(c) /\ ClerkShape
  BY EventStepTurns DEF EventStep, ServeEvent, LifeInv
<1>2. PICK b \in SUBSET clerks[c].saw :
        /\ plan' = plan \cup b /\ Pending(c)' = clerks[c].saw \ b
        /\ clerks'[c].at = IF clerks[c].saw \ b = {} THEN "end" ELSE "batch"
  BY <1>1, BatchMoves
<1>3. clerks[c].at = "batch" /\ Pending(c) = clerks[c].saw /\ UNCHANGED <<copies, regime>>
  BY DEF WritePlanBatch, Pending
<1>4. TitlesOf(plan)' = TitlesOf(plan) \cup TitlesOf(b)
  BY <1>2 DEF TitlesOf
<1>5. ReadFits(c)'
  BY <1>2, <1>3, <1>4 DEF WholeInv, ReadFits
<1>6. ASSUME ~regime.overlap PROVE Distinct(plan)' /\ FillsInTurn(c)'
  <2>1. Distinct(plan) /\ FillsInTurn(c)
    BY <1>6 DEF WholeInv
  <2>2. \A t \in plan, u \in b : t.title # u.title
    BY <1>2, <1>3, <2>1 DEF FillsInTurn, TitlesOf
  <2>3. Distinct(plan)'
    BY <1>2, <1>3, <2>1, <2>2 DEF Distinct, FillsInTurn
  <2>4. Distinct(Pending(c))'
    BY <1>2, <1>3, <2>1 DEF Distinct, FillsInTurn
  <2>5. TitlesOf(Pending(c))' \cup TitlesOf(b) = TitlesOf(Pending(c))
    BY <1>2, <1>3 DEF TitlesOf
  <2>6. TitlesOf(Pending(c))' \cap TitlesOf(b) = {}
    BY <1>2, <1>3, <2>1 DEF TitlesOf, Distinct, FillsInTurn
  <2>7. QED
    BY <1>2, <1>3, <1>4, <2>1, <2>3, <2>4, <2>5, <2>6 DEF FillsInTurn
<1>7. QED
  BY <1>1, <1>2, <1>5, <1>6, OthersRead DEF WholeInv, ClerkTurn

LEMMA ReadingStructureIsWhole ==
  ASSUME LifeInv, PlanInv, BudgetInv, WholeInv, NEW c \in Calls, ReadStructure(c)
  PROVE  WholeInv'
<1>1. EventStep(c) /\ DOMAIN clerks = Calls /\ DOMAIN clerks[c] = {"at", "req", "saw"}
  BY DEF EventStep, ServeEvent, LifeInv, ClerkShape
<1> DEFINE saw == clerks[c].saw
           titles == saw.titles \cup (TitlesFor(saw.team) \cap Planned)
           next == [team |-> saw.team + 1, titles |-> titles]
<1>2. /\ clerks[c].at = "structure" /\ UNCHANGED <<plan, copies, regime>>
      /\ clerks' = IF saw.team < PlanTeams THEN After(clerks, c, "structure", next)
                   ELSE After(clerks, c, "copy", titles)
  BY DEF ReadStructure
<1>3. ReadFits(c) /\ saw.team \in 1 .. PlanTeams /\ saw.titles \subseteq TitlesOf(plan)
      /\ (~regime.overlap => FillsInTurn(c))
  BY <1>2 DEF WholeInv, ReadFits
<1>4. TitlesOf(plan)' = TitlesOf(plan) /\ TitlesOf(plan) = Planned /\ TitlesOf(plan) \subseteq Titles
  BY <1>2 DEF TitlesOf, Planned, PlanInv, PlanTask
<1>5. titles \subseteq TitlesOf(plan)
  BY <1>3, <1>4
<1>6. ~regime.overlap => titles = TitlesBefore(saw.team + 1) \cap TitlesOf(plan)
  <2>1. ~regime.overlap => saw.titles = TitlesBefore(saw.team) \cap TitlesOf(plan)
    BY <1>2, <1>3 DEF FillsInTurn
  <2>2. QED
    BY <1>3, <1>4, <2>1, TeamsInOrder
<1>7. next.team = saw.team + 1 /\ next.titles = titles
  OBVIOUS
<1>8. saw.team < PlanTeams => saw.team + 1 \in 1 .. PlanTeams
  BY <1>3, EventConstants
<1> HIDE DEF titles, next
<1>9. CASE saw.team < PlanTeams
  <2>1. clerks'[c].at = "structure" /\ clerks'[c].saw = next
    BY <1>1, <1>2, <1>9 DEF After
  <2>2. ReadFits(c)' /\ Pending(c)' = {}
    BY <1>2, <1>3, <1>4, <1>5, <1>7, <1>8, <1>9, <2>1 DEF ReadFits, Pending
  <2>3. ~regime.overlap => FillsInTurn(c)'
    BY <1>4, <1>6, <1>7, <2>1, <2>2 DEF FillsInTurn, Distinct, TitlesOf
  <2>4. QED
    BY <1>1, <1>2, <2>2, <2>3, WholeAside
<1>10. CASE ~(saw.team < PlanTeams)
  <2>1. clerks'[c].at = "copy" /\ clerks'[c].saw = titles
    BY <1>1, <1>2, <1>10 DEF After
  <2>2. ReadFits(c)' /\ Pending(c)' = {}
    BY <1>2, <1>3, <1>4, <1>5, <2>1 DEF ReadFits, Pending
  <2>3. ~regime.overlap => titles = TitlesOf(plan)
    BY <1>3, <1>4, <1>6, <1>10, TeamsInOrder
  <2>4. ~regime.overlap => FillsInTurn(c)'
    BY <1>2, <1>3, <1>4, <2>1, <2>2, <2>3 DEF FillsInTurn, Distinct, TitlesOf, ReadFits
  <2>5. QED
    BY <1>1, <1>2, <2>2, <2>4, WholeAside
<1>11. QED
  BY <1>9, <1>10

LEMMA CopyingIsWhole ==
  ASSUME LifeInv, BudgetInv, WholeInv, NEW c \in Calls, WriteCopyBatch(c)
  PROVE  WholeInv'
<1>1. EventStep(c) /\ DOMAIN clerks = Calls /\ DOMAIN clerks[c] = {"at", "req", "saw"}
  BY DEF EventStep, ServeEvent, LifeInv, ClerkShape
<1>2. PICK b \in NextBatch(clerks[c].saw) :
        /\ copies' = [copies EXCEPT ![c].titles = @ \cup b]
        /\ clerks' = IF clerks[c].saw \ b # {} THEN After(clerks, c, "copy", clerks[c].saw \ b)
                     ELSE IF copies[c].event.total THEN GoneTo(clerks, c, "copybudget")
                     ELSE Done(clerks, c)
  BY DEF WriteCopyBatch
<1>3. b \subseteq clerks[c].saw /\ clerks[c].at = "copy" /\ UNCHANGED <<plan, regime>> /\ ReadFits(c)
  BY BatchIsPart DEF WriteCopyBatch, WholeInv
<1>4. copies'[c].titles = copies[c].titles \cup b
  BY <1>2 DEF BudgetInv, CopyFits
<1>5. \/ clerks'[c].at = "copy" /\ clerks'[c].saw = clerks[c].saw \ b
      \/ clerks'[c].at \in {"copybudget", "end"}
  BY <1>1, <1>2 DEF After, GoneTo, Done, Invocation
<1>6. TitlesOf(plan)' = TitlesOf(plan) /\ Pending(c)' = {}
  BY <1>3, <1>5 DEF TitlesOf, Pending
<1>7. ReadFits(c)'
  BY <1>3, <1>4, <1>5, <1>6 DEF ReadFits
<1>8. ~regime.overlap => FillsInTurn(c)'
  BY <1>3, <1>4, <1>5, <1>6 DEF WholeInv, FillsInTurn, Distinct, TitlesOf
<1>9. QED
  BY <1>1, <1>3, <1>7, <1>8, WholeAside

LEMMA WholeStep ==
  ASSUME LifeInv, PlanInv, BudgetInv, WholeInv, NEW c \in Calls, EventStep(c)
  PROVE  WholeInv'
<1>1. DOMAIN clerks = Calls /\ DOMAIN clerks[c] = {"at", "req", "saw"} /\ DOMAIN copies = Calls
      /\ DOMAIN copies[c] = {"event", "budget", "titles"}
  BY DEF LifeInv, ClerkShape, BudgetInv, CopyFits
<1>2. CASE PutCopy(c)
  <2>1. /\ plan' = plan /\ copies'[c].titles = copies[c].titles
        /\ clerks'[c].at = "structure" /\ clerks'[c].saw = [team |-> 1, titles |-> {}]
    BY <1>1, <1>2 DEF PutCopy, After
  <2>2. TitlesOf(plan)' = TitlesOf(plan) /\ ReadFits(c) /\ Pending(c)' = {}
    BY <2>1 DEF TitlesOf, WholeInv, Pending
  <2>3. 1 \in 1 .. PlanTeams
    BY EventConstants
  <2>4. ReadFits(c)' /\ FillsInTurn(c)'
    BY <2>1, <2>2, <2>3, TeamsInOrder DEF ReadFits, FillsInTurn, Distinct, TitlesOf
  <2>5. QED
    BY <2>1, <2>4, WholeAside
<1>3. CASE ReadForPlan(c)
  <2>1. /\ plan' = plan /\ copies' = copies /\ clerks'[c].at = "titles"
        /\ clerks'[c].saw = [start |-> event.start, team |-> 1, missing |-> {}]
    BY <1>1, <1>3 DEF ReadForPlan, After
  <2>2. TitlesOf(plan)' = TitlesOf(plan) /\ ReadFits(c) /\ Pending(c)' = {}
    BY <2>1 DEF TitlesOf, WholeInv, Pending
  <2>3. 1 \in 1 .. PlanTeams
    BY EventConstants
  <2>4. ReadFits(c)' /\ FillsInTurn(c)'
    BY <2>1, <2>2, <2>3, TeamsInOrder DEF ReadFits, FillsInTurn, Distinct, TitlesOf
  <2>5. QED
    BY <2>1, <2>4, WholeAside
<1>4. CASE EnsureCopyBudget(c)
  <2>1. copies' = [copies EXCEPT ![c].budget = TRUE]
    BY <1>4 DEF EnsureCopyBudget
  <2>2. copies'[c].titles = copies[c].titles
    BY <1>1, <2>1
  <2>3. plan' = plan /\ clerks'[c].at = "end"
    BY <1>1, <1>4 DEF EnsureCopyBudget, Done, Invocation
  <2>4. QED
    BY <2>2, <2>3, WholeApart
<1>5. CASE CreateEvent(c) \/ BeginEventRequest(c) \/ EventCallDies(c)
           \/ EnsureEventBudget(c) \/ CheckTransition(c) \/ WriteTransition(c) \/ UpdateEvent(c)
  <2>1. /\ UNCHANGED <<plan, copies>>
        /\ clerks'[c].at \in {"idle", "budget", "read", "died", "end", "transition"}
    BY <1>1, <1>5 DEF CreateEvent, BeginEventRequest, EventCallDies, EnsureEventBudget, CheckTransition,
       WriteTransition, UpdateEvent, MayBegin, Begun, Dead, Done, GoneTo, Invocation
  <2>2. QED
    BY <2>1, WholeApart
<1>6. QED
  BY <1>2, <1>3, <1>4, <1>5, ReadingTitlesIsWhole, WritingIsWhole, ReadingStructureIsWhole,
     CopyingIsWhole DEF EventStep, ServeEvent

LEMMA WholeIsInvariant == EventsSpec => [](BudgetInv /\ WholeInv)
<1>1. EventsInit => BudgetInv /\ WholeInv
  <2> SUFFICES ASSUME EventsInit PROVE BudgetInv /\ WholeInv
    OBVIOUS
  <2>1. /\ plan = {} /\ copies = [c \in Calls |-> [event |-> None, budget |-> FALSE, titles |-> {}]]
        /\ event = None /\ budgetRow = FALSE /\ \A c \in Calls : clerks[c].at = "idle"
    BY DEF EventsInit, AllIdle, Invocation
  <2>2. BudgetInv
    BY <2>1 DEF BudgetInv, CopyFits
  <2>3. WholeInv
    BY <2>1 DEF WholeInv, ReadFits, FillsInTurn, Pending, Distinct, TitlesOf
  <2>4. QED
    BY <2>2, <2>3
<1>2. ASSUME LifeInv, BudgetInv, WholeInv, DayPasses \/ SimulationRuns \/ UNCHANGED eventVars
      PROVE  BudgetInv' /\ WholeInv'
  <2>1. UNCHANGED <<budgetRow, plan, copies, clerks, regime>>
    BY <1>2 DEF DayPasses, SimulationRuns, eventVars
  <2>2. BudgetInv'
    <3>1. event' # None => event # None /\ event'.total = event.total
      BY <1>2, SimulatedItem DEF DayPasses, eventVars, LifeInv, ItemFits
    <3>2. \A c \in Calls : CopyFits(c) => CopyFits(c)'
      BY <2>1 DEF CopyFits
    <3>3. QED
      BY <1>2, <2>1, <3>1, <3>2 DEF BudgetInv, BudgetFollows
  <2>3. \A c \in Calls : /\ FillsInTurn(c) => FillsInTurn(c)'
                         /\ ReadFits(c) => ReadFits(c)'
    BY <2>1 DEF FillsInTurn, ReadFits, Pending, Distinct, TitlesOf
  <2>4. TitlesOf(plan)' = TitlesOf(plan) /\ (Distinct(plan) => Distinct(plan)')
    BY <2>1 DEF TitlesOf, Distinct
  <2>5. WholeInv'
    BY <1>2, <2>1, <2>3, <2>4 DEF WholeInv
  <2>6. QED
    BY <2>2, <2>5
<1>3. LifeInv /\ PlanInv /\ BudgetInv /\ WholeInv /\ [EventsNext]_eventVars => BudgetInv' /\ WholeInv'
  BY <1>2, BudgetStep, WholeStep DEF EventsNext, EventStep
<1>4. QED
  BY <1>1, <1>3, LifeInvIsInvariant, PlanInvIsInvariant, PTL DEF EventsSpec

(* Who finishes a batch or a copy is the one writing it. *)
LEMMA FinishingSteps ==
  ASSUME ClerkShape, [EventsNext]_eventVars, NEW c \in Calls
  PROVE  /\ clerks[c].at = "batch" /\ clerks'[c].at = "end" => WritePlanBatch(c)
         /\ clerks[c].at = "copy" /\ clerks'[c].at \in {"copybudget", "end"} => WriteCopyBatch(c)
<1> SUFFICES ASSUME clerks[c].at \in {"batch", "copy"}, clerks'[c].at \in {"copybudget", "end"}
             PROVE  WritePlanBatch(c) \/ WriteCopyBatch(c)
  BY DEF WritePlanBatch, WriteCopyBatch
<1>1. clerks' # clerks
  OBVIOUS
<1>2. PICK d \in Calls : EventStep(d)
  BY <1>1 DEF EventsNext, DayPasses, SimulationRuns, EventStep, eventVars
<1>3. d = c
  BY <1>2, EventStepTurns DEF ClerkTurn
<1>4. ~EventCallDies(c)
  BY DEF EventCallDies, Dead, Invocation, ClerkShape
<1>5. QED
  BY <1>2, <1>3, <1>4 DEF EventStep, ServeEvent, CreateEvent, BeginEventRequest, MayBegin,
     EnsureEventBudget, CheckTransition, WriteTransition, UpdateEvent, ReadForPlan, ReadTitles,
     PutCopy, ReadStructure, EnsureCopyBudget, AsksEvent

LEMMA FilledPlan ==
  ASSUME PlanInv, WholeInv, WholeInv', ClerkShape, ~regime.overlap, NEW c \in Calls,
         WritePlanBatch(c), clerks'[c].at = "end", NEW title \in Titles
  PROVE  Cardinality({t \in plan' : t.title = title}) = 1
<1>1. PICK b \in SUBSET clerks[c].saw :
        plan' = plan \cup b /\ clerks'[c].at = IF clerks[c].saw \ b = {} THEN "end" ELSE "batch"
  BY BatchMoves
<1>2. plan' = plan \cup clerks[c].saw /\ Pending(c) = clerks[c].saw /\ clerks[c].at = "batch"
      /\ regime' = regime
  BY <1>1 DEF WritePlanBatch, Pending
<1>3. \E t \in plan' : t.title = title
  BY <1>2 DEF WholeInv, FillsInTurn, TitlesOf
<1>4. Distinct(plan')
  BY <1>2 DEF WholeInv, Distinct
<1>5. PICK t \in plan' : {u \in plan' : u.title = title} = {t}
  BY <1>3, <1>4 DEF Distinct
<1>6. QED
  BY <1>5, FS_Singleton

(* A plan ends up with each title once and with what its tasks need and     *)
(* block, a copy with all of its source, and both events with their         *)
(* budgets, for every template and batch size.                              *)
THEOREM PlansEndUpWhole == EventsSpec => PlansAreWhole
<1>1. LifeInv /\ PlanInv /\ BudgetInv => NothingHalfDone
  <2> SUFFICES ASSUME LifeInv, PlanInv, BudgetInv, ~regime.failures, event # None,
                      \A c \in Calls : ~Active(clerks, c)
               PROVE  /\ event.total => budgetRow
                      /\ \A c \in Calls :
                           copies[c].event # None => (copies[c].event.total => copies[c].budget)
                      /\ \A t \in plan :
                           /\ t.depends => \E u \in plan : u.by = t.by /\ u.title = Needed(t)
                           /\ \A b \in t.blocks : \E u \in plan : u.by = t.by /\ u.title = b /\ u.depends
    BY DEF NothingHalfDone, Needed
  <2>1. \A c \in Calls : clerks[c].at \in Resting
    BY DEF Active
  <2>2. event.total => budgetRow
    <3>1. event.total \in BOOLEAN /\ budgetRow \in BOOLEAN
      BY DEF LifeInv, ItemFits, EventRecord, BudgetInv
    <3>2. event.total = TRUE => budgetRow = TRUE
      BY <2>1 DEF BudgetInv, BudgetFollows, Resting
    <3>3. QED
      BY <3>1, <3>2
  <2>3. ASSUME NEW c \in Calls, copies[c].event # None
        PROVE  copies[c].event.total => copies[c].budget
    <3>1. CopyFits(c) /\ clerks[c].at \notin Copying
      BY <2>1 DEF BudgetInv, Resting, Copying
    <3>2. copies[c].event.total \in BOOLEAN /\ copies[c].budget \in BOOLEAN
      BY <2>3, <3>1 DEF CopyFits, EventRecord
    <3>3. copies[c].event.total = TRUE => copies[c].budget = TRUE
      BY <2>3, <3>1 DEF CopyFits
    <3>4. QED
      BY <3>2, <3>3
  <2>4. ASSUME NEW t \in plan
        PROVE  /\ t.depends => \E u \in plan : u.by = t.by /\ u.title = Needed(t)
               /\ \A b \in t.blocks : \E u \in plan : u.by = t.by /\ u.title = b /\ u.depends
    <3>1. t.by \in Calls
      BY DEF PlanInv, PlanTask
    <3>2. TasksOf(t.by) = {u \in plan : u.by = t.by}
      BY <2>1, <3>1 DEF TasksOf, Pending, Resting
    <3>3. Closed(TasksOf(t.by)) /\ t \in TasksOf(t.by)
      BY <3>1, <3>2 DEF PlanInv, RunFits
    <3>4. QED
      BY <3>2, <3>3 DEF Closed
  <2>5. QED
    BY <2>2, <2>3, <2>4
<1>2. LifeInv /\ PlanInv /\ WholeInv /\ WholeInv' /\ [EventsNext]_eventVars =>
        [\A c \in Calls :
           (clerks[c].at = "batch" /\ clerks'[c].at = "end" /\ ~regime.overlap)
             => \A title \in Titles : Cardinality({t \in plan' : t.title = title}) = 1]_eventVars
  BY FinishingSteps, FilledPlan DEF LifeInv
<1>3. LifeInv /\ BudgetInv /\ WholeInv /\ WholeInv' /\ [EventsNext]_eventVars =>
        [\A c \in Calls :
           /\ copies'[c].titles \subseteq {t.title : t \in plan'}
           /\ (clerks[c].at = "copy" /\ clerks'[c].at \in {"copybudget", "end"} /\ ~regime.overlap)
                => copies'[c].titles = {t.title : t \in plan}]_eventVars
  <2> SUFFICES ASSUME LifeInv, BudgetInv, WholeInv, WholeInv', [EventsNext]_eventVars,
                      NEW c \in Calls
               PROVE  /\ copies'[c].titles \subseteq TitlesOf(plan')
                      /\ (clerks[c].at = "copy" /\ clerks'[c].at \in {"copybudget", "end"}
                          /\ ~regime.overlap)
                           => copies'[c].titles = TitlesOf(plan)
    BY DEF TitlesOf
  <2>1. copies'[c].titles \subseteq TitlesOf(plan')
    BY DEF WholeInv, ReadFits, TitlesOf
  <2>2. ASSUME clerks[c].at = "copy", clerks'[c].at \in {"copybudget", "end"}, ~regime.overlap
        PROVE  copies'[c].titles = TitlesOf(plan)
    <3>1. WriteCopyBatch(c) /\ DOMAIN clerks = Calls /\ DOMAIN clerks[c] = {"at", "req", "saw"}
      BY <2>2, FinishingSteps DEF LifeInv, ClerkShape
    <3>2. PICK b \in NextBatch(clerks[c].saw) :
            /\ copies' = [copies EXCEPT ![c].titles = @ \cup b]
            /\ clerks' = IF clerks[c].saw \ b # {} THEN After(clerks, c, "copy", clerks[c].saw \ b)
                         ELSE IF copies[c].event.total THEN GoneTo(clerks, c, "copybudget")
                         ELSE Done(clerks, c)
      BY <3>1 DEF WriteCopyBatch
    <3>3. clerks[c].saw \ b = {} /\ b \subseteq clerks[c].saw
      BY <2>2, <3>1, <3>2, BatchIsPart DEF After
    <3>4. copies'[c].titles = copies[c].titles \cup b
      BY <3>2 DEF BudgetInv, CopyFits
    <3>5. clerks[c].saw \cup copies[c].titles = TitlesOf(plan)
      BY <2>2 DEF WholeInv, FillsInTurn
    <3>6. QED
      BY <3>3, <3>4, <3>5
  <2>3. QED
    BY <2>1, <2>2
<1>4. QED
  BY <1>1, <1>2, <1>3, LifeInvIsInvariant, PlanInvIsInvariant, WholeIsInvariant, PTL
     DEF PlansAreWhole, PlanIsFilled, CopyFollowsPlan, EventsSpec

(* The variables keep their types, deadlines the range of the calendar.     *)
LEMMA EventTypeCorrect == EventsSpec => []EventsTypeOK
<1>1. LifeInv /\ PlanInv /\ BudgetInv /\ WholeInv => EventsTypeOK
  <2> SUFFICES ASSUME LifeInv, PlanInv, BudgetInv, WholeInv PROVE EventsTypeOK
    OBVIOUS
  <2>1. TitlesOf(plan) \subseteq Titles
    BY DEF PlanInv, PlanTask, TitlesOf
  <2>2. \A c \in Calls : /\ copies[c].event \in EventRecord \cup {None}
                         /\ copies[c].titles \subseteq Titles /\ copies[c].budget \in BOOLEAN
    BY <2>1 DEF BudgetInv, CopyFits, WholeInv, ReadFits
  <2>3. QED
    BY <2>2 DEF LifeInv, ItemFits, ClerkShape, PlanInv, BudgetInv, EventsTypeOK
<1>2. QED
  BY <1>1, LifeInvIsInvariant, PlanInvIsInvariant, WholeIsInvariant, PTL

---------------------------------------------------------------------------
(***************************************************************************)
(* The document: what a listing says of the object is true.                *)
(***************************************************************************)
AloneFiling == \A c, d \in Calls : Active(filers, c) /\ Active(filers, d) => c = d

(* An invocation on its own: the row it found is there, and so is the       *)
(* object it looked at until it removes it.                                 *)
FilesInTurn ==
  /\ document # None => document.key = TRUE
  /\ Listed => object # None \/ \E c \in Calls : filers[c].at = "unrow"
  /\ \A c \in Calls :
       /\ filers[c].at \in {"head", "confirm", "unstore", "unrow"} => document # None
       /\ filers[c].at = "confirm" => object # None

DocumentTyped ==
  /\ document \in DocumentItem \cup {None} /\ object \in Sizes \cup {None}
  /\ DOMAIN filers = Calls /\ \A c \in Calls : DOMAIN filers[c] = {"at", "req", "saw"}

DocumentInv ==
  /\ DocumentTyped
  /\ object # None => arrived
  /\ Listed => arrived
  /\ \A c \in Calls : filers[c].at = "confirm" => arrived
  /\ ~regime.overlap => AloneFiling
  /\ ~regime.overlap /\ ~regime.failures => FilesInTurn

LEMMA NoneIsNoDocument == None \notin DocumentItem /\ None \notin Sizes
BY DocumentsAssumption

(* What a step makes of one invocation; the others stay where they are.     *)
Turns(c) ==
  /\ DOMAIN filers' = Calls /\ DOMAIN filers'[c] = {"at", "req", "saw"}
  /\ \A d \in Calls \ {c} : filers'[d] = filers[d]
  /\ Active(filers, c) \/ (regime.overlap \/ \A d \in Calls : ~Active(filers, d))
  /\ UNCHANGED regime

LEMMA InTurn ==
  ASSUME DocumentInv, NEW c \in Calls, Turns(c)
  PROVE  ~regime'.overlap => AloneFiling'
BY DEF DocumentInv, AloneFiling, Active, Turns

LEMMA AloneInTurn ==
  ASSUME DocumentInv, NEW c \in Calls, Active(filers, c), ~regime.overlap
  PROVE  \A d \in Calls \ {c} : filers[d].at \in Resting
BY DEF DocumentInv, AloneFiling, Active

LEMMA FilerStep ==
  ASSUME DocumentInv, NEW c \in Calls, BeginFiling(c) \/ File(c) \/ FilerDies(c)
  PROVE  Turns(c)
<1>1. DOMAIN filers = Calls /\ DOMAIN filers[c] = {"at", "req", "saw"}
  BY DEF DocumentInv, DocumentTyped
<1>2. CASE BeginFiling(c)
  BY <1>1, <1>2 DEF BeginFiling, MayBegin, Begun, Invocation, Turns
<1>3. CASE File(c)
  BY <1>1, <1>3 DEF File, RequestUpload, FindRow, HeadObject, ConfirmRow, RemoveObject, RemoveRow,
     Files, Filed, Done, GoneTo, Invocation, Turns, Active, Resting
<1>4. CASE FilerDies(c)
  BY <1>1, <1>4 DEF FilerDies, Dead, Invocation, Turns
<1>5. QED
  BY <1>2, <1>3, <1>4

(* Nothing is stored or listed that did not arrive.                         *)
Seen == /\ object # None => arrived
        /\ Listed => arrived
        /\ \A c \in Calls : filers[c].at = "confirm" => arrived

LEMMA FilingKeepsTypes ==
  ASSUME DocumentInv, NEW c \in Calls, BeginFiling(c) \/ File(c) \/ FilerDies(c)
  PROVE  DocumentTyped'
<1>1. Turns(c)
  BY FilerStep
<1>2. DOMAIN filers' = Calls /\ \A d \in Calls : DOMAIN filers'[d] = {"at", "req", "saw"}
  BY <1>1 DEF DocumentInv, DocumentTyped, Turns
<1>3. object' \in Sizes \cup {None}
  BY DEF DocumentInv, DocumentTyped, BeginFiling, File, RequestUpload, FindRow, HeadObject,
     ConfirmRow, RemoveObject, RemoveRow, FilerDies
<1>4. CASE ConfirmRow(c)
  <2>1. CASE document = None
    BY <1>2, <1>3, <1>4, <2>1 DEF ConfirmRow, DocumentTyped, DocumentItem
  <2>2. CASE document # None
    <3>1. document \in DocumentItem /\ document' = [document EXCEPT !.confirmed = TRUE]
      BY <1>4, <2>2 DEF ConfirmRow, DocumentInv, DocumentTyped
    <3>2. document' \in DocumentItem
      BY <3>1 DEF DocumentItem
    <3>3. QED
      BY <1>2, <1>3, <3>2 DEF DocumentTyped
  <2>3. QED
    BY <2>1, <2>2
<1>5. CASE ~ConfirmRow(c)
  <2>1. document' \in DocumentItem \cup {None}
    <3>1. document' \in {document, None} \/ document' = [key |-> TRUE, confirmed |-> FALSE]
      BY <1>5 DEF BeginFiling, File, RequestUpload, FindRow, HeadObject, RemoveObject, RemoveRow,
         RowRemoved, FilerDies
    <3>2. [key |-> TRUE, confirmed |-> FALSE] \in DocumentItem
      BY DEF DocumentItem
    <3>3. QED
      BY <3>1, <3>2 DEF DocumentInv, DocumentTyped
  <2>2. QED
    BY <1>2, <1>3, <2>1 DEF DocumentTyped
<1>6. QED
  BY <1>4, <1>5

LEMMA FilingKeepsSeen ==
  ASSUME DocumentInv, NEW c \in Calls, BeginFiling(c) \/ File(c) \/ FilerDies(c)
  PROVE  Seen'
<1>1. Turns(c) /\ Seen /\ arrived' = arrived
  BY FilerStep DEF DocumentInv, Seen, BeginFiling, File, RequestUpload, FindRow, HeadObject,
     ConfirmRow, RemoveObject, RemoveRow, FilerDies
<1>2. object' = object \/ object' = None
  BY DEF BeginFiling, File, RequestUpload, FindRow, HeadObject, ConfirmRow, RemoveObject, RemoveRow,
     FilerDies
<1>3. filers'[c].at = "confirm" => arrived
  BY <1>1 DEF Seen, DocumentInv, DocumentTyped, BeginFiling, File, RequestUpload, FindRow, HeadObject,
     ConfirmRow, RemoveObject, RemoveRow, FilerDies, Begun, Filed, Done, GoneTo, Dead, Invocation,
     Confirmable
<1>4. ConfirmRow(c) => arrived
  BY <1>1 DEF Seen, ConfirmRow
<1>5. ~ConfirmRow(c) => (Listed' => Listed)
  BY DEF Listed, BeginFiling, File, RequestUpload, FindRow, HeadObject,
     RemoveObject, RemoveRow, RowRemoved, FilerDies
<1>6. QED
  BY <1>1, <1>2, <1>3, <1>4, <1>5 DEF Seen, Turns

LEMMA FilingInTurn ==
  ASSUME DocumentInv, NEW c \in Calls, BeginFiling(c) \/ File(c),
         ~regime.overlap, ~regime.failures
  PROVE  FilesInTurn'
<1>1. FilesInTurn /\ Turns(c) /\ DOMAIN filers = Calls /\ DOMAIN filers[c] = {"at", "req", "saw"}
  BY FilerStep DEF DocumentInv, DocumentTyped
<1>2. CASE BeginFiling(c)
  BY <1>1, <1>2 DEF BeginFiling, MayBegin, Begun, Invocation, FilesInTurn, Turns, Listed
<1>3. CASE File(c)
  <2>1. Active(filers, c)
    BY <1>3 DEF File, RequestUpload, FindRow, HeadObject, ConfirmRow, RemoveObject, RemoveRow,
       Files, Active, Resting
  <2>2. \A d \in Calls \ {c} : filers'[d].at \in Resting /\ filers[d].at \in Resting
    BY <1>1, <2>1, AloneInTurn DEF Turns
  <2>3. CASE RequestUpload(c)
    BY <1>1, <2>2, <2>3 DEF RequestUpload, Files, Filed, Done, Invocation, FilesInTurn, Listed, Resting
  <2>4. CASE FindRow(c)
    BY <1>1, <2>2, <2>4 DEF FindRow, RowFound, Files, Done, GoneTo, Invocation, FilesInTurn,
       Listed, Resting
  <2>5. CASE HeadObject(c)
    BY <1>1, <2>2, <2>5 DEF HeadObject, Confirmable, Done, GoneTo, Invocation, FilesInTurn,
       Listed, Resting
  <2>6. CASE ConfirmRow(c)
    <3>1. document # None /\ document.key = TRUE /\ object # None
          /\ document' = [document EXCEPT !.confirmed = TRUE] /\ object' = object
      BY <1>1, <2>6 DEF ConfirmRow, FilesInTurn
    <3>2. document' \in DocumentItem /\ document'.key = TRUE
      BY <3>1 DEF DocumentInv, DocumentTyped, DocumentItem
    <3>3. filers'[c].at = "end"
      BY <1>1, <2>6 DEF ConfirmRow, Filed, Done, Invocation
    <3>4. QED
      BY <2>2, <3>1, <3>2, <3>3 DEF FilesInTurn, Resting
  <2>7. CASE RemoveObject(c)
    BY <1>1, <2>2, <2>7 DEF RemoveObject, GoneTo, FilesInTurn, Listed, Resting
  <2>8. CASE RemoveRow(c)
    BY <1>1, <2>2, <2>8 DEF RemoveRow, RowRemoved, Filed, Done, Invocation, FilesInTurn,
       Listed, Resting
  <2>9. QED
    BY <1>3, <2>3, <2>4, <2>5, <2>6, <2>7, <2>8 DEF File
<1>4. QED
  BY <1>2, <1>3

LEMMA BrowserSteps ==
  ASSUME DocumentInv, BrowserPuts \/ UrlExpires
  PROVE  DocumentInv'
<1>1. NoneIsNoDocument!1 /\ NoneIsNoDocument!2
  BY NoneIsNoDocument
<1>2. /\ UNCHANGED <<document, filers, regime>> /\ (arrived => arrived')
      /\ object' = object \/ (object' \in Sizes /\ arrived')
  BY DEF BrowserPuts, UrlExpires
<1>3. DocumentTyped'
  BY <1>2 DEF DocumentInv, DocumentTyped
<1>4. ~regime.overlap => AloneFiling'
  BY <1>2 DEF DocumentInv, AloneFiling
<1>5. ~regime.overlap /\ ~regime.failures => FilesInTurn'
  BY <1>1, <1>2 DEF DocumentInv, FilesInTurn, Listed
<1>6. QED
  BY <1>1, <1>2, <1>3, <1>4, <1>5 DEF DocumentInv, Listed

LEMMA DocumentStep == DocumentInv /\ [DocumentsNext]_documentVars => DocumentInv'
<1> SUFFICES ASSUME DocumentInv, [DocumentsNext]_documentVars PROVE DocumentInv'
  OBVIOUS
<1>1. CASE UNCHANGED documentVars
  BY <1>1 DEF documentVars, DocumentInv, DocumentTyped, AloneFiling, FilesInTurn, Listed, Active
<1>2. CASE BrowserPuts \/ UrlExpires
  BY <1>2, BrowserSteps
<1>3. ASSUME NEW c \in Calls, BeginFiling(c) \/ File(c) \/ FilerDies(c)
      PROVE  DocumentInv'
  <2>1. Turns(c) /\ DocumentTyped' /\ Seen' /\ (~regime'.overlap => AloneFiling')
    BY <1>3, FilerStep, FilingKeepsTypes, FilingKeepsSeen, InTurn
  <2>2. FilerDies(c) => regime.failures
    BY DEF FilerDies
  <2>3. ~regime'.overlap /\ ~regime'.failures => FilesInTurn'
    BY <1>3, <2>1, <2>2, FilingInTurn DEF Turns
  <2>4. QED
    BY <2>1, <2>3 DEF DocumentInv, Seen
<1>4. QED
  BY <1>1, <1>2, <1>3 DEF DocumentsNext

LEMMA DocumentsInitInv == DocumentsInit => DocumentInv
BY DEF DocumentsInit, DocumentInv, DocumentTyped, AllIdle, Invocation, AloneFiling, Active, Resting,
   FilesInTurn, Listed

(* However requests overlap and die, nothing is listed that never arrived;  *)
(* and in turn and undisturbed what is listed can be downloaded, whenever   *)
(* the browser puts its object, for any number of requests.                 *)
THEOREM ListingStaysTrue == DocumentsSpec => []ListingIsTrue
<1>1. DocumentInv => ListingIsTrue
  BY DEF DocumentInv, FilesInTurn, ListingIsTrue, ListedCanBeDownloaded, NothingListedUnseen, Listed,
     Active, Resting
<1>2. QED
  BY <1>1, DocumentsInitInv, DocumentStep, PTL DEF DocumentsSpec

---------------------------------------------------------------------------
(***************************************************************************)
(* The simulation: runs follow their records, and money is approved.       *)
(***************************************************************************)
SimStep(c) == Advance(c) \/ PlayerDies(c)

(* What a step of c leaves of the other requests. *)
PlayerTurn(c) ==
  /\ DOMAIN players' = Calls /\ DOMAIN players'[c] = {"at", "req", "saw"}
  /\ \A d \in Calls \ {c} : players'[d] = players[d]
  /\ UNCHANGED regime /\ (Steady' <=> Steady)
  /\ players'[c].at = "request" => players'[c].saw.seen \in Hires

PlayerShape ==
  /\ DOMAIN players = Calls
  /\ \A c \in Calls : /\ DOMAIN players[c] = {"at", "req", "saw"}
                      /\ players[c].at = "request" => players[c].saw.seen \in Hires

LEMMA SimStepTurns ==
  ASSUME PlayerShape, NEW c \in Calls, SimStep(c)
  PROVE  PlayerTurn(c)
<1>1. /\ DOMAIN players = Calls /\ DOMAIN players[c] = {"at", "req", "saw"}
      /\ players[c].at = "request" => players[c].saw.seen \in Hires
  BY DEF PlayerShape
<1> USE <1>1 DEF PlayerTurn, Invocation, Steady, Lags
<1>2. CASE Reset(c) \/ BeginStep(c)
  BY <1>2 DEF Reset, BeginStep
<1>3. CASE TakeSnapshot(c)
  BY <1>3 DEF TakeSnapshot
<1>4. CASE RefuseStep(c) \/ SaveProgress(c) \/ PlayerDies(c)
  BY <1>4 DEF RefuseStep, SaveProgress, PlayerDies, Rests
<1>5. CASE SpeakerResponds(c) \/ TaskOverdue(c) \/ Recommend(c) \/ Recalculate(c) \/ DecideHire(c)
           \/ ResolveTrouble(c) \/ RequestHire(c)
  BY <1>5 DEF SpeakerResponds, TaskOverdue, Recommend, Recalculate, DecideHire, ResolveTrouble,
     RequestHire, Keeps, Finishes
<1>6. CASE ReportTrouble(c)
  BY <1>6 DEF ReportTrouble
<1>7. CASE CreateWork(c)
  BY <1>7 DEF CreateWork
<1>8. CASE CommentOnTrouble(c)
  BY <1>8 DEF CommentOnTrouble, Keeps, Finishes, Writing, GoneTo
<1>9. CASE CommitHire(c)
  BY <1>9 DEF CommitHire, Writing, GoneTo, Rests
<1>10. CASE CompleteWork(c)
  <2>1. players' = GoneTo(players, c, "resolve") /\ regime' = regime
    BY <1>10 DEF CompleteWork, Writing
  <2>2. QED
    BY <2>1 DEF GoneTo
<1>11. CASE ChooseCategory(c)
  BY <1>11 DEF ChooseCategory, Hires
<1>12. QED
  BY <1>2, <1>3, <1>4, <1>5, <1>6, <1>7, <1>8, <1>9, <1>10, <1>11 DEF SimStep, Advance

---------------------------------------------------------------------------
(* The records, as steps in turn find them. *)

TroubleItem == [status : {"REPORTED", "RECOMMENDATION_READY", "RESOLVED"}, count : Int, comments : Int]
ApprovalItem == [status : {"PENDING", "APPROVED"}, category : Hires]
WorkItem == [open : BOOLEAN, late : BOOLEAN, from : Nat \cup {None}]
IdFields == {"incident", "approval", "task"}

(* Ids that name records there are, or records of the event this is a copy of. *)
KnownIds(made) ==
  /\ DOMAIN made = IdFields
  /\ made.incident \in DOMAIN troubles \cup {None, Elsewhere}
  /\ made.approval \in DOMAIN requests \cup {None, Elsewhere}
  /\ made.task \in DOMAIN works \cup {None, Elsewhere}

RecordsTyped ==
  troubles \in Seq(TroubleItem) /\ requests \in Seq(ApprovalItem) /\ works \in Seq(WorkItem)

(* What step p has to show for itself, unless it was copied. *)
Earned(p, made) ==
  ~inherited =>
    /\ p >= 3 => made.incident \in DOMAIN troubles
    /\ p \in 4 .. 7 => troubles[made.incident].status # "REPORTED"
    /\ p >= 4 => made.task \in DOMAIN works /\ works[made.task].from = made.incident
    /\ p >= 6 => made.approval \in DOMAIN requests
    /\ p >= 7 => requests[made.approval].status = "APPROVED"
    /\ p >= 8 => troubles[made.incident].status = "RESOLVED" /\ works[made.task].open = FALSE

(* The only snapshot there is of an index that has caught up. *)
Current(step) ==
  [awaiting |-> IF step = 1 THEN awaiting ELSE {},
   works |-> IF step \in {2, 8} THEN works ELSE <<>>,
   troubles |-> IF step \in {4, 8} THEN troubles ELSE <<>>,
   requests |-> IF step = 7 THEN requests ELSE <<>>]

Stages == {"snapshot", "run", "first_comment", "analysis", "recommend", "request", "decide",
           "resolve", "save"}

StageFits(c) ==
  LET p == players[c] IN
  /\ p.at \in Stages /\ p.req = progress + 1 /\ p.req \in 1 .. 9
  /\ DOMAIN p.saw = {"ids", "seen"} /\ KnownIds(p.saw.ids)
  /\ p.at \in {"snapshot", "run", "request", "decide", "resolve"} => p.saw.ids = ids
  /\ p.at = "run" => p.saw.seen = Current(p.req)
  /\ p.at = "first_comment" => p.req = 3 /\ p.saw.ids.incident \in DOMAIN troubles
  /\ p.at \in {"analysis", "recommend"} =>
       /\ p.req = 4 /\ p.saw.ids.incident = ids.incident /\ ids.incident \in DOMAIN troubles
       /\ p.saw.ids.task \in DOMAIN works /\ works[p.saw.ids.task].from = ids.incident
       /\ p.saw.seen.troubles[ids.incident].count \in Int
  /\ p.at = "request" => p.req = 6
  /\ p.at = "decide" =>
       p.req = 7 /\ ids.approval \in DOMAIN requests /\ requests[ids.approval].status = "PENDING"
  /\ p.at = "resolve" => /\ p.req = 8 /\ ids.incident \in DOMAIN troubles
                         /\ ~inherited => works[ids.task].open = FALSE
  /\ p.at = "save" => Earned(p.req, SavedIds(ids, p.saw.ids))

AlonePlaying == \A c, d \in Calls : Active(players, c) /\ Active(players, d) => c = d

InTurnInv ==
  /\ RecordsTyped /\ KnownIds(ids) /\ progress \in 0 .. 9 /\ Earned(progress, ids)
  /\ AlonePlaying
  /\ \A c \in Calls : Active(players, c) => StageFits(c)

EarnedInv == PlayerShape /\ (Steady => InTurnInv)

LEMMA SteadySees ==
  ASSUME Steady, NEW step, NEW seen \in SnapshotFor(step)
  PROVE  seen = Current(step)
BY DEF Steady, SnapshotFor, SeenAwaiting, SeenWorks, SeenTroubles, SeenRequests, Current

LEMMA PlayersTakeTurns ==
  ASSUME EarnedInv, Steady, NEW c \in Calls, SimStep(c)
  PROVE  /\ \A d \in Calls \ {c} : ~Active(players, d) /\ ~Active(players, d)'
         /\ AlonePlaying'
<1>1. PlayerTurn(c)
  BY SimStepTurns DEF EarnedInv
<1>2. Active(players, c) \/ MayBegin(players, c)
  BY DEF SimStep, Advance, Reset, BeginStep, TakeSnapshot, RefuseStep, SpeakerResponds, TaskOverdue,
     ReportTrouble, CommentOnTrouble, CreateWork, Recommend, Recalculate, ChooseCategory, RequestHire,
     CommitHire, DecideHire, CompleteWork, ResolveTrouble, SaveProgress, PlayerDies, Runs, AtStep, Active, Resting
<1>3. \A d \in Calls \ {c} : ~Active(players, d)
  BY <1>2 DEF MayBegin, EarnedInv, InTurnInv, AlonePlaying, Active, Steady
<1>4. QED
  BY <1>1, <1>3 DEF PlayerTurn, AlonePlaying, Active

(* What a step in turn has to establish. *)
LEMMA TurnKeeps ==
  ASSUME EarnedInv, Steady, NEW c \in Calls, SimStep(c),
         RecordsTyped', KnownIds(ids)', progress' \in 0 .. 9, Earned(progress, ids)',
         Active(players, c)' => StageFits(c)'
  PROVE  EarnedInv'
<1>1. PlayerTurn(c)
  BY SimStepTurns DEF EarnedInv
<1>2. PlayerShape'
  BY <1>1 DEF EarnedInv, PlayerShape, PlayerTurn
<1>3. QED
  BY <1>1, <1>2, PlayersTakeTurns DEF EarnedInv, InTurnInv

LEMMA SavedFacts ==
  ASSUME NEW old, NEW made, KnownIds(old), KnownIds(made)
  PROVE  /\ KnownIds(SavedIds(old, made))
         /\ \A f \in IdFields : SavedIds(old, made)[f] = IF made[f] # None THEN made[f] ELSE old[f]
<1>1. DOMAIN SavedIds(old, made) = IdFields
  BY DEF SavedIds, KnownIds
<1>2. \A f \in IdFields : SavedIds(old, made)[f] = IF made[f] # None THEN made[f] ELSE old[f]
  BY DEF SavedIds, KnownIds
<1>3. QED
  BY <1>1, <1>2 DEF KnownIds, IdFields

LEMMA SavedAgain ==
  ASSUME NEW old, KnownIds(old)
  PROVE  /\ SavedIds(old, old).incident = old.incident
         /\ SavedIds(old, old).approval = old.approval
         /\ SavedIds(old, old).task = old.task
BY SavedFacts DEF IdFields

(* A step of c in turn finds this. *)
LEMMA TurnFinds ==
  ASSUME EarnedInv, Steady, NEW c \in Calls
  PROVE  /\ DOMAIN players = Calls /\ DOMAIN players[c] = {"at", "req", "saw"}
         /\ RecordsTyped /\ KnownIds(ids) /\ progress \in 0 .. 9 /\ Earned(progress, ids)
         /\ players[c].at \notin Resting => StageFits(c)
BY DEF EarnedInv, PlayerShape, InTurnInv, Active

(* A step that keeps its ids goes on to save them. *)
LEMMA KeptIds ==
  ASSUME NEW c \in Calls, DOMAIN players = Calls, DOMAIN players[c] = {"at", "req", "saw"}, Keeps(c)
  PROVE  /\ players'[c].at = "save" /\ players'[c].req = players[c].req
         /\ DOMAIN players'[c].saw = {"ids", "seen"} /\ players'[c].saw.ids = players[c].saw.ids
BY DEF Keeps, Finishes

(* What a step of c that is about to write finds. *)
LEMMA RunFinds ==
  ASSUME EarnedInv, Steady, NEW c \in Calls, players[c].at = "run"
  PROVE  /\ players[c].req \in 1 .. 9 /\ progress = players[c].req - 1
         /\ DOMAIN players[c].saw = {"ids", "seen"} /\ players[c].saw.ids = ids
         /\ players[c].saw.seen = Current(players[c].req)
<1>1. StageFits(c) /\ progress \in 0 .. 9
  BY TurnFinds DEF Resting
<1>2. players[c].req = progress + 1
  BY <1>1 DEF StageFits
<1>3. /\ players[c].req \in 1 .. 9
      /\ DOMAIN players[c].saw = {"ids", "seen"} /\ players[c].saw.ids = ids
      /\ players[c].saw.seen = Current(players[c].req)
  BY <1>1 DEF StageFits
<1>4. QED
  BY <1>1, <1>2, <1>3

---------------------------------------------------------------------------
(* Steps that write no record. *)

LEMMA RestKeeps ==
  ASSUME EarnedInv, Steady, NEW c \in Calls, RefuseStep(c) \/ PlayerDies(c)
  PROVE  EarnedInv'
<1>1. SimStep(c)
  BY DEF SimStep, Advance
<1>2. players'[c].at = "idle" /\ UNCHANGED <<progress, ids, inherited, works, troubles, requests>>
  BY TurnFinds DEF RefuseStep, PlayerDies, Rests, Invocation, EventItem, Records
<1>3. ~Active(players, c)'
  BY <1>2 DEF Active, Resting
<1>4. RecordsTyped' /\ KnownIds(ids)' /\ progress' \in 0 .. 9 /\ Earned(progress, ids)'
  BY <1>2, TurnFinds DEF RecordsTyped, KnownIds, Earned
<1>5. QED
  BY <1>1, <1>3, <1>4, TurnKeeps

LEMMA ResetKeeps ==
  ASSUME EarnedInv, Steady, NEW c \in Calls, Reset(c)
  PROVE  EarnedInv'
<1>1. SimStep(c)
  BY DEF SimStep, Advance
<1>2. progress' = 0 /\ UNCHANGED <<players, ids, works, troubles, requests>>
  BY DEF Reset, Records
<1>3. ~Active(players, c)'
  BY <1>2 DEF Active, Reset, MayBegin, Resting
<1>4. RecordsTyped' /\ KnownIds(ids)' /\ progress' \in 0 .. 9 /\ Earned(progress, ids)'
  <2>1. RecordsTyped' /\ KnownIds(ids)'
    BY <1>2, TurnFinds DEF RecordsTyped, KnownIds
  <2>2. progress' \in 0 .. 9 /\ Earned(progress, ids)'
    BY <1>2 DEF Earned
  <2>3. QED
    BY <2>1, <2>2
<1>5. QED
  BY <1>1, <1>3, <1>4, TurnKeeps

LEMMA BeginKeeps ==
  ASSUME EarnedInv, Steady, NEW c \in Calls, BeginStep(c)
  PROVE  EarnedInv'
<1>1. SimStep(c)
  BY DEF SimStep, Advance
<1>2. UNCHANGED <<progress, ids, inherited, works, troubles, requests>>
  BY DEF BeginStep, EventItem, Records
<1>3. RecordsTyped' /\ KnownIds(ids)' /\ progress' \in 0 .. 9 /\ Earned(progress, ids)'
  BY <1>2, TurnFinds DEF RecordsTyped, KnownIds, Earned
<1>4. /\ players'[c].at = "snapshot" /\ players'[c].req = progress + 1 /\ progress < 9
      /\ DOMAIN players'[c].saw = {"ids", "seen"} /\ players'[c].saw.ids = ids
  BY TurnFinds DEF BeginStep, Invocation, TotalSteps
<1>5. StageFits(c)'
  BY <1>2, <1>3, <1>4, TurnFinds DEF StageFits, Stages
<1>6. QED
  BY <1>1, <1>3, <1>5, TurnKeeps

LEMMA SnapshotKeeps ==
  ASSUME EarnedInv, Steady, NEW c \in Calls, TakeSnapshot(c)
  PROVE  EarnedInv'
<1>1. SimStep(c)
  BY DEF SimStep, Advance
<1>2. UNCHANGED <<progress, ids, inherited, awaiting, works, troubles, requests>> /\ players[c].at = "snapshot"
  BY DEF TakeSnapshot, EventItem, Records
<1>3. RecordsTyped' /\ KnownIds(ids)' /\ progress' \in 0 .. 9 /\ Earned(progress, ids)'
  BY <1>2, TurnFinds DEF RecordsTyped, KnownIds, Earned
<1>4. StageFits(c)
  BY <1>2, TurnFinds DEF Resting
<1>5. /\ players'[c].at = "run" /\ players'[c].req = players[c].req
      /\ DOMAIN players'[c].saw = {"ids", "seen"} /\ players'[c].saw.ids = players[c].saw.ids
      /\ players'[c].saw.seen = Current(players[c].req)
  <2>1. PICK seen \in SnapshotFor(players[c].req) :
          players' = [players EXCEPT ![c].at = "run", ![c].saw.seen = seen]
    BY DEF TakeSnapshot, StepOf
  <2>2. seen = Current(players[c].req)
    BY SteadySees
  <2>3. QED
    BY <1>4, <2>1, <2>2, TurnFinds DEF StageFits
<1>6. Current(players[c].req) = Current(players[c].req)'
  <2>1. players'[c].req = players[c].req
    BY <1>5
  <2>2. QED
    BY <1>2, <2>1 DEF Current
<1>7. StageFits(c)'
  BY <1>2, <1>3, <1>4, <1>5, <1>6 DEF StageFits, Stages
<1>8. QED
  BY <1>1, <1>3, <1>7, TurnKeeps

LEMMA RecalculateKeeps ==
  ASSUME EarnedInv, Steady, NEW c \in Calls, Recalculate(c)
  PROVE  EarnedInv'
<1>1. SimStep(c)
  BY DEF SimStep, Advance
<1>2. /\ UNCHANGED <<progress, ids, inherited, awaiting, works, troubles, requests>>
      /\ players[c].at = "run" /\ players[c].req \in {5, 9}
  BY DEF Recalculate, EventItem, Records, Runs, AtStep, StepOf
<1>3. RecordsTyped' /\ KnownIds(ids)' /\ progress' \in 0 .. 9 /\ Earned(progress, ids)'
  BY <1>2, TurnFinds DEF RecordsTyped, KnownIds, Earned
<1>4. StageFits(c)
  BY <1>2, TurnFinds DEF Resting
<1>5. /\ players'[c].at = "save" /\ players'[c].req = players[c].req
      /\ DOMAIN players'[c].saw = {"ids", "seen"} /\ players'[c].saw.ids = ids
  BY <1>2, <1>4, TurnFinds DEF Recalculate, Keeps, Finishes, StageFits
<1>6. Earned(players[c].req, SavedIds(ids, ids))
  <2>1. Earned(progress, ids) /\ progress \in 0 .. 9 /\ players[c].req = progress + 1
    BY <1>4, TurnFinds DEF StageFits
  <2>2. /\ SavedIds(ids, ids).incident = ids.incident /\ SavedIds(ids, ids).approval = ids.approval
        /\ SavedIds(ids, ids).task = ids.task
    BY SavedAgain, TurnFinds
  <2>3. (players[c].req = 5 /\ progress = 4) \/ (players[c].req = 9 /\ progress = 8)
    BY <1>2, <2>1
  <2>4. QED
    BY <2>1, <2>2, <2>3 DEF Earned
<1>7. Earned(players[c].req, SavedIds(ids, players[c].saw.ids))'
  BY <1>2, <1>5, <1>6 DEF Earned, SavedIds
<1>8. StageFits(c)'
  BY <1>2, <1>3, <1>4, <1>5, <1>7 DEF StageFits, Stages
<1>9. QED
  BY <1>1, <1>3, <1>8, TurnKeeps

---------------------------------------------------------------------------
(* Steps that write a record and then finish. *)

LEMMA RespondKeeps ==
  ASSUME EarnedInv, Steady, NEW c \in Calls, SpeakerResponds(c)
  PROVE  EarnedInv'
<1>1. SimStep(c)
  BY DEF SimStep, Advance
<1>2. UNCHANGED <<progress, ids, inherited, works, troubles, requests>> /\ players[c].at = "run" /\ players[c].req = 1
  BY DEF SpeakerResponds, EventItem, Runs, AtStep, StepOf
<1>3. RecordsTyped' /\ KnownIds(ids)' /\ progress' \in 0 .. 9 /\ Earned(progress, ids)'
  BY <1>2, TurnFinds DEF RecordsTyped, KnownIds, Earned
<1>4. StageFits(c)
  BY <1>2, TurnFinds DEF Resting
<1>5. /\ players'[c].at = "save" /\ players'[c].req = 1
      /\ DOMAIN players'[c].saw = {"ids", "seen"} /\ players'[c].saw.ids = ids
  BY <1>2, <1>4, TurnFinds DEF SpeakerResponds, Keeps, Finishes, StageFits
<1>6. Earned(players[c].req, SavedIds(ids, players[c].saw.ids))'
  BY <1>5 DEF Earned
<1>7. StageFits(c)'
  BY <1>2, <1>3, <1>4, <1>5, <1>6 DEF StageFits, Stages
<1>8. QED
  BY <1>1, <1>3, <1>7, TurnKeeps

LEMMA WorkChanges ==
  ASSUME NEW ws \in Seq(WorkItem), NEW i \in DOMAIN ws
  PROVE  /\ [ws[i] EXCEPT !.late = TRUE] \in WorkItem /\ [ws[i] EXCEPT !.open = FALSE] \in WorkItem
<1>1. ws[i] \in WorkItem
  OBVIOUS
<1>2. TRUE \in BOOLEAN /\ FALSE \in BOOLEAN
  OBVIOUS
<1>3. \A w \in WorkItem : /\ \A b \in BOOLEAN : [w EXCEPT !.late = b] \in WorkItem
                          /\ \A b \in BOOLEAN : [w EXCEPT !.open = b] \in WorkItem
  BY DEF WorkItem
<1>4. QED
  BY <1>1, <1>2, <1>3

LEMMA OverdueKeeps ==
  ASSUME EarnedInv, Steady, NEW c \in Calls, TaskOverdue(c)
  PROVE  EarnedInv'
<1>1. SimStep(c)
  BY DEF SimStep, Advance
<1>2. UNCHANGED <<progress, ids, inherited, troubles, requests>> /\ players[c].at = "run" /\ players[c].req = 2
  BY DEF TaskOverdue, EventItem, Runs, AtStep, StepOf
<1>3. StageFits(c)
  BY <1>2, TurnFinds DEF Resting
<1>4. PICK i \in Candidates(players[c].saw.seen) : works' = [works EXCEPT ![i].late = TRUE]
  BY DEF TaskOverdue
<1>5. progress = 1 /\ players[c].saw.seen.works = works
  <2>1. Current(2).works = works
    BY DEF Current
  <2>2. QED
    BY <1>2, <2>1, RunFinds
<1>6. i \in DOMAIN works
  BY <1>4, <1>5 DEF Candidates
<1>7. works \in Seq(WorkItem)
  BY TurnFinds DEF RecordsTyped
<1>8. [works[i] EXCEPT !.late = TRUE] \in WorkItem
  BY <1>6, <1>7, WorkChanges
<1>9. works' \in Seq(WorkItem) /\ DOMAIN works' = DOMAIN works
  BY <1>4, <1>6, <1>7, <1>8
<1>10. RecordsTyped' /\ KnownIds(ids)'
  BY <1>2, <1>9, TurnFinds DEF RecordsTyped, KnownIds
<1>11. progress' \in 0 .. 9 /\ Earned(progress, ids)'
  BY <1>2, <1>5 DEF Earned
<1>12. /\ players'[c].at = "save" /\ players'[c].req = 2
       /\ DOMAIN players'[c].saw = {"ids", "seen"} /\ players'[c].saw.ids = ids
  <2>1. players[c].saw.ids = ids
    BY <1>2, <1>3 DEF StageFits
  <2>2. Keeps(c)
    BY DEF TaskOverdue
  <2>3. QED
    BY <1>2, <2>1, <2>2, TurnFinds, KeptIds
<1>13. Earned(players[c].req, SavedIds(ids, players[c].saw.ids))'
  BY <1>12 DEF Earned
<1>14. StageFits(c)'
  BY <1>2, <1>3, <1>10, <1>12, <1>13 DEF StageFits, Stages
<1>15. QED
  BY <1>1, <1>10, <1>11, <1>14, TurnKeeps

LEMMA ReportKeeps ==
  ASSUME EarnedInv, Steady, NEW c \in Calls, ReportTrouble(c)
  PROVE  EarnedInv'
<1>1. SimStep(c)
  BY DEF SimStep, Advance
<1>2. UNCHANGED <<progress, ids, inherited, works, requests>> /\ players[c].at = "run" /\ players[c].req = 3
  BY DEF ReportTrouble, EventItem, Runs, AtStep, StepOf
<1>3. StageFits(c)
  BY <1>2, TurnFinds DEF Resting
<1>4. progress = 2 /\ DOMAIN players[c].saw = {"ids", "seen"} /\ players[c].saw.ids = ids
  BY <1>2, RunFinds
<1>5. troubles \in Seq(TroubleItem)
  BY TurnFinds DEF RecordsTyped
<1>6. [status |-> "REPORTED", count |-> 1, comments |-> 0] \in TroubleItem
  BY DEF TroubleItem
<1>7. /\ troubles' \in Seq(TroubleItem) /\ DOMAIN troubles' = DOMAIN troubles \cup {Len(troubles) + 1}
      /\ Len(troubles) + 1 \in Nat
  BY <1>5, <1>6 DEF ReportTrouble
<1>8. RecordsTyped' /\ KnownIds(ids)'
  BY <1>2, <1>7, TurnFinds DEF RecordsTyped, KnownIds
<1>9. progress' \in 0 .. 9 /\ Earned(progress, ids)'
  BY <1>2, <1>4 DEF Earned
<1>10. /\ players'[c].at = "first_comment" /\ players'[c].req = 3
       /\ DOMAIN players'[c].saw = {"ids", "seen"}
       /\ players'[c].saw.ids = [ids EXCEPT !.incident = Len(troubles) + 1]
  BY <1>2, <1>4, TurnFinds DEF ReportTrouble
<1>11. KnownIds(players[c].saw.ids)' /\ players'[c].saw.ids.incident \in DOMAIN troubles'
  <2>1. DOMAIN ids = IdFields
    BY TurnFinds DEF KnownIds
  <2>2. /\ DOMAIN players'[c].saw.ids = IdFields
        /\ players'[c].saw.ids.incident = Len(troubles) + 1
        /\ players'[c].saw.ids.approval = ids.approval /\ players'[c].saw.ids.task = ids.task
    BY <1>10, <2>1 DEF IdFields
  <2>3. QED
    BY <1>2, <1>7, <2>2, TurnFinds, SimulationAssumption DEF KnownIds
<1>12. StageFits(c)'
  BY <1>2, <1>4, <1>10, <1>11 DEF StageFits, Stages
<1>13. QED
  BY <1>1, <1>8, <1>9, <1>12, TurnKeeps

(* A comment leaves all else of its incident. *)
LEMMA CommentLeaves ==
  ASSUME NEW ts \in Seq(TroubleItem), NEW i \in DOMAIN ts, NEW us, us = [ts EXCEPT ![i].comments = @ + 1]
  PROVE  /\ us \in Seq(TroubleItem) /\ DOMAIN us = DOMAIN ts
         /\ \A j \in DOMAIN ts : us[j].status = ts[j].status /\ us[j].count = ts[j].count
         /\ us[i].comments = ts[i].comments + 1
         /\ \A j \in DOMAIN ts \ {i} : us[j] = ts[j]
<1>1. ts[i] \in TroubleItem
  OBVIOUS
<1>2. [ts[i] EXCEPT !.comments = @ + 1] \in TroubleItem
  BY <1>1 DEF TroubleItem
<1>3. us = [ts EXCEPT ![i] = [ts[i] EXCEPT !.comments = @ + 1]]
  OBVIOUS
<1>4. us \in Seq(TroubleItem) /\ DOMAIN us = DOMAIN ts
  BY <1>2, <1>3
<1>5. /\ us[i].status = ts[i].status /\ us[i].count = ts[i].count /\ us[i].comments = ts[i].comments + 1
  BY <1>1, <1>3 DEF TroubleItem
<1>6. \A j \in DOMAIN ts \ {i} : us[j] = ts[j]
  BY <1>3
<1>7. QED
  BY <1>4, <1>5, <1>6

LEMMA CommentKeeps ==
  ASSUME EarnedInv, Steady, NEW c \in Calls, CommentOnTrouble(c)
  PROVE  EarnedInv'
<1>1. SimStep(c)
  BY DEF SimStep, Advance
<1> DEFINE i == players[c].saw.ids.incident
<1>2. /\ UNCHANGED <<progress, ids, inherited, works, requests>> /\ players[c].at \in {"first_comment", "analysis"}
      /\ troubles' = [troubles EXCEPT ![i].comments = @ + 1]
  BY DEF CommentOnTrouble, EventItem, RunIncident
<1>3. StageFits(c)
  BY <1>2, TurnFinds DEF Resting
<1>4. /\ DOMAIN players[c].saw = {"ids", "seen"} /\ KnownIds(players[c].saw.ids)
      /\ players[c].at = "first_comment" => players[c].req = 3
      /\ players[c].at = "analysis" => players[c].req = 4 /\ i = ids.incident
      /\ progress \in 0 .. 9 /\ players[c].req = progress + 1
  BY <1>3, TurnFinds DEF StageFits
<1>5. i \in DOMAIN troubles
  BY <1>2, <1>3 DEF StageFits
<1>6. troubles \in Seq(TroubleItem) /\ i # None
  BY <1>5, TurnFinds, SimulationAssumption DEF RecordsTyped
<1>7. /\ troubles' \in Seq(TroubleItem) /\ DOMAIN troubles' = DOMAIN troubles
      /\ \A j \in DOMAIN troubles : troubles'[j].status = troubles[j].status
  <2>1. troubles \in Seq(TroubleItem)
    BY TurnFinds DEF RecordsTyped
  <2> HIDE DEF i
  <2>2. QED
    BY <1>2, <1>5, <2>1, CommentLeaves
<1> HIDE DEF i
<1>8. RecordsTyped' /\ KnownIds(ids)'
  BY <1>2, <1>7, TurnFinds DEF RecordsTyped, KnownIds
<1>9. progress' \in 0 .. 9 /\ Earned(progress, ids)'
  <2>1. progress \in {2, 3}
    BY <1>2, <1>4
  <2>2. progress = 3 /\ ~inherited => ids.incident \in DOMAIN troubles
    BY TurnFinds DEF Earned
  <2>3. QED
    BY <1>2, <1>7, <2>1, <2>2 DEF Earned
<1>10. CASE players[c].at = "first_comment"
  <2>1. /\ players'[c].at = "save" /\ players'[c].req = 3 /\ DOMAIN players'[c].saw = {"ids", "seen"}
        /\ players'[c].saw.ids = players[c].saw.ids
    BY <1>4, <1>10, TurnFinds DEF CommentOnTrouble, Keeps, Finishes
  <2>2. SavedIds(ids, players[c].saw.ids).incident \in DOMAIN troubles'
    BY <1>4, <1>5, <1>6, <1>7, TurnFinds, SavedFacts DEF IdFields, i
  <2>3. SavedIds(ids, players[c].saw.ids)' = SavedIds(ids, players[c].saw.ids)
    BY <1>2, <2>1 DEF SavedIds
  <2>4. Earned(players[c].req, SavedIds(ids, players[c].saw.ids))'
    BY <2>1, <2>2, <2>3 DEF Earned
  <2>5. KnownIds(players[c].saw.ids)'
    BY <1>2, <1>4, <1>7, <2>1 DEF KnownIds
  <2>6. StageFits(c)'
    BY <1>2, <1>3, <1>10, <2>1, <2>4, <2>5 DEF StageFits, Stages
  <2>7. QED
    BY <1>1, <1>8, <1>9, <2>6, TurnKeeps
<1>11. CASE players[c].at = "analysis"
  <2>1. players'[c].at = "recommend" /\ players'[c].req = players[c].req /\ players'[c].saw = players[c].saw
    BY <1>11, TurnFinds DEF CommentOnTrouble, Writing, GoneTo
  <2>2. KnownIds(players[c].saw.ids)'
    BY <1>2, <1>4, <1>7, <2>1 DEF KnownIds
  <2>3. StageFits(c)'
    BY <1>2, <1>3, <1>11, <2>1, <2>2 DEF StageFits, Stages
  <2>4. QED
    BY <1>1, <1>8, <1>9, <2>3, TurnKeeps
<1>12. QED
  BY <1>2, <1>10, <1>11

LEMMA CreateKeeps ==
  ASSUME EarnedInv, Steady, NEW c \in Calls, CreateWork(c)
  PROVE  EarnedInv'
<1>1. SimStep(c)
  BY DEF SimStep, Advance
<1>2. UNCHANGED <<progress, ids, inherited, troubles, requests>> /\ players[c].at = "run" /\ players[c].req = 4
  BY DEF CreateWork, EventItem, Runs, AtStep, StepOf
<1>3. progress = 3 /\ DOMAIN players[c].saw = {"ids", "seen"} /\ players[c].saw.ids = ids
  BY <1>2, RunFinds
<1>4. /\ works \in Seq(WorkItem) /\ DOMAIN ids = IdFields
      /\ ids.incident \in DOMAIN troubles /\ ids.incident \in Nat
  <2>1. ids.incident \in DOMAIN troubles
    <3>1. players[c].saw.ids.incident \in DOMAIN players[c].saw.seen.troubles
      BY <1>2 DEF CreateWork, Runs, Unavailable, RunIncident
    <3>2. players[c].saw.seen = Current(4)
      BY <1>2, RunFinds
    <3>3. QED
      BY <1>3, <3>1, <3>2 DEF Current
  <2>2. QED
    BY <2>1, TurnFinds DEF RecordsTyped, KnownIds
<1>5. works' = Append(works, NewWork(ids.incident))
  BY <1>3 DEF CreateWork, RunIncident
<1>6. NewWork(ids.incident) \in WorkItem
  <2>1. TRUE \in BOOLEAN /\ FALSE \in BOOLEAN
    OBVIOUS
  <2>2. QED
    BY <2>1, <1>4, Zenon DEF NewWork, WorkItem
<1>7. /\ works' \in Seq(WorkItem) /\ DOMAIN works' = DOMAIN works \cup {Len(works) + 1}
      /\ works'[Len(works) + 1] = NewWork(ids.incident) /\ Len(works) + 1 \in Nat
  BY <1>4, <1>5, <1>6
<1>8. RecordsTyped' /\ KnownIds(ids)'
  BY <1>2, <1>7, TurnFinds DEF RecordsTyped, KnownIds
<1>9. progress' \in 0 .. 9 /\ Earned(progress, ids)'
  BY <1>2, <1>3, <1>4 DEF Earned
<1>10. /\ players'[c].at = "analysis" /\ players'[c].req = 4
       /\ DOMAIN players'[c].saw = {"ids", "seen"}
       /\ players'[c].saw.ids = [ids EXCEPT !.task = Len(works) + 1]
  BY <1>2, <1>3, TurnFinds DEF CreateWork
<1>11. /\ DOMAIN players'[c].saw.ids = IdFields
       /\ players'[c].saw.ids.incident = ids.incident /\ players'[c].saw.ids.approval = ids.approval
       /\ players'[c].saw.ids.task = Len(works) + 1
  BY <1>4, <1>10 DEF IdFields
<1>12. KnownIds(players[c].saw.ids)' /\ players'[c].saw.ids.task \in DOMAIN works'
  BY <1>2, <1>7, <1>11, TurnFinds, SimulationAssumption DEF KnownIds
<1>13. works'[players'[c].saw.ids.task].from = ids.incident
  BY <1>7, <1>11 DEF NewWork
<1>14. players'[c].saw.seen.troubles[ids.incident].count \in Int
  <2>1. players'[c].saw.seen = Current(4)
    BY <1>2, <1>3, TurnFinds, RunFinds DEF CreateWork
  <2>2. Current(4).troubles = troubles
    BY DEF Current
  <2>3. troubles[ids.incident] \in TroubleItem
    BY <1>4, TurnFinds DEF RecordsTyped, KnownIds
  <2>4. QED
    BY <2>1, <2>2, <2>3 DEF TroubleItem
<1>15. StageFits(c)'
  BY <1>2, <1>3, <1>4, <1>10, <1>11, <1>12, <1>13, <1>14 DEF StageFits, Stages
<1>16. QED
  BY <1>1, <1>8, <1>9, <1>15, TurnKeeps

LEMMA Replacing ==
  ASSUME NEW S, NEW ts \in Seq(S), NEW i \in DOMAIN ts, NEW e \in S
  PROVE  /\ [ts EXCEPT ![i] = e] \in Seq(S) /\ DOMAIN [ts EXCEPT ![i] = e] = DOMAIN ts
         /\ [ts EXCEPT ![i] = e][i] = e
         /\ \A j \in DOMAIN ts \ {i} : [ts EXCEPT ![i] = e][j] = ts[j]
OBVIOUS

LEMMA ResolveLeaves ==
  ASSUME NEW ts \in Seq(TroubleItem), NEW i \in DOMAIN ts, NEW us,
         us = [ts EXCEPT ![i].status = "RESOLVED"]
  PROVE  /\ us \in Seq(TroubleItem) /\ DOMAIN us = DOMAIN ts
         /\ us[i].status = "RESOLVED" /\ us[i].count = ts[i].count /\ us[i].comments = ts[i].comments
         /\ \A j \in DOMAIN ts \ {i} : us[j] = ts[j]
<1>1. ts[i] \in TroubleItem
  OBVIOUS
<1>2. [ts[i] EXCEPT !.status = "RESOLVED"] \in TroubleItem
  BY <1>1 DEF TroubleItem
<1>3. us = [ts EXCEPT ![i] = [ts[i] EXCEPT !.status = "RESOLVED"]]
  OBVIOUS
<1>4. us \in Seq(TroubleItem) /\ DOMAIN us = DOMAIN ts
  BY <1>2, <1>3
<1>5. us[i].status = "RESOLVED" /\ us[i].count = ts[i].count /\ us[i].comments = ts[i].comments
  BY <1>1, <1>3 DEF TroubleItem
<1>6. \A j \in DOMAIN ts \ {i} : us[j] = ts[j]
  BY <1>3
<1>7. QED
  BY <1>4, <1>5, <1>6

LEMMA RecommendKeeps ==
  ASSUME EarnedInv, Steady, NEW c \in Calls, Recommend(c)
  PROVE  EarnedInv'
<1>1. SimStep(c)
  BY DEF SimStep, Advance
<1> DEFINE made == players[c].saw.ids
           n == CommentsKnown(players[c].saw)
<1>2. UNCHANGED <<progress, ids, inherited, works, requests>> /\ players[c].at = "recommend"
  BY DEF Recommend, EventItem
<1>3. StageFits(c)
  BY <1>2, TurnFinds DEF Resting
<1>4. /\ players[c].req = 4 /\ progress \in 0 .. 9 /\ players[c].req = progress + 1
      /\ DOMAIN players[c].saw = {"ids", "seen"} /\ KnownIds(made) /\ made.incident = ids.incident
      /\ made.task \in DOMAIN works /\ works[made.task].from = ids.incident
      /\ players[c].saw.seen.troubles[ids.incident].count \in Int
  BY <1>2, <1>3, TurnFinds DEF StageFits
<1>5. ids.incident \in DOMAIN troubles /\ progress = 3 /\ ids.incident # None /\ made.task # None
  <2>1. progress = 3 /\ ids.incident \in DOMAIN troubles
    BY <1>2, <1>3, <1>4 DEF StageFits
  <2>2. QED
    BY <1>4, <2>1, TurnFinds, SimulationAssumption DEF RecordsTyped
<1>6. n \in Int
  BY <1>4 DEF CommentsKnown, RunIncident
<1>7. troubles' = [troubles EXCEPT ![ids.incident].status = "RECOMMENDATION_READY", ![ids.incident].count = n]
  BY <1>4 DEF Recommend, RunIncident
<1>8. /\ players'[c].at = "save" /\ players'[c].req = 4
      /\ DOMAIN players'[c].saw = {"ids", "seen"} /\ players'[c].saw.ids = made
  BY <1>4, TurnFinds DEF Recommend, Keeps, Finishes
<1> HIDE DEF n, made
<1>9. /\ troubles' \in Seq(TroubleItem) /\ DOMAIN troubles' = DOMAIN troubles
      /\ troubles'[ids.incident].status = "RECOMMENDATION_READY"
  <2>1. troubles \in Seq(TroubleItem)
    BY TurnFinds DEF RecordsTyped
  <2>2. troubles[ids.incident] \in TroubleItem
    BY <1>5, <2>1
  <2> DEFINE e == [troubles[ids.incident] EXCEPT !.status = "RECOMMENDATION_READY", !.count = n]
  <2>3. e \in TroubleItem
    BY <1>6, <2>2 DEF TroubleItem
  <2>4. e.status = "RECOMMENDATION_READY"
    BY <2>2 DEF TroubleItem
  <2>5. troubles' = [troubles EXCEPT ![ids.incident] = e]
    BY <1>7
  <2> HIDE DEF e
  <2>6. QED
    BY <1>5, <2>1, <2>3, <2>4, <2>5, Replacing
<1>10. RecordsTyped' /\ KnownIds(ids)' /\ KnownIds(made)
  BY <1>2, <1>4, <1>9, TurnFinds DEF RecordsTyped, KnownIds
<1>11. progress' \in 0 .. 9 /\ Earned(progress, ids)'
  BY <1>2, <1>4, <1>5, <1>9 DEF Earned
<1>12. KnownIds(players[c].saw.ids)'
  BY <1>2, <1>4, <1>8, <1>9 DEF KnownIds
<1>13. SavedIds(ids, made).incident = ids.incident /\ SavedIds(ids, made).task = made.task
  BY <1>4, <1>5, TurnFinds, SavedFacts DEF IdFields
<1>14. SavedIds(ids, players[c].saw.ids)' = SavedIds(ids, made)
  BY <1>2, <1>8 DEF SavedIds
<1>15. Earned(players[c].req, SavedIds(ids, players[c].saw.ids))'
  BY <1>2, <1>4, <1>5, <1>8, <1>9, <1>13, <1>14 DEF Earned
<1>16. StageFits(c)'
  BY <1>2, <1>4, <1>8, <1>12, <1>15 DEF StageFits, Stages
<1>17. QED
  BY <1>1, <1>10, <1>11, <1>16, TurnKeeps

LEMMA ChooseKeeps ==
  ASSUME EarnedInv, Steady, NEW c \in Calls, ChooseCategory(c)
  PROVE  EarnedInv'
<1>1. SimStep(c)
  BY DEF SimStep, Advance
<1>2. /\ UNCHANGED <<progress, ids, inherited, awaiting, works, troubles, requests>>
      /\ players[c].at = "run" /\ players[c].req = 6
  BY DEF ChooseCategory, EventItem, Records, Runs, AtStep, StepOf
<1>3. RecordsTyped' /\ KnownIds(ids)' /\ progress' \in 0 .. 9 /\ Earned(progress, ids)'
  BY <1>2, TurnFinds DEF RecordsTyped, KnownIds, Earned
<1>4. progress = 5 /\ players[c].saw.ids = ids
  BY <1>2, RunFinds
<1>5. /\ players'[c].at = "request" /\ players'[c].req = 6
      /\ DOMAIN players'[c].saw = {"ids", "seen"} /\ players'[c].saw.ids = ids
  BY <1>2, <1>4, TurnFinds DEF ChooseCategory
<1>6. StageFits(c)'
  BY <1>2, <1>3, <1>4, <1>5 DEF StageFits, Stages
<1>7. QED
  BY <1>1, <1>3, <1>6, TurnKeeps

LEMMA RequestKeeps ==
  ASSUME EarnedInv, Steady, NEW c \in Calls, RequestHire(c)
  PROVE  EarnedInv'
<1>1. SimStep(c)
  BY DEF SimStep, Advance
<1>2. UNCHANGED <<progress, ids, inherited, works, troubles>> /\ players[c].at = "request"
  BY DEF RequestHire, EventItem
<1>3. /\ progress = 5 /\ players[c].req = 6
      /\ DOMAIN players[c].saw = {"ids", "seen"} /\ players[c].saw.ids = ids
  <2>1. StageFits(c) /\ progress \in 0 .. 9
    BY <1>2, TurnFinds DEF Resting
  <2>2. /\ players[c].req = 6 /\ players[c].req = progress + 1
        /\ DOMAIN players[c].saw = {"ids", "seen"} /\ players[c].saw.ids = ids
    BY <1>2, <2>1 DEF StageFits
  <2>3. QED
    BY <2>1, <2>2
<1> DEFINE made == [ids EXCEPT !.approval = Len(requests) + 1]
<1>4. requests \in Seq(ApprovalItem) /\ DOMAIN ids = IdFields /\ KnownIds(ids)
  BY TurnFinds DEF RecordsTyped, KnownIds
<1>5. PICK r \in ApprovalItem : requests' = Append(requests, r)
  BY <1>2 DEF RequestHire, ApprovalItem, EarnedInv, PlayerShape
<1>6. /\ requests' \in Seq(ApprovalItem) /\ DOMAIN requests' = DOMAIN requests \cup {Len(requests) + 1}
      /\ Len(requests) + 1 \in Nat
  BY <1>4, <1>5
<1>7. RecordsTyped' /\ KnownIds(ids)'
  BY <1>2, <1>6, TurnFinds DEF RecordsTyped, KnownIds
<1>8. progress' \in 0 .. 9 /\ Earned(progress, ids)'
  BY <1>2, <1>3, TurnFinds DEF Earned
<1>9. /\ players'[c].at = "save" /\ players'[c].req = 6
      /\ DOMAIN players'[c].saw = {"ids", "seen"} /\ players'[c].saw.ids = made
  BY <1>2, <1>3, TurnFinds DEF RequestHire, Finishes
<1>10. /\ DOMAIN made = IdFields /\ made.incident = ids.incident /\ made.task = ids.task
       /\ made.approval = Len(requests) + 1
  BY <1>4 DEF IdFields
<1> HIDE DEF made
<1>11. KnownIds(players[c].saw.ids)' /\ made.approval # None /\ made.approval \in DOMAIN requests'
  BY <1>2, <1>4, <1>6, <1>9, <1>10, SimulationAssumption DEF KnownIds
<1>12. /\ SavedIds(ids, made).incident = ids.incident /\ SavedIds(ids, made).task = ids.task
       /\ SavedIds(ids, made).approval = made.approval
  BY <1>4, <1>10, <1>11 DEF IdFields, SavedIds
<1>13. SavedIds(ids, players[c].saw.ids)' = SavedIds(ids, made)
  BY <1>2, <1>9 DEF SavedIds
<1>14. Earned(players[c].req, SavedIds(ids, players[c].saw.ids))'
  BY <1>2, <1>3, <1>9, <1>11, <1>12, <1>13, TurnFinds DEF Earned
<1>15. StageFits(c)'
  BY <1>2, <1>3, <1>9, <1>11, <1>14 DEF StageFits, Stages
<1>16. QED
  BY <1>1, <1>7, <1>8, <1>15, TurnKeeps

LEMMA CommitKeeps ==
  ASSUME EarnedInv, Steady, NEW c \in Calls, CommitHire(c)
  PROVE  EarnedInv'
<1>1. SimStep(c)
  BY DEF SimStep, Advance
<1>2. /\ UNCHANGED <<progress, ids, inherited, works, troubles, requests>> /\ players[c].at = "run" /\ players[c].req = 7
      /\ Decidable(players[c].saw)
  BY DEF CommitHire, EventItem, Runs, AtStep, StepOf, Unavailable
<1>3. /\ progress = 6 /\ DOMAIN players[c].saw = {"ids", "seen"} /\ players[c].saw.ids = ids
      /\ players[c].saw.seen = Current(7)
  BY <1>2, RunFinds
<1>4. RecordsTyped' /\ KnownIds(ids)' /\ progress' \in 0 .. 9 /\ Earned(progress, ids)'
  BY <1>2, TurnFinds DEF RecordsTyped, KnownIds, Earned
<1>5. ids.approval \in DOMAIN requests /\ requests[ids.approval].status = "PENDING"
  <2>1. Current(7).requests = requests
    BY DEF Current
  <2>2. QED
    BY <1>2, <1>3, <2>1 DEF Decidable
<1>6. CASE players' = GoneTo(players, c, "decide")
  <2>1. players'[c].at = "decide" /\ players'[c].req = 7 /\ players'[c].saw = players[c].saw
    BY <1>2, <1>6, TurnFinds DEF GoneTo
  <2>2. StageFits(c)'
    BY <1>2, <1>3, <1>4, <1>5, <2>1 DEF StageFits, Stages
  <2>3. QED
    BY <1>1, <1>4, <2>2, TurnKeeps
<1>7. CASE Rests(c)
  <2>1. ~Active(players, c)'
    BY <1>7, TurnFinds DEF Rests, Invocation, Active, Resting
  <2>2. QED
    BY <1>1, <1>4, <2>1, TurnKeeps
<1>8. QED
  BY <1>6, <1>7 DEF CommitHire, Writing

LEMMA DecideKeeps ==
  ASSUME EarnedInv, Steady, NEW c \in Calls, DecideHire(c)
  PROVE  EarnedInv'
<1>1. SimStep(c)
  BY DEF SimStep, Advance
<1>2. UNCHANGED <<progress, ids, inherited, works, troubles>> /\ players[c].at = "decide"
  BY DEF DecideHire, EventItem
<1>3. StageFits(c)
  BY <1>2, TurnFinds DEF Resting
<1>4. /\ players[c].req = 7 /\ progress \in 0 .. 9 /\ players[c].req = progress + 1
      /\ DOMAIN players[c].saw = {"ids", "seen"} /\ players[c].saw.ids = ids
      /\ ids.approval \in DOMAIN requests
  BY <1>2, <1>3, TurnFinds DEF StageFits
<1>5. progress = 6 /\ KnownIds(ids) /\ ids.approval \in DOMAIN requests /\ requests \in Seq(ApprovalItem)
  BY <1>4, TurnFinds DEF KnownIds, RecordsTyped
<1>6. requests' = [requests EXCEPT ![ids.approval].status = "APPROVED"]
  BY <1>4 DEF DecideHire
<1> DEFINE e == [requests[ids.approval] EXCEPT !.status = "APPROVED"]
<1>7. e \in ApprovalItem /\ e.status = "APPROVED" /\ requests' = [requests EXCEPT ![ids.approval] = e]
  <2>1. requests[ids.approval] \in ApprovalItem
    BY <1>5
  <2>2. e \in ApprovalItem /\ e.status = "APPROVED"
    BY <2>1 DEF ApprovalItem
  <2>3. QED
    BY <1>6, <2>2
<1> HIDE DEF e
<1>8. /\ requests' \in Seq(ApprovalItem) /\ DOMAIN requests' = DOMAIN requests
      /\ requests'[ids.approval].status = "APPROVED"
  BY <1>5, <1>7, Replacing
<1>9. RecordsTyped' /\ KnownIds(ids)'
  BY <1>2, <1>8, TurnFinds DEF RecordsTyped, KnownIds
<1>10. progress' \in 0 .. 9 /\ Earned(progress, ids)'
  BY <1>2, <1>5, <1>8, TurnFinds DEF Earned
<1>11. /\ players'[c].at = "save" /\ players'[c].req = 7
       /\ DOMAIN players'[c].saw = {"ids", "seen"} /\ players'[c].saw.ids = ids
  BY <1>4, TurnFinds DEF DecideHire, Keeps, Finishes
<1>12. SavedIds(ids, players[c].saw.ids)' = SavedIds(ids, ids)
  BY <1>2, <1>11 DEF SavedIds
<1>13. Earned(players[c].req, SavedIds(ids, players[c].saw.ids))'
  BY <1>2, <1>5, <1>8, <1>11, <1>12, TurnFinds, SavedAgain DEF Earned
<1>14. StageFits(c)'
  BY <1>2, <1>5, <1>9, <1>11, <1>13 DEF StageFits, Stages
<1>15. QED
  BY <1>1, <1>9, <1>10, <1>14, TurnKeeps

LEMMA CompleteKeeps ==
  ASSUME EarnedInv, Steady, NEW c \in Calls, CompleteWork(c)
  PROVE  EarnedInv'
<1>1. SimStep(c)
  BY DEF SimStep, Advance
<1>2. /\ UNCHANGED <<progress, ids, inherited, troubles, requests>> /\ players[c].at = "run" /\ players[c].req = 8
      /\ players' = GoneTo(players, c, "resolve")
  BY DEF CompleteWork, EventItem, Runs, AtStep, StepOf, Writing
<1>3. /\ progress = 7 /\ DOMAIN players[c].saw = {"ids", "seen"} /\ players[c].saw.ids = ids
      /\ players[c].saw.seen = Current(8)
  BY <1>2, RunFinds
<1>4. /\ works \in Seq(WorkItem) /\ KnownIds(ids) /\ None \notin DOMAIN works
      /\ ~inherited => ids.task \in DOMAIN works /\ works[ids.task].from = ids.incident
  BY <1>3, TurnFinds, SimulationAssumption DEF RecordsTyped, Earned
<1>5. /\ RunTask(players[c].saw) \subseteq DOMAIN works /\ ids.incident \in DOMAIN troubles
      /\ ~inherited => RunTask(players[c].saw) = {i \in DOMAIN works : works[i].open /\ i = ids.task}
  <2>1. Current(8).works = works /\ Current(8).troubles = troubles
    BY DEF Current
  <2>2. ids.incident \in DOMAIN troubles
    BY <1>2, <1>3, <2>1 DEF CompleteWork, Runs, Unavailable, RunIncident
  <2>3. QED
    BY <1>3, <1>4, <2>1, <2>2 DEF RunTask
<1>6. works' \in Seq(WorkItem) /\ DOMAIN works' = DOMAIN works
  <2>1. ASSUME NEW i \in RunTask(players[c].saw), works' = [works EXCEPT ![i].open = FALSE]
        PROVE  works' \in Seq(WorkItem) /\ DOMAIN works' = DOMAIN works
    <3>1. i \in DOMAIN works
      BY <1>5, <2>1
    <3> DEFINE e == [works[i] EXCEPT !.open = FALSE]
    <3>2. e \in WorkItem
      BY <1>4, <3>1, WorkChanges
    <3>3. works' = [works EXCEPT ![i] = e]
      BY <2>1
    <3> HIDE DEF e
    <3>4. QED
      BY <1>4, <3>1, <3>2, <3>3, Replacing
  <2>2. QED
    BY <1>4, <2>1 DEF CompleteWork
<1>7. ASSUME ~inherited
      PROVE  works'[ids.task].open = FALSE /\ works'[ids.task].from = ids.incident
  <2>1. CASE RunTask(players[c].saw) = {}
    <3>1. works' = works
      BY <2>1 DEF CompleteWork
    <3>2. works[ids.task].open = FALSE
      <4>1. ~works[ids.task].open
        BY <1>4, <1>5, <1>7, <2>1
      <4>2. works[ids.task] \in WorkItem
        BY <1>4, <1>7
      <4>3. works[ids.task].open \in BOOLEAN
        BY <4>2, Zenon DEF WorkItem
      <4>4. QED
        BY <4>1, <4>3
    <3>3. QED
      BY <1>4, <1>7, <3>1, <3>2
  <2>2. CASE RunTask(players[c].saw) # {}
    <3>1. works' = [works EXCEPT ![ids.task].open = FALSE]
      BY <1>5, <1>7, <2>2 DEF CompleteWork
    <3> DEFINE e == [works[ids.task] EXCEPT !.open = FALSE]
    <3>2. e \in WorkItem
      BY <1>4, <1>7, WorkChanges
    <3>3. e.open = FALSE /\ e.from = ids.incident
      <4>1. works[ids.task] \in WorkItem
        BY <1>4, <1>7
      <4>2. DOMAIN works[ids.task] = {"open", "late", "from"}
        BY <4>1, Zenon DEF WorkItem
      <4>3. QED
        BY <1>4, <1>7, <4>2
    <3>4. works' = [works EXCEPT ![ids.task] = e]
      BY <3>1
    <3> HIDE DEF e
    <3>5. QED
      BY <1>4, <1>7, <3>2, <3>3, <3>4, Replacing
  <2>3. QED
    BY <2>1, <2>2
<1>8. RecordsTyped' /\ KnownIds(ids)'
  BY <1>2, <1>6, TurnFinds DEF RecordsTyped, KnownIds
<1>9. progress' \in 0 .. 9 /\ Earned(progress, ids)'
  BY <1>2, <1>3, <1>6, <1>7, TurnFinds DEF Earned
<1>10. players'[c].at = "resolve" /\ players'[c].req = 8 /\ players'[c].saw = players[c].saw
  BY <1>2, TurnFinds DEF GoneTo
<1>11. StageFits(c)'
  <2>1. ~inherited => works'[ids.task].open = FALSE
    BY <1>7
  <2>2. KnownIds(players[c].saw.ids)' /\ UNCHANGED <<progress, inherited, ids, troubles>>
    BY <1>2, <1>3, <1>8, <1>10 DEF KnownIds
  <2>3. QED
    BY <1>3, <1>5, <1>10, <2>1, <2>2 DEF StageFits, Stages
<1>12. QED
  BY <1>1, <1>8, <1>9, <1>11, TurnKeeps

LEMMA ResolveKeeps ==
  ASSUME EarnedInv, Steady, NEW c \in Calls, ResolveTrouble(c)
  PROVE  EarnedInv'
<1>1. SimStep(c)
  BY DEF SimStep, Advance
<1>2. UNCHANGED <<progress, ids, inherited, works, requests>> /\ players[c].at = "resolve"
  BY DEF ResolveTrouble, EventItem
<1>3. StageFits(c)
  BY <1>2, TurnFinds DEF Resting
<1>4. /\ players[c].req = 8 /\ progress \in 0 .. 9 /\ players[c].req = progress + 1
      /\ DOMAIN players[c].saw = {"ids", "seen"} /\ players[c].saw.ids = ids
      /\ ids.incident \in DOMAIN troubles /\ (~inherited => works[ids.task].open = FALSE)
  BY <1>2, <1>3, TurnFinds DEF StageFits
<1>5. progress = 7 /\ KnownIds(ids) /\ ids.incident \in DOMAIN troubles
  BY <1>4, TurnFinds
<1>6. troubles' = [troubles EXCEPT ![ids.incident].status = "RESOLVED"] /\ troubles \in Seq(TroubleItem)
  BY <1>4, TurnFinds DEF ResolveTrouble, RunIncident, RecordsTyped
<1>7. /\ troubles' \in Seq(TroubleItem) /\ DOMAIN troubles' = DOMAIN troubles
      /\ troubles'[ids.incident].status = "RESOLVED"
  BY <1>5, <1>6, ResolveLeaves
<1>8. RecordsTyped' /\ KnownIds(ids)'
  BY <1>2, <1>7, TurnFinds DEF RecordsTyped, KnownIds
<1>9. progress' \in 0 .. 9 /\ Earned(progress, ids)'
  BY <1>2, <1>5, <1>7, TurnFinds DEF Earned
<1>10. /\ players'[c].at = "save" /\ players'[c].req = 8
       /\ DOMAIN players'[c].saw = {"ids", "seen"} /\ players'[c].saw.ids = ids
  BY <1>4, TurnFinds DEF ResolveTrouble, Keeps, Finishes
<1>11. SavedIds(ids, players[c].saw.ids)' = SavedIds(ids, ids)
  BY <1>2, <1>10 DEF SavedIds
<1>12. Earned(players[c].req, SavedIds(ids, players[c].saw.ids))'
  BY <1>2, <1>4, <1>5, <1>7, <1>10, <1>11, TurnFinds, SavedAgain DEF Earned
<1>13. StageFits(c)'
  BY <1>2, <1>5, <1>8, <1>10, <1>12 DEF StageFits, Stages
<1>14. QED
  BY <1>1, <1>8, <1>9, <1>13, TurnKeeps

LEMMA SaveKeeps ==
  ASSUME EarnedInv, Steady, NEW c \in Calls, SaveProgress(c)
  PROVE  EarnedInv'
<1>1. SimStep(c)
  BY DEF SimStep, Advance
<1>2. /\ UNCHANGED <<inherited, works, troubles, requests>> /\ players[c].at = "save"
      /\ progress' = players[c].req /\ ids' = SavedIds(ids, players[c].saw.ids)
  BY DEF SaveProgress, Records, StepOf
<1>3. StageFits(c)
  BY <1>2, TurnFinds DEF Resting
<1>4. /\ players[c].req \in 1 .. 9 /\ KnownIds(players[c].saw.ids)
      /\ Earned(players[c].req, SavedIds(ids, players[c].saw.ids))
  BY <1>2, <1>3 DEF StageFits
<1>5. KnownIds(SavedIds(ids, players[c].saw.ids))
  BY <1>4, TurnFinds, SavedFacts
<1>6. RecordsTyped' /\ KnownIds(ids)'
  BY <1>2, <1>5, TurnFinds DEF RecordsTyped, KnownIds
<1> DEFINE made == SavedIds(ids, players[c].saw.ids)
<1>7. progress' \in 0 .. 9 /\ Earned(progress, ids)'
  <2>1. ids' = made /\ progress' = players[c].req /\ Earned(players[c].req, made)
    BY <1>2, <1>4
  <2> HIDE DEF made
  <2>2. QED
    BY <1>2, <1>4, <2>1 DEF Earned
<1>8. ~Active(players, c)'
  BY TurnFinds DEF SaveProgress, Rests, Invocation, Active, Resting
<1>9. QED
  BY <1>1, <1>6, <1>7, <1>8, TurnKeeps

LEMMA EarnedInit == SimulationInit => EarnedInv
<1> SUFFICES ASSUME SimulationInit PROVE EarnedInv
  OBVIOUS
<1>1. PlayerShape /\ \A c \in Calls : players[c].at = "idle"
  BY DEF SimulationInit, PlayerShape, AllIdle, Invocation
<1>2. troubles = <<>> /\ requests = <<>> /\ works = <<NewWork(None), NewWork(None)>>
  BY DEF SimulationInit
<1>3. NewWork(None) \in WorkItem
  <2>1. TRUE \in BOOLEAN /\ FALSE \in BOOLEAN /\ None \in Nat \cup {None}
    OBVIOUS
  <2>2. QED
    BY <2>1, Zenon DEF NewWork, WorkItem
<1>4. RecordsTyped
  BY <1>2, <1>3 DEF RecordsTyped
<1>5. KnownIds(ids) /\ progress \in 0 .. 9 /\ Earned(progress, ids)
  <2>1. progress \in 0 .. 9 /\ (ids = NoIds \/ \E reached \in 0 .. 9 : ids = CopiedIds(reached))
    BY DEF SimulationInit, TotalSteps
  <2>2. ~inherited => progress = 0
    <3>1. inherited = (progress > 0)
      BY DEF SimulationInit
    <3>2. progress > 0 => inherited
      BY <3>1
    <3>3. QED
      BY <2>1, <3>2
  <2>3. KnownIds(ids)
    BY <2>1 DEF KnownIds, NoIds, CopiedIds, IdFields
  <2>4. QED
    BY <2>1, <2>2, <2>3 DEF Earned
<1>6. \A c \in Calls : ~Active(players, c)
  BY <1>1 DEF Active, Resting
<1>7. QED
  BY <1>1, <1>4, <1>5, <1>6 DEF EarnedInv, InTurnInv, AlonePlaying

LEMMA EarnedStep ==
  ASSUME EarnedInv, [SimulationNext]_simVars PROVE EarnedInv'
<1>1. CASE UNCHANGED simVars
  <2>1. UNCHANGED <<progress, ids, inherited, awaiting, works, troubles, requests, players, regime>>
    BY <1>1 DEF simVars
  <2>2. PlayerShape' /\ (AlonePlaying => AlonePlaying') /\ (Steady' <=> Steady)
    BY <2>1 DEF EarnedInv, PlayerShape, AlonePlaying, Active, Steady, Lags
  <2>3. (RecordsTyped => RecordsTyped') /\ (KnownIds(ids) => KnownIds(ids)')
    BY <2>1 DEF RecordsTyped, KnownIds
  <2>4. Earned(progress, ids) => Earned(progress, ids)'
    BY <2>1 DEF Earned
  <2>5. \A c \in Calls : StageFits(c) => StageFits(c)'
    <3> TAKE c \in Calls
    <3>1. KnownIds(players[c].saw.ids) => KnownIds(players[c].saw.ids)'
      BY <2>1 DEF KnownIds
    <3>2. Current(players[c].req)' = Current(players[c].req)
      BY <2>1 DEF Current
    <3>3. Earned(players[c].req, SavedIds(ids, players[c].saw.ids)) =>
            Earned(players[c].req, SavedIds(ids, players[c].saw.ids))'
      BY <2>1 DEF Earned, SavedIds
    <3>4. QED
      BY <2>1, <3>1, <3>2, <3>3 DEF StageFits
  <2>6. \A c \in Calls : Active(players, c)' = Active(players, c)
    BY <2>1 DEF Active
  <2>7. QED
    BY <2>1, <2>2, <2>3, <2>4, <2>5, <2>6 DEF EarnedInv, InTurnInv
<1>2. CASE SimulationNext
  <2>1. PICK c \in Calls : Advance(c) \/ PlayerDies(c)
    BY <1>2 DEF SimulationNext
  <2>2. CASE Steady
    BY <2>1, <2>2, RestKeeps, ResetKeeps, BeginKeeps, SnapshotKeeps, RecalculateKeeps, RespondKeeps,
       OverdueKeeps, ReportKeeps, CommentKeeps, CreateKeeps, RecommendKeeps, ChooseKeeps, RequestKeeps,
       CommitKeeps, DecideKeeps, CompleteKeeps, ResolveKeeps, SaveKeeps DEF Advance
  <2>3. CASE ~Steady
    <3>1. PlayerTurn(c)
      BY <2>1, SimStepTurns DEF EarnedInv, SimStep
    <3>2. QED
      BY <2>3, <3>1 DEF PlayerTurn, EarnedInv, PlayerShape
  <2>4. QED
    BY <2>2, <2>3
<1>3. QED
  BY <1>1, <1>2

---------------------------------------------------------------------------
(* The count of the comments.  While invocations neither overlap nor die,   *)
(* one incident at most is between its comment and its count, and what the  *)
(* request at it knows of the count is still so.                            *)
CountFits(c) ==
  LET p == players[c]
      i == p.saw.ids.incident
  IN /\ p.at = "first_comment" => troubles[i].count = troubles[i].comments + 1
     /\ p.at = "analysis" => troubles[i].count = troubles[i].comments
     /\ p.at = "recommend" => troubles[i].count + 1 = troubles[i].comments
     /\ p.at \in {"analysis", "recommend"} => p.saw.seen.troubles[i].count = troubles[i].count

Tallying(c, i) == players[c].at \in {"first_comment", "recommend"} /\ players[c].saw.ids.incident = i

CountsAgree(c) ==
  \A i \in DOMAIN troubles : troubles[i].count = troubles[i].comments \/ Tallying(c, i)

TallyInv ==
  (Steady /\ ~regime.failures) =>
    /\ \A c \in Calls : CountFits(c)
    /\ \A i \in DOMAIN troubles :
         troubles[i].count = troubles[i].comments \/ \E c \in Calls : Tallying(c, i)

Undisturbed == EarnedInv /\ TallyInv /\ Steady /\ ~regime.failures

LEMMA CountFinds ==
  ASSUME Undisturbed, NEW c \in Calls, SimStep(c)
  PROVE  CountFits(c) /\ CountsAgree(c)
<1>1. \A d \in Calls \ {c} : ~Active(players, d)
  BY PlayersTakeTurns DEF Undisturbed
<1>2. \A d \in Calls \ {c}, i \in DOMAIN troubles : ~Tallying(d, i)
  BY <1>1 DEF Active, Resting, Tallying
<1>3. QED
  BY <1>2 DEF Undisturbed, TallyInv, CountsAgree

LEMMA CountKeeps ==
  ASSUME Undisturbed, NEW c \in Calls, SimStep(c), CountFits(c)', CountsAgree(c)'
  PROVE  TallyInv'
<1>1. \A d \in Calls \ {c} : ~Active(players, d)'
  BY PlayersTakeTurns DEF Undisturbed
<1>2. \A d \in Calls \ {c} : players'[d].at \notin {"first_comment", "analysis", "recommend"}
  BY <1>1 DEF Active, Resting
<1>3. \A d \in Calls \ {c} : CountFits(d)'
  BY <1>2 DEF CountFits
<1>4. QED
  BY <1>3 DEF TallyInv, CountsAgree

(* Steps away from the comments. *)
LEMMA QuietCount ==
  ASSUME Undisturbed, NEW c \in Calls, SimStep(c),
         players[c].at \notin {"first_comment", "analysis", "recommend"},
         players'[c].at \notin {"first_comment", "analysis", "recommend"},
         DOMAIN troubles' = DOMAIN troubles,
         \A i \in DOMAIN troubles :
           troubles'[i].count = troubles[i].count /\ troubles'[i].comments = troubles[i].comments
  PROVE  TallyInv'
<1>1. CountsAgree(c)
  BY CountFinds
<1>2. CountsAgree(c)'
  BY <1>1 DEF CountsAgree, Tallying
<1>3. CountFits(c)'
  BY DEF CountFits
<1>4. QED
  BY <1>2, <1>3, CountKeeps

LEMMA ReportCounts ==
  ASSUME Undisturbed, NEW c \in Calls, ReportTrouble(c)
  PROVE  TallyInv'
<1>1. SimStep(c)
  BY DEF SimStep, Advance
<1>2. players[c].at = "run" /\ CountsAgree(c)
  BY <1>1, CountFinds DEF ReportTrouble, Runs, AtStep
<1>3. DOMAIN players[c].saw = {"ids", "seen"} /\ players[c].saw.ids = ids /\ DOMAIN ids = IdFields
  BY <1>2, TurnFinds, RunFinds DEF Undisturbed, KnownIds
<1>4. players'[c].at = "first_comment" /\ players'[c].saw.ids.incident = Len(troubles) + 1
  BY <1>3, TurnFinds DEF ReportTrouble, Undisturbed, IdFields
<1>5. troubles \in Seq(TroubleItem)
  BY TurnFinds DEF RecordsTyped, Undisturbed
<1>6. /\ DOMAIN troubles' = DOMAIN troubles \cup {Len(troubles) + 1}
      /\ \A i \in DOMAIN troubles : troubles'[i] = troubles[i]
      /\ troubles'[Len(troubles) + 1] = [status |-> "REPORTED", count |-> 1, comments |-> 0]
  BY <1>5 DEF ReportTrouble
<1>7. CountFits(c)'
  BY <1>4, <1>6 DEF CountFits
<1>8. CountsAgree(c)'
  BY <1>2, <1>4, <1>6 DEF CountsAgree, Tallying
<1>9. QED
  BY <1>1, <1>7, <1>8, CountKeeps

LEMMA CreateCounts ==
  ASSUME Undisturbed, NEW c \in Calls, CreateWork(c)
  PROVE  TallyInv'
<1>1. SimStep(c)
  BY DEF SimStep, Advance
<1>2. players[c].at = "run" /\ players[c].req = 4 /\ CountsAgree(c) /\ troubles' = troubles
  BY <1>1, CountFinds DEF CreateWork, Runs, AtStep, StepOf
<1>3. /\ DOMAIN players[c].saw = {"ids", "seen"} /\ players[c].saw.ids = ids /\ DOMAIN ids = IdFields
      /\ players[c].saw.seen = Current(4) /\ progress = 3
  BY <1>2, TurnFinds, RunFinds DEF Undisturbed, KnownIds
<1>4. ids.incident \in DOMAIN troubles
  BY <1>2, <1>3 DEF CreateWork, Runs, Unavailable, RunIncident, Current
<1>5. /\ players'[c].at = "analysis" /\ players'[c].saw.ids.incident = ids.incident
      /\ players'[c].saw.seen = Current(4)
  BY <1>3, TurnFinds DEF CreateWork, Undisturbed, IdFields
<1>6. Current(4).troubles = troubles
  BY DEF Current
<1>7. \A i \in DOMAIN troubles : troubles[i].count = troubles[i].comments
  BY <1>2 DEF CountsAgree, Tallying
<1>8. CountFits(c)' /\ CountsAgree(c)'
  BY <1>2, <1>4, <1>5, <1>6, <1>7 DEF CountFits, CountsAgree
<1>9. QED
  BY <1>1, <1>8, CountKeeps

LEMMA CommentCounts ==
  ASSUME Undisturbed, NEW c \in Calls, CommentOnTrouble(c)
  PROVE  TallyInv'
<1>1. SimStep(c)
  BY DEF SimStep, Advance
<1> DEFINE i == players[c].saw.ids.incident
<1>2. /\ players[c].at \in {"first_comment", "analysis"} /\ CountsAgree(c) /\ CountFits(c)
      /\ troubles' = [troubles EXCEPT ![i].comments = @ + 1]
  BY <1>1, CountFinds DEF CommentOnTrouble, RunIncident
<1>3. StageFits(c) /\ troubles \in Seq(TroubleItem)
  BY <1>2, TurnFinds DEF Undisturbed, Resting, RecordsTyped
<1>4. /\ DOMAIN players[c].saw = {"ids", "seen"} /\ KnownIds(players[c].saw.ids)
      /\ players[c].at = "analysis" => players[c].req = 4 /\ i = ids.incident
      /\ progress \in 0 .. 9 /\ players[c].req = progress + 1
  BY <1>3, TurnFinds DEF StageFits, Undisturbed
<1>5. i \in DOMAIN troubles
  BY <1>2, <1>3 DEF StageFits
<1>6. /\ DOMAIN troubles' = DOMAIN troubles
      /\ \A j \in DOMAIN troubles : troubles'[j].count = troubles[j].count
      /\ troubles'[i].comments = troubles[i].comments + 1
      /\ \A j \in DOMAIN troubles \ {i} : troubles'[j] = troubles[j]
  <2> HIDE DEF i
  <2>1. QED
    BY <1>2, <1>3, <1>5, CommentLeaves
<1>7. troubles[i].comments \in Int /\ troubles[i].count \in Int
  <2>1. troubles[i] \in TroubleItem
    BY <1>3, <1>5
  <2>2. QED
    BY <2>1 DEF TroubleItem
<1>8. CASE players[c].at = "first_comment"
  <2>1. players'[c].at = "save"
    BY <1>8, TurnFinds DEF CommentOnTrouble, Keeps, Finishes, Undisturbed
  <2>2. troubles[i].count = troubles[i].comments + 1
    BY <1>2, <1>8 DEF CountFits
  <2>3. \A j \in DOMAIN troubles \ {i} : troubles[j].count = troubles[j].comments
    BY <1>2 DEF CountsAgree, Tallying
  <2> HIDE DEF i
  <2>4. CountFits(c)' /\ CountsAgree(c)'
    BY <1>5, <1>6, <1>7, <2>1, <2>2, <2>3 DEF CountFits, CountsAgree
  <2>5. QED
    BY <1>1, <2>4, CountKeeps
<1>9. CASE players[c].at = "analysis"
  <2>1. players'[c].at = "recommend" /\ players'[c].saw = players[c].saw
    BY <1>9, TurnFinds DEF CommentOnTrouble, Writing, GoneTo, Undisturbed
  <2>2. troubles[i].count = troubles[i].comments /\ players[c].saw.seen.troubles[i].count = troubles[i].count
    BY <1>2, <1>9 DEF CountFits
  <2>3. \A j \in DOMAIN troubles \ {i} : troubles[j].count = troubles[j].comments
    BY <1>2 DEF CountsAgree, Tallying
  <2>4. CountFits(c)'
    BY <1>5, <1>6, <1>7, <2>1, <2>2 DEF CountFits
  <2>5. CountsAgree(c)'
    BY <1>6, <2>1, <2>3 DEF CountsAgree, Tallying
  <2>6. QED
    BY <1>1, <2>4, <2>5, CountKeeps
<1>10. QED
  BY <1>2, <1>8, <1>9

LEMMA RecommendCounts ==
  ASSUME Undisturbed, NEW c \in Calls, Recommend(c)
  PROVE  TallyInv'
<1>1. SimStep(c)
  BY DEF SimStep, Advance
<1> DEFINE i == players[c].saw.ids.incident
           n == players[c].saw.seen.troubles[i].count + 1
<1>2. /\ players[c].at = "recommend" /\ CountsAgree(c) /\ CountFits(c)
      /\ troubles' = [troubles EXCEPT ![i].status = "RECOMMENDATION_READY", ![i].count = n]
  BY <1>1, CountFinds DEF Recommend, RunIncident, CommentsKnown
<1>3. StageFits(c) /\ troubles \in Seq(TroubleItem)
  BY <1>2, TurnFinds DEF Undisturbed, Resting, RecordsTyped
<1>4. /\ KnownIds(players[c].saw.ids) /\ players[c].req = 4 /\ i = ids.incident
      /\ progress \in 0 .. 9 /\ players[c].req = progress + 1
  BY <1>2, <1>3, TurnFinds DEF StageFits, Undisturbed
<1>5. i \in DOMAIN troubles
  BY <1>2, <1>3 DEF StageFits
<1>6. troubles[i] \in TroubleItem
  BY <1>3, <1>5
<1>7. n = troubles[i].comments
  BY <1>2 DEF CountFits
<1>8. players'[c].at = "save"
  BY TurnFinds DEF Recommend, Keeps, Finishes, Undisturbed
<1>9. \A j \in DOMAIN troubles \ {i} : troubles[j].count = troubles[j].comments
  BY <1>2 DEF CountsAgree, Tallying
<1> HIDE DEF n, i
<1>10. /\ DOMAIN troubles' = DOMAIN troubles
       /\ \A j \in DOMAIN troubles \ {i} : troubles'[j] = troubles[j]
       /\ troubles'[i].count = n /\ troubles'[i].comments = troubles[i].comments
  BY <1>2, <1>5, <1>6 DEF TroubleItem
<1>11. CountFits(c)' /\ CountsAgree(c)'
  BY <1>7, <1>8, <1>9, <1>10 DEF CountFits, CountsAgree
<1>12. QED
  BY <1>1, <1>11, CountKeeps

LEMMA ResolveCounts ==
  ASSUME Undisturbed, NEW c \in Calls, ResolveTrouble(c)
  PROVE  TallyInv'
<1>1. SimStep(c)
  BY DEF SimStep, Advance
<1>2. players[c].at = "resolve"
  BY DEF ResolveTrouble
<1>3. players'[c].at = "save"
  BY TurnFinds DEF ResolveTrouble, Keeps, Finishes, Undisturbed
<1>4. troubles \in Seq(TroubleItem)
  BY TurnFinds DEF Undisturbed, RecordsTyped
<1> DEFINE i == RunIncident(players[c].saw)
<1>5. troubles' = [troubles EXCEPT ![i].status = "RESOLVED"]
  BY DEF ResolveTrouble
<1> HIDE DEF i
<1>6. /\ DOMAIN troubles' = DOMAIN troubles
      /\ \A j \in DOMAIN troubles :
           troubles'[j].count = troubles[j].count /\ troubles'[j].comments = troubles[j].comments
  <2>1. CASE i \in DOMAIN troubles
    BY <1>4, <1>5, <2>1, ResolveLeaves
  <2>2. CASE i \notin DOMAIN troubles
    BY <1>5, <2>2
  <2>3. QED
    BY <2>1, <2>2
<1>7. QED
  BY <1>1, <1>2, <1>3, <1>6, QuietCount

LEMMA TallyStep ==
  ASSUME EarnedInv, TallyInv, [SimulationNext]_simVars PROVE TallyInv'
<1>1. CASE UNCHANGED simVars
  BY <1>1 DEF simVars, TallyInv, CountFits, Tallying, Steady, Lags
<1>2. CASE SimulationNext
  <2>1. PICK c \in Calls : Advance(c) \/ PlayerDies(c)
    BY <1>2 DEF SimulationNext
  <2>2. PlayerTurn(c) /\ SimStep(c)
    BY <2>1, SimStepTurns DEF EarnedInv, SimStep
  <2>3. CASE ~Steady \/ regime.failures
    BY <2>2, <2>3 DEF PlayerTurn, TallyInv
  <2>4. CASE Steady /\ ~regime.failures
    <3> USE <2>2, <2>4
    <3>1. Undisturbed /\ DOMAIN players = Calls /\ DOMAIN players[c] = {"at", "req", "saw"}
      BY <2>4, TurnFinds DEF Undisturbed
    <3>2. CASE Reset(c) \/ BeginStep(c)
      <4>1. players[c].at = "idle" /\ players'[c].at \in {"idle", "snapshot"} /\ troubles' = troubles
        BY <3>1, <3>2 DEF Reset, BeginStep, MayBegin, Records, Invocation
      <4>2. QED
        BY <3>1, <4>1, QuietCount
    <3>3. CASE TakeSnapshot(c) \/ RefuseStep(c) \/ SaveProgress(c)
      <4>1. /\ players[c].at \in {"snapshot", "run", "save"} /\ players'[c].at \in {"run", "idle"}
            /\ troubles' = troubles
        BY <3>1, <3>3 DEF TakeSnapshot, RefuseStep, SaveProgress, Rests, Records, Invocation
      <4>2. QED
        BY <3>1, <4>1, QuietCount
    <3>4. CASE SpeakerResponds(c) \/ TaskOverdue(c) \/ Recalculate(c) \/ ChooseCategory(c)
               \/ RequestHire(c) \/ DecideHire(c)
      <4>1. /\ players[c].at \in {"run", "request", "decide"} /\ players'[c].at \in {"request", "save"}
            /\ troubles' = troubles
        BY <3>1, <3>4 DEF SpeakerResponds, TaskOverdue, Recalculate, ChooseCategory, RequestHire,
           DecideHire, Runs, AtStep, Keeps, Finishes, Records
      <4>2. QED
        BY <3>1, <4>1, QuietCount
    <3>5. CASE CommitHire(c) \/ CompleteWork(c)
      <4>1. players[c].at = "run" /\ troubles' = troubles
        <5>1. CommitHire(c) => players[c].at = "run" /\ troubles' = troubles
          BY DEF CommitHire, Runs, AtStep
        <5>2. CompleteWork(c) => players[c].at = "run" /\ troubles' = troubles
          BY DEF CompleteWork, Runs, AtStep
        <5>3. QED
          BY <3>5, <5>1, <5>2
      <4>2. \/ players' = GoneTo(players, c, "decide") \/ players' = GoneTo(players, c, "resolve")
            \/ Rests(c)
        <5>1. CommitHire(c) => players' = GoneTo(players, c, "decide") \/ Rests(c)
          BY DEF CommitHire, Writing
        <5>2. CompleteWork(c) => players' = GoneTo(players, c, "resolve")
          BY DEF CompleteWork, Writing
        <5>3. QED
          BY <3>5, <5>1, <5>2
      <4>3. players'[c].at \in {"decide", "resolve", "idle"}
        BY <3>1, <4>2 DEF GoneTo, Rests, Invocation
      <4>4. QED
        BY <3>1, <4>1, <4>3, QuietCount
    <3>6. ~PlayerDies(c)
      BY <2>4 DEF PlayerDies
    <3>7. QED
      BY <2>1, <3>1, <3>2, <3>3, <3>4, <3>5, <3>6, ReportCounts, CreateCounts, CommentCounts,
         RecommendCounts, ResolveCounts DEF Advance
  <2>5. QED
    BY <2>3, <2>4
<1>3. QED
  BY <1>1, <1>2

LEMMA TallyInit == SimulationInit => TallyInv
BY DEF SimulationInit, TallyInv, CountFits, AllIdle, Invocation

(* A run follows the records it makes: whatever the speakers, the money and *)
(* the bounds, however often the counter is reset and wherever invocations  *)
(* die, in turn no step is claimed that the records do not show; and        *)
(* undisturbed the counts on the incidents are those of their comments.     *)
THEOREM RunsStayEarned == SimulationSpec => []RunsFollowTheirRecords
<1>1. SimulationInit => EarnedInv /\ TallyInv
  BY EarnedInit, TallyInit
<1>2. EarnedInv /\ TallyInv /\ [SimulationNext]_simVars => (EarnedInv /\ TallyInv)'
  BY EarnedStep, TallyStep
<1>3. EarnedInv /\ TallyInv => RunsFollowTheirRecords
  <2> SUFFICES ASSUME EarnedInv, TallyInv PROVE RunsFollowTheirRecords
    OBVIOUS
  <2>1. StepsAreEarned
    BY DEF EarnedInv, InTurnInv, Earned, StepsAreEarned
  <2>2. TroubleCountsComments
    BY DEF TallyInv, TroubleCountsComments, NobodyPlays, Active, Resting, Tallying
  <2>3. QED
    BY <2>1, <2>2 DEF RunsFollowTheirRecords
<1>4. QED
  BY <1>1, <1>2, <1>3, PTL DEF SimulationSpec

---------------------------------------------------------------------------
(* The money.  The sum of the approved requests, of the invocations between *)
(* the money and the decision and of those that died there follows what is  *)
(* committed, move by move.                                                 *)
MoneyInv ==
  /\ orphaned \in Nat /\ committed \in Nat /\ requests \in Seq(ApprovalItem)
  /\ IsFiniteSet(Deciding)
  /\ CommittedIsApproved

LEMMA ApprovedFinite ==
  ASSUME requests \in Seq(ApprovalItem)
  PROVE  IsFiniteSet(Approved) /\ Cardinality(Approved) \in Nat
<1>1. IsFiniteSet(1 .. Len(requests))
  BY FS_Interval
<1>2. Approved \subseteq 1 .. Len(requests)
  BY DEF Approved
<1>3. QED
  BY <1>1, <1>2, FS_Subset, FS_CardinalityType

(* What a step does to those between money and decision. *)
LEMMA DecidingMoves ==
  ASSUME NEW c \in Calls, PlayerTurn(c), IsFiniteSet(Deciding)
  PROVE  /\ IsFiniteSet(Deciding') /\ Cardinality(Deciding) \in Nat
         /\ (players[c].at = "decide" <=> players'[c].at = "decide") => Deciding' = Deciding
         /\ players[c].at # "decide" /\ players'[c].at = "decide" =>
              Cardinality(Deciding') = Cardinality(Deciding) + 1
         /\ players[c].at = "decide" /\ players'[c].at # "decide" =>
              Cardinality(Deciding') = Cardinality(Deciding) - 1
<1>1. \A d \in Calls \ {c} : players'[d].at = players[d].at
  BY DEF PlayerTurn
<1>2. CASE players[c].at = "decide" <=> players'[c].at = "decide"
  <2>1. Deciding' = Deciding
    BY <1>1, <1>2 DEF Deciding
  <2>2. QED
    BY <1>2, <2>1, FS_CardinalityType
<1>3. CASE players[c].at # "decide" /\ players'[c].at = "decide"
  <2>1. Deciding' = Deciding \cup {c} /\ c \notin Deciding
    BY <1>1, <1>3 DEF Deciding
  <2>2. QED
    BY <1>3, <2>1, FS_AddElement, FS_CardinalityType
<1>4. CASE players[c].at = "decide" /\ players'[c].at # "decide"
  <2>1. Deciding' = Deciding \ {c} /\ c \in Deciding
    BY <1>1, <1>4 DEF Deciding
  <2>2. QED
    BY <1>4, <2>1, FS_RemoveElement, FS_CardinalityType
<1>5. QED
  BY <1>2, <1>3, <1>4

(* Steps that neither move money nor decide. *)
LEMMA MoneyRests ==
  ASSUME MoneyInv, NEW c \in Calls, PlayerTurn(c), requests' \in Seq(ApprovalItem),
         Approved' = Approved, UNCHANGED <<committed, orphaned>>,
         players[c].at # "decide", players'[c].at # "decide"
  PROVE  MoneyInv'
<1>1. IsFiniteSet(Deciding') /\ Deciding' = Deciding
  BY DecidingMoves DEF MoneyInv
<1>2. Steady' <=> Steady
  BY DEF PlayerTurn
<1>3. QED
  BY <1>1, <1>2 DEF MoneyInv, CommittedIsApproved

LEMMA CommitMoney ==
  ASSUME PlayerShape, MoneyInv, NEW c \in Calls, PlayerTurn(c), CommitHire(c)
  PROVE  MoneyInv'
<1>1. requests' = requests /\ orphaned' = orphaned /\ players[c].at = "run" /\ Approved' = Approved
  BY DEF CommitHire, Runs, AtStep, Approved
<1>2. CASE committed' = committed + 1 /\ Writing(c, "decide")
  <2>1. players'[c].at = "decide"
    BY <1>2 DEF Writing, GoneTo, PlayerShape
  <2>2. IsFiniteSet(Deciding') /\ Cardinality(Deciding') = Cardinality(Deciding) + 1 /\ Cardinality(Deciding) \in Nat
    BY <1>1, <2>1, DecidingMoves DEF MoneyInv
  <2>3. Cardinality(Approved) \in Nat /\ (Steady' <=> Steady)
    BY ApprovedFinite DEF MoneyInv, PlayerTurn
  <2>4. CommittedIsApproved'
    BY <1>1, <1>2, <2>2, <2>3 DEF MoneyInv, CommittedIsApproved
  <2>5. QED
    BY <1>1, <1>2, <2>2, <2>4 DEF MoneyInv
<1>3. CASE Rests(c) /\ UNCHANGED <<headroom, committed>>
  <2>1. players'[c].at = "idle"
    BY <1>3 DEF Rests, Invocation, PlayerShape
  <2>2. QED
    BY <1>1, <1>3, <2>1, MoneyRests DEF MoneyInv
<1>4. QED
  BY <1>2, <1>3 DEF CommitHire

LEMMA DecideMoney ==
  ASSUME EarnedInv, MoneyInv, NEW c \in Calls, PlayerTurn(c), DecideHire(c)
  PROVE  MoneyInv'
<1> DEFINE i == players[c].saw.ids.approval
<1>1. /\ UNCHANGED <<committed, orphaned>> /\ players[c].at = "decide"
      /\ requests' = [requests EXCEPT ![i].status = "APPROVED"]
      /\ players'[c].at = "save"
  BY DEF DecideHire, Keeps, Finishes, EarnedInv, PlayerShape
<1>2. requests \in Seq(ApprovalItem) /\ IsFiniteSet(Deciding) /\ committed \in Nat /\ orphaned \in Nat
  BY DEF MoneyInv
<1>3. IsFiniteSet(Deciding') /\ Cardinality(Deciding') = Cardinality(Deciding) - 1 /\ Cardinality(Deciding) \in Nat
  BY <1>1, <1>2, DecidingMoves
<1>4. IsFiniteSet(Approved) /\ Cardinality(Approved) \in Nat /\ (Steady' <=> Steady)
  BY <1>2, ApprovedFinite DEF PlayerTurn
<1>5. Steady => i \in DOMAIN requests /\ requests[i].status = "PENDING"
  <2> SUFFICES ASSUME Steady PROVE i \in DOMAIN requests /\ requests[i].status = "PENDING"
    OBVIOUS
  <2>1. StageFits(c) /\ KnownIds(ids)
    BY <1>1, TurnFinds DEF Resting
  <2>2. /\ i = ids.approval /\ ids.approval \in DOMAIN requests
        /\ requests[ids.approval].status = "PENDING"
    BY <1>1, <2>1 DEF StageFits
  <2>3. QED
    BY <2>1, <2>2 DEF KnownIds
<1> HIDE DEF i
<1>6. CASE i \in DOMAIN requests
  <2>1. requests[i] \in ApprovalItem
    BY <1>2, <1>6
  <2> DEFINE e == [requests[i] EXCEPT !.status = "APPROVED"]
  <2>2. e \in ApprovalItem /\ e.status = "APPROVED"
    BY <2>1 DEF ApprovalItem
  <2>3. requests' = [requests EXCEPT ![i] = e]
    BY <1>1
  <2> HIDE DEF e
  <2>4. /\ requests' \in Seq(ApprovalItem) /\ DOMAIN requests' = DOMAIN requests /\ requests'[i] = e
        /\ \A j \in DOMAIN requests \ {i} : requests'[j] = requests[j]
    BY <1>2, <1>6, <2>2, <2>3, Replacing
  <2>5. Approved' = Approved \cup {i}
    BY <1>6, <2>2, <2>4 DEF Approved
  <2>6. /\ Cardinality(Approved') <= Cardinality(Approved) + 1 /\ Cardinality(Approved') \in Nat
        /\ i \notin Approved => Cardinality(Approved') = Cardinality(Approved) + 1
    <3>1. IsFiniteSet(Approved \cup {i})
          /\ Cardinality(Approved \cup {i}) =
               IF i \in Approved THEN Cardinality(Approved) ELSE Cardinality(Approved) + 1
      BY <1>4, FS_AddElement
    <3>2. Cardinality(Approved') = Cardinality(Approved \cup {i})
      BY <2>5
    <3>3. QED
      BY <1>4, <3>1, <3>2
  <2>7. Steady => i \notin Approved
    BY <1>5 DEF Approved
  <2>8. CommittedIsApproved'
    BY <1>1, <1>2, <1>3, <1>4, <2>6, <2>7 DEF MoneyInv, CommittedIsApproved
  <2>9. QED
    BY <1>1, <1>2, <1>3, <2>4, <2>8 DEF MoneyInv
<1>7. CASE i \notin DOMAIN requests
  <2>1. requests' = requests
    BY <1>1, <1>2, <1>7
  <2>2. Approved' = Approved
    BY <2>1 DEF Approved
  <2>3. CommittedIsApproved'
    BY <1>1, <1>2, <1>3, <1>4, <1>5, <1>7, <2>2 DEF MoneyInv, CommittedIsApproved
  <2>4. QED
    BY <1>1, <1>2, <1>3, <2>1, <2>3 DEF MoneyInv
<1>8. QED
  BY <1>6, <1>7

LEMMA DeathMoney ==
  ASSUME PlayerShape, MoneyInv, NEW c \in Calls, PlayerTurn(c), PlayerDies(c)
  PROVE  MoneyInv'
<1>1. UNCHANGED <<requests, committed>> /\ players'[c].at = "idle" /\ Approved' = Approved
  BY DEF PlayerDies, Records, Rests, Invocation, PlayerShape, Approved
<1>2. CASE players[c].at = "decide"
  <2>1. orphaned' = orphaned + 1
    BY <1>2 DEF PlayerDies
  <2>2. IsFiniteSet(Deciding') /\ Cardinality(Deciding') = Cardinality(Deciding) - 1 /\ Cardinality(Deciding) \in Nat
    BY <1>1, <1>2, DecidingMoves DEF MoneyInv
  <2>3. Cardinality(Approved) \in Nat /\ (Steady' <=> Steady)
    BY ApprovedFinite DEF MoneyInv, PlayerTurn
  <2>4. CommittedIsApproved'
    BY <1>1, <2>1, <2>2, <2>3 DEF MoneyInv, CommittedIsApproved
  <2>5. QED
    BY <1>1, <2>1, <2>2, <2>4 DEF MoneyInv
<1>3. CASE players[c].at # "decide"
  BY <1>1, <1>3, MoneyRests DEF PlayerDies, MoneyInv
<1>4. QED
  BY <1>2, <1>3

LEMMA RequestMoney ==
  ASSUME PlayerShape, MoneyInv, NEW c \in Calls, PlayerTurn(c), RequestHire(c)
  PROVE  MoneyInv'
<1>1. UNCHANGED <<committed, orphaned>> /\ players[c].at = "request" /\ players'[c].at = "save"
  BY DEF RequestHire, Finishes, PlayerShape
<1>2. PICK r \in ApprovalItem : requests' = Append(requests, r) /\ r.status = "PENDING"
  BY DEF RequestHire, ApprovalItem, PlayerShape
<1>3. requests' \in Seq(ApprovalItem) /\ DOMAIN requests' = DOMAIN requests \cup {Len(requests) + 1}
      /\ requests'[Len(requests) + 1] = r /\ \A j \in DOMAIN requests : requests'[j] = requests[j]
  BY <1>2 DEF MoneyInv
<1>4. Approved' = Approved
  BY <1>2, <1>3 DEF Approved
<1>5. QED
  BY <1>1, <1>3, <1>4, MoneyRests

LEMMA MoneyStep ==
  ASSUME EarnedInv, MoneyInv, [SimulationNext]_simVars PROVE MoneyInv'
<1>1. CASE UNCHANGED simVars
  BY <1>1 DEF simVars, MoneyInv, CommittedIsApproved, Approved, Deciding, Steady, Lags
<1>2. CASE SimulationNext
  <2>1. PICK c \in Calls : Advance(c) \/ PlayerDies(c)
    BY <1>2 DEF SimulationNext
  <2>2. PlayerTurn(c) /\ PlayerShape
    BY <2>1, SimStepTurns DEF EarnedInv, SimStep
  <2>3. DOMAIN players = Calls /\ DOMAIN players[c] = {"at", "req", "saw"} /\ requests \in Seq(ApprovalItem)
    BY <2>2 DEF PlayerShape, MoneyInv
  <2>4. ASSUME UNCHANGED <<requests, committed, orphaned>>, players[c].at # "decide", players'[c].at # "decide"
        PROVE  MoneyInv'
    BY <2>2, <2>3, <2>4, MoneyRests DEF Approved
  <2>5. CASE Reset(c) \/ BeginStep(c)
    <3>1. /\ players[c].at # "decide" /\ players'[c].at # "decide" /\ UNCHANGED <<requests, committed, orphaned>>
      BY <2>3, <2>5 DEF Reset, BeginStep, MayBegin, Records, Invocation
    <3>2. QED
      BY <2>4, <3>1
  <2>6. CASE TakeSnapshot(c) \/ RefuseStep(c) \/ SaveProgress(c)
    <3>1. /\ players[c].at # "decide" /\ players'[c].at # "decide" /\ UNCHANGED <<requests, committed, orphaned>>
      BY <2>3, <2>6 DEF TakeSnapshot, RefuseStep, SaveProgress, Rests, Records, Invocation
    <3>2. QED
      BY <2>4, <3>1
  <2>7. CASE SpeakerResponds(c) \/ TaskOverdue(c) \/ Recalculate(c) \/ ChooseCategory(c)
             \/ Recommend(c) \/ ResolveTrouble(c)
    <3>1. /\ players[c].at # "decide" /\ players'[c].at # "decide" /\ UNCHANGED <<requests, committed, orphaned>>
      BY <2>3, <2>7 DEF SpeakerResponds, TaskOverdue, Recalculate, ChooseCategory, Recommend,
         ResolveTrouble, Runs, AtStep, Keeps, Finishes, Records
    <3>2. QED
      BY <2>4, <3>1
  <2>8. CASE ReportTrouble(c) \/ CreateWork(c)
    <3>1. /\ players[c].at # "decide" /\ players'[c].at # "decide" /\ UNCHANGED <<requests, committed, orphaned>>
      BY <2>3, <2>8 DEF ReportTrouble, CreateWork, Runs, AtStep
    <3>2. QED
      BY <2>4, <3>1
  <2>9. CASE CommentOnTrouble(c) \/ CompleteWork(c)
    <3>1. /\ players[c].at # "decide" /\ players'[c].at # "decide" /\ UNCHANGED <<requests, committed, orphaned>>
      BY <2>3, <2>9 DEF CommentOnTrouble, CompleteWork, Runs, AtStep, Keeps, Finishes, Writing, GoneTo
    <3>2. QED
      BY <2>4, <3>1
  <2>10. QED
    BY <2>1, <2>2, <2>5, <2>6, <2>7, <2>8, <2>9, RequestMoney, CommitMoney, DecideMoney, DeathMoney DEF Advance
<1>3. QED
  BY <1>1, <1>2

LEMMA MoneyInit == SimulationInit => MoneyInv
<1> SUFFICES ASSUME SimulationInit PROVE MoneyInv
  OBVIOUS
<1>1. orphaned = 0 /\ committed = 0 /\ requests = <<>> /\ Approved = {} /\ Deciding = {}
  BY DEF SimulationInit, Approved, Deciding, AllIdle, Invocation
<1>2. IsFiniteSet({}) /\ Cardinality({}) = 0
  BY FS_EmptySet
<1>3. QED
  BY <1>1, <1>2 DEF MoneyInv, CommittedIsApproved

(* "A double-click cannot commit the same money twice": whatever the        *)
(* headroom, the requests and where invocations die, in turn one approved   *)
(* request stands for every hire committed, but for the invocations that    *)
(* died in between; and overlapping, there are never more of them.          *)
THEOREM MoneyIsApproved == SimulationSpec => []CommittedIsApproved
<1>1. SimulationInit => EarnedInv /\ MoneyInv
  BY EarnedInit, MoneyInit
<1>2. EarnedInv /\ MoneyInv /\ [SimulationNext]_simVars => (EarnedInv /\ MoneyInv)'
  BY EarnedStep, MoneyStep
<1>3. MoneyInv => CommittedIsApproved
  BY DEF MoneyInv
<1>4. QED
  BY <1>1, <1>2, <1>3, PTL DEF SimulationSpec

---------------------------------------------------------------------------
(***************************************************************************)
(* The score.                                                              *)
(***************************************************************************)

(* Every number of a board but the date is a natural number. *)
LEMMA BoardFields ==
  ASSUME NEW b \in Boards
  PROVE  /\ b.tasks \in [Trouble -> Nat] /\ b.incident \in Grades \cup {None}
         /\ b.others \in [Grades -> Nat]
         /\ b.silent \in Nat /\ b.stale \in Nat /\ b.used \in Nat
         /\ b.gaps \in Nat /\ b.gaps <= Registered
BY HealthAssumption DEF Boards

LEMMA GradesAre == Grades = {"CRITICAL", "HIGH", "MEDIUM", "LOW"}
BY DEF Grades, SeverityPoints

LEMMA TroubleFinite == IsFiniteSet(Trouble)
<1> DEFINE lateFree == [late |-> TRUE, hold |-> Free]
           lateBlocked == [late |-> TRUE, hold |-> "blocked"]
           lateLinked == [late |-> TRUE, hold |-> "linked"]
           blocked == [late |-> FALSE, hold |-> "blocked"]
           linked == [late |-> FALSE, hold |-> "linked"]
<1>1. ASSUME NEW k \in Trouble PROVE k \in {lateFree, lateBlocked, lateLinked, blocked, linked}
  <2>1. k = [late |-> k.late, hold |-> k.hold] /\ k # [late |-> FALSE, hold |-> Free]
    BY DEF Trouble
  <2>2. k.late \in BOOLEAN /\ k.hold \in {Free, "blocked", "linked"}
    BY DEF Trouble
  <2>3. CASE k.late = TRUE
    BY <2>1, <2>2, <2>3
  <2>4. CASE k.late = FALSE
    BY <2>1, <2>2, <2>4
  <2>5. QED
    BY <2>2, <2>3, <2>4
<1> HIDE DEF lateFree, lateBlocked, lateLinked, blocked, linked
<1>2. /\ IsFiniteSet({lateFree}) /\ IsFiniteSet({lateBlocked}) /\ IsFiniteSet({lateLinked})
      /\ IsFiniteSet({blocked}) /\ IsFiniteSet({linked})
  BY FS_Singleton
<1>3. IsFiniteSet(({lateFree} \cup {lateBlocked}) \cup ({lateLinked} \cup ({blocked} \cup {linked})))
  BY <1>2, FS_Union
<1>4. Trouble \subseteq ({lateFree} \cup {lateBlocked}) \cup ({lateLinked} \cup ({blocked} \cup {linked}))
  BY <1>1
<1>5. QED
  BY <1>3, <1>4, FS_Subset

LEMMA SummedIs == ASSUME NEW f, NEW S PROVE Summed(f, S) = SumOver(f, S)
BY SumIsFold DEF Summed

LEMMA DivisionBounds ==
  ASSUME NEW n \in Nat, NEW d \in Nat \ {0}
  PROVE  /\ n \div d \in Nat /\ n % d \in Nat /\ n % d < d
         /\ n = d * (n \div d) + (n % d)
  OBVIOUS

(* Rounding keeps the order. *)
LEMMA RoundedKeepsOrder ==
  ASSUME NEW n \in Nat, NEW m \in Nat, n <= m, NEW d \in Nat \ {0}
  PROVE  Rounded(n, d) \in Nat /\ Rounded(n, d) <= Rounded(m, d)
<1> DEFINE p == n \div d
           q == m \div d
           r == n % d
           s == m % d
<1>1. /\ p \in Nat /\ r \in Nat /\ r < d /\ n = d * p + r
      /\ q \in Nat /\ s \in Nat /\ s < d /\ m = d * q + s
  BY DivisionBounds
<1>2. /\ Rounded(n, d) = IF 2 * r > d \/ (2 * r = d /\ p % 2 = 1) THEN p + 1 ELSE p
      /\ Rounded(m, d) = IF 2 * s > d \/ (2 * s = d /\ q % 2 = 1) THEN q + 1 ELSE q
  BY DEF Rounded
<1> HIDE DEF p, q, r, s
<1>3. p <= q
  <2> SUFFICES ASSUME q + 1 <= p PROVE FALSE
    BY <1>1
  <2>1. d * (q + 1) <= d * p
    BY <1>1
  <2>2. d * (q + 1) = d * q + d
    BY <1>1
  <2>3. QED
    BY <1>1, <2>1, <2>2
<1>4. CASE p = q
  <2>1. r <= s
    BY <1>1, <1>4
  <2>2. QED
    BY <1>1, <1>2, <1>4, <2>1
<1>5. CASE p + 1 <= q
  BY <1>1, <1>2, <1>5
<1>6. QED
  BY <1>1, <1>3, <1>4, <1>5

(* The sums of the score. *)
LEMMA CountsAreNat ==
  ASSUME NEW b \in Boards
  PROVE  /\ OverdueTasks(b) \in Nat /\ IndependentlyBlocked(b) \in Nat /\ Linked(b) \in Nat
         /\ \A g \in Grades : OpenOf(b, g) \in Nat
<1>1. ASSUME NEW S \in SUBSET Trouble PROVE Summed(b.tasks, S) \in Nat
  <2>1. IsFiniteSet(S)
    BY TroubleFinite, FS_Subset
  <2>2. \A k \in S : b.tasks[k] \in Nat
    BY BoardFields
  <2>3. QED
    BY <2>1, <2>2, SumIsNat, SummedIs
<1>2. OverdueTasks(b) \in Nat /\ IndependentlyBlocked(b) \in Nat /\ Linked(b) \in Nat
  BY <1>1 DEF OverdueTasks, IndependentlyBlocked, Linked
<1>3. \A g \in Grades : OpenOf(b, g) \in Nat
  BY BoardFields DEF OpenOf
<1>4. QED
  BY <1>2, <1>3

LEMMA SumOfGrades ==
  ASSUME NEW f, \A g \in Grades : f[g] \in Int
  PROVE  SumOver(f, Grades) = f["CRITICAL"] + f["HIGH"] + f["MEDIUM"] + f["LOW"]
<1> DEFINE three == Grades \ {"CRITICAL"}
           two == three \ {"HIGH"}
<1>1. /\ "CRITICAL" \in Grades /\ "HIGH" \in three /\ "MEDIUM" \in two
      /\ two \ {"MEDIUM"} = {"LOW"} /\ "LOW" \in Grades
  BY GradesAre
<1>2. IsFiniteSet({"CRITICAL"} \cup {"HIGH"} \cup {"MEDIUM"} \cup {"LOW"})
  <2>1. /\ IsFiniteSet({"CRITICAL"}) /\ IsFiniteSet({"HIGH"})
        /\ IsFiniteSet({"MEDIUM"}) /\ IsFiniteSet({"LOW"})
    BY FS_Singleton
  <2>2. QED
    BY <2>1, FS_Union
<1>3. Grades \subseteq {"CRITICAL"} \cup {"HIGH"} \cup {"MEDIUM"} \cup {"LOW"}
  BY GradesAre
<1>4. IsFiniteSet(Grades) /\ IsFiniteSet(three) /\ IsFiniteSet(two)
  BY <1>2, <1>3, FS_Subset
<1>5. (\A g \in three : f[g] \in Int) /\ (\A g \in two : f[g] \in Int)
  OBVIOUS
<1> HIDE DEF three, two
<1>6. SumOver(f, Grades) = f["CRITICAL"] + SumOver(f, Grades \ {"CRITICAL"})
  BY <1>1, <1>4, SumTakes
<1>7. SumOver(f, three) = f["HIGH"] + SumOver(f, three \ {"HIGH"})
  BY <1>1, <1>4, <1>5, SumTakes
<1>8. SumOver(f, two) = f["MEDIUM"] + SumOver(f, two \ {"MEDIUM"})
  BY <1>1, <1>4, <1>5, SumTakes
<1>9. SumOver(f, {"LOW"}) = f["LOW"]
  BY <1>1, SumOfOne
<1>10. SumOver(f, two) = f["MEDIUM"] + f["LOW"]
  BY <1>1, <1>8, <1>9
<1>11. SumOver(f, three) = f["HIGH"] + (f["MEDIUM"] + f["LOW"])
  BY <1>7, <1>10 DEF two
<1>12. SumOver(f, Grades) = f["CRITICAL"] + (f["HIGH"] + (f["MEDIUM"] + f["LOW"]))
  BY <1>6, <1>11 DEF three
<1>13. f["CRITICAL"] \in Int /\ f["HIGH"] \in Int /\ f["MEDIUM"] \in Int /\ f["LOW"] \in Int
  BY GradesAre
<1>14. QED
  BY <1>12, <1>13

Weights(b) == [g \in Grades |-> OpenOf(b, g) * SeverityPoints[g]]

LEMMA GradesFinite == IsFiniteSet(Grades)
<1>1. /\ IsFiniteSet({"CRITICAL"}) /\ IsFiniteSet({"HIGH"})
      /\ IsFiniteSet({"MEDIUM"}) /\ IsFiniteSet({"LOW"})
  BY FS_Singleton
<1>2. IsFiniteSet(({"CRITICAL"} \cup {"HIGH"}) \cup ({"MEDIUM"} \cup {"LOW"}))
  BY <1>1, FS_Union
<1>3. Grades \subseteq ({"CRITICAL"} \cup {"HIGH"}) \cup ({"MEDIUM"} \cup {"LOW"})
  BY GradesAre
<1>4. QED
  BY <1>2, <1>3, FS_Subset

LEMMA WeightsSum ==
  ASSUME NEW b
  PROVE  MapThenSumSet(LAMBDA g : OpenOf(b, g) * SeverityPoints[g], Grades) = SumOver(Weights(b), Grades)
<1> DEFINE Folds(iter) ==
             iter = [s \in SUBSET Grades |->
                       IF s = {} THEN 0
                       ELSE OpenOf(b, Some(s)) * SeverityPoints[Some(s)] + iter[s \ {Some(s)}]]
           fold == CHOOSE iter : Folds(iter)
<1>1. MapThenSumSet(LAMBDA g : OpenOf(b, g) * SeverityPoints[g], Grades) = fold[Grades]
  BY DEF MapThenSumSet, MapThenFoldSet, Some
<1>2. \A s \in SUBSET Grades :
        s # {} => Weights(b)[Some(s)] = OpenOf(b, Some(s)) * SeverityPoints[Some(s)]
  BY PicksOne DEF Weights
<1>3. \A iter : Folds(iter) <=> IsFold(Weights(b), iter, Grades)
  BY <1>2 DEF IsFold, SumStep
<1>4. \E iter : Folds(iter)
  BY <1>3, SumExists, GradesFinite
<1>5. IsFold(Weights(b), fold, Grades)
  BY <1>3, <1>4
<1>6. QED
  BY <1>1, <1>5, FoldSums, GradesFinite

LEMMA IncidentPointsAre ==
  ASSUME NEW b \in Boards
  PROVE  IncidentPoints(b) = AtMost(36 * OpenOf(b, "CRITICAL") + 18 * OpenOf(b, "HIGH")
                                      + 8 * OpenOf(b, "MEDIUM") + 3 * OpenOf(b, "LOW"), 48)
<1> DEFINE w == Weights(b)
<1>1. /\ OpenOf(b, "CRITICAL") \in Nat /\ OpenOf(b, "HIGH") \in Nat
      /\ OpenOf(b, "MEDIUM") \in Nat /\ OpenOf(b, "LOW") \in Nat
  BY CountsAreNat, GradesAre
<1>2. /\ w["CRITICAL"] = 36 * OpenOf(b, "CRITICAL") /\ w["HIGH"] = 18 * OpenOf(b, "HIGH")
      /\ w["MEDIUM"] = 8 * OpenOf(b, "MEDIUM") /\ w["LOW"] = 3 * OpenOf(b, "LOW")
  BY <1>1, GradesAre DEF Weights, SeverityPoints
<1>3. \A g \in Grades : w[g] \in Int
  BY <1>1, <1>2, GradesAre
<1> HIDE DEF w
<1>4. SumOver(w, Grades) = w["CRITICAL"] + w["HIGH"] + w["MEDIUM"] + w["LOW"]
  BY <1>3, SumOfGrades
<1>5. QED
  BY <1>2, <1>4, WeightsSum DEF IncidentPoints, w

(* Each signal is capped, at less than the threshold of RED. *)
LEMMA SignalsAreCapped ==
  ASSUME NEW b \in Boards, NEW i \in 1 .. 8
  PROVE  Signals(b)[i] \in 0 .. 48
<1>1. ASSUME NEW n \in Nat, NEW cap \in 0 .. 48 PROVE AtMost(n, cap) \in 0 .. 48
  BY DEF AtMost
<1>2. OverduePoints(b) \in 0 .. 48 /\ BlockedPoints(b) \in 0 .. 48
  <2>1. 6 * OverdueTasks(b) \in Nat /\ 4 * IndependentlyBlocked(b) \in Nat
    BY CountsAreNat
  <2>2. QED
    BY <1>1, <2>1 DEF OverduePoints, BlockedPoints
<1>3. IncidentPoints(b) \in 0 .. 48
  <2> DEFINE n == 36 * OpenOf(b, "CRITICAL") + 18 * OpenOf(b, "HIGH")
                    + 8 * OpenOf(b, "MEDIUM") + 3 * OpenOf(b, "LOW")
  <2>1. n \in Nat
    BY CountsAreNat, GradesAre
  <2> HIDE DEF n
  <2>2. AtMost(n, 48) \in 0 .. 48
    BY <1>1, <2>1
  <2>3. QED
    BY <2>2, IncidentPointsAre DEF n
<1>4. SilentPoints(b) \in 0 .. 48 /\ StalePoints(b) \in 0 .. 48
  <2>1. 10 * b.silent \in Nat /\ 5 * b.stale \in Nat
    BY BoardFields
  <2>2. QED
    BY <1>1, <2>1 DEF SilentPoints, StalePoints
<1>5. BudgetPoints(b) \in 0 .. 48 /\ ImminentPoints(b) \in 0 .. 48 /\ GapPoints(b) \in 0 .. 48
  BY DEF BudgetPoints, ImminentPoints, GapPoints
<1>6. QED
  BY <1>2, <1>3, <1>4, <1>5 DEF Signals

LEMMA ScoreIsSum ==
  ASSUME NEW b \in Boards
  PROVE  /\ IsFiniteSet(1 .. 8)
         /\ \A i \in 1 .. 8 : Signals(b)[i] \in Nat /\ Signals(b)[i] <= 48
         /\ SumOver(Signals(b), 1 .. 8) \in Nat
         /\ Score(b) = IF SumOver(Signals(b), 1 .. 8) < 100 THEN SumOver(Signals(b), 1 .. 8) ELSE 100
<1>1. IsFiniteSet(1 .. 8)
  <2>1. 1 \in Int /\ 8 \in Int
    OBVIOUS
  <2>2. QED
    BY <2>1, FS_Interval, Zenon
<1>2. \A i \in 1 .. 8 : Signals(b)[i] \in Nat /\ Signals(b)[i] <= 48
  BY SignalsAreCapped
<1>3. SumOver(Signals(b), 1 .. 8) \in Nat
  BY <1>1, <1>2, SumIsNat
<1>4. QED
  BY <1>1, <1>2, <1>3, SummedIs DEF Score, AtMost

LEMMA OneCriticalShows ==
  ASSUME NEW b \in Boards, OpenOf(b, "CRITICAL") > 0
  PROVE  Band(b) \in {"ORANGE", "RED"}
<1> DEFINE sum == SumOver(Signals(b), 1 .. 8)
<1>1. IncidentPoints(b) >= 36
  <2>1. /\ OpenOf(b, "CRITICAL") \in Nat /\ OpenOf(b, "HIGH") \in Nat
        /\ OpenOf(b, "MEDIUM") \in Nat /\ OpenOf(b, "LOW") \in Nat
    BY CountsAreNat, GradesAre
  <2>2. QED
    BY <2>1, IncidentPointsAre DEF AtMost
<1>2. Signals(b)[3] = IncidentPoints(b)
  BY DEF Signals
<1>3. Signals(b)[3] <= sum
  BY ScoreIsSum, SumHasPart
<1>4. sum \in Nat /\ Signals(b)[3] \in Nat /\ Score(b) = IF sum < 100 THEN sum ELSE 100
  BY ScoreIsSum
<1> HIDE DEF sum
<1>5. Score(b) >= 36 /\ Score(b) \in Nat
  BY <1>1, <1>2, <1>3, <1>4
<1>6. QED
  BY <1>5 DEF Band

LEMMA OneSignalIsNotRed ==
  ASSUME NEW b \in Boards, Cardinality(Fired(b)) = 1
  PROVE  Band(b) # "RED"
<1> DEFINE signals == Signals(b)
<1>1. PICK i : Fired(b) = {i}
  <2>1. IsFiniteSet(Fired(b))
    BY ScoreIsSum, FS_Subset DEF Fired
  <2>2. QED
    BY <2>1, FS_Singleton
<1>2. i \in 1 .. 8 /\ \A j \in (1 .. 8) \ {i} : ~(signals[j] > 0)
  BY <1>1 DEF Fired
<1>3. /\ IsFiniteSet(1 .. 8) /\ \A j \in 1 .. 8 : signals[j] \in Nat /\ signals[j] <= 48
      /\ Score(b) = IF SumOver(signals, 1 .. 8) < 100 THEN SumOver(signals, 1 .. 8) ELSE 100
  BY ScoreIsSum
<1> HIDE DEF signals
<1>4. \A j \in (1 .. 8) \ {i} : signals[j] = 0
  BY <1>2, <1>3
<1>5. \A j \in 1 .. 8 : signals[j] \in Int
  BY <1>3
<1>6. {i} \in SUBSET (1 .. 8)
  BY <1>2
<1>7. SumOver(signals, 1 .. 8) = SumOver(signals, {i})
  BY <1>3, <1>4, <1>5, <1>6, SumSkips
<1>8. SumOver(signals, {i}) = signals[i]
  BY <1>2, <1>5, SumOfOne
<1>9. Score(b) <= 48 /\ Score(b) \in Nat
  BY <1>2, <1>3, <1>7, <1>8
<1>10. QED
  BY <1>9 DEF Band

(* Relief, signal by signal. *)
LEMMA FewerSum ==
  ASSUME NEW b \in Boards, NEW a \in Boards, Eases(b, a), NEW S \in SUBSET Trouble
  PROVE  Summed(a.tasks, S) <= Summed(b.tasks, S)
<1>1. IsFiniteSet(S)
  BY TroubleFinite, FS_Subset
<1>2. \A k \in S : a.tasks[k] \in Nat /\ b.tasks[k] \in Nat
  BY BoardFields
<1>3. \A k \in S : a.tasks[k] <= b.tasks[k]
  BY DEF Eases
<1>4. \A k \in S : a.tasks[k] \in Int /\ b.tasks[k] \in Int /\ a.tasks[k] <= b.tasks[k]
  BY <1>2, <1>3
<1> DEFINE f == a.tasks
           g == b.tasks
<1> HIDE DEF f, g
<1>5. SumOver(f, S) <= SumOver(g, S)
  BY <1>1, <1>4, SumIsMonotone DEF f, g
<1>6. QED
  BY <1>5, SummedIs DEF f, g

(* Where nothing waits for the incident, its end brings no work back. *)
LEMMA NothingLinked ==
  ASSUME NEW b \in Boards, Linked(b) = 0
  PROVE  Summed(b.tasks, {k \in Trouble : k.hold = "blocked" \/ k.hold = "linked"})
           = Summed(b.tasks, {k \in Trouble : k.hold = "blocked"})
<1> DEFINE f == b.tasks
           linked == {k \in Trouble : k.hold = "linked"}
           both == {k \in Trouble : k.hold = "blocked" \/ k.hold = "linked"}
           blocked == {k \in Trouble : k.hold = "blocked"}
<1>1. /\ IsFiniteSet(linked) /\ IsFiniteSet(both) /\ blocked \in SUBSET both
      /\ both \ blocked \subseteq linked
  BY TroubleFinite, FS_Subset
<1>2. \A k \in Trouble : f[k] \in Nat
  BY BoardFields
<1>3. SumOver(f, linked) = 0
  BY SummedIs DEF Linked
<1>4. (\A k \in linked : f[k] \in Nat) /\ (\A k \in both : f[k] \in Int)
  BY <1>2
<1> HIDE DEF f, linked, both, blocked
<1>5. \A k \in linked : f[k] <= SumOver(f, linked)
  BY <1>1, <1>4, SumHasPart
<1>6. \A k \in linked : f[k] = 0
  BY <1>3, <1>4, <1>5
<1>7. SumOver(f, both) = SumOver(f, blocked)
  BY <1>1, <1>4, <1>6, SumSkips
<1>8. QED
  BY <1>7, SummedIs DEF f, both, blocked

LEMMA BlockedEases ==
  ASSUME NEW b \in Boards, NEW a \in Boards, Eases(b, a)
  PROVE  IndependentlyBlocked(a) <= IndependentlyBlocked(b)
<1> DEFINE both == {k \in Trouble : k.hold = "blocked" \/ k.hold = "linked"}
           blocked == {k \in Trouble : k.hold = "blocked"}
           counted(c) == {k \in Trouble : k.hold = "blocked" \/ (k.hold = "linked" /\ c.incident = None)}
<1>1. \A c \in {a, b} : counted(c) = IF c.incident = None THEN both ELSE blocked
  OBVIOUS
<1>2. /\ Summed(a.tasks, both) <= Summed(b.tasks, both)
      /\ Summed(a.tasks, blocked) <= Summed(b.tasks, blocked)
  BY FewerSum
<1>3. Linked(b) = 0 => Summed(b.tasks, both) = Summed(b.tasks, blocked)
  BY NothingLinked
<1>4. \/ (a.incident = None) <=> (b.incident = None)
      \/ a.incident = None /\ Linked(b) = 0
  BY DEF Eases
<1>5. /\ IndependentlyBlocked(a) = Summed(a.tasks, counted(a))
      /\ IndependentlyBlocked(b) = Summed(b.tasks, counted(b))
  BY DEF IndependentlyBlocked
<1> HIDE DEF counted, both, blocked
<1>6. QED
  BY <1>1, <1>2, <1>3, <1>4, <1>5

LEMMA OpenEases ==
  ASSUME NEW b \in Boards, NEW a \in Boards, Eases(b, a)
  PROVE  /\ IncidentPoints(a) <= IncidentPoints(b)
         /\ OpenOf(a, "CRITICAL") + OpenOf(a, "HIGH") > 0 => OpenOf(b, "CRITICAL") + OpenOf(b, "HIGH") > 0
<1> DEFINE sum(c) == 36 * OpenOf(c, "CRITICAL") + 18 * OpenOf(c, "HIGH")
                       + 8 * OpenOf(c, "MEDIUM") + 3 * OpenOf(c, "LOW")
           more(c) == 36 * c.others["CRITICAL"] + 18 * c.others["HIGH"]
                       + 8 * c.others["MEDIUM"] + 3 * c.others["LOW"]
           own(c) == IF c.incident \in Grades THEN SeverityPoints[c.incident] ELSE 0
<1>1. ASSUME NEW c \in {a, b}
      PROVE  /\ c.incident \in Grades \cup {None}
             /\ c.others["CRITICAL"] \in Nat /\ c.others["HIGH"] \in Nat
             /\ c.others["MEDIUM"] \in Nat /\ c.others["LOW"] \in Nat
  BY BoardFields, GradesAre
<1>2. ASSUME NEW c \in {a, b} PROVE sum(c) = more(c) + own(c) /\ sum(c) \in Nat
  <2>1. CASE c.incident \in Grades
    BY <1>1, <2>1, GradesAre DEF OpenOf, SeverityPoints
  <2>2. CASE c.incident \notin Grades
    BY <1>1, <2>2, GradesAre DEF OpenOf
  <2>3. QED
    BY <2>1, <2>2
<1>3. /\ a.others["CRITICAL"] <= b.others["CRITICAL"] /\ a.others["HIGH"] <= b.others["HIGH"]
      /\ a.others["MEDIUM"] <= b.others["MEDIUM"] /\ a.others["LOW"] <= b.others["LOW"]
  BY GradesAre DEF Eases
<1>4. /\ more(a) <= more(b) /\ more(a) \in Nat /\ more(b) \in Nat
  BY <1>1, <1>3
<1>5. own(a) <= own(b) /\ own(a) \in Nat /\ own(b) \in Nat
  <2>1. \A g \in Grades : SeverityPoints[g] \in Nat
    BY GradesAre DEF SeverityPoints
  <2>2. a.incident = b.incident \/ a.incident = None
        \/ (a.incident # None /\ b.incident # None
              /\ SeverityPoints[a.incident] <= SeverityPoints[b.incident])
    BY DEF Eases
  <2>3. QED
    BY <1>1, <2>1, <2>2, HealthAssumption
<1>6. own(b) < 18 => b.incident \notin {"CRITICAL", "HIGH"}
  BY GradesAre DEF SeverityPoints
<1>7. own(a) >= 18 => own(b) >= 18
  BY <1>5
<1>8. OpenOf(a, "CRITICAL") + OpenOf(a, "HIGH") > 0 => OpenOf(b, "CRITICAL") + OpenOf(b, "HIGH") > 0
  <2> SUFFICES ASSUME OpenOf(a, "CRITICAL") + OpenOf(a, "HIGH") > 0
               PROVE  OpenOf(b, "CRITICAL") + OpenOf(b, "HIGH") > 0
    OBVIOUS
  <2>1. CASE a.others["CRITICAL"] > 0 \/ a.others["HIGH"] > 0
    BY <1>1, <1>3, <2>1 DEF OpenOf
  <2>2. CASE a.incident \in {"CRITICAL", "HIGH"}
    <3>1. own(a) >= 18
      BY <2>2, GradesAre DEF SeverityPoints
    <3>2. own(b) >= 18
      BY <1>5, <3>1
    <3>3. b.incident \in {"CRITICAL", "HIGH"}
      BY <3>2, GradesAre DEF SeverityPoints
    <3>4. QED
      BY <1>1, <3>3 DEF OpenOf
  <2>3. QED
    BY <1>1, <2>1, <2>2 DEF OpenOf
<1> HIDE DEF more, own
<1>9. sum(a) <= sum(b) /\ sum(a) \in Nat /\ sum(b) \in Nat
  BY <1>2, <1>4, <1>5
<1>10. IncidentPoints(a) = AtMost(sum(a), 48) /\ IncidentPoints(b) = AtMost(sum(b), 48)
  BY IncidentPointsAre
<1> HIDE DEF sum
<1>11. QED
  BY <1>8, <1>9, <1>10 DEF AtMost

LEMMA MoneyEases ==
  ASSUME NEW b \in Boards, NEW a \in Boards, Eases(b, a)
  PROVE  BudgetPoints(a) <= BudgetPoints(b) /\ GapPoints(a) <= GapPoints(b)
<1>1. /\ a.used \in Nat /\ b.used \in Nat /\ a.used <= b.used /\ Total \in Nat
      /\ a.gaps \in Nat /\ b.gaps \in Nat /\ a.gaps <= b.gaps /\ b.gaps <= Registered
      /\ Registered \in Nat
  BY BoardFields, HealthAssumption DEF Eases
<1>2. BudgetPoints(a) <= BudgetPoints(b)
  <2>1. CASE Total = 0
    BY <2>1 DEF BudgetPoints
  <2>2. CASE Total # 0
    <3> DEFINE n == a.used * 100
               m == b.used * 100
    <3>1. n \in Nat /\ m \in Nat /\ n <= m /\ Total \in Nat \ {0}
      BY <1>1, <2>2
    <3>2. /\ Rounded(n, Total) \in Nat /\ Rounded(m, Total) \in Nat
          /\ Rounded(n, Total) <= Rounded(m, Total)
      <4> HIDE DEF n, m
      <4>1. m <= m
        BY <3>1
      <4>2. QED
        BY <3>1, <4>1, RoundedKeepsOrder
    <3>3. /\ Utilization(a) \in Nat /\ Utilization(b) \in Nat
          /\ Utilization(a) <= Utilization(b)
      BY <3>2 DEF Utilization
    <3>4. QED
      BY <1>1, <3>3 DEF BudgetPoints
  <2>3. QED
    BY <2>1, <2>2
<1>3. GapPoints(a) <= GapPoints(b)
  <2>1. CASE Registered = 0
    BY <2>1 DEF GapPoints
  <2>2. CASE Registered # 0
    <3> DEFINE n == (Registered - b.gaps) * 100
               m == (Registered - a.gaps) * 100
    <3>1. n \in Nat /\ m \in Nat /\ n <= m /\ Registered \in Nat \ {0}
      BY <1>1, <2>2
    <3>2. /\ Rounded(n, Registered) \in Nat /\ Rounded(m, Registered) \in Nat
          /\ Rounded(n, Registered) <= Rounded(m, Registered)
      <4> HIDE DEF n, m
      <4>1. m <= m
        BY <3>1
      <4>2. QED
        BY <3>1, <4>1, RoundedKeepsOrder
    <3>3. /\ Incomplete(a) \in Int /\ Incomplete(b) \in Int
          /\ Incomplete(a) <= Incomplete(b)
      BY <3>2 DEF Incomplete
    <3>4. QED
      BY <1>1, <3>3 DEF GapPoints
  <2>3. QED
    BY <2>1, <2>2
<1>4. QED
  BY <1>2, <1>3

LEMMA SignalsEase ==
  ASSUME NEW b \in Boards, NEW a \in Boards, Eases(b, a), NEW i \in 1 .. 8
  PROVE  Signals(a)[i] <= Signals(b)[i]
<1>1. OverdueTasks(a) <= OverdueTasks(b)
  BY FewerSum DEF OverdueTasks
<1>2. /\ OverdueTasks(a) \in Nat /\ OverdueTasks(b) \in Nat
      /\ IndependentlyBlocked(a) \in Nat /\ IndependentlyBlocked(b) \in Nat
  BY CountsAreNat
<1>3. OverduePoints(a) <= OverduePoints(b)
  BY <1>1, <1>2 DEF OverduePoints, AtMost
<1>4. BlockedPoints(a) <= BlockedPoints(b)
  BY <1>2, BlockedEases DEF BlockedPoints, AtMost
<1>5. SilentPoints(a) <= SilentPoints(b) /\ StalePoints(a) <= StalePoints(b)
  <2>1. /\ a.silent \in Nat /\ b.silent \in Nat /\ a.silent <= b.silent
        /\ a.stale \in Nat /\ b.stale \in Nat /\ a.stale <= b.stale
    BY BoardFields DEF Eases
  <2>2. QED
    BY <2>1 DEF SilentPoints, StalePoints, AtMost
<1>6. ImminentPoints(a) <= ImminentPoints(b)
  <2>1. /\ OpenOf(a, "CRITICAL") \in Nat /\ OpenOf(a, "HIGH") \in Nat
        /\ OpenOf(b, "CRITICAL") \in Nat /\ OpenOf(b, "HIGH") \in Nat
    BY CountsAreNat, GradesAre
  <2>2. a.imminent = b.imminent
    BY DEF Eases
  <2>3. OpenOf(a, "CRITICAL") + OpenOf(a, "HIGH") + OverdueTasks(a) > 0
          => OpenOf(b, "CRITICAL") + OpenOf(b, "HIGH") + OverdueTasks(b) > 0
    BY <1>1, <1>2, <2>1, OpenEases
  <2>4. QED
    BY <2>2, <2>3 DEF ImminentPoints
<1>7. QED
  BY <1>3, <1>4, <1>5, <1>6, OpenEases, MoneyEases DEF Signals

LEMMA ReliefLowers ==
  ASSUME NEW b \in Boards, NEW a \in Boards, Eases(b, a)
  PROVE  Score(a) <= Score(b)
<1> DEFINE f == Signals(a)
           g == Signals(b)
<1>1. /\ IsFiniteSet(1 .. 8)
      /\ \A i \in 1 .. 8 : f[i] \in Nat
      /\ \A i \in 1 .. 8 : g[i] \in Nat
      /\ SumOver(f, 1 .. 8) \in Nat /\ SumOver(g, 1 .. 8) \in Nat
      /\ Score(a) = IF SumOver(f, 1 .. 8) < 100 THEN SumOver(f, 1 .. 8) ELSE 100
      /\ Score(b) = IF SumOver(g, 1 .. 8) < 100 THEN SumOver(g, 1 .. 8) ELSE 100
  BY ScoreIsSum
<1>2. \A i \in 1 .. 8 : f[i] <= g[i]
  BY SignalsEase
<1> HIDE DEF f, g
<1>3. \A i \in 1 .. 8 : f[i] \in Int /\ g[i] \in Int /\ f[i] <= g[i]
  BY <1>1, <1>2
<1>4. SumOver(f, 1 .. 8) <= SumOver(g, 1 .. 8)
  BY <1>1, <1>3, SumIsMonotone
<1>5. QED
  BY <1>1, <1>4

(* The records keep their forms. *)
HealthInv == regime \in Regimes /\ board \in Boards \cup {None}

LEMMA BoardChanges ==
  ASSUME board \in Boards, HealthNext
  PROVE  board' \in Boards
<1> USE DEF Changes
<1>1. /\ board.tasks \in [Trouble -> Nat] /\ board.others \in [Grades -> Nat]
      /\ Registered \in Nat
  BY BoardFields, HealthAssumption
<1>2. ASSUME NEW t \in [Trouble -> Nat], board' = [board EXCEPT !.tasks = t]
      PROVE  board' \in Boards
  BY <1>2 DEF Boards
<1>3. ASSUME NEW o \in [Grades -> Nat], board' = [board EXCEPT !.others = o]
      PROVE  board' \in Boards
  BY <1>3 DEF Boards
<1>4. CASE TaskChanges
  <2>1. PICK k \in Trouble :
          \/ board' = [board EXCEPT !.tasks[k] = @ + 1]
          \/ board.tasks[k] > 0 /\ board' = [board EXCEPT !.tasks[k] = @ - 1]
    BY <1>4 DEF TaskChanges
  <2>2. \E t \in [Trouble -> Nat] : board' = [board EXCEPT !.tasks = t]
    <3>1. CASE board' = [board EXCEPT !.tasks[k] = @ + 1]
      <4>1. [board.tasks EXCEPT ![k] = @ + 1] \in [Trouble -> Nat]
        BY <1>1
      <4>2. QED
        BY <3>1, <4>1
    <3>2. CASE board.tasks[k] > 0 /\ board' = [board EXCEPT !.tasks[k] = @ - 1]
      <4>1. [board.tasks EXCEPT ![k] = @ - 1] \in [Trouble -> Nat]
        BY <1>1, <3>2
      <4>2. QED
        BY <3>2, <4>1
    <3>3. QED
      BY <2>1, <3>1, <3>2
  <2>3. QED
    BY <1>2, <2>2
<1>5. CASE OtherIncidents
  <2>1. PICK g \in Grades :
          \/ board' = [board EXCEPT !.others[g] = @ + 1]
          \/ board.others[g] > 0 /\ board' = [board EXCEPT !.others[g] = @ - 1]
    BY <1>5 DEF OtherIncidents
  <2>2. \E o \in [Grades -> Nat] : board' = [board EXCEPT !.others = o]
    <3>1. CASE board' = [board EXCEPT !.others[g] = @ + 1]
      <4>1. [board.others EXCEPT ![g] = @ + 1] \in [Grades -> Nat]
        BY <1>1
      <4>2. QED
        BY <3>1, <4>1
    <3>2. CASE board.others[g] > 0 /\ board' = [board EXCEPT !.others[g] = @ - 1]
      <4>1. [board.others EXCEPT ![g] = @ - 1] \in [Grades -> Nat]
        BY <1>1, <3>2
      <4>2. QED
        BY <3>2, <4>1
    <3>3. QED
      BY <2>1, <3>1, <3>2
  <2>3. QED
    BY <1>3, <2>2
<1>6. CASE IncidentChanges
  BY <1>6 DEF IncidentChanges, Boards
<1>7. CASE PeopleChange
  BY <1>7 DEF PeopleChange, Boards
<1>8. CASE MoneyChanges
  BY <1>8, HealthAssumption DEF MoneyChanges, Boards
<1>9. CASE StartNears
  BY <1>9, Zenon DEF StartNears, Boards
<1>10. QED
  BY <1>4, <1>5, <1>6, <1>7, <1>8, <1>9 DEF HealthNext

LEMMA HealthStep == HealthInv /\ [HealthNext]_healthVars => HealthInv'
<1>1. CASE UNCHANGED healthVars
  BY <1>1 DEF healthVars, HealthInv
<1>2. ASSUME HealthInv, HealthNext PROVE HealthInv'
  <2>1. board # None /\ UNCHANGED regime
    BY <1>2 DEF HealthNext, TaskChanges, IncidentChanges, OtherIncidents, PeopleChange,
       MoneyChanges, StartNears, Changes
  <2>2. board' \in Boards
    BY <1>2, <2>1, BoardChanges DEF HealthInv
  <2>3. QED
    BY <1>2, <2>1, <2>2 DEF HealthInv
<1>3. QED
  BY <1>1, <1>2

(* Whatever happens to work, incidents, people and money: relief never      *)
(* raises the score, one open critical incident shows, and no signal alone  *)
(* makes an event RED.                                                      *)
THEOREM ScoreStaysSound == HealthSpec => ScoreIsSound
<1>1. HealthInit => HealthInv
  BY HealthAssumption DEF HealthInit, HealthInv
<1>2. HealthInv => CriticalShows /\ NoSignalAloneIsRed
  BY OneCriticalShows, OneSignalIsNotRed DEF HealthInv, CriticalShows, NoSignalAloneIsRed
<1>3. HealthInv /\ [HealthNext]_healthVars
        => [board' # board /\ Eases(board, board') => Score(board') <= Score(board)]_healthVars
  <2> SUFFICES ASSUME HealthInv, HealthNext, Eases(board, board')
               PROVE  Score(board') <= Score(board)
    OBVIOUS
  <2>1. board \in Boards
    BY DEF HealthInv, HealthNext, TaskChanges, IncidentChanges, OtherIncidents, PeopleChange,
       MoneyChanges, StartNears, Changes
  <2>2. board' \in Boards
    BY <2>1, BoardChanges
  <2>3. QED
    BY <2>1, <2>2, ReliefLowers
<1>4. QED
  BY <1>1, <1>2, <1>3, HealthStep, PTL DEF HealthSpec, ScoreIsSound, ReliefDoesNotHurt

---------------------------------------------------------------------------
(***************************************************************************)
(* The parts beside each other.                                            *)
(***************************************************************************)

LEMMA TasksKeepRegime == TasksNext => UNCHANGED regime
<1> USE DEF TeamCallEnds
<1>1. ASSUME NEW c \in Calls, BeginTeamRequest(c) \/ TeamCallDies(c) PROVE UNCHANGED regime
  BY <1>1 DEF BeginTeamRequest, TeamCallDies
<1>2. ASSUME NEW c \in Calls, ServeTeam(c) PROVE UNCHANGED regime
  BY <1>2 DEF ServeTeam, PutTeam, FindTeams, PutDefaultTeams, ChangeTeam, FindTeam, PutMember, Reactivate,
     CountMember, NameLead, FindMember, Deactivate, UncountMember
<1>3. ASSUME NEW c \in Calls, BeginTaskRequest(c) \/ ServeTask(c) PROVE UNCHANGED regime
  <2>1. BeginTaskRequest(c) \/ FindTask(c) \/ RefuseTask(c) => UNCHANGED regime
    BY DEF BeginTaskRequest, FindTask, RefuseTask, StillTeam
  <2>2. WriteTask(c) => UNCHANGED regime
    BY DEF WriteTask, StillTeam
  <2>3. QED
    BY <1>3, <2>1, <2>2 DEF ServeTask
<1>4. CreateTask => UNCHANGED regime
  BY DEF CreateTask, StillTeam, teamVars
<1>5. TeamsNext => UNCHANGED regime
  BY <1>1, <1>2 DEF TeamsNext
<1>6. (\E c \in Calls : BeginTaskRequest(c) \/ ServeTask(c)) => UNCHANGED regime
  BY <1>3
<1>7. QED
  BY <1>4, <1>5, <1>6 DEF TasksNext

LEMMA EventsKeepRegime == EventsNext => UNCHANGED regime
BY DEF EventsNext, DayPasses, SimulationRuns, CreateEvent, BeginEventRequest, ServeEvent,
   EventCallDies, EnsureEventBudget, CheckTransition, WriteTransition, UpdateEvent, ReadForPlan, ReadTitles, WritePlanBatch, PutCopy,
   ReadStructure, WriteCopyBatch, EnsureCopyBudget

LEMMA SimulationKeepsRegime == SimulationNext => UNCHANGED regime
BY DEF SimulationNext, Advance, PlayerDies, Reset, BeginStep, TakeSnapshot, RefuseStep, SpeakerResponds,
   TaskOverdue, ReportTrouble, CommentOnTrouble, CreateWork, Recommend, Recalculate, ChooseCategory,
   RequestHire, CommitHire, DecideHire, CompleteWork, ResolveTrouble, SaveProgress

LEMMA DocumentsKeepRegime == DocumentsNext => UNCHANGED regime
BY DEF DocumentsNext, BrowserPuts, UrlExpires, BeginFiling, File, FilerDies, RequestUpload, FindRow,
   HeadObject, ConfirmRow, RemoveObject, RemoveRow

LEMMA HealthKeepsRegime == HealthNext => UNCHANGED regime
BY DEF HealthNext, TaskChanges, IncidentChanges, OtherIncidents, PeopleChange, MoneyChanges, StartNears,
   Changes

LEMMA BoardStep ==
  ASSUME [MCNext]_<<OfTasks, OfEvents, OfSimulation, OfDocuments, board, regime>>
  PROVE  /\ [TasksNext]_taskVars /\ [EventsNext]_eventVars
         /\ [SimulationNext]_simVars /\ [DocumentsNext]_documentVars
         /\ [HealthNext]_healthVars
<1>1. UNCHANGED regime
  BY TasksKeepRegime, EventsKeepRegime, SimulationKeepsRegime, DocumentsKeepRegime, HealthKeepsRegime
  DEF MCNext
<1>2. /\ UNCHANGED OfTasks => UNCHANGED taskVars
      /\ UNCHANGED OfEvents => UNCHANGED eventVars
      /\ UNCHANGED OfSimulation => UNCHANGED simVars
      /\ UNCHANGED OfDocuments => UNCHANGED documentVars
      /\ UNCHANGED board => UNCHANGED healthVars
  BY <1>1 DEF OfTasks, OfEvents, OfSimulation, OfDocuments, EventItem, Records, taskVars, teamVars,
     eventVars, simVars, documentVars, healthVars
<1>3. /\ TasksNext \/ UNCHANGED OfTasks
      /\ EventsNext \/ UNCHANGED OfEvents
      /\ SimulationNext \/ UNCHANGED OfSimulation
      /\ DocumentsNext \/ UNCHANGED OfDocuments
      /\ HealthNext \/ UNCHANGED board
  BY DEF MCNext
<1>4. QED
  BY <1>2, <1>3

(* Beside the others every part takes its own steps and no more: a step of  *)
(* the console's board is a step of one part and leaves the rest alone, so  *)
(* whatever is proved of a part holds of it there.                          *)
THEOREM PartsKeepTheirSteps ==
  MCSpec => TasksSpec /\ EventsSpec /\ SimulationSpec /\ DocumentsSpec /\ HealthSpec
<1>1. MCInit => TasksInit /\ EventsInit /\ SimulationInit /\ DocumentsInit /\ HealthInit
  BY DEF MCInit
<1>2. QED
  BY <1>1, BoardStep, PTL
  DEF MCSpec, TasksSpec, EventsSpec, SimulationSpec, DocumentsSpec, HealthSpec

(* The items of the team, the task and the event keep their types, whatever *)
(* the requests of their APIs write, and deadlines stay dates.              *)
THEOREM BoardKeepsTypes == MCSpec => []BoardTypeOK
<1>1. TasksTypeOK /\ EventsTypeOK => BoardTypeOK
  BY DEF BoardTypeOK
<1>2. QED
  BY <1>1, PartsKeepTheirSteps, TaskTypeCorrect, EventTypeCorrect, PTL
=============================================================================
