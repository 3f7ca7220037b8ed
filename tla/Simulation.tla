----------------------------- MODULE Simulation -----------------------------
(***************************************************************************)
(* The stepwise simulation (services/api/simulation_handler): a counter    *)
(* and three ids on the EVENT item say how far a run has come and which    *)
(* incident, approval and task it made; every step writes real records.    *)
(* The money moves through budget_service.commit, one indivisible move as  *)
(* Budget shows; here a unit of headroom is the price of one hire.         *)
(***************************************************************************)
EXTENDS Integers, Sequences, FiniteSets, Invocations

CONSTANTS
  Speakers0     \* speakers still to answer when a behaviour begins

VARIABLES
  progress,     \* simulation_step, and the ids beside it on the EVENT item
  ids,
  inherited,    \* history: progress was copied from another event, and not reset since
  awaiting,     \* speakers who have not answered
  works,        \* TASK items: open, late, the incident they come from
  troubles,     \* INCIDENT items: status, comment_count, the comments stored
  requests,     \* APPROVAL items: status and category
  headroom,     \* hires each category can still absorb
  committed,    \* hires committed
  players,      \* the leaders' requests: one after another by each
  orphaned      \* history: invocations that died between the money and the decision

simVars == <<progress, ids, inherited, awaiting, works, troubles, requests, headroom, committed,
             players, orphaned, regime>>

TotalSteps == 9
Hires == {"EQUIPMENT", "EMERGENCY"}
NoIds == [incident |-> None, approval |-> None, task |-> None]
Elsewhere == 0     \* the id of a record of another event
NewWork(from) == [open |-> TRUE, late |-> FALSE, from |-> from]

(* Of a regime: equipment and emergency, the headroom there is at first;    *)
(* records, the bound on the incidents, tasks and approvals made; copied,   *)
(* whether duplicate_event made the event; lags, whether the index does.    *)
ASSUME SimulationAssumption ==
  /\ None \notin Nat
  /\ \A r \in Regimes : r.part = "simulation" =>
       /\ {"equipment", "emergency", "records", "copied", "lags"} \subseteq DOMAIN r
       /\ r.equipment \in Nat /\ r.emergency \in Nat /\ r.records \in Nat
       /\ r.copied \in BOOLEAN /\ r.lags \in BOOLEAN

Copied == regime.part = "simulation" /\ regime.copied
Lags == regime.part = "simulation" /\ regime.lags

(* The ids of a source whose runs have reached a step. *)
CopiedIds(reached) ==
  [incident |-> IF reached >= 3 THEN Elsewhere ELSE None,
   approval |-> IF reached >= 6 THEN Elsewhere ELSE None,
   task |-> IF reached >= 4 THEN Elsewhere ELSE None]

SimulationInit ==
  /\ regime \in Regimes
  /\ IF Copied
     THEN \E reached \in 0 .. TotalSteps : progress \in 0 .. reached /\ ids = CopiedIds(reached)
     ELSE progress = 0 /\ ids = NoIds
  /\ inherited = (progress > 0)
  /\ awaiting = Speakers0
  /\ works = <<NewWork(None), NewWork(None)>>
  /\ troubles = <<>> /\ requests = <<>>
  /\ headroom = IF regime.part = "simulation"
                THEN [h \in Hires |-> IF h = "EQUIPMENT" THEN regime.equipment
                                                         ELSE regime.emergency]
                ELSE [h \in Hires |-> 0]
  /\ committed = 0 /\ orphaned = 0
  /\ players = AllIdle

Records == <<awaiting, works, troubles, requests, headroom, committed>>
EventItem == <<progress, ids, inherited>>
Rests(c) == players' = [players EXCEPT ![c] = Invocation("idle", None, None)]
StepOf(c) == players[c].req
AtStep(c, step, at) == StepOf(c) = step /\ players[c].at = at

(* Leaves the step: what it made goes into the ids that will be saved.      *)
Finishes(c, made) ==
  players' = [players EXCEPT ![c].at = "save", ![c].saw = [ids |-> made, seen |-> None]]

---------------------------------------------------------------------------
(* advance: the EVENT item is read first, ...                               *)
Reset(c) ==
  /\ MayBegin(players, c) /\ "reset" \in regime.kinds /\ progress > 0
  /\ progress' = 0 /\ inherited' = FALSE
  /\ UNCHANGED <<ids, Records, players, orphaned, regime>>

BeginStep(c) ==
  /\ MayBegin(players, c) /\ progress < TotalSteps
  /\ players' = [players EXCEPT ![c] =
                   Invocation("snapshot", progress + 1, [ids |-> ids, seen |-> None])]
  /\ UNCHANGED <<EventItem, Records, orphaned, regime>>

(* What an item reads as, now or at an earlier time.                        *)
WorkWas(w) ==
  {[w EXCEPT !.open = o, !.late = l] : o \in {TRUE, w.open}, l \in {FALSE, w.late}}
TroubleWas(t) ==
  {[t EXCEPT !.status = s, !.count = n] : s \in {"REPORTED", t.status}, n \in 1 .. t.count}
RequestWas(r) == {[r EXCEPT !.status = s] : s \in {"PENDING", r.status}}

(* Of items that may each read in some ways, the first so many.             *)
Behind(ways) ==
  UNION {{s \in [1 .. n -> UNION {ways[i] : i \in 1 .. n}] : \A i \in 1 .. n : s[i] \in ways[i]}
         : n \in 0 .. Len(ways)}

(* ... then one snapshot of the event, from which the step takes all it     *)
(* knows of the records: here only what the step looks at.  It is a query   *)
(* of an index, which may lag behind the items.                             *)
SeenAwaiting == IF Lags THEN {s \in SUBSET Speakers0 : awaiting \subseteq s} ELSE {awaiting}
SeenWorks == IF Lags THEN Behind([i \in DOMAIN works |-> WorkWas(works[i])]) ELSE {works}
SeenTroubles ==
  IF Lags THEN Behind([i \in DOMAIN troubles |-> TroubleWas(troubles[i])]) ELSE {troubles}
SeenRequests ==
  IF Lags THEN Behind([i \in DOMAIN requests |-> RequestWas(requests[i])]) ELSE {requests}

SnapshotFor(step) ==
  [awaiting : IF step = 1 THEN SeenAwaiting ELSE {{}},
   works : IF step \in {2, 8} THEN SeenWorks ELSE {<<>>},
   troubles : IF step \in {4, 8} THEN SeenTroubles ELSE {<<>>},
   requests : IF step = 7 THEN SeenRequests ELSE {<<>>}]

TakeSnapshot(c) ==
  /\ players[c].at = "snapshot"
  /\ \E seen \in SnapshotFor(StepOf(c)) :
       players' = [players EXCEPT ![c].at = "run", ![c].saw.seen = seen]
  /\ UNCHANGED <<EventItem, Records, orphaned, regime>>

Candidates(seen) ==
  {i \in DOMAIN seen.works : seen.works[i].open /\ ~seen.works[i].late}

(* Mutation of RunIncident: the first open incident there is. *)
RunIncidentFirstOpen(saw) ==
  LET open == {i \in DOMAIN saw.seen.troubles : saw.seen.troubles[i].status # "RESOLVED"}
  IN IF open = {} THEN None ELSE CHOOSE i \in open : \A j \in open : i <= j

(* _run_incident: the one this run made. *)
RunIncident(saw) == saw.ids.incident

(* Mutation of Decidable: whatever became of the request. *)
DecidableAgain(saw) == saw.ids.approval \in DOMAIN saw.seen.requests

(* _step_approve_and_commit looks at the snapshot. *)
Decidable(saw) ==
  /\ saw.ids.approval \in DOMAIN saw.seen.requests
  /\ saw.seen.requests[saw.ids.approval].status = "PENDING"

(* What is refused with CONFLICT before anything is written. *)
Unavailable(step, saw) ==
  \/ step = 1 /\ saw.seen.awaiting = {}
  \/ step = 2 /\ Candidates(saw.seen) = {}
  \/ step \in {4, 8} /\ RunIncident(saw) \notin DOMAIN saw.seen.troubles
  \/ step = 6 /\ \A h \in Hires : headroom[h] = 0
  \/ step = 7 /\ ~Decidable(saw)
  \/ step = 8 /\ RunIncident(saw) \in DOMAIN saw.seen.troubles
              /\ saw.seen.troubles[RunIncident(saw)].status = "RESOLVED"

RefuseStep(c) ==
  /\ players[c].at = "run" /\ Unavailable(StepOf(c), players[c].saw)
  /\ Rests(c)
  /\ UNCHANGED <<EventItem, Records, orphaned, regime>>

Runs(c, step) == AtStep(c, step, "run") /\ ~Unavailable(step, players[c].saw)
Keeps(c) == Finishes(c, players[c].saw.ids)
Writing(c, at) == players' = GoneTo(players, c, at)

---------------------------------------------------------------------------
(* The steps. *)

SpeakerResponds(c) ==
  /\ Runs(c, 1)
  /\ \E s \in players[c].saw.seen.awaiting : awaiting' = awaiting \ {s}
  /\ Keeps(c)
  /\ UNCHANGED <<EventItem, works, troubles, requests, headroom, committed, orphaned, regime>>

TaskOverdue(c) ==
  /\ Runs(c, 2)
  /\ \E i \in Candidates(players[c].saw.seen) : works' = [works EXCEPT ![i].late = TRUE]
  /\ Keeps(c)
  /\ UNCHANGED <<EventItem, awaiting, troubles, requests, headroom, committed, orphaned, regime>>

(* Step 3 puts the incident, already counting its comment, then the comment. *)
ReportTrouble(c) ==
  /\ Runs(c, 3) /\ Len(troubles) < regime.records
  /\ troubles' = Append(troubles, [status |-> "REPORTED", count |-> 1, comments |-> 0])
  /\ players' = [players EXCEPT ![c].at = "first_comment",
                                ![c].saw.ids.incident = Len(troubles) + 1]
  /\ UNCHANGED <<EventItem, awaiting, works, requests, headroom, committed, orphaned, regime>>

CommentOnTrouble(c) ==
  /\ players[c].at \in {"first_comment", "analysis"}
  /\ IF players[c].at = "first_comment"
     THEN /\ troubles' = [troubles EXCEPT ![players[c].saw.ids.incident].comments = @ + 1]
          /\ Keeps(c)
     ELSE /\ troubles' = [troubles EXCEPT ![RunIncident(players[c].saw)].comments = @ + 1]
          /\ Writing(c, "recommend")
  /\ UNCHANGED <<EventItem, awaiting, works, requests, headroom, committed, orphaned, regime>>

(* Step 4 puts the task and the comment, then rewrites the incident, the    *)
(* count of comments from the snapshot.                                     *)
CreateWork(c) ==
  /\ Runs(c, 4) /\ Len(works) < regime.records + 2
  /\ works' = Append(works, NewWork(RunIncident(players[c].saw)))
  /\ players' = [players EXCEPT ![c].at = "analysis", ![c].saw.ids.task = Len(works) + 1]
  /\ UNCHANGED <<EventItem, awaiting, troubles, requests, headroom, committed, orphaned, regime>>

(* comment_count as of the snapshot, and the comment just stored.           *)
CommentsKnown(saw) == saw.seen.troubles[RunIncident(saw)].count + 1

Recommend(c) ==
  LET saw == players[c].saw
      i == RunIncident(saw)
  IN /\ players[c].at = "recommend"
     /\ troubles' = [troubles EXCEPT ![i].status = "RECOMMENDATION_READY",
                                     ![i].count = CommentsKnown(saw)]
     /\ Keeps(c)
     /\ UNCHANGED <<EventItem, awaiting, works, requests, headroom, committed, orphaned, regime>>

(* Steps 5 and 9 only compute. *)
Recalculate(c) ==
  /\ Runs(c, 5) \/ Runs(c, 9)
  /\ Keeps(c)
  /\ UNCHANGED <<EventItem, Records, orphaned, regime>>

(* Step 6 draws on EQUIPMENT if that can absorb the hire, else on EMERGENCY, *)
(* as it reads the budget, ...                                              *)
ChooseCategory(c) ==
  /\ Runs(c, 6) /\ Len(requests) < regime.records
  /\ players' =
       [players EXCEPT ![c].at = "request",
          ![c].saw = [ids |-> @.ids,
                      seen |-> IF headroom["EQUIPMENT"] > 0 THEN "EQUIPMENT" ELSE "EMERGENCY"]]
  /\ UNCHANGED <<EventItem, Records, orphaned, regime>>

(* ... and then puts the request.                                           *)
RequestHire(c) ==
  /\ players[c].at = "request"
  /\ requests' = Append(requests, [status |-> "PENDING", category |-> players[c].saw.seen])
  /\ Finishes(c, [players[c].saw.ids EXCEPT !.approval = Len(requests) + 1])
  /\ UNCHANGED <<EventItem, awaiting, works, troubles, headroom, committed, orphaned, regime>>

(* Step 7 commits, unless the budget refuses, ...                           *)
CommitHire(c) ==
  LET h == requests[players[c].saw.ids.approval].category IN
  /\ Runs(c, 7)
  /\ IF headroom[h] > 0
     THEN /\ headroom' = [headroom EXCEPT ![h] = @ - 1] /\ committed' = committed + 1
          /\ Writing(c, "decide")
     ELSE Rests(c) /\ UNCHANGED <<headroom, committed>>
  /\ UNCHANGED <<EventItem, awaiting, works, troubles, requests, orphaned, regime>>

(* ... then decides the request. *)
DecideHire(c) ==
  /\ players[c].at = "decide"
  /\ requests' = [requests EXCEPT ![players[c].saw.ids.approval].status = "APPROVED"]
  /\ Keeps(c)
  /\ UNCHANGED <<EventItem, awaiting, works, troubles, headroom, committed, orphaned, regime>>

(* Step 8 completes the task this run made, if it was open; without an id,  *)
(* the first one from the incident.                                         *)
RunTask(saw) ==
  {i \in DOMAIN saw.seen.works :
     saw.seen.works[i].open /\
       IF saw.ids.task # None THEN i = saw.ids.task
       ELSE saw.seen.works[i].from = RunIncident(saw)}

CompleteWork(c) ==
  /\ Runs(c, 8)
  /\ IF RunTask(players[c].saw) = {} THEN UNCHANGED works
     ELSE \E i \in RunTask(players[c].saw) : works' = [works EXCEPT ![i].open = FALSE]
  /\ Writing(c, "resolve")
  /\ UNCHANGED <<EventItem, awaiting, troubles, requests, headroom, committed, orphaned, regime>>

ResolveTrouble(c) ==
  /\ players[c].at = "resolve"
  /\ troubles' = [troubles EXCEPT ![RunIncident(players[c].saw)].status = "RESOLVED"]
  /\ Keeps(c)
  /\ UNCHANGED <<EventItem, awaiting, works, requests, headroom, committed, orphaned, regime>>

---------------------------------------------------------------------------
(* Ids a step does not have leave those on the item alone. *)
SavedIds(old, made) == [f \in DOMAIN old |-> IF made[f] # None THEN made[f] ELSE old[f]]

(* What every step ends with: an update without a condition. *)
SaveProgress(c) ==
  /\ players[c].at = "save"
  /\ progress' = StepOf(c)
  /\ ids' = SavedIds(ids, players[c].saw.ids)
  /\ Rests(c)
  /\ UNCHANGED <<inherited, Records, orphaned, regime>>

PlayerDies(c) ==
  /\ regime.failures /\ Active(players, c)
  /\ orphaned' = IF players[c].at = "decide" THEN orphaned + 1 ELSE orphaned
  /\ Rests(c)
  /\ UNCHANGED <<EventItem, Records, regime>>

Advance(c) ==
  \/ Reset(c) \/ BeginStep(c) \/ TakeSnapshot(c) \/ RefuseStep(c)
  \/ SpeakerResponds(c) \/ TaskOverdue(c) \/ ReportTrouble(c) \/ CommentOnTrouble(c)
  \/ CreateWork(c) \/ Recommend(c) \/ Recalculate(c) \/ ChooseCategory(c) \/ RequestHire(c)
  \/ CommitHire(c) \/ DecideHire(c) \/ CompleteWork(c) \/ ResolveTrouble(c)
  \/ SaveProgress(c)

SimulationNext == \E c \in Calls : Advance(c) \/ PlayerDies(c)

SimulationSpec == SimulationInit /\ [][SimulationNext]_simVars

---------------------------------------------------------------------------
NobodyPlays == \A c \in Calls : ~Active(players, c)
Approved == {i \in DOMAIN requests : requests[i].status = "APPROVED"}
Deciding == {c \in Calls : players[c].at = "decide"}

(* Requests in turn, of an index that has caught up with the one before.    *)
Steady == ~regime.overlap /\ ~Lags

(* "So a double-click cannot commit the same money twice": in turn there is *)
(* one approved request for every hire committed, but for invocations that  *)
(* died in between, whose step is then repeated; and however the requests   *)
(* overlap and the index lags, no request reads as approved without its     *)
(* money.                                                                   *)
CommittedIsApproved ==
  LET approved == Cardinality(Approved) + Cardinality(Deciding) + orphaned IN
  /\ approved <= committed
  /\ Steady => approved = committed

(* In turn the counter never runs ahead of the records of the run it counts: *)
(* its incident is analysed, its request decided, its work done and its     *)
(* incident resolved by the step that claims it, wherever invocations died  *)
(* and however often the counter was reset before.  A counter copied from   *)
(* another event has nothing to show until it is reset; from then on it has. *)
StepsAreEarned ==
  (Steady /\ ~inherited) =>
    /\ progress >= 3 => ids.incident \in DOMAIN troubles
    /\ progress \in 4 .. 7 => troubles[ids.incident].status # "REPORTED"
    /\ progress >= 6 => ids.approval \in DOMAIN requests
    /\ progress >= 7 => requests[ids.approval].status = "APPROVED"
    /\ progress >= 8 => /\ troubles[ids.incident].status = "RESOLVED"
                        /\ ~works[ids.task].open /\ works[ids.task].from = ids.incident

(* In turn and undisturbed, the count on an incident is that of its comments. *)
TroubleCountsComments ==
  (Steady /\ ~regime.failures /\ NobodyPlays) =>
    \A i \in DOMAIN troubles : troubles[i].count = troubles[i].comments

(* A run follows the records it makes: it claims no step they do not show,  *)
(* and counts on them what is there.                                        *)
RunsFollowTheirRecords == StepsAreEarned /\ TroubleCountsComments
=============================================================================
