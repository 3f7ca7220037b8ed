----------------------------- MODULE TasksProofs -----------------------------
(***************************************************************************)
(* Proofs about the team and its task, for any number of people, calls,    *)
(* requests and regimes.                                                   *)
(***************************************************************************)
EXTENDS Tasks, FiniteSetTheorems, TLAPS

---------------------------------------------------------------------------
(* Requests have the form their constructors give them. *)

LEMMA TeamRequestForms ==
  ASSUME NEW r \in TeamRequests
  PROVE  /\ r.kind \in {"create_team", "default_teams", "update_team", "add", "remove"}
         /\ r.kind = "add" => r.user \in Users /\ r.lead \in BOOLEAN
         /\ r.kind \in {"update_team", "remove"} => r.user \in Users
<1>1. r \in AnyTeamRequest
  BY TeamsAssumption
<1>2. CASE r \in {CreateTeam, DefaultTeams}
  BY <1>2 DEF CreateTeam, DefaultTeams
<1>3. CASE r \in {UpdateTeam(u) : u \in Users} \cup {RemoveMember(u) : u \in Users}
  BY <1>3 DEF UpdateTeam, RemoveMember
<1>4. CASE r \in {AddMember(u, lead) : u \in Users, lead \in BOOLEAN}
  <2>1. PICK u \in Users, lead \in BOOLEAN : r = AddMember(u, lead)
    BY <1>4
  <2>2. r.kind = "add" /\ r.user = u /\ r.lead = lead
    BY <2>1 DEF AddMember
  <2>3. QED
    BY <2>2
<1>5. QED
  BY <1>1, <1>2, <1>3, <1>4 DEF AnyTeamRequest

OfUpdate(r) ==
  /\ r.status \in TaskStatuses \cup {None} /\ r.due \in DueDates \cup {None}
  /\ r.assignee \in Persons \cup {None} /\ r.reason \in Reasons
  /\ r.kind = "tool_update" => r.due = None /\ r.assignee = None

LEMMA TaskRequestForms ==
  ASSUME NEW r \in TaskRequests
  PROVE  /\ r.kind \in {"update", "tool_update", "reassign", "tool_assign"} /\ r.by \in Persons
         /\ r.kind \in {"update", "tool_update"} => OfUpdate(r)
         /\ r.kind \in {"reassign", "tool_assign"} => r.assignee \in Persons
<1>1. r \in AnyTaskRequest
  BY TaskAssumption
<1>2. CASE r \in {UpdateTask(by, status, due, assignee, reason) :
                    by \in Persons, status \in TaskStatuses \cup {None}, due \in DueDates \cup {None},
                    assignee \in Persons \cup {None}, reason \in Reasons}
  BY <1>2 DEF UpdateTask, OfUpdate
<1>3. CASE r \in {UpdateTaskTool(by, status, reason) :
                    by \in Persons, status \in TaskStatuses \cup {None}, reason \in Reasons}
  BY <1>3 DEF UpdateTaskTool, OfUpdate
<1>4. CASE r \in {Reassign(by, assignee) : by \in Persons, assignee \in Persons}
  BY <1>4 DEF Reassign
<1>5. CASE r \in {AssignTool(by, assignee) : by \in Persons, assignee \in Persons}
  BY <1>5 DEF AssignTool
<1>6. QED
  BY <1>1, <1>2, <1>3, <1>4, <1>5 DEF AnyTaskRequest

---------------------------------------------------------------------------
(* What each handler makes of the item. *)

(* The fields of an item, without their types. *)
ItemFields == {"status", "due", "assignee", "reason", "completed", "gsi1", "gsi2"}

LEMMA ItemsAreRecords ==
  ASSUME NEW t, t = [f \in ItemFields |-> t[f]],
         t.status \in TaskStatuses, t.due \in DueDates \cup {None}, t.assignee \in Persons \cup {None},
         t.reason \in BOOLEAN, t.completed \in BOOLEAN, t.gsi1 \in TaskStatuses,
         t.gsi2 \in TaskStatuses \X (DueDates \cup {None})
  PROVE  t \in TaskItem
BY Zenon DEF TaskItem, ItemFields

LEMMA ItemParts ==
  ASSUME NEW t \in TaskItem
  PROVE  /\ t = [f \in ItemFields |-> t[f]] /\ DOMAIN t = ItemFields
         /\ t.status \in TaskStatuses /\ t.due \in DueDates \cup {None} /\ t.assignee \in Persons \cup {None}
         /\ t.reason \in BOOLEAN /\ t.completed \in BOOLEAN /\ t.gsi1 \in TaskStatuses
         /\ t.gsi2 \in TaskStatuses \X (DueDates \cup {None})
BY Zenon DEF TaskItem, ItemFields

(* The status and both keys. *)
LEMMA MovedParts ==
  ASSUME NEW t, t = [f \in ItemFields |-> t[f]], NEW status, NEW due
  PROVE  LET w == StatusMoved(t, status, due) IN
         /\ w = [f \in ItemFields |-> w[f]]
         /\ w.status = status /\ w.gsi1 = status /\ w.gsi2 = <<status, due>>
         /\ w.due = t.due /\ w.assignee = t.assignee /\ w.reason = t.reason /\ w.completed = t.completed
BY DEF StatusMoved, ItemFields

(* What an update makes of the other fields. *)
Reasoned(t, r) ==
  IF r.reason = "given" THEN TRUE
  ELSE IF r.kind = "update" /\ r.reason = "empty" THEN FALSE ELSE t.reason

LEMMA UpdatedParts ==
  ASSUME NEW t \in TaskItem, NEW r, NEW read, r.kind \in {"update", "tool_update"}
  PROVE  LET w == TaskWritten(t, r, read) IN
         /\ w = [f \in ItemFields |-> w[f]]
         /\ w.status = Given(r.status, t.status) /\ w.due = Given(r.due, t.due)
         /\ w.assignee = Given(r.assignee, t.assignee)
         /\ w.reason = Reasoned(t, r) /\ w.completed = Completion(t, r, read)
         /\ r.status # None => w.gsi1 = r.status /\ w.gsi2 = <<r.status, Given(r.due, read.due)>>
         /\ r.status = None => w.gsi1 = t.gsi1
         /\ r.status = None /\ r.due # None => w.gsi2 = <<read.status, r.due>>
         /\ r.status = None /\ r.due = None => w.gsi2 = t.gsi2
<1> DEFINE fields == [t EXCEPT !.due = Given(r.due, @), !.assignee = Given(r.assignee, @),
                               !.reason = IF r.reason = "given" THEN TRUE
                                          ELSE IF r.kind = "update" /\ r.reason = "empty" THEN FALSE
                                          ELSE @,
                               !.completed = Completion(t, r, read)]
           due == Given(r.due, read.due)
<1>1. t = [f \in ItemFields |-> t[f]] /\ DOMAIN t = ItemFields
  BY ItemParts
<1>2. TaskWritten(t, r, read) =
        IF r.status # None THEN StatusMoved(fields, r.status, due)
        ELSE IF r.due # None THEN [fields EXCEPT !.gsi2 = <<read.status, r.due>>]
        ELSE fields
  BY DEF TaskWritten, TaskUpdated
<1>3. /\ fields = [f \in ItemFields |-> fields[f]] /\ DOMAIN fields = ItemFields
  BY <1>1 DEF ItemFields
<1>4. /\ fields.status = t.status /\ fields.gsi1 = t.gsi1 /\ fields.gsi2 = t.gsi2
      /\ fields.due = Given(r.due, t.due) /\ fields.assignee = Given(r.assignee, t.assignee)
  BY <1>1 DEF ItemFields
<1>5. fields.reason = Reasoned(t, r)
  BY <1>1 DEF ItemFields, Reasoned
<1>6. fields.completed = Completion(t, r, read)
  BY <1>1 DEF ItemFields
<1> HIDE DEF fields, due
<1>7. CASE r.status # None
  <2>1. TaskWritten(t, r, read) = StatusMoved(fields, r.status, due)
    BY <1>2, <1>7
  <2>2. QED
    BY <2>1, <1>3, <1>4, <1>5, <1>6, <1>7, MovedParts DEF Given, due
<1>8. CASE r.status = None /\ r.due # None
  <2>1. TaskWritten(t, r, read) = [fields EXCEPT !.gsi2 = <<read.status, r.due>>]
    BY <1>2, <1>8
  <2>2. QED
    BY <2>1, <1>3, <1>4, <1>5, <1>6, <1>8 DEF Given, ItemFields
<1>9. CASE r.status = None /\ r.due = None
  <2>1. TaskWritten(t, r, read) = fields
    BY <1>2, <1>9
  <2>2. QED
    BY <2>1, <1>3, <1>4, <1>5, <1>6, <1>9 DEF Given
<1>10. QED
  BY <1>7, <1>8, <1>9

LEMMA AssignedParts ==
  ASSUME NEW t \in TaskItem, NEW r, NEW read, r.kind \in {"reassign", "tool_assign"}
  PROVE  LET w == TaskWritten(t, r, read) IN
         /\ w = [f \in ItemFields |-> w[f]]
         /\ w.due = t.due /\ w.assignee = r.assignee /\ w.reason = t.reason /\ w.completed = t.completed
         /\ \/ w.status = t.status /\ w.gsi1 = t.gsi1 /\ w.gsi2 = t.gsi2
            \/ w.status = "ASSIGNED" /\ w.gsi1 = "ASSIGNED" /\ w.gsi2 = <<"ASSIGNED", read.due>>
<1> DEFINE moved == [t EXCEPT !.assignee = r.assignee]
<1>1. t = [f \in ItemFields |-> t[f]] /\ DOMAIN t = ItemFields
  BY ItemParts
<1>2. /\ moved = [f \in ItemFields |-> moved[f]] /\ moved.assignee = r.assignee
      /\ moved.status = t.status /\ moved.due = t.due /\ moved.gsi1 = t.gsi1 /\ moved.gsi2 = t.gsi2
      /\ moved.reason = t.reason /\ moved.completed = t.completed
  BY <1>1 DEF ItemFields
<1>3. TaskWritten(t, r, read) \in {StatusMoved(moved, "ASSIGNED", read.due), moved}
  BY DEF TaskWritten, TaskReassigned
<1> HIDE DEF moved
<1>4. CASE TaskWritten(t, r, read) = moved
  BY <1>2, <1>4
<1>5. CASE TaskWritten(t, r, read) = StatusMoved(moved, "ASSIGNED", read.due)
  BY <1>2, <1>5, MovedParts
<1>6. QED
  BY <1>3, <1>4, <1>5

LEMMA WrittenIsItem ==
  ASSUME NEW t \in TaskItem, NEW r \in TaskRequests, NEW read \in TaskItem
  PROVE  TaskWritten(t, r, read) \in TaskItem
<1> DEFINE w == TaskWritten(t, r, read)
<1>1. /\ t.status \in TaskStatuses /\ t.due \in DueDates \cup {None} /\ t.assignee \in Persons \cup {None}
      /\ t.reason \in BOOLEAN /\ t.completed \in BOOLEAN /\ t.gsi1 \in TaskStatuses
      /\ t.gsi2 \in TaskStatuses \X (DueDates \cup {None})
      /\ read.status \in TaskStatuses /\ read.due \in DueDates \cup {None}
  BY ItemParts
<1>2. CASE r.kind \in {"update", "tool_update"}
  <2>1. OfUpdate(r)
    BY <1>2, TaskRequestForms
  <2>2. /\ w = [f \in ItemFields |-> w[f]]
        /\ w.status = Given(r.status, t.status) /\ w.due = Given(r.due, t.due)
        /\ w.assignee = Given(r.assignee, t.assignee)
        /\ w.reason = Reasoned(t, r) /\ w.completed = Completion(t, r, read)
        /\ r.status # None => w.gsi1 = r.status /\ w.gsi2 = <<r.status, Given(r.due, read.due)>>
        /\ r.status = None => w.gsi1 = t.gsi1
        /\ r.status = None /\ r.due # None => w.gsi2 = <<read.status, r.due>>
        /\ r.status = None /\ r.due = None => w.gsi2 = t.gsi2
    BY <1>2, UpdatedParts
  <2> HIDE DEF w
  <2>3. w.status \in TaskStatuses /\ w.due \in DueDates \cup {None} /\ w.assignee \in Persons \cup {None}
    BY <1>1, <2>1, <2>2 DEF OfUpdate, Given
  <2>4. w.reason \in BOOLEAN
    BY <1>1, <2>2 DEF Reasoned
  <2>5. w.completed \in BOOLEAN
    BY <2>2 DEF Completion
  <2>6. w.gsi1 \in TaskStatuses
    BY <1>1, <2>1, <2>2 DEF OfUpdate
  <2>7. w.gsi2 \in TaskStatuses \X (DueDates \cup {None})
    BY <1>1, <2>1, <2>2 DEF OfUpdate, Given
  <2>8. QED
    BY <2>2, <2>3, <2>4, <2>5, <2>6, <2>7, ItemsAreRecords DEF w
<1>3. CASE r.kind \in {"reassign", "tool_assign"}
  <2>1. r.assignee \in Persons
    BY <1>3, TaskRequestForms
  <2>2. /\ w = [f \in ItemFields |-> w[f]]
        /\ w.due = t.due /\ w.assignee = r.assignee /\ w.reason = t.reason /\ w.completed = t.completed
        /\ \/ w.status = t.status /\ w.gsi1 = t.gsi1 /\ w.gsi2 = t.gsi2
           \/ w.status = "ASSIGNED" /\ w.gsi1 = "ASSIGNED" /\ w.gsi2 = <<"ASSIGNED", read.due>>
    BY <1>3, AssignedParts
  <2>3. "ASSIGNED" \in TaskStatuses
    BY DEF TaskStatuses
  <2> HIDE DEF w
  <2>4. w.status \in TaskStatuses /\ w.gsi1 \in TaskStatuses /\ w.gsi2 \in TaskStatuses \X (DueDates \cup {None})
    BY <1>1, <2>2, <2>3
  <2>5. QED
    BY <1>1, <2>1, <2>2, <2>4, ItemsAreRecords DEF w
<1>4. QED
  BY <1>2, <1>3, TaskRequestForms

---------------------------------------------------------------------------
(* A step of one invocation. *)
WorkStep(c) ==
  \/ (BeginTeamRequest(c) \/ ServeTeam(c) \/ TeamCallDies(c)) /\ UNCHANGED task
  \/ BeginTaskRequest(c) \/ ServeTask(c)

WorkShape == DOMAIN working = Calls /\ \A c \in Calls : DOMAIN working[c] = {"at", "req", "saw"}

WorkTurn(c) ==
  /\ DOMAIN working' = Calls /\ DOMAIN working'[c] = {"at", "req", "saw"}
  /\ \A d \in Calls \ {c} : working'[d] = working[d]
  /\ UNCHANGED regime

LEMMA WorkStepTurns ==
  ASSUME WorkShape, NEW c \in Calls, WorkStep(c)
  PROVE  WorkTurn(c)
<1>1. DOMAIN working = Calls /\ DOMAIN working[c] = {"at", "req", "saw"}
  BY DEF WorkShape
<1> USE <1>1 DEF WorkTurn, Invocation, TeamCallEnds, Done, GoneTo, After, Begun, Dead
<1>2. CASE BeginTeamRequest(c) \/ TeamCallDies(c)
  BY <1>2 DEF BeginTeamRequest, TeamCallDies
<1>3. CASE ServeTeam(c)
  BY <1>3 DEF ServeTeam, PutTeam, FindTeams, PutDefaultTeams, ChangeTeam, FindTeam, PutMember, Reactivate,
     CountMember, NameLead, FindMember, Deactivate, UncountMember
<1>4. CASE BeginTaskRequest(c) \/ ServeTask(c)
  BY <1>4 DEF BeginTaskRequest, ServeTask, FindTask, RefuseTask, WriteTask, StillTeam
<1>5. QED
  BY <1>2, <1>3, <1>4 DEF WorkStep

---------------------------------------------------------------------------
(* Types, and what every stage of a request knows for certain.              *)
AddStages == {"put", "reactivate", "count", "lead"}
LeaveStages == {"deactivate", "uncount"}

Asking(c) ==
  LET w == working[c] IN
  /\ w.at \in {"read", "batch"} \cup AddStages \cup LeaveStages =>
       w.req \in TeamRequests /\ w.req.kind \in regime.kinds
  /\ w.at \in AddStages => w.req.kind = "add"
  /\ w.at \in LeaveStages => w.req.kind = "remove"
  /\ w.at = "batch" => w.req.kind = "default_teams"
  /\ w.at = "reactivate" => membership[w.req.user] # "none"
  /\ w.at \in {"find", "write"} =>
       w.req \in TaskRequests /\ w.req.kind \in regime.kinds /\ task # None
  /\ w.at = "write" => w.saw \in TaskItem /\ ~TaskRefused(w.req, w.saw)

(* Nobody is on a team that is not there, or being added to it or removed.  *)
TeamStands ==
  team = None => /\ \A u \in Users : membership[u] = "none"
                 /\ \A c \in Calls : working[c].at \notin AddStages \cup LeaveStages

ShapeInv == WorkShape /\ TasksTypeOK /\ TeamStands /\ \A c \in Calls : Asking(c)

LEMMA ShapeInit == TasksInit => ShapeInv
<1> SUFFICES ASSUME TasksInit PROVE ShapeInv
  OBVIOUS
<1> USE DEF TasksInit, TeamsInit
<1>1. WorkShape /\ \A c \in Calls : working[c].at = "idle"
  BY DEF WorkShape, AllIdle, Invocation
<1>2. IsFiniteSet(Opening) /\ Opening \subseteq Users
  BY FS_EmptySet, TeamsAssumption DEF Opening
<1>3. team \in TeamItem \cup {None}
  <2>1. Cardinality(Opening) \in Int
    BY <1>2, FS_CardinalityType
  <2>2. QED
    BY <2>1 DEF TeamItem, NewTeam
<1>4. TasksTypeOK
  BY <1>1, <1>3 DEF TasksTypeOK, TeamsTypeOK, WorkShape
<1>5. team # None \/ Opening = {}
  <2>1. CASE Opening # {}
    <3>1. team \in TeamItem
      <4>1. Cardinality(Opening) \in Int
        BY <1>2, FS_CardinalityType
      <4>2. QED
        BY <2>1, <4>1 DEF TeamItem, NewTeam
    <3>2. QED
      BY <3>1, TeamsAssumption
  <2>2. QED
    BY <2>1
<1>6. TeamStands
  BY <1>1, <1>5 DEF TeamStands, AddStages, LeaveStages
<1>7. \A c \in Calls : Asking(c)
  BY <1>1 DEF Asking, AddStages, LeaveStages
<1>8. QED
  BY <1>1, <1>4, <1>6, <1>7 DEF ShapeInv

LEMMA ShapeFinds ==
  ASSUME ShapeInv, NEW c \in Calls
  PROVE  /\ DOMAIN working = Calls /\ DOMAIN working[c] = {"at", "req", "saw"}
         /\ Asking(c)
         /\ team \in TeamItem \cup {None} /\ membership \in [Users -> {"none", "active", "inactive"}]
         /\ task \in TaskItem \cup {None}
BY DEF ShapeInv, WorkShape, TasksTypeOK, TeamsTypeOK

(* What a step has to establish: the request it serves still fits, and      *)
(* nothing the others know of stops being so.                               *)
LEMMA ShapeKeeps ==
  ASSUME ShapeInv, NEW c \in Calls, WorkStep(c), Asking(c)',
         team' \in TeamItem \cup {None}, membership' \in [Users -> {"none", "active", "inactive"}],
         task' \in TaskItem \cup {None},
         team # None => team' # None,
         \A u \in Users : membership[u] # "none" => membership'[u] # "none",
         task # None => task' # None,
         team' = None => /\ membership' = membership
                         /\ working'[c].at \notin AddStages \cup LeaveStages
  PROVE  ShapeInv'
<1>1. WorkTurn(c)
  BY WorkStepTurns DEF ShapeInv
<1>2. WorkShape' /\ TasksTypeOK'
  BY <1>1 DEF WorkTurn, ShapeInv, WorkShape, TasksTypeOK, TeamsTypeOK
<1>3. TeamStands'
  BY <1>1 DEF WorkTurn, ShapeInv, TeamStands
<1>4. ASSUME NEW d \in Calls, d # c PROVE Asking(d)'
  <2>1. working'[d] = working[d] /\ regime' = regime /\ Asking(d)
    BY <1>1, <1>4 DEF WorkTurn, ShapeInv
  <2>2. working[d].at = "reactivate" => working[d].req.user \in Users
    <3>1. working[d].at = "reactivate" => working[d].req \in TeamRequests /\ working[d].req.kind = "add"
      BY <2>1 DEF Asking, AddStages
    <3>2. QED
      BY <3>1, TeamRequestForms
  <2>3. QED
    BY <2>1, <2>2 DEF Asking
<1>5. QED
  BY <1>2, <1>3, <1>4 DEF ShapeInv

(* Steps that write nothing. *)
LEMMA ShapeReads ==
  ASSUME ShapeInv, NEW c \in Calls, WorkStep(c), Asking(c)',
         UNCHANGED <<team, membership, task>>,
         team = None => working'[c].at \notin AddStages \cup LeaveStages
  PROVE  ShapeInv'
<1>1. /\ team \in TeamItem \cup {None} /\ membership \in [Users -> {"none", "active", "inactive"}]
      /\ task \in TaskItem \cup {None}
  BY ShapeFinds
<1>2. /\ team' \in TeamItem \cup {None} /\ membership' \in [Users -> {"none", "active", "inactive"}]
      /\ task' \in TaskItem \cup {None}
  BY <1>1
<1>3. QED
  BY <1>2, ShapeKeeps

LEMMA ShapeBegins ==
  ASSUME ShapeInv, NEW c \in Calls, BeginTeamRequest(c) /\ UNCHANGED task
  PROVE  ShapeInv'
<1>1. WorkStep(c) /\ UNCHANGED <<team, membership, task>>
  BY DEF WorkStep, BeginTeamRequest
<1>2. PICK r \in TeamRequests : r.kind \in regime.kinds /\ working' = Begun(working, c, r)
  BY DEF BeginTeamRequest
<1>3. working'[c].at = "read" /\ working'[c].req = r /\ regime' = regime
  BY <1>2, ShapeFinds DEF Begun, Invocation, BeginTeamRequest
<1>4. Asking(c)'
  BY <1>2, <1>3 DEF Asking, AddStages, LeaveStages
<1>5. QED
  BY <1>1, <1>3, <1>4, ShapeReads DEF AddStages, LeaveStages

LEMMA ShapeEnds ==
  ASSUME ShapeInv, NEW c \in Calls, WorkStep(c), working'[c].at \in {"end", "died"}
  PROVE  Asking(c)' /\ working'[c].at \notin AddStages \cup LeaveStages
BY DEF Asking, AddStages, LeaveStages

LEMMA ShapeDies ==
  ASSUME ShapeInv, NEW c \in Calls, TeamCallDies(c) /\ UNCHANGED task
  PROVE  ShapeInv'
<1>1. WorkStep(c) /\ UNCHANGED <<team, membership, task>>
  BY DEF WorkStep, TeamCallDies
<1>2. working'[c].at = "died"
  BY ShapeFinds DEF TeamCallDies, Dead, Invocation
<1>3. QED
  BY <1>1, <1>2, ShapeEnds, ShapeReads

LEMMA ShapePuts ==
  ASSUME ShapeInv, NEW c \in Calls, PutTeam(c) \/ PutDefaultTeams(c) \/ ChangeTeam(c), UNCHANGED task
  PROVE  ShapeInv'
<1>1. WorkStep(c) /\ UNCHANGED <<membership, regime, task>>
  BY DEF WorkStep, ServeTeam, PutTeam, PutDefaultTeams, ChangeTeam
<1>2. working'[c].at = "end"
  BY ShapeFinds DEF PutTeam, PutDefaultTeams, ChangeTeam, TeamCallEnds, Done, Invocation
<1>3. NewTeam \in TeamItem /\ NewTeam # None
  BY TeamsAssumption DEF TeamItem, NewTeam
<1>4. team' \in TeamItem \cup {None} /\ (team # None => team' # None)
  <2>1. CASE PutTeam(c) \/ PutDefaultTeams(c)
    BY <1>3, <2>1, ShapeFinds DEF PutTeam, PutDefaultTeams
  <2>2. CASE ChangeTeam(c)
    <3>1. working[c].req \in TeamRequests /\ working[c].req.kind = "update_team"
      BY <2>2, ShapeFinds DEF ChangeTeam, Asks, Asking
    <3>2. working[c].req.user \in Users
      BY <3>1, TeamRequestForms
    <3>3. team # None => team \in TeamItem /\ [team EXCEPT !.lead = working[c].req.user] \in TeamItem
      BY <3>2, ShapeFinds DEF TeamItem
    <3>4. QED
      BY <2>2, <3>3, TeamsAssumption DEF ChangeTeam
  <2>3. QED
    BY <2>1, <2>2
<1>5. membership' \in [Users -> {"none", "active", "inactive"}] /\ task' \in TaskItem \cup {None}
  BY <1>1, ShapeFinds
<1>6. QED
  BY <1>1, <1>2, <1>4, <1>5, ShapeEnds, ShapeKeeps

LEMMA ShapeFindsTeams ==
  ASSUME ShapeInv, NEW c \in Calls, FindTeams(c) \/ FindTeam(c) \/ FindMember(c), UNCHANGED task
  PROVE  ShapeInv'
<1>1. WorkStep(c) /\ UNCHANGED <<team, membership, task, regime>>
  BY DEF WorkStep, ServeTeam, FindTeams, FindTeam, FindMember
<1>2. working[c].at = "read" /\ working[c].req \in TeamRequests /\ working[c].req.kind \in regime.kinds
  BY ShapeFinds DEF FindTeams, FindTeam, FindMember, Asks, Asking
<1>3. CASE working'[c].at = "end"
  BY <1>1, <1>3, ShapeEnds, ShapeReads
<1>4. CASE FindTeams(c) /\ working'[c].at # "end"
  <2>1. working'[c].at = "batch" /\ working'[c].req = working[c].req /\ working[c].req.kind = "default_teams"
    BY <1>4, ShapeFinds DEF FindTeams, Asks, GoneTo, Done, Invocation
  <2>2. Asking(c)'
    BY <1>1, <1>2, <2>1 DEF Asking, AddStages, LeaveStages
  <2>3. QED
    BY <1>1, <2>1, <2>2, ShapeReads DEF AddStages, LeaveStages
<1>5. CASE FindTeam(c) /\ working'[c].at # "end"
  <2>1. /\ working'[c].at = "put" /\ working'[c].req = working[c].req /\ working[c].req.kind = "add"
        /\ team # None
    BY <1>5, ShapeFinds DEF FindTeam, Asks, After, Done, Invocation
  <2>2. Asking(c)'
    BY <1>1, <1>2, <2>1 DEF Asking, AddStages, LeaveStages
  <2>3. QED
    BY <1>1, <2>1, <2>2, ShapeReads
<1>6. CASE FindMember(c) /\ working'[c].at # "end"
  <2>1. /\ working'[c].at = "deactivate" /\ working'[c].req = working[c].req /\ working[c].req.kind = "remove"
        /\ membership[working[c].req.user] = "active"
    BY <1>6, ShapeFinds DEF FindMember, Asks, GoneTo, Done, Invocation, Leaves
  <2>2. working[c].req.user \in Users
    BY <1>2, <2>1, TeamRequestForms
  <2>3. team # None
    BY <2>1, <2>2 DEF ShapeInv, TeamStands
  <2>4. Asking(c)'
    BY <1>1, <1>2, <2>1 DEF Asking, AddStages, LeaveStages
  <2>5. QED
    BY <1>1, <2>3, <2>4, ShapeReads
<1>7. QED
  BY <1>3, <1>4, <1>5, <1>6

(* Adding and removing: the user of the request, and the team that is there. *)
LEMMA MoverFinds ==
  ASSUME ShapeInv, NEW c \in Calls, working[c].at \in AddStages \cup LeaveStages
  PROVE  /\ working[c].req \in TeamRequests /\ working[c].req.kind \in regime.kinds
         /\ working[c].req.user \in Users /\ team \in TeamItem /\ team # None
         /\ working[c].at \in AddStages => working[c].req.kind = "add"
         /\ working[c].at \in LeaveStages => working[c].req.kind = "remove"
<1>1. /\ working[c].req \in TeamRequests /\ working[c].req.kind \in regime.kinds
      /\ working[c].at \in AddStages => working[c].req.kind = "add"
      /\ working[c].at \in LeaveStages => working[c].req.kind = "remove"
  BY ShapeFinds DEF Asking
<1>2. team # None
  BY DEF ShapeInv, TeamStands
<1>3. QED
  BY <1>1, <1>2, ShapeFinds, TeamRequestForms

LEMMA ShapePutsMember ==
  ASSUME ShapeInv, NEW c \in Calls, PutMember(c), UNCHANGED task
  PROVE  ShapeInv'
<1> DEFINE u == working[c].req.user
<1>1. WorkStep(c) /\ UNCHANGED <<team, regime, task>>
  BY DEF WorkStep, ServeTeam, PutMember
<1>2. working[c].at = "put" /\ working[c].at \in AddStages
  BY DEF PutMember, AddStages
<1>3. u \in Users /\ team # None /\ working[c].req.kind = "add"
      /\ working[c].req \in TeamRequests /\ working[c].req.kind \in regime.kinds
  BY <1>2, MoverFinds
<1>4. \/ membership[u] = "none" /\ membership' = [membership EXCEPT ![u] = "active"] /\ working'[c].at = "count"
      \/ membership[u] # "none" /\ membership' = membership /\ working'[c].at = "reactivate"
  BY ShapeFinds DEF PutMember, GoneTo
<1>5. working'[c].req = working[c].req
  BY ShapeFinds DEF PutMember, GoneTo
<1>6. /\ membership' \in [Users -> {"none", "active", "inactive"}]
      /\ \A v \in Users : membership[v] # "none" => membership'[v] # "none"
  BY <1>3, <1>4, ShapeFinds
<1>7. Asking(c)'
  BY <1>1, <1>3, <1>4, <1>5 DEF Asking, AddStages, LeaveStages
<1>8. team' \in TeamItem \cup {None} /\ task' \in TaskItem \cup {None}
  BY <1>1, ShapeFinds
<1>9. QED
  BY <1>1, <1>3, <1>6, <1>7, <1>8, ShapeKeeps

LEMMA ShapeChangesMember ==
  ASSUME ShapeInv, NEW c \in Calls, Reactivate(c) \/ Deactivate(c), UNCHANGED task
  PROVE  ShapeInv'
<1> DEFINE u == working[c].req.user
<1>1. WorkStep(c) /\ UNCHANGED <<team, regime, task>>
  BY DEF WorkStep, ServeTeam, Reactivate, Deactivate
<1>2. working[c].at \in AddStages \cup LeaveStages
  BY DEF Reactivate, Deactivate, AddStages, LeaveStages
<1>3. u \in Users /\ team # None
      /\ working[c].req \in TeamRequests /\ working[c].req.kind \in regime.kinds
      /\ (working[c].at \in LeaveStages => working[c].req.kind = "remove")
  BY <1>2, MoverFinds
<1>4. \E m \in {"active", "inactive"} : membership' = [membership EXCEPT ![u] = m]
  BY DEF Reactivate, Deactivate
<1>5. /\ membership' \in [Users -> {"none", "active", "inactive"}]
      /\ \A v \in Users : membership[v] # "none" => membership'[v] # "none"
  BY <1>3, <1>4, ShapeFinds
<1>6. team' \in TeamItem \cup {None} /\ task' \in TaskItem \cup {None}
  BY <1>1, ShapeFinds DEF Reactivate, Deactivate
<1>7. Asking(c)'
  <2>1. CASE Reactivate(c)
    <3>1. working'[c].at = "end"
      BY <2>1, ShapeFinds DEF Reactivate, TeamCallEnds, Done, Invocation
    <3>2. QED
      BY <1>1, <3>1, ShapeEnds
  <2>2. CASE Deactivate(c)
    <3>1. working'[c].at = "uncount" /\ working'[c].req = working[c].req /\ working[c].at = "deactivate"
      BY <2>2, ShapeFinds DEF Deactivate, GoneTo
    <3>2. QED
      BY <1>1, <1>3, <3>1 DEF Asking, AddStages, LeaveStages
  <2>3. QED
    BY <2>1, <2>2
<1>8. QED
  BY <1>1, <1>3, <1>5, <1>6, <1>7, ShapeKeeps

LEMMA ShapeCounts ==
  ASSUME ShapeInv, NEW c \in Calls, CountMember(c) \/ NameLead(c) \/ UncountMember(c), UNCHANGED task
  PROVE  ShapeInv'
<1>1. WorkStep(c) /\ UNCHANGED <<membership, regime, task>>
  BY DEF WorkStep, ServeTeam, CountMember, NameLead, UncountMember
<1>2. working[c].at \in AddStages \cup LeaveStages
  BY DEF CountMember, NameLead, UncountMember, AddStages, LeaveStages
<1>3. /\ working[c].req.user \in Users /\ team \in TeamItem
      /\ working[c].req \in TeamRequests /\ working[c].req.kind \in regime.kinds
      /\ (working[c].at \in AddStages => working[c].req.kind = "add")
  BY <1>2, MoverFinds
<1>4. team' \in TeamItem
  <2>1. [team EXCEPT !.count = team.count + 1] \in TeamItem
    BY <1>3 DEF TeamItem
  <2>2. [team EXCEPT !.count = @ - 1] \in TeamItem
    BY <1>3 DEF TeamItem
  <2>3. [team EXCEPT !.lead = working[c].req.user] \in TeamItem
    BY <1>3 DEF TeamItem
  <2>4. QED
    BY <2>1, <2>2, <2>3 DEF CountMember, CountAfterAdding, NameLead, UncountMember
<1>5. team' # None
  BY <1>4, TeamsAssumption
<1>6. Asking(c)'
  <2>1. CASE working'[c].at = "end"
    BY <1>1, <2>1, ShapeEnds
  <2>2. CASE working'[c].at # "end"
    <3>1. working'[c].at = "lead" /\ working'[c].req = working[c].req /\ working[c].at = "count"
      BY <2>2, ShapeFinds DEF CountMember, NameLead, UncountMember, GoneTo, TeamCallEnds, Done, Invocation
    <3>2. QED
      BY <1>1, <1>3, <3>1 DEF Asking, AddStages, LeaveStages
  <2>3. QED
    BY <2>1, <2>2
<1>7. membership' \in [Users -> {"none", "active", "inactive"}] /\ task' \in TaskItem \cup {None}
  BY <1>1, ShapeFinds
<1>8. QED
  BY <1>1, <1>4, <1>5, <1>6, <1>7, ShapeKeeps

LEMMA ShapeCreates ==
  ASSUME ShapeInv, CreateTask
  PROVE  ShapeInv'
<1>1. UNCHANGED <<team, membership, working, regime>> /\ task = None
  BY DEF CreateTask, teamVars
<1>2. PICK assignee \in Persons \cup {None}, due \in DueDates \cup {None} :
        LET status == IF assignee = None THEN "BACKLOG" ELSE "ASSIGNED" IN
        task' = [status |-> status, due |-> due, assignee |-> assignee, reason |-> FALSE,
                 completed |-> FALSE, gsi1 |-> status, gsi2 |-> <<status, due>>]
  BY DEF CreateTask
<1> DEFINE status == IF assignee = None THEN "BACKLOG" ELSE "ASSIGNED"
<1>3. status \in TaskStatuses /\ FALSE \in BOOLEAN /\ <<status, due>> \in TaskStatuses \X (DueDates \cup {None})
  BY DEF TaskStatuses
<1>4. task' \in TaskItem
  <2>1. task' = [status |-> status, due |-> due, assignee |-> assignee, reason |-> FALSE,
                 completed |-> FALSE, gsi1 |-> status, gsi2 |-> <<status, due>>]
    BY <1>2
  <2> HIDE DEF status
  <2>2. QED
    BY <1>3, <2>1, Zenon DEF TaskItem
<1>5. WorkShape' /\ TasksTypeOK' /\ TeamStands'
  BY <1>1, <1>4 DEF ShapeInv, WorkShape, TasksTypeOK, TeamsTypeOK, TeamStands
<1>6. \A c \in Calls : Asking(c)'
  BY <1>1 DEF ShapeInv, Asking
<1>7. QED
  BY <1>5, <1>6 DEF ShapeInv

LEMMA ShapeTaskReads ==
  ASSUME ShapeInv, NEW c \in Calls, BeginTaskRequest(c) \/ FindTask(c) \/ RefuseTask(c)
  PROVE  ShapeInv'
<1>1. WorkStep(c) /\ UNCHANGED <<team, membership, regime, task>>
  BY DEF WorkStep, ServeTask, BeginTaskRequest, FindTask, RefuseTask, StillTeam
<1>2. CASE BeginTaskRequest(c)
  <2>1. PICK r \in TaskRequests : r.kind \in regime.kinds /\ working' = GoneTo(Begun(working, c, r), c, "find")
    BY <1>2 DEF BeginTaskRequest
  <2>2. working'[c].at = "find" /\ working'[c].req = r /\ task # None
    BY <1>2, <2>1, ShapeFinds DEF GoneTo, Begun, Invocation, BeginTaskRequest
  <2>3. Asking(c)'
    BY <1>1, <2>1, <2>2 DEF Asking, AddStages, LeaveStages
  <2>4. QED
    BY <1>1, <2>2, <2>3, ShapeReads DEF AddStages, LeaveStages
<1>3. CASE FindTask(c)
  <2>1. /\ working[c].at = "find" /\ working'[c].at = "write" /\ working'[c].req = working[c].req
        /\ working'[c].saw = task /\ ~TaskRefused(working[c].req, task)
    BY <1>3, ShapeFinds DEF FindTask, After
  <2>2. working[c].req \in TaskRequests /\ working[c].req.kind \in regime.kinds /\ task # None /\ task \in TaskItem
    BY <2>1, ShapeFinds DEF Asking
  <2>3. Asking(c)'
    BY <1>1, <2>1, <2>2 DEF Asking, AddStages, LeaveStages
  <2>4. QED
    BY <1>1, <2>1, <2>3, ShapeReads DEF AddStages, LeaveStages
<1>4. CASE RefuseTask(c)
  <2>1. working'[c].at = "end"
    BY <1>4, ShapeFinds DEF RefuseTask, TeamCallEnds, Done, Invocation
  <2>2. QED
    BY <1>1, <2>1, ShapeEnds, ShapeReads
<1>5. QED
  BY <1>2, <1>3, <1>4

(* What is written is an item again. *)
LEMMA WriterFinds ==
  ASSUME ShapeInv, NEW c \in Calls, WriteTask(c)
  PROVE  /\ working[c].at = "write" /\ working'[c].at = "end"
         /\ working[c].req \in TaskRequests /\ working[c].req.kind \in regime.kinds
         /\ working[c].saw \in TaskItem /\ ~TaskRefused(working[c].req, working[c].saw)
         /\ task \in TaskItem /\ task # None
         /\ task' = TaskWritten(task, working[c].req, working[c].saw) /\ task' \in TaskItem
         /\ UNCHANGED <<team, membership, regime>>
<1>1. /\ working[c].at = "write" /\ task' = TaskWritten(task, working[c].req, working[c].saw)
      /\ UNCHANGED <<team, membership, regime>>
  BY DEF WriteTask, StillTeam
<1>2. working'[c].at = "end"
  BY ShapeFinds DEF WriteTask, TeamCallEnds, Done, Invocation
<1>3. /\ working[c].req \in TaskRequests /\ working[c].req.kind \in regime.kinds
      /\ working[c].saw \in TaskItem /\ ~TaskRefused(working[c].req, working[c].saw)
      /\ task \in TaskItem /\ task # None
  BY <1>1, ShapeFinds DEF Asking
<1>4. QED
  BY <1>1, <1>2, <1>3, WrittenIsItem

LEMMA ShapeWrites ==
  ASSUME ShapeInv, NEW c \in Calls, WriteTask(c)
  PROVE  ShapeInv'
<1>1. WorkStep(c)
  BY DEF WorkStep, ServeTask
<1>2. /\ working'[c].at = "end" /\ task' \in TaskItem /\ UNCHANGED <<team, membership, regime>>
  BY WriterFinds
<1>3. task' # None
  BY <1>2, TaskAssumption
<1>4. /\ team' \in TeamItem \cup {None} /\ membership' \in [Users -> {"none", "active", "inactive"}]
  BY <1>2, ShapeFinds
<1>5. QED
  BY <1>1, <1>2, <1>3, <1>4, ShapeEnds, ShapeKeeps

(* The steps of the specification, one invocation's at a time. *)
LEMMA TaskSteps ==
  ASSUME TasksNext
  PROVE  CreateTask \/ \E c \in Calls : WorkStep(c)
BY DEF TasksNext, TeamsNext, WorkStep

LEMMA ShapeStep ==
  ASSUME ShapeInv, [TasksNext]_taskVars PROVE ShapeInv'
<1>1. CASE UNCHANGED taskVars
  BY <1>1 DEF taskVars, teamVars, ShapeInv, WorkShape, TasksTypeOK, TeamsTypeOK, TeamStands, Asking
<1>2. CASE CreateTask
  BY <1>2, ShapeCreates
<1>3. ASSUME NEW c \in Calls, WorkStep(c) PROVE ShapeInv'
  BY <1>3, ShapeBegins, ShapeDies, ShapePuts, ShapeFindsTeams, ShapePutsMember, ShapeChangesMember,
     ShapeCounts, ShapeTaskReads, ShapeWrites DEF WorkStep, ServeTeam, ServeTask
<1>4. QED
  BY <1>1, <1>2, <1>3, TaskSteps

(* The items of the team and of the task keep their types under every       *)
(* request, interleaving and failure.                                       *)
THEOREM TaskTypeCorrect == TasksSpec => []TasksTypeOK
<1>1. ShapeInv => TasksTypeOK
  BY DEF ShapeInv
<1>2. QED
  BY <1>1, ShapeInit, ShapeStep, PTL DEF TasksSpec

---------------------------------------------------------------------------
(* Requests in turn: there is one at a time, and what it found out at its   *)
(* last stage is still so.                                                  *)
Alone == \A c, d \in Calls : Active(working, c) /\ Active(working, d) => c = d

Placed(c) ==
  LET w == working[c] IN
  /\ w.at = "batch" => team = None
  /\ w.at = "deactivate" => membership[w.req.user] = "active"
  /\ w.at \in {"find", "write"} => w.req.by \in ActiveMembers \cup {Leader}
  /\ w.at = "write" => w.saw = task

TurnInv == ~regime.overlap => Alone /\ \A c \in Calls : Placed(c)

LEMMA WorkTakesTurns ==
  ASSUME ShapeInv, TurnInv, ~regime.overlap, NEW c \in Calls, WorkStep(c)
  PROVE  /\ \A d \in Calls \ {c} : ~Active(working, d) /\ ~Active(working, d)'
         /\ Alone'
<1>1. WorkTurn(c)
  BY WorkStepTurns DEF ShapeInv
<1>2. Active(working, c) \/ MayBegin(working, c)
  BY DEF WorkStep, BeginTeamRequest, TeamCallDies, ServeTeam, PutTeam, FindTeams, PutDefaultTeams, ChangeTeam,
     FindTeam, PutMember, Reactivate, CountMember, NameLead, FindMember, Deactivate, UncountMember,
     BeginTaskRequest, ServeTask, FindTask, RefuseTask, WriteTask, Asks, Active, Resting
<1>3. \A d \in Calls \ {c} : ~Active(working, d)
  BY <1>2 DEF MayBegin, TurnInv, Alone, Active
<1>4. QED
  BY <1>1, <1>3 DEF WorkTurn, Alone, Active

LEMMA TurnKept ==
  ASSUME ShapeInv, TurnInv, NEW c \in Calls, WorkStep(c), ~regime.overlap => Placed(c)'
  PROVE  TurnInv'
<1>1. regime' = regime
  BY WorkStepTurns DEF ShapeInv, WorkTurn
<1>2. CASE ~regime.overlap
  <2>1. \A d \in Calls \ {c} : Placed(d)'
    BY <1>2, WorkTakesTurns DEF Placed, Active, Resting
  <2>2. QED
    BY <1>2, <2>1, WorkTakesTurns DEF TurnInv
<1>3. QED
  BY <1>1, <1>2 DEF TurnInv

LEMMA TurnElsewhere ==
  ASSUME ShapeInv, TurnInv, NEW c \in Calls, WorkStep(c),
         working'[c].at \notin {"batch", "deactivate", "find", "write"}
  PROVE  TurnInv'
BY TurnKept DEF Placed

LEMMA TurnStep ==
  ASSUME ShapeInv, TurnInv, [TasksNext]_taskVars PROVE TurnInv'
<1>1. CASE UNCHANGED taskVars
  BY <1>1 DEF taskVars, teamVars, TurnInv, Alone, Active, Placed, ActiveMembers
<1>2. CASE CreateTask
  <2>1. UNCHANGED <<team, membership, working, regime>> /\ task = None
    BY <1>2 DEF CreateTask, teamVars
  <2>2. \A c \in Calls : working[c].at # "write"
    BY <2>1, ShapeFinds DEF Asking
  <2>3. QED
    BY <2>1, <2>2 DEF TurnInv, Alone, Active, Placed, ActiveMembers
<1>3. ASSUME NEW c \in Calls, WorkStep(c) PROVE TurnInv'
  <2>1. DOMAIN working = Calls /\ DOMAIN working[c] = {"at", "req", "saw"}
    BY ShapeFinds
  <2>2. CASE BeginTeamRequest(c) \/ TeamCallDies(c)
    <3>1. working'[c].at \in {"read", "died"}
      BY <2>1, <2>2 DEF BeginTeamRequest, TeamCallDies, Begun, Dead, Invocation
    <3>2. QED
      BY <1>3, <3>1, TurnElsewhere
  <2>3. CASE PutTeam(c) \/ PutDefaultTeams(c) \/ ChangeTeam(c) \/ FindTeam(c) \/ PutMember(c) \/ Reactivate(c)
    <3>1. working'[c].at \in {"end", "put", "count", "reactivate"}
      BY <2>1, <2>3 DEF PutTeam, PutDefaultTeams, ChangeTeam, FindTeam, PutMember, Reactivate,
         TeamCallEnds, Done, After, GoneTo, Invocation
    <3>2. QED
      BY <1>3, <3>1, TurnElsewhere
  <2>4. CASE CountMember(c) \/ NameLead(c) \/ Deactivate(c) \/ UncountMember(c) \/ RefuseTask(c) \/ WriteTask(c)
    <3>1. working'[c].at \in {"end", "lead", "uncount"}
      BY <2>1, <2>4 DEF CountMember, NameLead, Deactivate, UncountMember, RefuseTask, WriteTask,
         TeamCallEnds, Done, GoneTo, Invocation
    <3>2. QED
      BY <1>3, <3>1, TurnElsewhere
  <2>5. CASE FindTeams(c)
    <3>1. team' = team /\ ((working'[c].at = "batch" /\ team = None) \/ working'[c].at = "end")
      BY <2>1, <2>5 DEF FindTeams, GoneTo, Done, Invocation
    <3>2. QED
      BY <1>3, <3>1, TurnKept DEF Placed
  <2>6. CASE FindMember(c)
    <3>1. \/ /\ membership' = membership /\ working'[c].req = working[c].req
             /\ working'[c].at = "deactivate" /\ Leaves(working[c].req.user)
          \/ working'[c].at = "end"
      BY <2>1, <2>6 DEF FindMember, GoneTo, Done, Invocation
    <3>2. QED
      BY <1>3, <3>1, TurnKept DEF Placed, Leaves
  <2>7. CASE BeginTaskRequest(c)
    <3>1. UNCHANGED membership /\ working'[c].at = "find" /\ working'[c].req.by \in ActiveMembers \cup {Leader}
      BY <2>1, <2>7 DEF BeginTaskRequest, StillTeam, GoneTo, Begun, Invocation
    <3>2. Placed(c)'
      BY <3>1 DEF Placed, ActiveMembers
    <3>3. QED
      BY <1>3, <3>2, TurnKept
  <2>8. CASE FindTask(c)
    <3>1. /\ UNCHANGED <<membership, task>> /\ working[c].at = "find" /\ working'[c].at = "write"
          /\ working'[c].req = working[c].req /\ working'[c].saw = task
      BY <2>1, <2>8 DEF FindTask, StillTeam, After
    <3>2. ~regime.overlap => working[c].req.by \in ActiveMembers \cup {Leader}
      BY <3>1 DEF TurnInv, Placed
    <3>3. ~regime.overlap => Placed(c)'
      BY <3>1, <3>2 DEF Placed, ActiveMembers
    <3>4. QED
      BY <1>3, <3>3, TurnKept
  <2>9. QED
    BY <1>3, <2>2, <2>3, <2>4, <2>5, <2>6, <2>7, <2>8 DEF WorkStep, ServeTeam, ServeTask
<1>4. QED
  BY <1>1, <1>2, <1>3, TaskSteps

LEMMA TurnInit == TasksInit => TurnInv
BY DEF TasksInit, TeamsInit, TurnInv, Alone, Active, Resting, Placed, AllIdle, Invocation

---------------------------------------------------------------------------
(* The item.  Whoever writes knows of a completion or of a reason only what *)
(* is still so: both are there to stay, unless a request empties a reason.  *)
NobodyEmpties ==
  \A r \in TaskRequests : r.kind = "update" /\ r.kind \in regime.kinds => r.reason # "empty"

Knows(c) ==
  LET w == working[c] IN
  w.at = "write" =>
    /\ w.saw.status = "COMPLETED" => task.completed
    /\ NobodyEmpties /\ w.saw.reason => task.reason

ItemInv == TaskIsConsistent /\ \A c \in Calls : Knows(c)

LEMMA ItemWrites ==
  ASSUME ShapeInv, TurnInv, ItemInv, NEW c \in Calls, WriteTask(c)
  PROVE  TaskIsConsistent' /\ (task.completed => task'.completed)
         /\ (NobodyEmpties /\ task.reason => task'.reason) /\ NobodyEmpties' = NobodyEmpties
<1> DEFINE r == working[c].req
           read == working[c].saw
<1>1. /\ working[c].at = "write" /\ r \in TaskRequests /\ r.kind \in regime.kinds
      /\ read \in TaskItem /\ ~TaskRefused(r, read) /\ task \in TaskItem /\ task # None
      /\ task' = TaskWritten(task, r, read) /\ task' \in TaskItem /\ regime' = regime
  BY WriterFinds
<1>2. NobodyEmpties' = NobodyEmpties
  BY <1>1 DEF NobodyEmpties
<1>3. /\ task.gsi1 = task.status
      /\ ~regime.overlap => task.gsi2 = <<task.status, task.due>>
      /\ task.status = "COMPLETED" => task.completed
      /\ NobodyEmpties /\ task.status = "BLOCKED" => task.reason
  BY <1>1 DEF ItemInv, TaskIsConsistent, StatusIndexFollows, DueIndexFollows, CompletedHasTime,
     BlockedHasReason, NobodyEmpties
<1>4. ~regime.overlap => read = task
  BY <1>1 DEF TurnInv, Placed
<1>5. /\ read.status = "COMPLETED" => task.completed
      /\ NobodyEmpties /\ read.reason => task.reason
  BY <1>1 DEF ItemInv, Knows
<1> HIDE DEF r, read
<1>6. ASSUME r.kind \in {"update", "tool_update"}
      PROVE  /\ task'.gsi1 = task'.status /\ (~regime.overlap => task'.gsi2 = <<task'.status, task'.due>>)
             /\ (task'.status = "COMPLETED" => task'.completed)
             /\ (NobodyEmpties /\ task'.status = "BLOCKED" => task'.reason)
             /\ (task.completed => task'.completed) /\ (NobodyEmpties /\ task.reason => task'.reason)
  <2>1. OfUpdate(r)
    BY <1>1, <1>6, TaskRequestForms
  <2>2. /\ task'.status = Given(r.status, task.status) /\ task'.due = Given(r.due, task.due)
        /\ task'.reason = Reasoned(task, r) /\ task'.completed = Completion(task, r, read)
        /\ r.status # None => task'.gsi1 = r.status /\ task'.gsi2 = <<r.status, Given(r.due, read.due)>>
        /\ r.status = None => task'.gsi1 = task.gsi1
        /\ r.status = None /\ r.due # None => task'.gsi2 = <<read.status, r.due>>
        /\ r.status = None /\ r.due = None => task'.gsi2 = task.gsi2
    BY <1>1, <1>6, UpdatedParts
  <2>3. task'.gsi1 = task'.status
    BY <1>3, <2>2 DEF Given
  <2>4. ~regime.overlap => task'.gsi2 = <<task'.status, task'.due>>
    BY <1>3, <1>4, <2>2 DEF Given
  <2>5. task.completed => task'.completed
    BY <2>2 DEF Completion
  <2>6. task'.status = "COMPLETED" => task'.completed
    BY <1>3, <1>5, <1>6, <2>2, <2>5 DEF Given, Completion
  <2>7. NobodyEmpties /\ task.reason => task'.reason
    <3>1. NobodyEmpties /\ r.kind = "update" => r.reason # "empty"
      BY <1>1 DEF NobodyEmpties
    <3>2. QED
      BY <2>2, <3>1 DEF Reasoned
  <2>8. NobodyEmpties /\ task'.status = "BLOCKED" => task'.reason
    <3> SUFFICES ASSUME NobodyEmpties, task'.status = "BLOCKED" PROVE task'.reason
      OBVIOUS
    <3>1. CASE r.status = None
      BY <1>3, <2>2, <2>7, <3>1 DEF Given
    <3>2. CASE r.status # None
      <4>1. r.status = "BLOCKED"
        BY <2>2, <3>2 DEF Given
      <4>2. r.kind = "tool_update" => r.reason = "given"
        BY <1>1, <4>1 DEF TaskRefused
      <4>3. r.kind = "update" => r.reason # "empty"
        BY <1>1 DEF NobodyEmpties
      <4>4. r.kind = "update" /\ r.reason = None => read.reason
        BY <1>1, <4>1 DEF TaskRefused
      <4>5. r.reason = "given" \/ (r.kind = "update" /\ r.reason = None)
        BY <1>6, <2>1, <4>2, <4>3 DEF OfUpdate, Reasons
      <4>6. CASE r.reason = "given"
        BY <2>2, <4>6 DEF Reasoned
      <4>7. CASE r.kind = "update" /\ r.reason = None
        BY <1>5, <2>7, <4>4, <4>7
      <4>8. QED
        BY <4>5, <4>6, <4>7
    <3>3. QED
      BY <3>1, <3>2
  <2>9. QED
    BY <2>3, <2>4, <2>5, <2>6, <2>7, <2>8
<1>7. ASSUME r.kind \in {"reassign", "tool_assign"}
      PROVE  /\ task'.gsi1 = task'.status /\ (~regime.overlap => task'.gsi2 = <<task'.status, task'.due>>)
             /\ (task'.status = "COMPLETED" => task'.completed)
             /\ (NobodyEmpties /\ task'.status = "BLOCKED" => task'.reason)
             /\ (task.completed => task'.completed) /\ (NobodyEmpties /\ task.reason => task'.reason)
  <2>1. /\ task'.due = task.due /\ task'.reason = task.reason /\ task'.completed = task.completed
        /\ \/ task'.status = task.status /\ task'.gsi1 = task.gsi1 /\ task'.gsi2 = task.gsi2
           \/ task'.status = "ASSIGNED" /\ task'.gsi1 = "ASSIGNED" /\ task'.gsi2 = <<"ASSIGNED", read.due>>
    BY <1>1, <1>7, AssignedParts
  <2>2. QED
    BY <1>3, <1>4, <2>1
<1>8. r.kind \in {"update", "tool_update", "reassign", "tool_assign"}
  BY <1>1, TaskRequestForms
<1>9. /\ task'.gsi1 = task'.status /\ (~regime.overlap => task'.gsi2 = <<task'.status, task'.due>>)
      /\ (task'.status = "COMPLETED" => task'.completed)
      /\ (NobodyEmpties /\ task'.status = "BLOCKED" => task'.reason)
      /\ (task.completed => task'.completed) /\ (NobodyEmpties /\ task.reason => task'.reason)
  BY <1>6, <1>7, <1>8
<1>10. TaskIsConsistent'
  BY <1>1, <1>9 DEF TaskIsConsistent, StatusIndexFollows, DueIndexFollows, CompletedHasTime,
     BlockedHasReason, NobodyEmpties
<1>11. QED
  BY <1>2, <1>9, <1>10

LEMMA BeginsAtFind ==
  ASSUME ShapeInv, NEW c \in Calls, BeginTaskRequest(c)
  PROVE  working[c].at = "idle" /\ working'[c].at = "find"
<1>1. PICK r \in TaskRequests : working' = GoneTo(Begun(working, c, r), c, "find")
  BY DEF BeginTaskRequest
<1>2. QED
  BY <1>1, ShapeFinds DEF BeginTaskRequest, MayBegin, GoneTo, Begun, Invocation

(* The way to a write is through FindTask. *)
LEMMA OnlyFindersWrite ==
  ASSUME ShapeInv, NEW c \in Calls, WorkStep(c), ~FindTask(c)
  PROVE  working'[c].at # "write"
<1> USE ShapeFinds
<1>1. CASE BeginTeamRequest(c) \/ TeamCallDies(c)
  BY <1>1 DEF BeginTeamRequest, TeamCallDies, Begun, Dead, Invocation
<1>2. CASE PutTeam(c) \/ FindTeams(c) \/ PutDefaultTeams(c) \/ ChangeTeam(c) \/ FindTeam(c)
  BY <1>2 DEF PutTeam, FindTeams, PutDefaultTeams, ChangeTeam, FindTeam, TeamCallEnds, Done, GoneTo, After,
     Invocation
<1>3. CASE PutMember(c) \/ Reactivate(c) \/ CountMember(c) \/ NameLead(c)
  BY <1>3 DEF PutMember, Reactivate, CountMember, NameLead, TeamCallEnds, Done, GoneTo, Invocation
<1>4. CASE FindMember(c) \/ Deactivate(c) \/ UncountMember(c)
  BY <1>4 DEF FindMember, Deactivate, UncountMember, TeamCallEnds, Done, GoneTo, Invocation
<1>5. CASE RefuseTask(c) \/ WriteTask(c)
  BY <1>5 DEF RefuseTask, WriteTask, TeamCallEnds, Done, Invocation
<1>6. CASE BeginTaskRequest(c)
  BY <1>6, BeginsAtFind
<1>7. QED
  BY <1>1, <1>2, <1>3, <1>4, <1>5, <1>6 DEF WorkStep, ServeTeam, ServeTask

LEMMA ItemStep ==
  ASSUME ShapeInv, TurnInv, ItemInv, [TasksNext]_taskVars PROVE ItemInv'
<1> USE DEF TaskIsConsistent, StatusIndexFollows, DueIndexFollows, CompletedHasTime, BlockedHasReason
<1>1. CASE UNCHANGED taskVars
  BY <1>1 DEF taskVars, teamVars, ItemInv, Knows, NobodyEmpties
<1>2. CASE CreateTask
  <2>1. UNCHANGED <<working, regime>> /\ task = None
    BY <1>2 DEF CreateTask, teamVars
  <2>2. \A c \in Calls : working[c].at # "write"
    BY <2>1, ShapeFinds DEF Asking
  <2>3. /\ task'.gsi1 = task'.status /\ task'.gsi2 = <<task'.status, task'.due>>
        /\ task'.status \in {"BACKLOG", "ASSIGNED"}
    BY <1>2 DEF CreateTask
  <2>4. \A c \in Calls : Knows(c)'
    BY <2>1, <2>2 DEF Knows
  <2>5. TaskIsConsistent'
    BY <2>3
  <2>6. QED
    BY <2>4, <2>5 DEF ItemInv
<1>3. ASSUME NEW c \in Calls, WorkStep(c) PROVE ItemInv'
  <2>1. WorkTurn(c)
    BY <1>3, WorkStepTurns DEF ShapeInv
  <2>2. CASE WriteTask(c)
    <3>1. /\ TaskIsConsistent' /\ (task.completed => task'.completed)
          /\ (NobodyEmpties /\ task.reason => task'.reason) /\ NobodyEmpties' = NobodyEmpties
      BY <2>2, ItemWrites
    <3>2. working'[c].at # "write"
      BY <2>2, WriterFinds
    <3>3. \A d \in Calls : Knows(d)'
      BY <2>1, <3>1, <3>2 DEF WorkTurn, Knows, ItemInv
    <3>4. QED
      BY <3>1, <3>3 DEF ItemInv
  <2>3. CASE ~WriteTask(c)
    <3>1. task' = task
      BY <1>3, <2>3 DEF WorkStep, ServeTask, BeginTaskRequest, FindTask, RefuseTask
    <3>2. regime' = regime
      BY <2>1 DEF WorkTurn
    <3>3. TaskIsConsistent' /\ NobodyEmpties' = NobodyEmpties
      BY <3>1, <3>2 DEF ItemInv, NobodyEmpties
    <3>4. Knows(c)'
      <4>1. CASE working'[c].at = "write"
        <5>1. working'[c].saw = task /\ working[c].at = "find"
          <6>1. DOMAIN working = Calls /\ DOMAIN working[c] = {"at", "req", "saw"}
            BY ShapeFinds
          <6>2. CASE FindTask(c)
            BY <6>1, <6>2 DEF FindTask, After
          <6>3. CASE ~FindTask(c)
            <7>1. working'[c].at # "write"
              BY <1>3, <6>3, OnlyFindersWrite
            <7>2. QED
              BY <4>1, <7>1
          <6>4. QED
            BY <6>2, <6>3
        <5>2. task \in TaskItem /\ task # None
          BY <5>1, ShapeFinds DEF Asking
        <5>3. task.status = "COMPLETED" => task.completed
          BY <5>2 DEF ItemInv
        <5>4. QED
          BY <3>1, <5>1, <5>3 DEF Knows
      <4>2. CASE working'[c].at # "write"
        BY <4>2 DEF Knows
      <4>3. QED
        BY <4>1, <4>2
    <3>5. \A d \in Calls \ {c} : Knows(d)'
      BY <2>1, <3>1, <3>3 DEF WorkTurn, Knows, ItemInv
    <3>6. QED
      BY <3>3, <3>4, <3>5 DEF ItemInv
  <2>4. QED
    BY <2>2, <2>3
<1>4. QED
  BY <1>1, <1>2, <1>3, TaskSteps

LEMMA ItemInit == TasksInit => ItemInv
BY DEF TasksInit, TeamsInit, ItemInv, Knows, AllIdle, Invocation, TaskIsConsistent, StatusIndexFollows,
   DueIndexFollows, CompletedHasTime, BlockedHasReason

(* The task item agrees with itself: status, both index keys, the reason    *)
(* and the completion time, whoever the people are, whatever the dates and  *)
(* however many requests of four handlers write it.                         *)
THEOREM TaskStaysConsistent == TasksSpec => []TaskIsConsistent
<1>1. TasksInit => ShapeInv /\ TurnInv /\ ItemInv
  BY ShapeInit, TurnInit, ItemInit
<1>2. ShapeInv /\ TurnInv /\ ItemInv /\ [TasksNext]_taskVars => (ShapeInv /\ TurnInv /\ ItemInv)'
  BY ShapeStep, TurnStep, ItemStep
<1>3. ItemInv => TaskIsConsistent
  BY DEF ItemInv
<1>4. QED
  BY <1>1, <1>2, <1>3, PTL DEF TasksSpec

---------------------------------------------------------------------------
(* Who may write. *)

LEMMA LeadersMove ==
  ASSUME ShapeInv, TurnInv, [TasksNext]_taskVars, ~regime.overlap,
         task # None, task.assignee # None, task'.assignee # task.assignee
  PROVE  \E c \in Calls : /\ working[c].at = "write" /\ working[c].req.by = Leader
                          /\ working[c].req.kind \in {"update", "reassign"}
<1>1. task' # task
  OBVIOUS
<1>2. ~CreateTask /\ ~UNCHANGED taskVars
  BY <1>1 DEF CreateTask, taskVars
<1>3. PICK c \in Calls : WorkStep(c)
  BY <1>2, TaskSteps
<1>4. WriteTask(c)
  BY <1>1, <1>3 DEF WorkStep, ServeTask, BeginTaskRequest, FindTask, RefuseTask
<1> DEFINE r == working[c].req
           read == working[c].saw
<1>5. /\ working[c].at = "write" /\ r \in TaskRequests
      /\ ~TaskRefused(r, read) /\ task \in TaskItem /\ task' = TaskWritten(task, r, read)
  BY <1>4, WriterFinds
<1>6. read = task
  BY <1>5 DEF TurnInv, Placed
<1> HIDE DEF r, read
<1>7. r.kind # "tool_assign"
  BY <1>5, <1>6 DEF TaskRefused
<1>8. r.kind \in {"update", "tool_update"} => task'.assignee = Given(r.assignee, task.assignee)
  BY <1>5, UpdatedParts
<1>9. r.kind \in {"update", "tool_update"} => r.assignee # None
  BY <1>8 DEF Given
<1>10. r.kind # "tool_update"
  BY <1>5, <1>9, TaskRequestForms DEF OfUpdate
<1>11. r.by = Leader
  BY <1>5, <1>7, <1>9, <1>10, TaskRequestForms DEF TaskRefused
<1>12. QED
  BY <1>5, <1>7, <1>10, <1>11, TaskRequestForms DEF r

LEMMA MembersWrite ==
  ASSUME ShapeInv, TurnInv, [TasksNext]_taskVars, ~regime.overlap, NEW c \in Calls,
         working[c].at = "write", working'[c].at = "end",
         working[c].req.kind \in {"update", "tool_update"}, working[c].req.by # Leader
  PROVE  task.assignee \in {None, working[c].req.by} /\ membership[working[c].req.by] = "active"
<1>1. Asking(c) /\ Placed(c)
  BY ShapeFinds DEF TurnInv
<1>2. working[c].saw = task /\ ~TaskRefused(working[c].req, working[c].saw)
      /\ working[c].req.by \in ActiveMembers \cup {Leader}
  BY <1>1 DEF Asking, Placed
<1>3. QED
  BY <1>2 DEF TaskRefused, NotTheirs, ActiveMembers

(* Moving work off a person is the leader's, and a member writes only what  *)
(* is their own or nobody's, and only while on the team: for all people,    *)
(* requests and interleavings of requests in turn with anything else.       *)
THEOREM WritersAreEntitled == TasksSpec => TaskWritersAreEntitled
<1>1. TasksInit => ShapeInv /\ TurnInv
  BY ShapeInit, TurnInit
<1>2. ShapeInv /\ TurnInv /\ [TasksNext]_taskVars => (ShapeInv /\ TurnInv)'
  BY ShapeStep, TurnStep
<1> DEFINE Moves ==
             (task # None /\ ~regime.overlap /\ task.assignee # None /\ task'.assignee # task.assignee)
               => \E c \in Calls : working[c].at = "write" /\ working[c].req.by = Leader
                                   /\ working[c].req.kind \in {"update", "reassign"}
           Writes ==
             \A c \in Calls :
               (/\ working[c].at = "write" /\ working'[c].at = "end" /\ ~regime.overlap
                /\ working[c].req.kind \in {"update", "tool_update"} /\ working[c].req.by # Leader)
               => /\ task.assignee \in {None, working[c].req.by}
                  /\ membership[working[c].req.by] = "active"
<1>3. ShapeInv /\ TurnInv /\ [TasksNext]_taskVars => [Moves]_taskVars
  BY LeadersMove
<1>4. ShapeInv /\ TurnInv /\ [TasksNext]_taskVars => [Writes]_taskVars
  BY MembersWrite
<1>5. OnlyLeadersMoveWork <=> [][Moves]_taskVars
  BY PTL DEF OnlyLeadersMoveWork
<1>6. MembersWriteTheirOwn <=> [][Writes]_taskVars
  BY PTL DEF MembersWriteTheirOwn
<1> HIDE DEF Moves, Writes
<1>7. TasksSpec => [][Moves]_taskVars /\ [][Writes]_taskVars
  BY <1>1, <1>2, <1>3, <1>4, PTL DEF TasksSpec
<1>8. QED
  BY <1>5, <1>6, <1>7 DEF TaskWritersAreEntitled

---------------------------------------------------------------------------
(* The count of the members.  A team that is not there counts nobody, and   *)
(* the sets behind the cardinalities stay finite: each step adds or takes   *)
(* one of them.                                                             *)
CountKept == IF team = None THEN 0 ELSE team.count

FiniteInv == IsFiniteSet(Members) /\ IsFiniteSet(Counting("count"))

AddsKept ==
  (regime.kinds \cap {"remove", "default_teams"} = {} /\ ~regime.failures) =>
    CountKept = Cardinality(Members) - Cardinality(Counting("count"))

CountInv == FiniteInv /\ AddsKept

CountedSizes == Cardinality(Members) \in Nat /\ Cardinality(Counting("count")) \in Nat

LEMMA SizesAreNumbers == FiniteInv => CountedSizes
BY FS_CardinalityType DEF FiniteInv, CountedSizes

(* One element more, one less. *)
LEMMA OneMore ==
  ASSUME NEW S, NEW T, NEW x, IsFiniteSet(S), x \notin S, T = S \cup {x}
  PROVE  IsFiniteSet(T) /\ Cardinality(T) = Cardinality(S) + 1
BY FS_AddElement

LEMMA OneLess ==
  ASSUME NEW S, NEW T, NEW x, IsFiniteSet(S), x \in S, T = S \ {x}
  PROVE  IsFiniteSet(T) /\ Cardinality(T) = Cardinality(S) - 1
BY FS_RemoveElement

LEMMA CountingMoves ==
  ASSUME NEW c \in Calls, WorkTurn(c), NEW at
  PROVE  /\ (working[c].at = at <=> working'[c].at = at) => Counting(at)' = Counting(at)
         /\ working[c].at # at /\ working'[c].at = at =>
              Counting(at)' = Counting(at) \cup {c} /\ c \notin Counting(at)
         /\ working[c].at = at /\ working'[c].at # at =>
              Counting(at)' = Counting(at) \ {c} /\ c \in Counting(at)
BY DEF WorkTurn, Counting

(* Steps that leave the members, the count and those on the way to it.      *)
LEMMA CountRests ==
  ASSUME CountInv, NEW c \in Calls, WorkTurn(c), Members' = Members, CountKept' = CountKept,
         working[c].at # "count", working'[c].at # "count"
  PROVE  CountInv'
<1>1. Counting("count")' = Counting("count")
  BY CountingMoves
<1>2. regime' = regime
  BY DEF WorkTurn
<1>3. QED
  BY <1>1, <1>2 DEF CountInv, FiniteInv, AddsKept

(* Steps of requests that the count is not claimed for. *)
LEMMA CountIsOpen ==
  ASSUME CountInv, NEW c \in Calls, WorkTurn(c), IsFiniteSet(Members'), working'[c].at # "count",
         regime.failures \/ regime.kinds \cap {"remove", "default_teams"} # {}
  PROVE  CountInv'
<1>1. Counting("count")' \in {Counting("count"), Counting("count") \ {c}} /\ regime' = regime
  BY CountingMoves DEF WorkTurn
<1>2. IsFiniteSet(Counting("count")')
  BY <1>1, FS_RemoveElement DEF CountInv, FiniteInv
<1>3. QED
  BY <1>1, <1>2 DEF CountInv, FiniteInv, AddsKept

LEMMA PutMemberCounts ==
  ASSUME ShapeInv, CountInv, NEW c \in Calls, WorkTurn(c), PutMember(c)
  PROVE  CountInv'
<1> DEFINE u == working[c].req.user
<1>1. working[c].at = "put" /\ u \in Users /\ UNCHANGED <<team, regime>>
  BY MoverFinds DEF PutMember, AddStages
<1>2. CountKept' = CountKept
  BY <1>1 DEF CountKept
<1>3. \/ membership[u] # "none" /\ membership' = membership /\ working'[c].at = "reactivate"
      \/ /\ membership[u] = "none" /\ membership' = [membership EXCEPT ![u] = "active"]
         /\ working'[c].at = "count"
  BY ShapeFinds DEF PutMember, GoneTo
<1> HIDE DEF u
<1>4. CASE membership[u] # "none"
  <2>1. Members' = Members
    BY <1>3, <1>4 DEF Members
  <2>2. QED
    BY <1>1, <1>2, <1>3, <1>4, <2>1, CountRests
<1>5. CASE membership[u] = "none"
  <2>1. membership' = [membership EXCEPT ![u] = "active"] /\ working'[c].at = "count"
    BY <1>3, <1>5
  <2>2. Members' = Members \cup {u} /\ u \notin Members
    BY <1>1, <1>5, <2>1, ShapeFinds DEF Members
  <2>3. Counting("count")' = Counting("count") \cup {c} /\ c \notin Counting("count")
    BY <1>1, <2>1, CountingMoves
  <2>4. IsFiniteSet(Members') /\ Cardinality(Members') = Cardinality(Members) + 1
    BY <2>2, OneMore DEF CountInv, FiniteInv
  <2>5. IsFiniteSet(Counting("count")') /\ Cardinality(Counting("count")') = Cardinality(Counting("count")) + 1
    BY <2>3, OneMore DEF CountInv, FiniteInv
  <2>6. FiniteInv' /\ CountedSizes
    BY <2>4, <2>5, SizesAreNumbers DEF CountInv, FiniteInv
  <2>7. AddsKept'
    BY <1>1, <1>2, <2>4, <2>5, <2>6 DEF CountInv, AddsKept, CountedSizes
  <2>8. QED
    BY <2>6, <2>7 DEF CountInv
<1>6. QED
  BY <1>4, <1>5

LEMMA ReactivateCounts ==
  ASSUME ShapeInv, CountInv, NEW c \in Calls, WorkTurn(c), Reactivate(c)
  PROVE  CountInv'
<1> DEFINE u == working[c].req.user
<1>1. /\ working[c].at = "reactivate" /\ u \in Users /\ UNCHANGED <<team, regime>>
      /\ membership' = [membership EXCEPT ![u] = "active"] /\ membership[u] # "none"
  BY MoverFinds, ShapeFinds DEF Reactivate, AddStages, Asking
<1>2. CountKept' = CountKept /\ working'[c].at = "end"
  BY <1>1, ShapeFinds DEF CountKept, Reactivate, TeamCallEnds, Done, Invocation
<1>3. Members' = Members
  BY <1>1, ShapeFinds DEF Members
<1>4. QED
  BY <1>1, <1>2, <1>3, CountRests

LEMMA MemberCounts ==
  ASSUME ShapeInv, CountInv, NEW c \in Calls, WorkTurn(c), CountMember(c)
  PROVE  CountInv'
<1>1. /\ working[c].at = "count" /\ team \in TeamItem /\ team # None
      /\ team' = [team EXCEPT !.count = team.count + 1] /\ UNCHANGED <<membership, regime>>
  BY MoverFinds DEF CountMember, CountAfterAdding, AddStages
<1>2. working'[c].at \in {"lead", "end"}
  BY ShapeFinds DEF CountMember, GoneTo, Done, Invocation
<1>3. team' \in TeamItem /\ team'.count = team.count + 1 /\ team.count \in Int
  BY <1>1 DEF TeamItem
<1>4. CountKept' = CountKept + 1 /\ CountKept \in Int
  BY <1>1, <1>3, TeamsAssumption DEF CountKept
<1>5. Members' = Members
  BY <1>1 DEF Members
<1>6. Counting("count")' = Counting("count") \ {c} /\ c \in Counting("count")
  BY <1>1, <1>2, CountingMoves
<1>7. IsFiniteSet(Counting("count")') /\ Cardinality(Counting("count")') = Cardinality(Counting("count")) - 1
  BY <1>6, OneLess DEF CountInv, FiniteInv
<1>8. FiniteInv' /\ CountedSizes
  BY <1>5, <1>7, SizesAreNumbers DEF CountInv, FiniteInv
<1>9. AddsKept'
  BY <1>1, <1>4, <1>5, <1>7, <1>8 DEF CountInv, AddsKept, CountedSizes
<1>10. QED
  BY <1>8, <1>9 DEF CountInv

LEMMA DeactivateCounts ==
  ASSUME ShapeInv, CountInv, NEW c \in Calls, WorkTurn(c), Deactivate(c) \/ UncountMember(c)
  PROVE  CountInv'
<1>1. working[c].req.kind = "remove" /\ working[c].req.kind \in regime.kinds
  BY MoverFinds DEF Deactivate, UncountMember, LeaveStages
<1>2. working'[c].at \in {"uncount", "end"}
  BY ShapeFinds DEF Deactivate, UncountMember, GoneTo, TeamCallEnds, Done, Invocation
<1>3. CASE UncountMember(c)
  <2>1. Members' = Members
    BY <1>3 DEF UncountMember, Members
  <2>2. QED
    BY <1>1, <1>2, <2>1, CountIsOpen DEF CountInv, FiniteInv
<1>4. CASE Deactivate(c)
  <2>1. membership' = [membership EXCEPT ![working[c].req.user] = "inactive"]
    BY <1>4 DEF Deactivate
  <2>2. Members' \in {Members, Members \cup {working[c].req.user}}
    BY <2>1, ShapeFinds DEF Members
  <2>3. IsFiniteSet(Members')
    BY <2>2, FS_AddElement DEF CountInv, FiniteInv
  <2>4. QED
    BY <1>1, <1>2, <2>3, CountIsOpen
<1>5. QED
  BY <1>3, <1>4

LEMMA DeathCounts ==
  ASSUME ShapeInv, CountInv, NEW c \in Calls, WorkTurn(c), TeamCallDies(c)
  PROVE  CountInv'
<1>1. regime.failures /\ Members' = Members /\ working'[c].at = "died"
  BY ShapeFinds DEF TeamCallDies, Dead, Invocation, Members
<1>2. QED
  BY <1>1, CountIsOpen DEF CountInv, FiniteInv

LEMMA DefaultCounts ==
  ASSUME ShapeInv, CountInv, NEW c \in Calls, WorkTurn(c), PutDefaultTeams(c)
  PROVE  CountInv'
<1>1. Members' = Members /\ working'[c].at = "end"
  BY ShapeFinds DEF PutDefaultTeams, TeamCallEnds, Done, Invocation, Members
<1>2. "default_teams" \in regime.kinds
  BY ShapeFinds DEF PutDefaultTeams, Asking
<1>3. QED
  BY <1>1, <1>2, CountIsOpen DEF CountInv, FiniteInv

LEMMA CountStep ==
  ASSUME ShapeInv, CountInv, [TasksNext]_taskVars PROVE CountInv'
<1>1. CASE UNCHANGED taskVars \/ CreateTask
  <2>1. UNCHANGED <<team, membership, working, regime>>
    BY <1>1 DEF taskVars, teamVars, CreateTask
  <2>2. QED
    BY <2>1 DEF CountInv, FiniteInv, AddsKept, CountKept, Members, Counting
<1>2. ASSUME NEW c \in Calls, WorkStep(c) PROVE CountInv'
  <2>1. WorkTurn(c) /\ DOMAIN working = Calls /\ DOMAIN working[c] = {"at", "req", "saw"}
    BY <1>2, WorkStepTurns, ShapeFinds DEF ShapeInv
  <2>2. CASE BeginTeamRequest(c) \/ FindTeams(c) \/ FindTeam(c) \/ FindMember(c)
    <3>1. /\ UNCHANGED <<team, membership>> /\ working[c].at \in {"idle", "read"}
          /\ working'[c].at \in {"read", "batch", "put", "deactivate", "end"}
      BY <2>1, <2>2 DEF BeginTeamRequest, FindTeams, FindTeam, FindMember, MayBegin, Asks, Begun, GoneTo, After,
         Done, Invocation
    <3>2. QED
      BY <2>1, <3>1, CountRests DEF CountKept, Members
  <2>3. CASE BeginTaskRequest(c) \/ ServeTask(c)
    <3>1. /\ UNCHANGED <<team, membership>> /\ working[c].at \in {"idle", "find", "write"}
          /\ working'[c].at \in {"find", "write", "end"}
      <4>1. CASE BeginTaskRequest(c)
        BY <4>1, BeginsAtFind DEF BeginTaskRequest, StillTeam
      <4>2. CASE FindTask(c)
        BY <2>1, <4>2 DEF FindTask, After, StillTeam
      <4>3. CASE RefuseTask(c) \/ WriteTask(c)
        BY <2>1, <4>3 DEF RefuseTask, WriteTask, StillTeam, TeamCallEnds, Done, Invocation
      <4>4. QED
        BY <2>3, <4>1, <4>2, <4>3 DEF ServeTask
    <3>2. QED
      BY <2>1, <3>1, CountRests DEF CountKept, Members
  <2>4. CASE PutTeam(c) \/ ChangeTeam(c) \/ NameLead(c)
    <3>1. /\ UNCHANGED membership /\ working[c].at \in {"read", "lead"} /\ working'[c].at = "end"
      BY <2>1, <2>4 DEF PutTeam, ChangeTeam, NameLead, Asks, TeamCallEnds, Done, Invocation
    <3>2. CountKept' = CountKept
      <4>1. CASE PutTeam(c)
        BY <4>1 DEF PutTeam, CountKept, NewTeam
      <4>2. CASE ChangeTeam(c) /\ team = None
        BY <4>2 DEF ChangeTeam, CountKept
      <4>3. CASE (ChangeTeam(c) /\ team # None) \/ NameLead(c)
        <5>1. team \in TeamItem /\ team # None /\ team' = [team EXCEPT !.lead = working[c].req.user]
          BY <4>3, MoverFinds, ShapeFinds DEF ChangeTeam, NameLead, AddStages
        <5>2. working[c].req \in TeamRequests /\ working[c].req.kind \in {"add", "update_team"}
          BY <4>3, ShapeFinds DEF ChangeTeam, NameLead, Asks, Asking, AddStages
        <5>3. team' \in TeamItem /\ team'.count = team.count
          BY <5>1, <5>2, TeamRequestForms DEF TeamItem
        <5>4. QED
          BY <5>1, <5>3, TeamsAssumption DEF CountKept
      <4>4. QED
        BY <2>4, <4>1, <4>2, <4>3
    <3>3. QED
      BY <2>1, <3>1, <3>2, CountRests DEF Members
  <2>5. QED
    BY <1>2, <2>1, <2>2, <2>3, <2>4, PutMemberCounts, ReactivateCounts, MemberCounts, DeactivateCounts,
       DeathCounts, DefaultCounts DEF WorkStep, ServeTeam
<1>3. QED
  BY <1>1, <1>2, TaskSteps

LEMMA CountInit == TasksInit => CountInv
<1> SUFFICES ASSUME TasksInit PROVE CountInv
  OBVIOUS
<1> USE DEF TasksInit, TeamsInit
<1>1. IsFiniteSet(Opening) /\ Opening \subseteq Users
  BY FS_EmptySet, TeamsAssumption DEF Opening
<1>2. Members = Opening
  BY <1>1 DEF Members
<1>3. Counting("count") = {}
  BY DEF Counting, AllIdle, Invocation
<1>4. IsFiniteSet({}) /\ Cardinality({}) = 0
  BY FS_EmptySet
<1>5. CountKept = Cardinality(Opening) /\ Cardinality(Opening) \in Nat
  <2>1. Cardinality(Opening) \in Nat
    BY <1>1, FS_CardinalityType
  <2>2. CASE Opening = {}
    BY <1>4, <2>2 DEF CountKept
  <2>3. CASE Opening # {}
    <3>1. team = [count |-> Cardinality(Opening), lead |-> None]
      BY <2>3 DEF NewTeam
    <3>2. team \in TeamItem
      BY <2>1, <3>1 DEF TeamItem
    <3>3. QED
      BY <2>1, <3>1, <3>2, TeamsAssumption DEF CountKept
  <2>4. QED
    BY <2>2, <2>3
<1>6. FiniteInv
  BY <1>1, <1>2, <1>3, <1>4 DEF FiniteInv
<1>7. AddsKept
  BY <1>2, <1>3, <1>4, <1>5 DEF AddsKept
<1>8. QED
  BY <1>6, <1>7 DEF CountInv

(* member_count loses no increment to overlapping requests, for any number  *)
(* of people and of requests.                                               *)
THEOREM CountStaysAccounted == TasksSpec => []MemberCountIsAccounted
<1>1. TasksInit => ShapeInv /\ CountInv
  BY ShapeInit, CountInit
<1>2. ShapeInv /\ CountInv /\ [TasksNext]_taskVars => (ShapeInv /\ CountInv)'
  BY ShapeStep, CountStep
<1>3. CountInv => MemberCountIsAccounted
  BY DEF CountInv, AddsKept, CountKept, MemberCountIsAccounted
<1>4. QED
  BY <1>1, <1>2, <1>3, PTL DEF TasksSpec
=============================================================================
