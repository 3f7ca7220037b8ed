------------------------------- MODULE Tasks -------------------------------
(***************************************************************************)
(* One task of the team of Teams: services/api/tasks_handler, and the      *)
(* agent's create_task, update_task and assign_task, which write the same  *)
(* TASK item.  Who may write it is decided by the memberships              *)
(* (resolve_principal, authorize_task_access), read before the task is.    *)
(***************************************************************************)
EXTENDS Teams

CONSTANTS
  Leader,         \* a community leader; the other callers are Users
  DueDates,
  TaskRequests    \* requests of tasks_handler and of the task tools

TaskStatuses == {"BACKLOG", "PENDING", "ASSIGNED", "IN_PROGRESS", "BLOCKED", "REVIEW",
                 "COMPLETED", "CANCELLED"}
Persons == Users \cup {Leader}

(* None stands for a field left out; reason says whether a blocked_reason   *)
(* comes with the request, and of what kind: an empty one clears it.        *)
Reasons == {None, "given", "empty"}
UpdateTask(by, status, due, assignee, reason) ==
  [kind |-> "update", by |-> by, status |-> status, due |-> due, assignee |-> assignee,
   reason |-> reason]
UpdateTaskTool(by, status, reason) ==
  [kind |-> "tool_update", by |-> by, status |-> status, due |-> None, assignee |-> None,
   reason |-> reason]
Reassign(by, assignee) == [kind |-> "reassign", by |-> by, assignee |-> assignee]
AssignTool(by, assignee) == [kind |-> "tool_assign", by |-> by, assignee |-> assignee]

AnyTaskRequest ==
  {UpdateTask(by, status, due, assignee, reason) :
     by \in Persons, status \in TaskStatuses \cup {None}, due \in DueDates \cup {None},
     assignee \in Persons \cup {None}, reason \in Reasons}
  \cup {UpdateTaskTool(by, status, reason) :
          by \in Persons, status \in TaskStatuses \cup {None}, reason \in Reasons}
  \cup {Reassign(by, assignee) : by \in Persons, assignee \in Persons}
  \cup {AssignTool(by, assignee) : by \in Persons, assignee \in Persons}

(* The item carries two index keys: GSI1 repeats the status, GSI2 the       *)
(* status and the due date.                                                 *)
TaskItem ==
  [status : TaskStatuses, due : DueDates \cup {None}, assignee : Persons \cup {None},
   reason : BOOLEAN, completed : BOOLEAN, gsi1 : TaskStatuses,
   gsi2 : TaskStatuses \X (DueDates \cup {None})]

ASSUME TaskAssumption ==
  /\ Leader \notin Users /\ None \notin Persons \cup DueDates \cup TaskStatuses \cup TaskItem
  /\ None \notin {"given", "empty"}
  /\ TaskRequests \subseteq AnyTaskRequest

VARIABLES task   \* the TASK item, or None

taskVars == <<teamVars, task>>

TasksInit == TeamsInit /\ task = None

StillTeam == UNCHANGED <<team, membership, regime>>

(* create_task, the create_task tool and the incident's task put the item;  *)
(* its status follows from whether the work has an owner.                   *)
CreateTask ==
  /\ task = None /\ team # None /\ "task" \in regime.kinds
  /\ \E assignee \in Persons \cup {None}, due \in DueDates \cup {None} :
       LET status == IF assignee = None THEN "BACKLOG" ELSE "ASSIGNED" IN
       task' = [status |-> status, due |-> due, assignee |-> assignee, reason |-> FALSE,
                completed |-> FALSE, gsi1 |-> status, gsi2 |-> <<status, due>>]
  /\ UNCHANGED teamVars

(* resolve_principal reads a member's teams when the request comes.         *)
BeginTaskRequest(c) ==
  /\ task # None /\ MayBegin(working, c)
  /\ \E r \in TaskRequests :
       /\ r.kind \in regime.kinds
       /\ r.by \in ActiveMembers \cup {Leader}
       /\ working' = GoneTo(Begun(working, c, r), c, "find")
  /\ StillTeam /\ UNCHANGED task

(* authorize_task_access with write. *)
NotTheirs(r, t) == r.by # Leader /\ t.assignee \notin {None, r.by}

(* Mutation of TaskRefused: assign_task no longer looks at the owner. *)
TaskRefusedNotTaken(r, t) ==
  \/ r.kind \in {"update", "tool_update"} /\ NotTheirs(r, t)
  \/ r.kind = "update" /\ r.by # Leader /\ (r.due # None \/ r.assignee # None)
  \/ r.kind = "reassign" /\ (r.by # Leader \/ t.assignee = r.assignee)
  \/ r.kind = "update" /\ r.status = "BLOCKED"
       /\ (IF r.reason = None THEN ~t.reason ELSE r.reason = "empty")
  \/ r.kind = "tool_update" /\ r.status = "BLOCKED" /\ r.reason # "given"

(* What the handlers refuse, by the item they read: another's task, fields  *)
(* a member may not change, a reassignment that changes nothing, taking     *)
(* work off its owner with the tool, and blocking without a reason.         *)
TaskRefused(r, t) ==
  \/ r.kind \in {"update", "tool_update"} /\ NotTheirs(r, t)
  \/ r.kind = "update" /\ r.by # Leader /\ (r.due # None \/ r.assignee # None)
  \/ r.kind = "reassign" /\ (r.by # Leader \/ t.assignee = r.assignee)
  \/ r.kind = "tool_assign" /\ t.assignee # None
  \/ r.kind = "update" /\ r.status = "BLOCKED"
       /\ (IF r.reason = None THEN ~t.reason ELSE r.reason = "empty")
  \/ r.kind = "tool_update" /\ r.status = "BLOCKED" /\ r.reason # "given"

FindTask(c) ==
  /\ working[c].at = "find" /\ ~TaskRefused(working[c].req, task)
  /\ working' = After(working, c, "write", task)
  /\ StillTeam /\ UNCHANGED task

RefuseTask(c) ==
  /\ working[c].at = "find" /\ TaskRefused(working[c].req, task)
  /\ TeamCallEnds(c)
  /\ StillTeam /\ UNCHANGED task

(* Mutation of StatusMoved: only the deadline key is rewritten. *)
StatusMovedDueOnly(t, status, due) == [t EXCEPT !.status = status, !.gsi2 = <<status, due>>]

(* "A transition rewrites both" keys; due is the date the handler knows of. *)
StatusMoved(t, status, due) ==
  [t EXCEPT !.status = status, !.gsi1 = status, !.gsi2 = <<status, due>>]

Given(new, old) == IF new = None THEN old ELSE new

(* completed_at is set on completion; update_task sets it only if the task  *)
(* it read was not completed.                                               *)
Completion(t, r, read) ==
  \/ t.completed
  \/ r.status = "COMPLETED" /\ (r.kind = "tool_update" \/ read.status # "COMPLETED")

(* update_task and its tool: the fields given, and the keys of the status   *)
(* or, failing that, of the due date.  The tool ignores an empty reason.    *)
TaskUpdated(t, r, read) ==
  LET due == Given(r.due, read.due)
      fields == [t EXCEPT !.due = Given(r.due, @), !.assignee = Given(r.assignee, @),
                          !.reason = IF r.reason = "given" THEN TRUE
                                     ELSE IF r.kind = "update" /\ r.reason = "empty" THEN FALSE
                                     ELSE @,
                          !.completed = Completion(t, r, read)]
  IN IF r.status # None THEN StatusMoved(fields, r.status, due)
     ELSE IF r.due # None THEN [fields EXCEPT !.gsi2 = <<read.status, r.due>>]
     ELSE fields

(* reassign_task: unowned work becomes owned work. *)
TaskReassigned(t, r, read) ==
  LET moved == [t EXCEPT !.assignee = r.assignee]
  IN IF read.status \in {"BACKLOG", "PENDING"} THEN StatusMoved(moved, "ASSIGNED", read.due)
     ELSE moved

TaskWritten(t, r, read) ==
  CASE r.kind \in {"update", "tool_update"} -> TaskUpdated(t, r, read)
    [] r.kind = "reassign" -> TaskReassigned(t, r, read)
    [] r.kind = "tool_assign" ->
         StatusMoved([t EXCEPT !.assignee = r.assignee], "ASSIGNED", read.due)

WriteTask(c) ==
  /\ working[c].at = "write"
  /\ task' = TaskWritten(task, working[c].req, working[c].saw)
  /\ TeamCallEnds(c)
  /\ StillTeam

ServeTask(c) == FindTask(c) \/ RefuseTask(c) \/ WriteTask(c)

TasksNext ==
  \/ TeamsNext /\ UNCHANGED task
  \/ CreateTask
  \/ \E c \in Calls : BeginTaskRequest(c) \/ ServeTask(c)

TasksSpec == TasksInit /\ [][TasksNext]_taskVars

---------------------------------------------------------------------------
(* The item keeps its type. *)
TasksTypeOK == TeamsTypeOK /\ task \in TaskItem \cup {None}

(* The creation-ordered index finds the task under its status, however      *)
(* updates, assignments and reassignments overlap: every write that moves   *)
(* the status moves the key with it, and no other touches either.           *)
StatusIndexFollows == task # None => task.gsi1 = task.status

(* "Missing either leaves the task invisible": of requests in turn the      *)
(* deadline index follows as well.  (It repeats two fields, of which one    *)
(* comes from the read, so an overlapping change of the date is undone.)    *)
DueIndexFollows == task # None /\ ~regime.overlap => task.gsi2 = <<task.status, task.due>>

(* Work that reads as done says when: completed_at is there although        *)
(* update_task leaves it alone if the task it read was done already.        *)
CompletedHasTime == task # None /\ task.status = "COMPLETED" => task.completed

(* "Blocking a task needs a blocked_reason, so somebody can unblock it":    *)
(* the API checks the reason it read, so this takes callers who never send  *)
(* an empty one.                                                            *)
BlockedHasReason ==
  /\ task # None /\ task.status = "BLOCKED"
  /\ \A r \in TaskRequests : r.kind = "update" /\ r.kind \in regime.kinds => r.reason # "empty"
  => task.reason

(* The task item agrees with itself: both index keys, the reason and the    *)
(* completion time follow the status, whichever of four handlers moved it.  *)
TaskIsConsistent ==
  StatusIndexFollows /\ DueIndexFollows /\ CompletedHasTime /\ BlockedHasReason

(* "Moving work off a person" is the leader's: of requests in turn, no      *)
(* member and no tool takes a task from its owner.                          *)
OnlyLeadersMoveWork ==
  [][(task # None /\ ~regime.overlap /\ task.assignee # None /\ task'.assignee # task.assignee)
      => \E c \in Calls : working[c].at = "write" /\ working[c].req.by = Leader
                          /\ working[c].req.kind \in {"update", "reassign"}]_taskVars

(* In turn, a member writes only what is their own or nobody's, and only    *)
(* while on the team.                                                       *)
MembersWriteTheirOwn ==
  [][\A c \in Calls :
       (/\ working[c].at = "write" /\ working'[c].at = "end" /\ ~regime.overlap
        /\ working[c].req.kind \in {"update", "tool_update"} /\ working[c].req.by # Leader)
       => /\ task.assignee \in {None, working[c].req.by}
          /\ membership[working[c].req.by] = "active"]_taskVars

(* Work is taken off a person, and written, only by who may.                *)
TaskWritersAreEntitled == OnlyLeadersMoveWork /\ MembersWriteTheirOwn
=============================================================================
