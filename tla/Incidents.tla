------------------------------ MODULE Incidents ------------------------------
(***************************************************************************)
(* One incident: the handlers of services/api/incidents_handler, the       *)
(* agent's incident tools and the simulation's analysis, which all write   *)
(* the INCIDENT item, and one execution of the response workflow           *)
(* (workflows/incident-response over services/workflows/incident_response).*)
(*                                                                         *)
(* Nothing under src answers the task token the workflow waits on; Answer  *)
(* stands for whoever calls SendTaskSuccess with the decision.             *)
(***************************************************************************)
EXTENDS Integers, FiniteSets, Consents

CONSTANTS
  IncidentRequests,  \* the requests of the API, the tools and the simulation
  ResponseRetries    \* the workflow's MaxAttempts

Statuses == {"REPORTED", "DETECTED", "ACKNOWLEDGED", "ANALYZING", "RECOMMENDATION_READY",
             "AWAITING_APPROVAL", "APPROVED", "EXECUTING", "RESOLVED", "REOPENED",
             "CLOSED", "REJECTED", "ESCALATED"}
ClosedStatuses == {"RESOLVED", "CLOSED", "REJECTED"}
MemberSettable == {"ACKNOWLEDGED", "ANALYZING"}
Severe == {"HIGH", "CRITICAL"}
Severities == Severe \cup {"LOW", "MEDIUM"}

(* An update names the fields it gives; None stands for a field left out. *)
Update(leader, status, severity) ==
  [kind |-> "update", leader |-> leader, status |-> status, severity |-> severity]
Comment(withTask) == [kind |-> "comment", leader |-> FALSE, task |-> withTask]
Resolve(leader) == [kind |-> "resolve", leader |-> leader]
Reopen(leader) == [kind |-> "reopen", leader |-> leader]
Analyse == [kind |-> "analyse", leader |-> TRUE, task |-> TRUE]

AnyRequest ==
  {Update(leader, status, severity) :
     leader \in BOOLEAN, status \in Statuses \cup {None}, severity \in Severities \cup {None}}
  \cup {Comment(withTask) : withTask \in BOOLEAN}
  \cup {Resolve(leader) : leader \in BOOLEAN} \cup {Reopen(leader) : leader \in BOOLEAN}
  \cup {Analyse}

IncidentItem ==
  [status : Statuses, key : Statuses, severity : Severities, comments : Nat, reopened : Nat,
   acknowledged : Calls \cup {None}]

(* Of a regime: severities, what is reported; workflow, an execution is     *)
(* started; answered, somebody answers the token.                           *)
ASSUME IncidentAssumption ==
  /\ \A r \in Regimes : r.part = "incidents" =>
       /\ {"severities", "workflow", "answered", "deciders"} \subseteq DOMAIN r
       /\ r.severities \subseteq Severities
       /\ r.workflow \in BOOLEAN /\ r.answered \in BOOLEAN
  /\ IncidentRequests \subseteq AnyRequest
  /\ ResponseRetries \in Nat
  /\ None \notin Statuses \cup Severities \cup IncidentItem

VARIABLES
  incident,      \* the INCIDENT item, or None
  thread,        \* the comments stored: by whom, and whether they name a task
  linkedTasks,   \* invocations whose task is stored
  serving,       \* the invocations; saw holds comments and acknowledged as read
  response,      \* the execution: its state, its retries, the severity it analysed
  consent,       \* the workflow's APPROVAL item and who is deciding it
  closings       \* history: times the incident went from open to closed

incidentVars == <<incident, thread, linkedTasks, serving, response, consent, closings, regime>>
workflowState == <<response, consent>>

Open(i) == i.status \notin ClosedStatuses

(* Every write of the item goes through here: the history sees a closing.   *)
Put(new) ==
  /\ incident' = new
  /\ closings' = IF Open(incident) /\ ~Open(new) THEN closings + 1 ELSE closings

IncidentInit ==
  /\ incident = None
  /\ thread = {} /\ linkedTasks = {}
  /\ serving = AllIdle
  /\ response = [at |-> "none", tries |-> 0, severity |-> None]
  /\ consent = NotAsked
  /\ closings = 0
  /\ regime \in Regimes

(* What is reported, in a regime of this component. *)
ReportedSeverities == IF regime.part = "incidents" THEN regime.severities ELSE {}

(* report_incident and the create_incident tool put the item. *)
Report ==
  /\ incident = None
  /\ \E severity \in ReportedSeverities, status \in {"REPORTED", "DETECTED"} :
       incident' = [status |-> status, key |-> status, severity |-> severity,
                    comments |-> 0, reopened |-> 0, acknowledged |-> None]
  /\ UNCHANGED <<thread, linkedTasks, serving, workflowState, closings, regime>>

---------------------------------------------------------------------------
(* The requests. *)

BeginRequest(c) ==
  /\ incident # None /\ MayBegin(serving, c)
  /\ \E r \in IncidentRequests :
       r.kind \in regime.kinds /\ serving' = Begun(serving, c, r)
  /\ UNCHANGED <<incident, thread, linkedTasks, workflowState, closings, regime>>

(* Requests the handlers refuse, by role or by the status they read. *)
Refused(r, i) ==
  \/ r.kind \in {"resolve", "reopen"} /\ ~r.leader
  \/ r.kind = "update" /\ ~r.leader /\ r.severity # None
  \/ r.kind = "update" /\ ~r.leader /\ r.status \notin MemberSettable \cup {None}
  \/ r.kind = "resolve" /\ ~Open(i)
  \/ r.kind = "reopen" /\ Open(i)

AfterFound(r) ==
  IF r.kind \in {"comment", "analyse"} THEN (IF r.task THEN "task" ELSE "comment")
  ELSE "write"

ReadIncident(c) ==
  /\ serving[c].at = "read" /\ ~Refused(serving[c].req, incident)
  /\ serving' = After(serving, c, AfterFound(serving[c].req),
                      [comments |-> incident.comments, acknowledged |-> incident.acknowledged])
  /\ UNCHANGED <<incident, thread, linkedTasks, workflowState, closings, regime>>

RefuseRequest(c) ==
  /\ serving[c].at = "read" /\ Refused(serving[c].req, incident)
  /\ serving' = Done(serving, c)
  /\ UNCHANGED <<incident, thread, linkedTasks, workflowState, closings, regime>>

(* _create_task_from_comment: the task names the comment that is to come. *)
CreateLinkedTask(c) ==
  /\ serving[c].at = "task"
  /\ linkedTasks' = linkedTasks \cup {c}
  /\ serving' = GoneTo(serving, c, "comment")
  /\ UNCHANGED <<incident, thread, workflowState, closings, regime>>

StoreComment(c) ==
  /\ serving[c].at = "comment"
  /\ thread' = thread \cup {[by |-> c, task |-> serving[c].req.task]}
  /\ serving' = GoneTo(serving, c, IF serving[c].req.kind = "comment" THEN "count" ELSE "write")
  /\ UNCHANGED <<incident, linkedTasks, workflowState, closings, regime>>

(* Mutation of NewCommentCount: read, then set. *)
NewCommentCountFromRead(c) == serving[c].saw.comments + 1

(* An atomic ADD. *)
NewCommentCount(c) == incident.comments + 1

CountComment(c) ==
  /\ serving[c].at = "count"
  /\ Put([incident EXCEPT !.comments = NewCommentCount(c)])
  /\ serving' = Done(serving, c)
  /\ UNCHANGED <<thread, linkedTasks, workflowState, regime>>

(* A transition rewrites the index sort key with the status. *)
Moved(i, status) == [i EXCEPT !.status = status, !.key = status]

(* acknowledged_at and _by are set unless the item read had them. *)
Acknowledged(i, c) ==
  IF serving[c].saw.acknowledged = None THEN [i EXCEPT !.acknowledged = c] ELSE i

Updated(i, c) ==
  LET r == serving[c].req
      j == IF r.severity = None THEN i ELSE [i EXCEPT !.severity = r.severity]
  IN IF r.status = None THEN j
     ELSE IF r.status = "ACKNOWLEDGED" THEN Acknowledged(Moved(j, r.status), c)
     ELSE Moved(j, r.status)

(* The item each request writes: update_incident, resolve_incident,         *)
(* reopen_incident (ADD of the count), _step_agent_analyses (which sets the *)
(* comment count it computed).                                              *)
Served(i, c) ==
  CASE serving[c].req.kind = "update" -> Updated(i, c)
    [] serving[c].req.kind = "resolve" -> Moved(i, "RESOLVED")
    [] serving[c].req.kind = "reopen" -> [Moved(i, "REOPENED") EXCEPT !.reopened = @ + 1]
    [] serving[c].req.kind = "analyse" ->
         [Moved(i, "RECOMMENDATION_READY") EXCEPT !.comments = serving[c].saw.comments + 1]

WriteIncident(c) ==
  /\ serving[c].at = "write"
  /\ Put(Served(incident, c))
  /\ serving' = Done(serving, c)
  /\ UNCHANGED <<thread, linkedTasks, workflowState, regime>>

(* The invocation dies, or DynamoDB fails one of its calls. *)
RequestDies(c) ==
  /\ regime.failures /\ Active(serving, c)
  /\ serving' = Dead(serving, c)
  /\ UNCHANGED <<incident, thread, linkedTasks, workflowState, closings, regime>>

ServeRequest(c) ==
  \/ ReadIncident(c) \/ RefuseRequest(c) \/ CreateLinkedTask(c) \/ StoreComment(c) \/ CountComment(c)
  \/ WriteIncident(c)

---------------------------------------------------------------------------
(* The response workflow.  Its states carry the names of the state machine; *)
(* "analysing" and "asking" are the halves of a handler with two calls.     *)

Ends == {"resolved", "escalated", "rejected", "failed"}
GoTo(next) == response' = [response EXCEPT !.at = next]
Rest == <<thread, linkedTasks, serving, regime>>

(* The workflow's writes leave the index key alone. *)
Mark(status) == Put([incident EXCEPT !.status = status])

StartResponse ==
  /\ regime.workflow /\ incident # None /\ response.at = "none"
  /\ GoTo("AnalyzeIncident")
  /\ UNCHANGED <<Rest, incident, consent, closings>>

(* _analyze reads the item, then writes ANALYZING. *)
AnalyzeReads ==
  /\ response.at = "AnalyzeIncident"
  /\ response' = [response EXCEPT !.at = "analysing", !.severity = incident.severity]
  /\ UNCHANGED <<Rest, incident, consent, closings>>

SeverityCheck(severity) ==
  IF severity \in Severe THEN "PrepareRecommendation" ELSE "AutoResolve"

AnalyzeWrites ==
  /\ response.at = "analysing"
  /\ Mark("ANALYZING")
  /\ GoTo(SeverityCheck(response.severity))
  /\ UNCHANGED <<Rest, consent>>

PrepareRecommendation ==
  /\ response.at = "PrepareRecommendation"
  /\ Mark("RECOMMENDATION_READY")
  /\ GoTo("RequestHumanApproval")
  /\ UNCHANGED <<Rest, consent>>

(* _request_approval puts the APPROVAL item with the task token, then marks *)
(* the incident.                                                            *)
AskApproval ==
  /\ response.at = "RequestHumanApproval"
  /\ consent' = Asked
  /\ GoTo("asking")
  /\ UNCHANGED <<Rest, incident, closings>>

AskedApproval ==
  /\ response.at = "asking"
  /\ Mark("AWAITING_APPROVAL")
  /\ GoTo("waiting")
  /\ UNCHANGED <<Rest, consent>>

(* Leaders decide through the approvals API, at any time and also at once:  *)
(* each checks the status, then writes a decision.                          *)
FindConsent(d) ==
  /\ MayDecide(consent, d)
  /\ consent' = Deciding(consent, d)
  /\ UNCHANGED <<Rest, incident, response, closings>>

DecideConsent(d) ==
  /\ d \in consent.deciding
  /\ \E decision \in Decisions : consent' = Decided(consent, d, decision)
  /\ UNCHANGED <<Rest, incident, response, closings>>

(* Mutation of ApprovalOutcome: anything but a refusal executes. *)
ApprovalOutcomeUnlessDeclined(decision) ==
  IF decision = "DECLINED" THEN "IncidentRejected" ELSE "ExecuteResolution"

ApprovalOutcome(decision) ==
  IF decision = "APPROVED" THEN "ExecuteResolution" ELSE "IncidentRejected"

(* SendTaskSuccess, with the decision or with anything else.  A token that  *)
(* is no longer waited on is refused.                                       *)
Answer ==
  /\ response.at = "waiting" /\ regime.answered
  /\ \E decision \in AnswersTo(consent) : GoTo(ApprovalOutcome(decision))
  /\ UNCHANGED <<Rest, incident, consent, closings>>

(* TimeoutSeconds of the wait runs out. *)
ApprovalTimeout ==
  /\ response.at = "waiting"
  /\ GoTo("EscalateIncident")
  /\ UNCHANGED <<Rest, incident, consent, closings>>

(* The remaining states: one write each, then the next state. *)
Step(at, status, next) ==
  /\ response.at = at
  /\ Mark(status)
  /\ GoTo(next)
  /\ UNCHANGED <<Rest, consent>>

AutoResolve == Step("AutoResolve", "RESOLVED", "RecordResolution")
ExecuteResolution == Step("ExecuteResolution", "EXECUTING", "RecordResolution")
RecordResolution == Step("RecordResolution", "RESOLVED", "resolved")
EscalateIncident == Step("EscalateIncident", "ESCALATED", "escalated")
IncidentRejected == Step("IncidentRejected", "REJECTED", "rejected")

(* Mutation of AfterFailure: one attempt more than the state machine has. *)
AfterFailureOnceMore(r, listed) ==
  IF listed /\ r.at \in {"AnalyzeIncident", "analysing"} /\ r.tries <= ResponseRetries
  THEN [r EXCEPT !.at = "AnalyzeIncident", !.tries = @ + 1]
  ELSE [r EXCEPT !.at = "failed"]

(* Only AnalyzeIncident is retried, and only on the Lambda service error    *)
(* its Retry lists: an error of the handler's own, or of any other state,   *)
(* ends the execution.                                                      *)
AfterFailure(r, listed) ==
  IF listed /\ r.at \in {"AnalyzeIncident", "analysing"} /\ r.tries < ResponseRetries
  THEN [r EXCEPT !.at = "AnalyzeIncident", !.tries = @ + 1]
  ELSE [r EXCEPT !.at = "failed"]

StepFails ==
  /\ regime.failures
  /\ response.at \notin {"none", "waiting"} \cup Ends
  /\ \E listed \in BOOLEAN : response' = AfterFailure(response, listed)
  /\ UNCHANGED <<Rest, incident, consent, closings>>

RunStep ==
  \/ AnalyzeReads \/ AnalyzeWrites \/ PrepareRecommendation \/ AskApproval \/ AskedApproval
  \/ AutoResolve \/ ExecuteResolution \/ RecordResolution \/ EscalateIncident
  \/ IncidentRejected \/ StepFails

RunResponse == RunStep \/ Answer \/ ApprovalTimeout

---------------------------------------------------------------------------
IncidentNext ==
  \/ Report
  \/ \E c \in Calls : BeginRequest(c) \/ ServeRequest(c) \/ RequestDies(c)
  \/ StartResponse \/ RunResponse
  \/ \E d \in Deciders : FindConsent(d) \/ DecideConsent(d)

(* Step Functions runs its states and its timers. *)
IncidentSpec ==
  IncidentInit /\ [][IncidentNext]_incidentVars /\ WF_incidentVars(RunResponse)

---------------------------------------------------------------------------
(* Every variable keeps its type. *)
IncidentTypeOK ==
  /\ incident \in IncidentItem \cup {None}
  /\ thread \subseteq [by : Calls, task : BOOLEAN] /\ linkedTasks \subseteq Calls
  /\ \A c \in Calls : serving[c].at \in Resting \cup {"read", "task", "comment", "count", "write"}
  /\ response.tries \in 0 .. ResponseRetries
  /\ consent \in Consent
  /\ closings \in Nat

(* "Several people commenting at once is the normal case" (add_comment):    *)
(* the count is the number of comments stored, but for those on their way   *)
(* to the counter and those whose invocation died on it.  (The simulation's *)
(* analysis sets the count it read: that takes requests in turn.)           *)
CommentsCounted ==
  incident # None /\ (regime.overlap => "analyse" \notin regime.kinds) =>
    incident.comments = Cardinality({m \in thread : serving[m.by].at = "end"})

(* A comment that says it created a task did: the link never dangles,       *)
(* wherever an invocation dies.                                             *)
CommentTasksExist == \A m \in thread : m.task => m.by \in linkedTasks

(* "A transition has to rewrite" the index key (update_incident): status    *)
(* and key agree however requests overlap, as long as no workflow writes.   *)
IndexFollowsStatus ==
  incident # None /\ ~regime.workflow => incident.key = incident.status

(* Each reopening answers a closing: leaders in turn cannot reopen what is  *)
(* open, nor twice what was closed once.                                    *)
ReopeningsFollowClosings ==
  incident # None /\ ~regime.overlap => incident.reopened <= closings

(* The incident item agrees with what it summarises: its comments and their *)
(* tasks, its index key and its closings.                                   *)
IncidentIsConsistent ==
  CommentsCounted /\ CommentTasksExist /\ IndexFollowsStatus /\ ReopeningsFollowClosings

(* What was analysed as HIGH or CRITICAL is executed, and resolved by the   *)
(* workflow, only after a leader approved it, whoever else decides and      *)
(* however late.                                                            *)
SeriousNeedsApproval ==
  /\ response.at \in {"ExecuteResolution", "RecordResolution", "resolved"}
  /\ response.severity \in Severe
  => consent.approved

(* The execution ends, whatever fails and whoever fails to answer.          *)
ResponseEnds == <>[](response.at \in Ends \cup {"none"})
=============================================================================
