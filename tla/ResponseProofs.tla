---------------------------- MODULE ResponseProofs ----------------------------
(***************************************************************************)
(* Proofs about the incident, the speaker and the agent, for any number of *)
(* requests that overlap, die or run beside the workflows: the response    *)
(* workflow executes nothing serious without an approval, the incident     *)
(* agrees with its comments, its index key and its closings, follow-ups    *)
(* are accounted for, a confirmation follows a response, and the gate      *)
(* keeps the agent within its caller's authority.  They carry over to      *)
(* MCResponse, where the three stand beside each other.                    *)
(***************************************************************************)
EXTENDS MCResponse, FiniteSetTheorems, SequenceTheorems, TLAPS

(* The specification without its fairness, which safety does not need. *)
LEMMA IncidentSafety == IncidentSpec => IncidentInit /\ [][IncidentNext]_incidentVars
BY PTL DEF IncidentSpec

---------------------------------------------------------------------------
(* The approval.  What reads as approved was approved, and stays so for the *)
(* history whatever is decided over it.                                     *)
SoundConsent == {item \in Consent : item.status = "APPROVED" => item.approved}

LEMMA AskedIsSound == NotAsked \in SoundConsent /\ Asked \in SoundConsent
BY DEF NotAsked, Asked, ConsentItem, SoundConsent, Consent

LEMMA DecidingIsSound ==
  ASSUME NEW item \in SoundConsent, NEW d \in Deciders
  PROVE  Deciding(item, d) \in SoundConsent /\ (item.approved => Deciding(item, d).approved)
         /\ (Deciding(item, d).approved => item.approved)
BY DEF Deciding, SoundConsent, Consent

LEMMA DecidedIsSound ==
  ASSUME NEW item \in SoundConsent, NEW d \in Deciders, NEW decision \in Decisions
  PROVE  Decided(item, d, decision) \in SoundConsent /\ (item.approved => Decided(item, d, decision).approved)
<1>1. /\ item \in [status : {"none", "PENDING"} \cup Decisions, deciding : SUBSET Deciders, approved : BOOLEAN]
      /\ (item.approved \/ decision = "APPROVED") \in BOOLEAN
  BY DEF SoundConsent, Consent
<1>2. /\ Decided(item, d, decision).status = decision
      /\ Decided(item, d, decision).approved = (item.approved \/ decision = "APPROVED")
      /\ Decided(item, d, decision) \in Consent
  BY <1>1 DEF Decided, Consent
<1>3. QED
  BY <1>1, <1>2 DEF SoundConsent

(* The steps of the leaders who decide. *)
ConsentStep == \E d \in Deciders : FindConsent(d) \/ DecideConsent(d)

(* Where the execution stands says what was analysed and what was decided:  *)
(* nothing serious is on the automatic branch, and what executes has been   *)
(* approved.                                                                *)
Gated ==
  /\ DOMAIN response = {"at", "tries", "severity"}
  /\ response.at = "AutoResolve" => response.severity \notin Severe
  /\ response.at = "ExecuteResolution" => consent.approved
  /\ response.at \in {"RecordResolution", "resolved"} =>
       response.severity \notin Severe \/ consent.approved
  /\ consent \in SoundConsent

(* The branch a severity takes, and the branch a decision takes. *)
LEMMA SevereIsPrepared ==
  ASSUME NEW severity, SeverityCheck(severity) = "AutoResolve" PROVE severity \notin Severe
BY DEF SeverityCheck

LEMMA OnlyApprovalExecutes ==
  ASSUME NEW decision, ApprovalOutcome(decision) # "IncidentRejected"
  PROVE  decision = "APPROVED" /\ decision # None
BY IncidentAssumption DEF ApprovalOutcome, Statuses

LEMMA GoesTo ==
  ASSUME Gated, NEW next, GoTo(next)
  PROVE  /\ DOMAIN response' = {"at", "tries", "severity"}
         /\ response'.at = next /\ response'.severity = response.severity
BY DEF Gated, GoTo

LEMMA NextGated == Gated /\ [IncidentNext]_incidentVars => Gated'
<1> SUFFICES ASSUME Gated, [IncidentNext]_incidentVars PROVE Gated'
  OBVIOUS
<1>1. CASE UNCHANGED workflowState
  BY <1>1 DEF Gated, workflowState
<1>2. CASE UNCHANGED incidentVars
  BY <1>1, <1>2 DEF incidentVars, workflowState
<1>3. CASE Report
  BY <1>1, <1>3 DEF Report
<1>4. ASSUME NEW c \in Calls, BeginRequest(c) \/ ServeRequest(c) \/ RequestDies(c) PROVE Gated'
  BY <1>1, <1>4 DEF BeginRequest, ServeRequest, RequestDies, ReadIncident, RefuseRequest,
     CreateLinkedTask, StoreComment, CountComment, WriteIncident
<1>5. CASE StartResponse
  BY <1>5, GoesTo DEF StartResponse, Gated
<1>6. CASE AnalyzeReads
  BY <1>6 DEF AnalyzeReads, Gated
<1>7. CASE AnalyzeWrites
  BY <1>7, GoesTo, SevereIsPrepared DEF AnalyzeWrites, Gated, SeverityCheck
<1>8. CASE PrepareRecommendation
  BY <1>8, GoesTo DEF PrepareRecommendation, Gated
<1>9. CASE AskApproval
  BY <1>9, GoesTo, AskedIsSound DEF AskApproval, Gated
<1>10. CASE AskedApproval
  BY <1>10, GoesTo DEF AskedApproval, Gated
<1>11. CASE ConsentStep
  <2>1. response' = response /\ consent' \in SoundConsent /\ (consent.approved => consent'.approved)
    BY <1>11, DecidingIsSound, DecidedIsSound DEF ConsentStep, FindConsent, DecideConsent, Gated
  <2>2. QED
    BY <2>1 DEF Gated
<1>12. CASE Answer
  <2>1. PICK decision \in AnswersTo(consent) : GoTo(ApprovalOutcome(decision))
    BY <1>12 DEF Answer
  <2>2. response'.at \in {"ExecuteResolution", "IncidentRejected"}
    BY <2>1, GoesTo DEF ApprovalOutcome
  <2>3. response'.at = "ExecuteResolution" => consent.approved
    BY <2>1, GoesTo, OnlyApprovalExecutes DEF AnswersTo, Gated, SoundConsent
  <2>4. QED
    BY <1>12, <2>1, <2>2, <2>3, GoesTo DEF Answer, Gated
<1>13. CASE ApprovalTimeout
  BY <1>13, GoesTo DEF ApprovalTimeout, Gated
<1>14. CASE AutoResolve
  BY <1>14, GoesTo DEF AutoResolve, Step, Gated
<1>15. CASE ExecuteResolution
  BY <1>15, GoesTo DEF ExecuteResolution, Step, Gated
<1>16. CASE RecordResolution
  BY <1>16, GoesTo DEF RecordResolution, Step, Gated
<1>17. CASE EscalateIncident \/ IncidentRejected
  BY <1>17, GoesTo DEF EscalateIncident, IncidentRejected, Step, Gated
<1>18. CASE StepFails
  BY <1>18 DEF StepFails, AfterFailure, Gated
<1>19. QED
  BY <1>2, <1>3, <1>4, <1>5, <1>6, <1>7, <1>8, <1>9, <1>10, <1>11, <1>12, <1>13, <1>14, <1>15,
     <1>16, <1>17, <1>18
  DEF IncidentNext, ConsentStep, RunResponse, RunStep

(* What was analysed as HIGH or CRITICAL is executed and resolved by the    *)
(* workflow only with an approval (SeverityCheck and the approval choice of *)
(* the state machine): no timeout, retry or late decision leads round it.   *)
THEOREM NothingSeriousUnapproved == IncidentSpec => []SeriousNeedsApproval
<1>1. IncidentInit => Gated
  BY AskedIsSound DEF IncidentInit, Gated
<1>2. Gated => SeriousNeedsApproval
  BY DEF Gated, SeriousNeedsApproval
<1>3. QED
  BY <1>1, <1>2, NextGated, IncidentSafety, PTL

---------------------------------------------------------------------------
(* The item.  The inductive invariant has a part for each thing that may    *)
(* disagree with it.                                                        *)

BeyondRead == {"task", "comment", "count", "write"}
AtWork == {"read"} \cup BeyondRead

(* An invocation at a stage has a request that has that stage.              *)
CallFits(c) ==
  LET s == serving[c] IN
  /\ DOMAIN s = {"at", "req", "saw"}
  /\ s.at \in Resting \cup AtWork
  /\ s.at \in AtWork => /\ incident \in IncidentItem
                        /\ s.req \in IncidentRequests /\ s.req.kind \in regime.kinds
  /\ s.at \in BeyondRead => s.saw.comments \in Nat
  /\ s.at \in {"task", "comment"} => s.req.kind \in {"comment", "analyse"}
  /\ s.at = "count" => s.req.kind = "comment"
  /\ s.at = "write" => s.req.kind # "comment"

CallsFit == DOMAIN serving = Calls /\ \A c \in Calls : CallFits(c)

ItemTyped ==
  /\ incident \in IncidentItem \cup {None} /\ closings \in Nat
  /\ thread \subseteq [by : Calls, task : BOOLEAN] /\ IsFiniteSet(thread)
  /\ linkedTasks \subseteq Calls
  /\ incident = None => thread = {}

WorkflowTyped ==
  /\ DOMAIN response = {"at", "tries", "severity"}
  /\ response.tries \in 0 .. ResponseRetries
  /\ consent \in SoundConsent
  /\ response.at # "none" \/ consent # NotAsked => incident \in IncidentItem /\ regime.workflow

(* Requests in turn: one at a time, and what it has read still holds.       *)
InTurn ==
  ~regime.overlap =>
    /\ \A c, d \in Calls : Active(serving, c) /\ Active(serving, d) => c = d
    /\ \A c \in Calls : serving[c].at \in BeyondRead => serving[c].saw.comments = incident.comments

(* Each invocation stores one comment, on its way from its task to the      *)
(* counter.                                                                 *)
OnItsWay(c) ==
  serving[c].at = "count" \/ (serving[c].at = "write" /\ serving[c].req.kind = "analyse")

ThreadPlaced ==
  /\ \A m, n \in thread : m.by = n.by => m = n
  /\ \A m \in thread : serving[m.by].at \in {"end", "died"} \/ OnItsWay(m.by)
  /\ \A c \in Calls : OnItsWay(c) => \E m \in thread : m.by = c

TasksBehindComments ==
  /\ \A m \in thread : m.task => m.by \in linkedTasks
  /\ \A c \in Calls : serving[c].at = "comment" /\ serving[c].req.task => c \in linkedTasks

(* What reopens in turn was closed once more than it was reopened.          *)
ReopeningsBehind ==
  incident # None /\ ~regime.overlap =>
    /\ incident.reopened <= closings
    /\ ~Open(incident) => incident.reopened < closings
    /\ \A c \in Calls : serving[c].at = "write" /\ serving[c].req.kind = "reopen"
         => incident.reopened < closings

ItemInv ==
  /\ CallsFit /\ ItemTyped /\ WorkflowTyped /\ InTurn
  /\ ThreadPlaced /\ TasksBehindComments /\ CommentsCounted
  /\ IndexFollowsStatus /\ ReopeningsBehind

---------------------------------------------------------------------------
(* How an invocation moves: it alone, and its request stays with it. *)

OthersStay(c) == DOMAIN serving' = Calls /\ \A d \in Calls \ {c} : serving'[d] = serving[d]

LEMMA GoingTo ==
  ASSUME CallsFit, NEW c \in Calls, NEW at, serving' = GoneTo(serving, c, at)
  PROVE  /\ OthersStay(c) /\ DOMAIN serving'[c] = {"at", "req", "saw"}
         /\ serving'[c].at = at
         /\ serving'[c].req = serving[c].req /\ serving'[c].saw = serving[c].saw
BY DEF CallsFit, CallFits, GoneTo, OthersStay

LEMMA GoingOnAfter ==
  ASSUME CallsFit, NEW c \in Calls, NEW at, NEW saw, serving' = After(serving, c, at, saw)
  PROVE  /\ OthersStay(c) /\ DOMAIN serving'[c] = {"at", "req", "saw"}
         /\ serving'[c].at = at /\ serving'[c].saw = saw
         /\ serving'[c].req = serving[c].req
BY DEF CallsFit, CallFits, After, OthersStay

LEMMA Ending ==
  ASSUME CallsFit, NEW c \in Calls, serving' = Done(serving, c) \/ serving' = Dead(serving, c)
  PROVE  /\ OthersStay(c) /\ DOMAIN serving'[c] = {"at", "req", "saw"}
         /\ serving'[c].at \in {"end", "died"}
         /\ serving' = Done(serving, c) => serving'[c].at = "end"
         /\ serving' = Dead(serving, c) => serving'[c].at = "died"
BY DEF CallsFit, Done, Dead, Invocation, OthersStay

LEMMA Beginning ==
  ASSUME CallsFit, NEW c \in Calls, NEW r, serving' = Begun(serving, c, r)
  PROVE  /\ OthersStay(c) /\ DOMAIN serving'[c] = {"at", "req", "saw"}
         /\ serving'[c].at = "read" /\ serving'[c].req = r
BY DEF CallsFit, Begun, Invocation, OthersStay

(* The kinds of request, and what the fields of an update may hold. *)
LEMMA RequestKinds ==
  ASSUME NEW r \in IncidentRequests
  PROVE  /\ r.kind \in {"update", "comment", "resolve", "reopen", "analyse"}
         /\ r.kind = "update" => /\ r.status \in Statuses \cup {None}
                                 /\ r.severity \in Severities \cup {None}
         /\ r.kind \in {"comment", "analyse"} => r.task \in BOOLEAN
<1>1. r \in AnyRequest
  BY IncidentAssumption
<1>2. CASE \E l \in BOOLEAN, s \in Statuses \cup {None}, v \in Severities \cup {None} :
            r = Update(l, s, v)
  BY <1>2 DEF Update
<1>3. CASE \E t \in BOOLEAN : r = Comment(t)
  BY <1>3 DEF Comment
<1>4. CASE \E l \in BOOLEAN : r = Resolve(l) \/ r = Reopen(l)
  BY <1>4 DEF Resolve, Reopen
<1>5. CASE r = Analyse
  BY <1>5 DEF Analyse
<1>6. QED
  BY <1>1, <1>2, <1>3, <1>4, <1>5 DEF AnyRequest

(* While an invocation is at work, the item is there; None is no item.      *)
LEMMA ItemThere ==
  ASSUME ItemTyped, incident # None PROVE incident \in IncidentItem
BY DEF ItemTyped

LEMMA NoneIsNoItem == None \notin IncidentItem
BY IncidentAssumption

---------------------------------------------------------------------------
(* Steps that leave the item and its thread alone, and move one invocation. *)

Quiet(c) ==
  /\ OthersStay(c) /\ CallFits(c)'
  /\ UNCHANGED <<incident, thread, workflowState, closings, regime>>
  /\ linkedTasks \subseteq linkedTasks' /\ linkedTasks' \subseteq Calls
  /\ ~OnItsWay(c) /\ ~OnItsWay(c)' /\ serving[c].at \notin {"end", "died"}
  /\ Active(serving, c) \/ regime.overlap \/ \A d \in Calls : ~Active(serving, d)
  /\ serving'[c].at \in BeyondRead => serving'[c].saw.comments = incident.comments \/ regime.overlap
  /\ serving'[c].at = "comment" /\ serving'[c].req.task => c \in linkedTasks'
  /\ serving'[c].at = "write" /\ serving'[c].req.kind = "reopen" => ~Open(incident) \/ regime.overlap

LEMMA QuietInv ==
  ASSUME ItemInv, NEW c \in Calls, Quiet(c)
  PROVE  ItemInv'
<1>1. CallsFit'
  BY DEF ItemInv, CallsFit, Quiet, OthersStay, CallFits
<1>2. ItemTyped' /\ WorkflowTyped'
  BY DEF ItemInv, ItemTyped, WorkflowTyped, Quiet, workflowState
<1>3. InTurn'
  BY DEF ItemInv, InTurn, Quiet, OthersStay, Active, Resting, CallsFit, CallFits, BeyondRead
<1>4. \A m \in thread : m.by \in Calls /\ m.by # c
  BY DEF ItemInv, ItemTyped, ThreadPlaced, Quiet
<1>5. ThreadPlaced'
  BY <1>4 DEF ItemInv, ThreadPlaced, Quiet, OthersStay, OnItsWay
<1>6. TasksBehindComments'
  BY <1>4 DEF ItemInv, TasksBehindComments, Quiet, OthersStay
<1>7. CommentsCounted'
  <2>1. {m \in thread : serving[m.by].at = "end"}' = {m \in thread : serving[m.by].at = "end"}
    BY <1>4 DEF Quiet, OthersStay
  <2>2. QED
    BY <2>1 DEF ItemInv, CommentsCounted, Quiet
<1>8. IndexFollowsStatus'
  BY DEF ItemInv, IndexFollowsStatus, Quiet
<1>9. ReopeningsBehind'
  BY DEF ItemInv, ReopeningsBehind, Quiet, OthersStay, Open
<1>10. QED
  BY <1>1, <1>2, <1>3, <1>5, <1>6, <1>7, <1>8, <1>9 DEF ItemInv

(* Such are: beginning, reading, refusing, storing the task. *)
LEMMA BeginQuiet ==
  ASSUME ItemInv, NEW c \in Calls, BeginRequest(c)
  PROVE  Quiet(c)
<1>1. PICK r \in IncidentRequests : r.kind \in regime.kinds /\ serving' = Begun(serving, c, r)
  BY DEF BeginRequest
<1>2. incident \in IncidentItem
  BY ItemThere DEF BeginRequest, ItemInv
<1>3. CallsFit
  BY DEF ItemInv
<1>4. /\ OthersStay(c) /\ DOMAIN serving'[c] = {"at", "req", "saw"}
      /\ serving'[c].at = "read" /\ serving'[c].req = r
  BY <1>1, <1>3, Beginning
<1>5. CallFits(c)'
  BY <1>1, <1>2, <1>4 DEF BeginRequest, CallFits, AtWork, BeyondRead, Resting
<1>6. QED
  BY <1>4, <1>5 DEF BeginRequest, MayBegin, Quiet, OnItsWay, workflowState, ItemInv, ItemTyped,
     BeyondRead

LEMMA ReadQuiet ==
  ASSUME ItemInv, NEW c \in Calls, ReadIncident(c)
  PROVE  Quiet(c)
<1> DEFINE r == serving[c].req
           saw == [comments |-> incident.comments, acknowledged |-> incident.acknowledged]
<1>1. CallsFit /\ CallFits(c) /\ serving[c].at = "read" /\ ~Refused(r, incident)
  BY DEF ItemInv, CallsFit, ReadIncident
<1>2. incident \in IncidentItem /\ r \in IncidentRequests /\ r.kind \in regime.kinds
  BY <1>1 DEF CallFits, AtWork
<1>3. /\ OthersStay(c) /\ DOMAIN serving'[c] = {"at", "req", "saw"}
      /\ serving'[c].at = AfterFound(r) /\ serving'[c].saw = saw /\ serving'[c].req = r
  BY <1>1, GoingOnAfter DEF ReadIncident
<1>4. /\ AfterFound(r) \in {"task", "comment", "write"}
      /\ AfterFound(r) \in {"task", "comment"} => r.kind \in {"comment", "analyse"}
      /\ AfterFound(r) = "write" => r.kind \notin {"comment", "analyse"}
      /\ AfterFound(r) = "comment" => ~r.task
  BY DEF AfterFound
<1>5. incident.comments \in Nat
  BY <1>2 DEF IncidentItem
<1>6. CallFits(c)'
  BY <1>1, <1>2, <1>3, <1>4, <1>5 DEF ReadIncident, CallFits, AtWork, BeyondRead
<1>7. r.kind = "reopen" => ~Open(incident)
  BY <1>1 DEF Refused
<1>8. QED
  BY <1>1, <1>3, <1>4, <1>6, <1>7 DEF ReadIncident, Quiet, OnItsWay, workflowState, ItemInv,
     ItemTyped, Active, Resting

LEMMA RefuseQuiet ==
  ASSUME ItemInv, NEW c \in Calls, RefuseRequest(c)
  PROVE  Quiet(c)
<1>1. CallsFit /\ serving[c].at = "read"
  BY DEF ItemInv, RefuseRequest
<1>2. OthersStay(c) /\ serving'[c].at = "end" /\ DOMAIN serving'[c] = {"at", "req", "saw"}
  BY <1>1, Ending DEF RefuseRequest
<1>3. QED
  BY <1>1, <1>2 DEF RefuseRequest, Quiet, CallFits, OnItsWay, workflowState, ItemInv, ItemTyped,
     Active, Resting, AtWork, BeyondRead

LEMMA CreateTaskQuiet ==
  ASSUME ItemInv, NEW c \in Calls, CreateLinkedTask(c)
  PROVE  Quiet(c)
<1>1. CallsFit /\ CallFits(c) /\ serving[c].at = "task"
  BY DEF ItemInv, CallsFit, CreateLinkedTask
<1>2. /\ OthersStay(c) /\ DOMAIN serving'[c] = {"at", "req", "saw"} /\ serving'[c].at = "comment"
      /\ serving'[c].req = serving[c].req /\ serving'[c].saw = serving[c].saw
  BY <1>1, GoingTo DEF CreateLinkedTask
<1>3. CallFits(c)'
  BY <1>1, <1>2 DEF CreateLinkedTask, CallFits, AtWork, BeyondRead
<1>4. ~regime.overlap => serving[c].saw.comments = incident.comments
  BY <1>1 DEF ItemInv, InTurn, BeyondRead
<1>5. QED
  BY <1>1, <1>2, <1>3, <1>4 DEF CreateLinkedTask, Quiet, OnItsWay, workflowState, ItemInv,
     ItemTyped, Active, Resting

---------------------------------------------------------------------------
(* Steps that end an invocation which is not in the middle of a comment.    *)

LEMMA DyingInv ==
  ASSUME ItemInv, NEW c \in Calls, RequestDies(c)
  PROVE  ItemInv'
<1>1. /\ CallsFit /\ Active(serving, c)
      /\ UNCHANGED <<incident, thread, linkedTasks, workflowState, closings, regime>>
  BY DEF ItemInv, RequestDies
<1>2. OthersStay(c) /\ serving'[c].at = "died" /\ DOMAIN serving'[c] = {"at", "req", "saw"}
  BY <1>1, Ending DEF RequestDies
<1>3. CallsFit'
  BY <1>1, <1>2 DEF CallsFit, CallFits, OthersStay, Resting, AtWork, BeyondRead
<1>4. ItemTyped' /\ WorkflowTyped'
  BY <1>1 DEF ItemInv, ItemTyped, WorkflowTyped, workflowState
<1>5. InTurn'
  BY <1>1, <1>2 DEF ItemInv, InTurn, OthersStay, Active, Resting, BeyondRead
<1>6. \A m \in thread : m.by \in Calls
  BY DEF ItemInv, ItemTyped
<1>7. ThreadPlaced'
  BY <1>1, <1>2, <1>6 DEF ItemInv, ThreadPlaced, OthersStay, OnItsWay
<1>8. TasksBehindComments'
  BY <1>1, <1>2 DEF ItemInv, TasksBehindComments, OthersStay
<1>9. CommentsCounted'
  <2>1. {m \in thread : serving[m.by].at = "end"}' = {m \in thread : serving[m.by].at = "end"}
    BY <1>1, <1>2, <1>6 DEF OthersStay, Active, Resting
  <2>2. QED
    BY <1>1, <2>1 DEF ItemInv, CommentsCounted
<1>10. IndexFollowsStatus'
  BY <1>1 DEF ItemInv, IndexFollowsStatus
<1>11. ReopeningsBehind'
  BY <1>1, <1>2 DEF ItemInv, ReopeningsBehind, OthersStay, Open
<1>12. QED
  BY <1>3, <1>4, <1>5, <1>7, <1>8, <1>9, <1>10, <1>11 DEF ItemInv

(* Storing the comment. *)
LEMMA StoringInv ==
  ASSUME ItemInv, NEW c \in Calls, StoreComment(c)
  PROVE  ItemInv'
<1> DEFINE r == serving[c].req
           new == [by |-> c, task |-> r.task]
           next == IF r.kind = "comment" THEN "count" ELSE "write"
<1>1. /\ CallsFit /\ CallFits(c) /\ serving[c].at = "comment"
      /\ thread' = thread \cup {new}
      /\ UNCHANGED <<incident, linkedTasks, workflowState, closings, regime>>
  BY DEF ItemInv, CallsFit, StoreComment
<1>2. /\ OthersStay(c) /\ DOMAIN serving'[c] = {"at", "req", "saw"} /\ serving'[c].at = next
      /\ serving'[c].req = r /\ serving'[c].saw = serving[c].saw
  BY <1>1, GoingTo DEF StoreComment
<1>3. /\ r.kind \in {"comment", "analyse"} /\ r \in IncidentRequests
      /\ incident \in IncidentItem
  BY <1>1 DEF CallFits, AtWork, BeyondRead
<1>4. r.task \in BOOLEAN
  BY <1>3, RequestKinds
<1>5. \A m \in thread : m.by \in Calls /\ m.by # c
  BY <1>1 DEF ItemInv, ItemTyped, ThreadPlaced, OnItsWay
<1>6. CallsFit'
  BY <1>1, <1>2, <1>3 DEF CallsFit, CallFits, OthersStay, Resting, AtWork, BeyondRead
<1>7. ItemTyped'
  <2>1. new \in [by : Calls, task : BOOLEAN]
    BY <1>4
  <2>2. IsFiniteSet(thread')
    BY <1>1, FS_AddElement DEF ItemInv, ItemTyped
  <2>3. incident # None
    BY <1>3, NoneIsNoItem
  <2>4. QED
    BY <1>1, <2>1, <2>2, <2>3 DEF ItemInv, ItemTyped
<1>8. WorkflowTyped'
  BY <1>1 DEF ItemInv, WorkflowTyped, workflowState
<1>9. InTurn'
  BY <1>1, <1>2 DEF ItemInv, InTurn, OthersStay, Active, Resting, BeyondRead
<1>10. ThreadPlaced'
  <2>1. OnItsWay(c)' /\ new.by = c
    BY <1>2, <1>3 DEF OnItsWay
  <2>2. \A m, n \in thread' : m.by = n.by => m = n
    BY <1>1, <1>5, <2>1 DEF ItemInv, ThreadPlaced
  <2>3. \A m \in thread' : serving'[m.by].at \in {"end", "died"} \/ OnItsWay(m.by)'
    BY <1>1, <1>2, <1>5, <2>1 DEF ItemInv, ThreadPlaced, OthersStay, OnItsWay
  <2>4. ASSUME NEW d \in Calls, OnItsWay(d)' PROVE \E m \in thread' : m.by = d
    <3>1. CASE d = c
      BY <1>1, <2>1, <3>1
    <3>2. CASE d # c
      <4>1. OnItsWay(d)
        BY <1>2, <2>4, <3>2 DEF OthersStay, OnItsWay
      <4>2. QED
        BY <1>1, <4>1 DEF ItemInv, ThreadPlaced
    <3>3. QED
      BY <3>1, <3>2
  <2>5. QED
    BY <2>2, <2>3, <2>4 DEF ThreadPlaced
<1>11. TasksBehindComments'
  <2>1. new.task => new.by \in linkedTasks
    BY <1>1 DEF ItemInv, TasksBehindComments
  <2>2. QED
    BY <1>1, <1>2, <2>1 DEF ItemInv, TasksBehindComments, OthersStay
<1>12. CommentsCounted'
  <2>1. {m \in thread : serving[m.by].at = "end"}' = {m \in thread : serving[m.by].at = "end"}
    BY <1>1, <1>2, <1>5 DEF OthersStay
  <2>2. QED
    BY <1>1, <2>1 DEF ItemInv, CommentsCounted
<1>13. IndexFollowsStatus'
  BY <1>1 DEF ItemInv, IndexFollowsStatus
<1>14. ReopeningsBehind'
  BY <1>1, <1>2, <1>3 DEF ItemInv, ReopeningsBehind, OthersStay, Open
<1>15. QED
  BY <1>6, <1>7, <1>8, <1>9, <1>10, <1>11, <1>12, <1>13, <1>14 DEF ItemInv

---------------------------------------------------------------------------
(* Writes of the item. *)

(* A write through Put of an item that is one. *)
LEMMA Putting ==
  ASSUME ItemInv, NEW new \in IncidentItem, Put(new)
  PROVE  /\ incident' = new /\ new # None
         /\ closings' \in Nat /\ closings <= closings'
         /\ Open(incident) /\ ~Open(new) => closings' = closings + 1
BY NoneIsNoItem DEF ItemInv, ItemTyped, Put

(* The comment of an invocation that ends with its count written is the     *)
(* one comment more.                                                        *)
LEMMA OneCommentMore ==
  ASSUME ItemInv, NEW c \in Calls, OnItsWay(c),
         OthersStay(c), serving'[c].at = "end", thread' = thread
  PROVE  Cardinality({m \in thread : serving[m.by].at = "end"}')
           = Cardinality({m \in thread : serving[m.by].at = "end"}) + 1
<1> DEFINE counted == {m \in thread : serving[m.by].at = "end"}
<1>1. PICK n \in thread : n.by = c
  BY DEF ItemInv, ThreadPlaced
<1>2. n \notin counted
  BY <1>1 DEF OnItsWay
<1>3. counted' = counted \cup {n}
  BY <1>1 DEF ItemInv, ThreadPlaced, ItemTyped, OthersStay
<1>4. IsFiniteSet(counted)
  BY FS_Subset DEF ItemInv, ItemTyped
<1>5. QED
  BY <1>2, <1>3, <1>4, FS_AddElement

LEMMA NoCommentMore ==
  ASSUME ItemInv, NEW c \in Calls, ~OnItsWay(c), Active(serving, c),
         OthersStay(c), thread' = thread
  PROVE  {m \in thread : serving[m.by].at = "end"}' = {m \in thread : serving[m.by].at = "end"}
<1>1. \A m \in thread : m.by \in Calls /\ m.by # c
  BY DEF ItemInv, ItemTyped, ThreadPlaced, Active, Resting
<1>2. QED
  BY <1>1 DEF OthersStay

(* A request that ends with a write of the item.                            *)
Closes(c, new) ==
  /\ serving[c].at \in {"count", "write"} /\ serving'[c].at = "end"
  /\ OthersStay(c) /\ CallFits(c)'
  /\ new \in IncidentItem /\ Put(new)
  /\ UNCHANGED <<thread, linkedTasks, workflowState, regime>>
  /\ incident.key = incident.status => new.key = new.status
  /\ ~OnItsWay(c) => new.comments = incident.comments
  /\ OnItsWay(c) => \/ new.comments = incident.comments + 1
                    \/ regime.overlap /\ "analyse" \in regime.kinds
  /\ IF serving[c].at = "write" /\ serving[c].req.kind = "reopen"
     THEN new.reopened = incident.reopened + 1 /\ Open(new)
     ELSE new.reopened = incident.reopened

LEMMA ClosesInv ==
  ASSUME ItemInv, NEW c \in Calls, NEW new, Closes(c, new)
  PROVE  ItemInv'
<1>1. /\ incident' = new /\ new # None /\ new \in IncidentItem
      /\ closings' \in Nat /\ closings <= closings'
      /\ Open(incident) /\ ~Open(new) => closings' = closings + 1
  BY Putting DEF Closes
<1>2. /\ OthersStay(c) /\ serving'[c].at = "end" /\ Active(serving, c)
      /\ CallFits(c) /\ CallFits(c)' /\ incident \in IncidentItem
  BY DEF Closes, ItemInv, CallsFit, CallFits, Active, Resting, AtWork, BeyondRead
<1>3. UNCHANGED <<thread, linkedTasks, workflowState, regime>>
  BY DEF Closes
<1>4. CallsFit'
  BY <1>1, <1>2, <1>3 DEF ItemInv, CallsFit, CallFits, OthersStay
<1>5. ItemTyped' /\ WorkflowTyped'
  BY <1>1, <1>3 DEF ItemInv, ItemTyped, WorkflowTyped, workflowState
<1>6. InTurn'
  BY <1>2, <1>3 DEF ItemInv, InTurn, OthersStay, Active, Resting, BeyondRead
<1>7. \A m \in thread : m.by \in Calls
  BY DEF ItemInv, ItemTyped
<1>8. ThreadPlaced'
  BY <1>2, <1>3, <1>7 DEF ItemInv, ThreadPlaced, OthersStay, OnItsWay
<1>9. TasksBehindComments'
  BY <1>2, <1>3 DEF ItemInv, TasksBehindComments, OthersStay
<1>10. CommentsCounted'
  <2> DEFINE counted == {m \in thread : serving[m.by].at = "end"}
  <2> SUFFICES ASSUME regime.overlap => "analyse" \notin regime.kinds
               PROVE  new.comments = Cardinality(counted')
    BY <1>1, <1>3 DEF CommentsCounted
  <2>1. incident.comments = Cardinality(counted)
    BY <1>2, NoneIsNoItem DEF ItemInv, CommentsCounted
  <2>2. CASE OnItsWay(c)
    BY <1>2, <1>3, <2>1, <2>2, OneCommentMore DEF Closes
  <2>3. CASE ~OnItsWay(c)
    BY <1>2, <1>3, <2>1, <2>3, NoCommentMore DEF Closes
  <2>4. QED
    BY <2>2, <2>3
<1>11. IndexFollowsStatus'
  BY <1>1, <1>2, <1>3, NoneIsNoItem DEF ItemInv, IndexFollowsStatus, Closes
<1>12. ReopeningsBehind'
  <2> SUFFICES ASSUME ~regime.overlap
               PROVE  /\ new.reopened <= closings'
                      /\ ~Open(new) => new.reopened < closings'
                      /\ \A d \in Calls : serving'[d].at = "write" /\ serving'[d].req.kind = "reopen"
                           => new.reopened < closings'
    BY <1>1, <1>3 DEF ReopeningsBehind
  <2>1. /\ incident.reopened <= closings
        /\ ~Open(incident) => incident.reopened < closings
        /\ serving[c].at = "write" /\ serving[c].req.kind = "reopen"
             => incident.reopened < closings
    BY <1>2, NoneIsNoItem DEF ItemInv, ReopeningsBehind
  <2>2. \A d \in Calls : serving'[d].at # "write"
    BY <1>2 DEF ItemInv, InTurn, OthersStay, Active, Resting
  <2>3. incident.reopened \in Nat /\ new.reopened \in Nat /\ closings \in Nat
    BY <1>1, <1>2 DEF IncidentItem, ItemInv, ItemTyped
  <2>4. new.reopened <= closings' /\ (~Open(new) => new.reopened < closings')
    BY <1>1, <2>1, <2>3 DEF Closes
  <2>5. QED
    BY <2>2, <2>4
<1>13. QED
  BY <1>4, <1>5, <1>6, <1>8, <1>9, <1>10, <1>11, <1>12 DEF ItemInv

LEMMA CountingCloses ==
  ASSUME ItemInv, NEW c \in Calls, CountComment(c)
  PROVE  Closes(c, [incident EXCEPT !.comments = NewCommentCount(c)])
<1> DEFINE new == [incident EXCEPT !.comments = NewCommentCount(c)]
<1>1. CallsFit /\ CallFits(c) /\ serving[c].at = "count" /\ incident \in IncidentItem
  BY DEF ItemInv, CallsFit, CallFits, CountComment, AtWork, BeyondRead
<1>2. OthersStay(c) /\ serving'[c].at = "end" /\ DOMAIN serving'[c] = {"at", "req", "saw"}
  BY <1>1, Ending DEF CountComment
<1>3. /\ new \in IncidentItem /\ new.comments = incident.comments + 1
      /\ new.key = incident.key /\ new.status = incident.status
      /\ new.reopened = incident.reopened
  BY <1>1 DEF IncidentItem, NewCommentCount
<1>4. CallFits(c)'
  BY <1>2 DEF CallFits, Resting, AtWork, BeyondRead
<1>5. OnItsWay(c)
  BY <1>1 DEF OnItsWay
<1>6. QED
  BY <1>1, <1>2, <1>3, <1>4, <1>5 DEF CountComment, Closes

(* What each request makes of the item. *)
LEMMA MovedItem ==
  ASSUME NEW i \in IncidentItem, NEW status \in Statuses
  PROVE  /\ Moved(i, status) \in IncidentItem
         /\ Moved(i, status).status = status /\ Moved(i, status).key = status
         /\ Moved(i, status).comments = i.comments /\ Moved(i, status).reopened = i.reopened
BY DEF Moved, IncidentItem

LEMMA UpdatedItem ==
  ASSUME NEW i \in IncidentItem, NEW c \in Calls, serving[c].req.kind = "update",
         serving[c].req \in IncidentRequests
  PROVE  /\ Updated(i, c) \in IncidentItem
         /\ i.key = i.status => Updated(i, c).key = Updated(i, c).status
         /\ Updated(i, c).comments = i.comments /\ Updated(i, c).reopened = i.reopened
<1> DEFINE r == serving[c].req
           j == IF r.severity = None THEN i ELSE [i EXCEPT !.severity = r.severity]
<1>1. r.status \in Statuses \cup {None} /\ r.severity \in Severities \cup {None}
  BY RequestKinds
<1>2. /\ j \in IncidentItem /\ j.key = i.key /\ j.status = i.status
      /\ j.comments = i.comments /\ j.reopened = i.reopened
  BY <1>1 DEF IncidentItem
<1>3. CASE r.status = None
  BY <1>2, <1>3 DEF Updated
<1>4. CASE r.status # None
  <2> DEFINE k == Moved(j, r.status)
  <2> HIDE DEF j
  <2>1. /\ k \in IncidentItem /\ k.key = k.status
        /\ k.comments = i.comments /\ k.reopened = i.reopened
    BY <1>1, <1>2, <1>4, MovedItem
  <2>2. Updated(i, c) \in {k, Acknowledged(k, c)}
    BY <1>4 DEF Updated, j
  <2>3. /\ Acknowledged(k, c) \in IncidentItem
        /\ Acknowledged(k, c).key = Acknowledged(k, c).status
        /\ Acknowledged(k, c).comments = i.comments /\ Acknowledged(k, c).reopened = i.reopened
    <3>1. ASSUME NEW m \in IncidentItem
          PROVE  /\ Acknowledged(m, c) \in IncidentItem
                 /\ Acknowledged(m, c).key = m.key /\ Acknowledged(m, c).status = m.status
                 /\ Acknowledged(m, c).comments = m.comments
                 /\ Acknowledged(m, c).reopened = m.reopened
      BY DEF Acknowledged, IncidentItem
    <3>2. QED
      BY <2>1, <3>1
  <2>4. QED
    BY <2>1, <2>2, <2>3
<1>5. QED
  BY <1>3, <1>4

LEMMA WritingCloses ==
  ASSUME ItemInv, NEW c \in Calls, WriteIncident(c)
  PROVE  Closes(c, Served(incident, c))
<1> DEFINE new == Served(incident, c)
           r == serving[c].req
<1>1. /\ CallsFit /\ CallFits(c) /\ serving[c].at = "write" /\ incident \in IncidentItem
      /\ r \in IncidentRequests /\ r.kind \in regime.kinds /\ r.kind # "comment"
      /\ serving[c].saw.comments \in Nat
  BY DEF ItemInv, CallsFit, CallFits, WriteIncident, AtWork, BeyondRead
<1>2. r.kind \in {"update", "resolve", "reopen", "analyse"}
  BY <1>1, RequestKinds
<1>3. OthersStay(c) /\ serving'[c].at = "end" /\ DOMAIN serving'[c] = {"at", "req", "saw"}
  BY <1>1, Ending DEF WriteIncident
<1>4. CallFits(c)'
  BY <1>3 DEF CallFits, Resting, AtWork, BeyondRead
<1>5. OnItsWay(c) <=> r.kind = "analyse"
  BY <1>1 DEF OnItsWay
<1>6. incident.reopened \in Nat /\ incident.comments \in Nat
  BY <1>1 DEF IncidentItem
<1>7. /\ new \in IncidentItem
      /\ incident.key = incident.status => new.key = new.status
      /\ r.kind # "analyse" => new.comments = incident.comments
      /\ r.kind = "analyse" => new.comments = serving[c].saw.comments + 1
      /\ IF r.kind = "reopen" THEN new.reopened = incident.reopened + 1 /\ Open(new)
         ELSE new.reopened = incident.reopened
  <2>1. CASE r.kind = "update"
    BY <1>1, <2>1, UpdatedItem DEF Served
  <2>2. CASE r.kind = "resolve"
    BY <1>1, <2>2, MovedItem DEF Served, Statuses
  <2>3. CASE r.kind = "reopen"
    <3> DEFINE m == Moved(incident, "REOPENED")
    <3>1. /\ m \in IncidentItem /\ m.key = m.status /\ m.status = "REOPENED"
          /\ m.comments = incident.comments /\ m.reopened = incident.reopened
      BY <1>1, MovedItem DEF Statuses
    <3>2. new = [m EXCEPT !.reopened = @ + 1]
      BY <2>3 DEF Served
    <3>3. QED
      BY <2>3, <3>1, <3>2 DEF IncidentItem, Open, ClosedStatuses
  <2>4. CASE r.kind = "analyse"
    <3> DEFINE m == Moved(incident, "RECOMMENDATION_READY")
    <3>1. /\ m \in IncidentItem /\ m.key = m.status
          /\ m.comments = incident.comments /\ m.reopened = incident.reopened
      BY <1>1, MovedItem DEF Statuses
    <3>2. new = [m EXCEPT !.comments = serving[c].saw.comments + 1]
      BY <2>4 DEF Served
    <3>3. QED
      BY <1>1, <2>4, <3>1, <3>2 DEF IncidentItem
  <2>5. QED
    BY <1>2, <2>1, <2>2, <2>3, <2>4
<1>8. ~regime.overlap => serving[c].saw.comments = incident.comments
  BY <1>1 DEF ItemInv, InTurn, BeyondRead
<1>9. QED
  BY <1>1, <1>3, <1>4, <1>5, <1>7, <1>8 DEF WriteIncident, Closes

---------------------------------------------------------------------------
(* The workflow: it marks the item, and leaves requests and thread alone.   *)

Marks(status) ==
  /\ incident \in IncidentItem /\ status \in Statuses /\ Mark(status)
  /\ UNCHANGED Rest

WorkflowStep ==
  /\ \/ \E status \in Statuses : Marks(status)
     \/ UNCHANGED <<Rest, incident, closings>>
  /\ incident \in IncidentItem /\ regime.workflow
  /\ WorkflowTyped'

LEMMA WorkflowInv ==
  ASSUME ItemInv, WorkflowStep
  PROVE  ItemInv'
<1>1. CASE UNCHANGED <<Rest, incident, closings>>
  <2>1. UNCHANGED <<incident, thread, linkedTasks, serving, closings, regime>>
    BY <1>1 DEF Rest
  <2>2. CallsFit' /\ ItemTyped' /\ InTurn'
    BY <2>1 DEF ItemInv, CallsFit, CallFits, ItemTyped, InTurn, Active
  <2>3. ThreadPlaced' /\ TasksBehindComments' /\ CommentsCounted'
    BY <2>1 DEF ItemInv, ThreadPlaced, OnItsWay, TasksBehindComments, CommentsCounted
  <2>4. IndexFollowsStatus' /\ ReopeningsBehind'
    BY <2>1 DEF ItemInv, IndexFollowsStatus, ReopeningsBehind, Open
  <2>5. QED
    BY <2>2, <2>3, <2>4 DEF ItemInv, WorkflowStep
<1>2. ASSUME NEW status \in Statuses, Marks(status) PROVE ItemInv'
  <2> DEFINE new == [incident EXCEPT !.status = status]
  <2>1. UNCHANGED <<thread, linkedTasks, serving, regime>> /\ incident \in IncidentItem
    BY <1>2 DEF Marks, Rest
  <2>2. /\ new \in IncidentItem /\ new.comments = incident.comments
        /\ new.reopened = incident.reopened
    BY <2>1 DEF IncidentItem
  <2>3. /\ incident' = new /\ new # None /\ closings' \in Nat /\ closings <= closings'
        /\ Open(incident) /\ ~Open(new) => closings' = closings + 1
    BY <1>2, <2>2, Putting DEF Marks, Mark
  <2> HIDE DEF new
  <2>4. CallsFit' /\ ItemTyped' /\ InTurn'
    BY <2>1, <2>2, <2>3 DEF ItemInv, CallsFit, CallFits, ItemTyped, InTurn, Active
  <2>5. ThreadPlaced' /\ TasksBehindComments' /\ CommentsCounted'
    BY <2>1, <2>2, <2>3, NoneIsNoItem
    DEF ItemInv, ThreadPlaced, OnItsWay, TasksBehindComments, CommentsCounted
  <2>6. IndexFollowsStatus'
    BY <2>1 DEF WorkflowStep, IndexFollowsStatus
  <2>7. ReopeningsBehind'
    <3>1. incident.reopened \in Nat /\ closings \in Nat
      BY <2>1 DEF IncidentItem, ItemInv, ItemTyped
    <3>2. QED
      BY <2>1, <2>2, <2>3, <3>1, NoneIsNoItem DEF ItemInv, ReopeningsBehind
  <2>8. QED
    BY <2>4, <2>5, <2>6, <2>7 DEF ItemInv, WorkflowStep
<1>3. QED
  BY <1>1, <1>2 DEF WorkflowStep

LEMMA GoesOn ==
  ASSUME WorkflowTyped, NEW next, GoTo(next)
  PROVE  DOMAIN response' = {"at", "tries", "severity"} /\ response'.tries \in 0 .. ResponseRetries
BY DEF WorkflowTyped, GoTo

LEMMA RunsAreSteps ==
  ASSUME ItemInv, StartResponse \/ RunResponse \/ ConsentStep
  PROVE  WorkflowStep
<1>1. /\ WorkflowTyped
      /\ incident = None \/ incident \in IncidentItem
      /\ response.at # "none" \/ consent # NotAsked => incident \in IncidentItem /\ regime.workflow
  BY DEF ItemInv, ItemTyped, WorkflowTyped
<1>2. ASSUME incident \in IncidentItem, regime.workflow, UNCHANGED Rest,
             UNCHANGED <<incident, closings>> \/ \E status \in Statuses : Mark(status),
             UNCHANGED consent \/ consent' \in SoundConsent,
             UNCHANGED response \/ (\E listed \in BOOLEAN : response' = AfterFailure(response, listed))
               \/ (\E next : GoTo(next))
               \/ response' = [response EXCEPT !.at = "analysing", !.severity = incident.severity]
      PROVE  WorkflowStep
  <2>1. DOMAIN response' = {"at", "tries", "severity"} /\ response'.tries \in 0 .. ResponseRetries
    <3>1. CASE UNCHANGED response
      BY <1>1, <3>1 DEF WorkflowTyped
    <3>2. CASE \E listed \in BOOLEAN : response' = AfterFailure(response, listed)
      BY <1>1, <3>2, IncidentAssumption DEF WorkflowTyped, AfterFailure
    <3>3. CASE \E next : GoTo(next)
      BY <1>1, <3>3, GoesOn
    <3>4. CASE response' = [response EXCEPT !.at = "analysing", !.severity = incident.severity]
      BY <1>1, <3>4 DEF WorkflowTyped
    <3>5. QED
      BY <1>2, <3>1, <3>2, <3>3, <3>4
  <2>2. incident' \in IncidentItem
    <3>1. ASSUME NEW status \in Statuses, Mark(status) PROVE incident' \in IncidentItem
      BY <1>2, <3>1 DEF Mark, Put, IncidentItem
    <3>2. QED
      BY <1>2, <3>1
  <2>3. WorkflowTyped'
    BY <1>1, <1>2, <2>1, <2>2 DEF WorkflowTyped, Rest
  <2>4. QED
    BY <1>2, <2>3 DEF WorkflowStep, Marks, Rest
<1> USE DEF Rest
<1>3. CASE StartResponse
  BY <1>1, <1>2, <1>3 DEF StartResponse
<1>4. CASE AnalyzeReads
  BY <1>1, <1>2, <1>4 DEF AnalyzeReads
<1>5. CASE AnalyzeWrites \/ PrepareRecommendation \/ AskedApproval
  BY <1>1, <1>2, <1>5 DEF AnalyzeWrites, PrepareRecommendation, AskedApproval, Statuses
<1>6. CASE AskApproval \/ Answer \/ ApprovalTimeout
  BY <1>1, <1>2, <1>6, AskedIsSound DEF AskApproval, Answer, ApprovalTimeout
<1>7. CASE AutoResolve \/ ExecuteResolution \/ RecordResolution \/ EscalateIncident
           \/ IncidentRejected
  BY <1>1, <1>2, <1>7 DEF AutoResolve, ExecuteResolution, RecordResolution, EscalateIncident,
     IncidentRejected, Step, Statuses
<1>8. CASE StepFails
  BY <1>1, <1>2, <1>8 DEF StepFails
<1>9. CASE ConsentStep
  <2>1. consent # NotAsked
    BY <1>9 DEF ConsentStep, FindConsent, DecideConsent, MayDecide, NotAsked, ConsentItem
  <2>2. consent' \in SoundConsent
    BY <1>1, <1>9, DecidingIsSound, DecidedIsSound DEF ConsentStep, FindConsent, DecideConsent, WorkflowTyped
  <2>3. QED
    BY <1>1, <1>2, <1>9, <2>1, <2>2 DEF ConsentStep, FindConsent, DecideConsent
<1>10. QED
  BY <1>3, <1>4, <1>5, <1>6, <1>7, <1>8, <1>9 DEF RunResponse, RunStep

---------------------------------------------------------------------------
LEMMA InitItem == IncidentInit => ItemInv
<1> SUFFICES ASSUME IncidentInit PROVE ItemInv
  OBVIOUS
<1>1. /\ DOMAIN serving = Calls
      /\ \A c \in Calls : serving[c].at = "idle" /\ DOMAIN serving[c] = {"at", "req", "saw"}
  BY DEF IncidentInit, AllIdle, Invocation
<1>2. CallsFit /\ InTurn /\ ThreadPlaced /\ TasksBehindComments
  BY <1>1 DEF IncidentInit, CallsFit, CallFits, InTurn, ThreadPlaced, TasksBehindComments,
     OnItsWay, Active, Resting, AtWork, BeyondRead
<1>3. ItemTyped
  BY FS_EmptySet DEF IncidentInit, ItemTyped
<1>4. WorkflowTyped
  <2>1. 0 \in 0 .. ResponseRetries
    BY IncidentAssumption
  <2>2. QED
    BY <2>1, AskedIsSound DEF IncidentInit, WorkflowTyped
<1>5. CommentsCounted /\ IndexFollowsStatus /\ ReopeningsBehind
  BY DEF IncidentInit, CommentsCounted, IndexFollowsStatus, ReopeningsBehind
<1>6. QED
  BY <1>2, <1>3, <1>4, <1>5 DEF ItemInv

(* The report: nothing has been said or asked before there is an item.      *)
LEMMA ReportInv ==
  ASSUME ItemInv, regime \in Regimes, Report
  PROVE  ItemInv'
<1>1. PICK severity \in ReportedSeverities, status \in {"REPORTED", "DETECTED"} :
        incident' = [status |-> status, key |-> status, severity |-> severity,
                     comments |-> 0, reopened |-> 0, acknowledged |-> None]
  BY DEF Report
<1>2. severity \in Severities
  BY IncidentAssumption DEF ReportedSeverities
<1>3. /\ incident' \in IncidentItem /\ incident' # None
      /\ incident'.key = incident'.status /\ incident'.comments = 0
      /\ incident'.reopened = 0 /\ Open(incident)'
  BY <1>1, <1>2, NoneIsNoItem DEF IncidentItem, Statuses, Open, ClosedStatuses
<1>4. incident \notin IncidentItem /\ thread = {}
      /\ UNCHANGED <<thread, linkedTasks, serving, workflowState, closings, regime>>
  BY NoneIsNoItem DEF Report, ItemInv, ItemTyped
<1>5. \A c \in Calls : serving[c].at \in Resting
  BY <1>4 DEF ItemInv, CallsFit, CallFits
<1>6. CallsFit' /\ InTurn' /\ ThreadPlaced' /\ TasksBehindComments'
  BY <1>3, <1>4, <1>5 DEF ItemInv, CallsFit, CallFits, InTurn, ThreadPlaced, TasksBehindComments,
     OnItsWay, Active, Resting, AtWork, BeyondRead
<1>7. ItemTyped' /\ WorkflowTyped'
  BY <1>3, <1>4 DEF ItemInv, ItemTyped, WorkflowTyped, workflowState
<1>8. CommentsCounted'
  <2>1. {m \in thread : serving[m.by].at = "end"}' = {}
    BY <1>4
  <2>2. QED
    BY <1>3, <2>1, FS_EmptySet DEF CommentsCounted
<1>9. IndexFollowsStatus' /\ ReopeningsBehind'
  <2>1. closings \in Nat /\ closings' = closings
    BY <1>4 DEF ItemInv, ItemTyped
  <2>2. \A c \in Calls : serving'[c].at # "write"
    BY <1>4, <1>5 DEF Resting
  <2>3. QED
    BY <1>3, <2>1, <2>2 DEF IndexFollowsStatus, ReopeningsBehind
<1>10. QED
  BY <1>6, <1>7, <1>8, <1>9 DEF ItemInv

RegimeChosen == regime \in Regimes

LEMMA NextItem == ItemInv /\ RegimeChosen /\ [IncidentNext]_incidentVars => ItemInv'
<1> SUFFICES ASSUME ItemInv, regime \in Regimes, [IncidentNext]_incidentVars PROVE ItemInv'
  BY DEF RegimeChosen
<1>1. CASE UNCHANGED incidentVars
  <2>1. UNCHANGED <<incident, thread, linkedTasks, serving, response, consent, closings, regime>>
    BY <1>1 DEF incidentVars
  <2>2. CallsFit' /\ ItemTyped' /\ WorkflowTyped' /\ InTurn'
    BY <2>1 DEF ItemInv, CallsFit, CallFits, ItemTyped, WorkflowTyped, InTurn, Active
  <2>3. ThreadPlaced' /\ TasksBehindComments' /\ CommentsCounted'
    BY <2>1 DEF ItemInv, ThreadPlaced, OnItsWay, TasksBehindComments, CommentsCounted
  <2>4. IndexFollowsStatus' /\ ReopeningsBehind'
    BY <2>1 DEF ItemInv, IndexFollowsStatus, ReopeningsBehind, Open
  <2>5. QED
    BY <2>2, <2>3, <2>4 DEF ItemInv
<1>2. CASE Report
  BY <1>2, ReportInv
<1>3. ASSUME NEW c \in Calls, BeginRequest(c) \/ ServeRequest(c) \/ RequestDies(c) PROVE ItemInv'
  <2>1. CASE BeginRequest(c)
    BY <2>1, BeginQuiet, QuietInv
  <2>2. CASE ReadIncident(c) \/ RefuseRequest(c) \/ CreateLinkedTask(c)
    BY <2>2, ReadQuiet, RefuseQuiet, CreateTaskQuiet, QuietInv
  <2>3. CASE StoreComment(c)
    BY <2>3, StoringInv
  <2>4. CASE CountComment(c)
    BY <2>4, CountingCloses, ClosesInv
  <2>5. CASE WriteIncident(c)
    BY <2>5, WritingCloses, ClosesInv
  <2>6. CASE RequestDies(c)
    BY <2>6, DyingInv
  <2>7. QED
    BY <1>3, <2>1, <2>2, <2>3, <2>4, <2>5, <2>6 DEF ServeRequest
<1>4. CASE StartResponse \/ RunResponse \/ ConsentStep
  BY <1>4, RunsAreSteps, WorkflowInv
<1>5. QED
  BY <1>1, <1>2, <1>3, <1>4 DEF IncidentNext, ConsentStep

LEMMA IncidentItemInv == IncidentSpec => []ItemInv
<1>1. IncidentInit => RegimeChosen
  BY DEF IncidentInit, RegimeChosen
<1>2. RegimeChosen /\ [IncidentNext]_incidentVars => RegimeChosen'
  <2> SUFFICES ASSUME RegimeChosen, [IncidentNext]_incidentVars PROVE UNCHANGED regime
    BY DEF RegimeChosen
  <2>1. CASE UNCHANGED incidentVars \/ Report \/ StartResponse \/ ConsentStep
    BY <2>1 DEF incidentVars, Report, StartResponse, ConsentStep, FindConsent, DecideConsent, Rest
  <2>2. CASE RunResponse
    BY <2>2 DEF RunResponse, RunStep, AnalyzeReads, AnalyzeWrites, PrepareRecommendation,
       AskApproval, AskedApproval, AutoResolve, ExecuteResolution, RecordResolution,
       EscalateIncident, IncidentRejected, Step, StepFails, Answer, ApprovalTimeout, Rest
  <2>3. ASSUME NEW c \in Calls, BeginRequest(c) \/ ServeRequest(c) \/ RequestDies(c)
        PROVE  UNCHANGED regime
    BY <2>3 DEF BeginRequest, ServeRequest, RequestDies, ReadIncident, RefuseRequest,
       CreateLinkedTask, StoreComment, CountComment, WriteIncident
  <2>4. QED
    BY <2>1, <2>2, <2>3 DEF IncidentNext, ConsentStep
<1>3. QED
  BY <1>1, <1>2, InitItem, NextItem, IncidentSafety, PTL

(* The item agrees with what it summarises, however requests overlap and    *)
(* wherever they die: every comment stored is counted once (add_comment's   *)
(* atomic ADD), a comment's task exists (it is stored first), the index key *)
(* is the status (every handler writes both), and in turn each reopening    *)
(* answers a closing (reopen_incident checks the status it read).           *)
THEOREM ItemAgreesWithItsParts == IncidentSpec => []IncidentIsConsistent
<1>1. ItemInv => IncidentIsConsistent
  BY DEF ItemInv, TasksBehindComments, ReopeningsBehind, IncidentIsConsistent, CommentTasksExist,
     ReopeningsFollowClosings
<1>2. QED
  BY <1>1, IncidentItemInv, PTL

(* Every variable of the incident keeps its type: no request, retry or      *)
(* answer makes an item the code has no word for.                           *)
THEOREM IncidentTypeCorrect == IncidentSpec => []IncidentTypeOK
<1>1. ItemInv => IncidentTypeOK
  BY DEF ItemInv, ItemTyped, WorkflowTyped, CallsFit, CallFits, AtWork, BeyondRead, SoundConsent, IncidentTypeOK
<1>2. QED
  BY <1>1, IncidentItemInv, PTL

---------------------------------------------------------------------------
(* The specification without its fairness, which safety does not need. *)
LEMMA SpeakersSafety == SpeakersSpec => SpeakersInit /\ [][SpeakersNext]_speakerVars
BY PTL DEF SpeakersSpec

---------------------------------------------------------------------------
(* The speaker: the inductive invariant, of the item, of edits and of       *)
(* executions of the follow-up workflow.                                    *)

SpeakerTyped ==
  /\ speaker \in SpeakerItem \cup {None}
  /\ permission \in [Executions -> SoundConsent]
  /\ sent \in Nat /\ unapproved \in 0 .. sent
  /\ speaker = None => sent = 0

(* An edit that will write CONFIRMED found a speaker who was, so one who    *)
(* has responded.                                                           *)
EditFits(c) ==
  LET e == editing[c] IN
  /\ DOMAIN e = {"at", "req", "saw"}
  /\ e.at \in Resting \cup {"read", "write"}
  /\ e.at \in {"read", "write"} => speaker \in SpeakerItem /\ e.req \in SpeakerRequests
  /\ e.at = "write" /\ e.req.status = "CONFIRMED" => speaker.responded

EditsFit == DOMAIN editing = Calls /\ \A c \in Calls : EditFits(c)

OutreachFits(x) ==
  LET o == outreach[x] IN
  /\ DOMAIN o = {"at", "tries", "count", "read"}
  /\ o.tries \in 0 .. FollowupRetries /\ o.count \in Nat /\ o.read \in Nat
  /\ ~regime.failures => o.tries = 0
  /\ o.at # "none" => speaker \in SpeakerItem
  /\ o.at = "sending" => o.read <= sent

(* An execution on its own: what it is about to count still holds, and      *)
(* unless a leader approved it began its round with fewer than two          *)
(* follow-ups sent, and has sent one for each of its tries at most.         *)
OnItsOwn(x) ==
  LET o == outreach[x] IN
  /\ o.at = "sending" => o.read = speaker.followups
  /\ o.at = "CheckFollowupPolicy" => sent = o.count
  /\ o.at \in {"SendFollowup", "sending"} /\ ~permission[x].approved =>
       o.count < AutoFollowups /\ sent <= o.count + o.tries
  /\ o.at = "sentback" /\ ~permission[x].approved =>
       o.count < AutoFollowups /\ sent <= o.count + o.tries + 1

OutreachesFit ==
  /\ DOMAIN outreach = Executions
  /\ \A x \in Executions : OutreachFits(x)
  /\ OneExecution => \A x \in Executions : OnItsOwn(x)

SpeakerInv ==
  SpeakerTyped /\ EditsFit /\ OutreachesFit /\ FollowupsAreAccounted /\ ConfirmedAfterResponse

---------------------------------------------------------------------------
(* The item as a step may leave it without sending: confirmed only of whom  *)
(* has responded, the count as it was.                                      *)
SpeakerKept ==
  \/ speaker' = speaker
  \/ /\ speaker \in SpeakerItem /\ speaker' \in SpeakerItem
     /\ speaker'.followups = speaker.followups
     /\ speaker.responded => speaker'.responded
     /\ speaker'.status = "CONFIRMED" => speaker'.responded

LEMMA NoneIsNoSpeaker == None \notin SpeakerItem
BY SpeakersAssumption

LEMMA KeptItem ==
  ASSUME SpeakerInv, SpeakerKept
  PROVE  /\ speaker' \in SpeakerItem \cup {None}
         /\ speaker \in SpeakerItem =>
              speaker' \in SpeakerItem /\ speaker'.followups = speaker.followups
         /\ speaker' = None => speaker = None
BY NoneIsNoSpeaker DEF SpeakerKept, SpeakerInv, SpeakerTyped

LEMMA KeptResponse ==
  ASSUME SpeakerKept, speaker \in SpeakerItem, speaker.responded
  PROVE  speaker'.responded
BY DEF SpeakerKept

LEMMA KeptConfirmed ==
  ASSUME SpeakerInv, SpeakerKept
  PROVE  ConfirmedAfterResponse'
BY DEF SpeakerKept, SpeakerInv, ConfirmedAfterResponse

LEMMA KeptAccounts ==
  ASSUME SpeakerInv, SpeakerKept, UNCHANGED <<sent, unapproved, regime>>,
         OneExecution' => OneExecution
  PROVE  FollowupsAreAccounted'
<1>0. /\ speaker = None => speaker' = None
      /\ speaker \in SpeakerItem => speaker'.followups = speaker.followups
      /\ speaker \in SpeakerItem \cup {None}
  BY KeptItem, NoneIsNoSpeaker DEF SpeakerKept, SpeakerInv, SpeakerTyped
<1>1. speaker' # None => speaker # None /\ speaker'.followups = speaker.followups
  BY <1>0
<1>2. FollowupsCounted'
  BY <1>1, NoneIsNoSpeaker DEF SpeakerInv, FollowupsAreAccounted, FollowupsCounted
<1>3. AutomaticFollowupsBounded'
  BY DEF SpeakerInv, FollowupsAreAccounted, AutomaticFollowupsBounded
<1>4. QED
  BY <1>2, <1>3 DEF FollowupsAreAccounted

---------------------------------------------------------------------------
(* Edits. *)

(* The item may have been written: what an edit relies on still holds. *)
LEMMA EditStillFits ==
  ASSUME SpeakerInv, SpeakerKept, NEW d \in Calls, EditFits(d), editing'[d] = editing[d]
  PROVE  EditFits(d)'
<1> DEFINE e == editing[d]
<1>1. speaker \in SpeakerItem => speaker' \in SpeakerItem
  BY KeptItem
<1>2. CASE e.at = "write" /\ e.req.status = "CONFIRMED"
  <2>1. speaker.responded /\ speaker \in SpeakerItem
    BY <1>2 DEF EditFits
  <2>2. speaker'.responded
    BY <2>1, KeptResponse
  <2>3. QED
    BY <1>1, <2>1, <2>2 DEF EditFits
<1>3. CASE ~(e.at = "write" /\ e.req.status = "CONFIRMED")
  BY <1>1, <1>3 DEF EditFits
<1>4. QED
  BY <1>2, <1>3

LEMMA ExecutionStillFits ==
  ASSUME SpeakerInv, SpeakerKept, UNCHANGED <<sent, regime>>, NEW x \in Executions,
         OutreachFits(x), outreach'[x] = outreach[x]
  PROVE  OutreachFits(x)'
<1>1. speaker \in SpeakerItem => speaker' \in SpeakerItem
  BY KeptItem
<1>2. QED
  BY <1>1 DEF OutreachFits

LEMMA ExecutionStillOnItsOwn ==
  ASSUME SpeakerInv, SpeakerKept, UNCHANGED sent, NEW x \in Executions,
         OutreachFits(x), OnItsOwn(x), outreach'[x] = outreach[x], permission'[x] = permission[x]
  PROVE  OnItsOwn(x)'
<1>1. outreach[x].at = "sending" => speaker'.followups = speaker.followups
  BY KeptItem DEF OutreachFits
<1>2. QED
  BY <1>1 DEF OnItsOwn

OtherEditsStay(c) == DOMAIN editing' = Calls /\ \A d \in Calls \ {c} : editing'[d] = editing[d]

LEMMA EditInv ==
  ASSUME SpeakerInv, NEW c \in Calls, OtherEditsStay(c), EditFits(c)', SpeakerKept,
         UNCHANGED <<outreach, permission, sent, unapproved, regime>>
  PROVE  SpeakerInv'
<1>1. SpeakerTyped'
  BY KeptItem DEF SpeakerInv, SpeakerTyped
<1>2. EditsFit'
  <2>1. \A d \in Calls \ {c} : EditFits(d)'
    BY EditStillFits DEF SpeakerInv, EditsFit, OtherEditsStay
  <2>2. QED
    BY <2>1 DEF EditsFit, OtherEditsStay
<1>3. OutreachesFit'
  <2>1. \A x \in Executions : OutreachFits(x)'
    BY ExecutionStillFits DEF SpeakerInv, OutreachesFit
  <2>2. OneExecution' => \A x \in Executions : OnItsOwn(x)'
    BY ExecutionStillOnItsOwn DEF SpeakerInv, OutreachesFit, OneExecution
  <2>3. QED
    BY <2>1, <2>2 DEF SpeakerInv, OutreachesFit
<1>4. OneExecution' <=> OneExecution
  BY DEF OneExecution
<1>5. QED
  BY <1>1, <1>2, <1>3, <1>4, KeptConfirmed, KeptAccounts DEF SpeakerInv

LEMMA SpeakerRequest ==
  ASSUME NEW r \in SpeakerRequests
  PROVE  r.status \in SpeakerStatuses \cup {None} /\ r.available \in BOOLEAN
<1>1. PICK s \in SpeakerStatuses \cup {None}, available \in BOOLEAN : r = UpdateSpeaker(s, available)
  BY SpeakersAssumption DEF AnySpeakerRequest
<1>2. QED
  BY <1>1 DEF UpdateSpeaker

LEMMA EditsKeep ==
  ASSUME SpeakerInv, NEW c \in Calls, BeginEdit(c) \/ Edit(c) \/ EditDies(c)
  PROVE  SpeakerInv'
<1>1. DOMAIN editing = Calls /\ EditFits(c) /\ DOMAIN editing[c] = {"at", "req", "saw"}
  BY DEF SpeakerInv, EditsFit, EditFits
<1>2. CASE BeginEdit(c)
  <2>1. PICK r \in SpeakerRequests : editing' = Begun(editing, c, r)
    BY <1>2 DEF BeginEdit
  <2>2. speaker \in SpeakerItem /\ speaker' = speaker
    BY <1>2 DEF BeginEdit, SpeakerInv, SpeakerTyped
  <2>3. OtherEditsStay(c) /\ EditFits(c)'
    BY <1>1, <2>1, <2>2 DEF Begun, Invocation, OtherEditsStay, EditFits, Resting
  <2>4. QED
    BY <1>2, <2>2, <2>3, EditInv DEF BeginEdit, sending, SpeakerKept
<1>3. CASE ReadSpeaker(c)
  <2>1. OtherEditsStay(c) /\ EditFits(c)'
    <3>1. CASE EditRefused(editing[c].req, speaker)
      BY <1>1, <1>3, <3>1 DEF ReadSpeaker, Done, Invocation, OtherEditsStay, EditFits, Resting
    <3>2. CASE ~EditRefused(editing[c].req, speaker)
      <4>1. editing' = GoneTo(editing, c, "write") /\ editing[c].at = "read" /\ speaker' = speaker
        BY <1>3, <3>2 DEF ReadSpeaker
      <4>2. speaker \in SpeakerItem
        BY <1>1, <4>1 DEF EditFits
      <4>3. editing[c].req.status = "CONFIRMED" => speaker.responded
        BY <3>2, <4>2, NoneIsNoSpeaker DEF EditRefused, SpeakerInv, ConfirmedAfterResponse
      <4>4. QED
        BY <1>1, <4>1, <4>2, <4>3 DEF GoneTo, OtherEditsStay, EditFits, Resting
    <3>3. QED
      BY <3>1, <3>2
  <2>2. QED
    BY <1>3, <2>1, EditInv DEF ReadSpeaker, sending, SpeakerKept
<1>4. CASE WriteSpeaker(c)
  <2> DEFINE r == editing[c].req
  <2>1. speaker \in SpeakerItem /\ r \in SpeakerRequests
        /\ (r.status = "CONFIRMED" => speaker.responded)
    BY <1>1, <1>4 DEF WriteSpeaker, EditFits
  <2>2. r.status \in SpeakerStatuses \cup {None} /\ r.available \in BOOLEAN
    BY <2>1, SpeakerRequest
  <2>3. speaker' = [speaker EXCEPT !.status = IF r.status = None THEN @ ELSE r.status,
                                   !.responded = @ \/ r.available]
    BY <1>4 DEF WriteSpeaker
  <2>4. /\ speaker' \in SpeakerItem /\ speaker'.followups = speaker.followups
        /\ speaker.responded => speaker'.responded
        /\ speaker'.status = IF r.status = None THEN speaker.status ELSE r.status
    BY <2>1, <2>2, <2>3 DEF SpeakerItem
  <2>5. speaker.status = "CONFIRMED" => speaker.responded
    BY <2>1, NoneIsNoSpeaker DEF SpeakerInv, ConfirmedAfterResponse
  <2>6. SpeakerKept
    BY <2>1, <2>2, <2>4, <2>5 DEF SpeakerKept
  <2>7. OtherEditsStay(c) /\ EditFits(c)'
    BY <1>1, <1>4 DEF WriteSpeaker, Done, Invocation, OtherEditsStay, EditFits, Resting
  <2>8. QED
    BY <1>4, <2>6, <2>7, EditInv DEF WriteSpeaker, sending
<1>5. CASE EditDies(c)
  <2>1. OtherEditsStay(c) /\ EditFits(c)'
    BY <1>1, <1>5 DEF EditDies, Dead, Invocation, OtherEditsStay, EditFits, Resting
  <2>2. QED
    BY <1>5, <2>1, EditInv DEF EditDies, sending, SpeakerKept
<1>6. QED
  BY <1>2, <1>3, <1>4, <1>5 DEF Edit

---------------------------------------------------------------------------
(* Executions. *)

(* A step of one execution that sends nothing. *)
Proceeds(x) ==
  /\ SpeakerKept /\ UNCHANGED <<editing, sent, unapproved, regime>>
  /\ DOMAIN outreach' = Executions
  /\ \A y \in Executions \ {x} : outreach'[y] = outreach[y] /\ permission'[y] = permission[y]
  /\ permission' \in [Executions -> SoundConsent]
  /\ outreach[x].at # "none" => outreach'[x].at # "none"
  /\ OutreachFits(x)' /\ (OneExecution => OnItsOwn(x)')

LEMMA ProceedsInv ==
  ASSUME SpeakerInv, NEW x \in Executions, Proceeds(x)
  PROVE  SpeakerInv'
<1>1. SpeakerTyped'
  BY KeptItem DEF SpeakerInv, SpeakerTyped, Proceeds
<1>2. EditsFit'
  <2>1. \A d \in Calls : EditFits(d)'
    BY EditStillFits DEF SpeakerInv, EditsFit, Proceeds
  <2>2. QED
    BY <2>1 DEF SpeakerInv, EditsFit, Proceeds
<1>3. OneExecution' => OneExecution
  BY DEF OneExecution, Proceeds
<1>4. OutreachesFit'
  <2>1. \A y \in Executions : OutreachFits(y)'
    BY ExecutionStillFits DEF SpeakerInv, OutreachesFit, Proceeds
  <2>2. ASSUME OneExecution, NEW y \in Executions PROVE OnItsOwn(y)'
    <3>1. CASE y = x
      BY <2>2, <3>1 DEF Proceeds
    <3>2. CASE y # x
      BY <2>2, <3>2, ExecutionStillOnItsOwn DEF SpeakerInv, OutreachesFit, Proceeds
    <3>3. QED
      BY <3>1, <3>2
  <2>3. QED
    BY <1>3, <2>1, <2>2 DEF OutreachesFit, Proceeds
<1>5. QED
  BY <1>1, <1>2, <1>3, <1>4, KeptConfirmed, KeptAccounts DEF SpeakerInv, Proceeds

(* What an execution's step starts from. *)
LEMMA ExecutionFacts ==
  ASSUME SpeakerInv, NEW x \in Executions
  PROVE  /\ DOMAIN outreach = Executions /\ OutreachFits(x)
         /\ DOMAIN outreach[x] = {"at", "tries", "count", "read"}
         /\ outreach[x].tries \in 0 .. FollowupRetries
         /\ outreach[x].count \in Nat /\ outreach[x].read \in Nat
         /\ permission \in [Executions -> SoundConsent]
         /\ sent \in Nat /\ unapproved \in 0 .. sent
         /\ OneExecution => OnItsOwn(x)
         /\ outreach[x].at # "none" =>
              /\ speaker \in SpeakerItem /\ speaker.followups \in Nat /\ speaker.followups <= sent
              /\ OneExecution => speaker.followups = sent
<1>1. /\ DOMAIN outreach = Executions /\ OutreachFits(x) /\ SpeakerTyped
      /\ OneExecution => OnItsOwn(x)
  BY DEF SpeakerInv, OutreachesFit
<1>2. outreach[x].at # "none" =>
        /\ speaker \in SpeakerItem /\ speaker.followups \in Nat /\ speaker.followups <= sent
        /\ OneExecution => speaker.followups = sent
  BY <1>1, NoneIsNoSpeaker DEF OutreachFits, SpeakerItem, SpeakerInv, FollowupsAreAccounted,
     FollowupsCounted
<1>3. QED
  BY <1>1, <1>2 DEF OutreachFits, SpeakerTyped

(* Moves that go to a stage at which nothing is about to be sent, or to     *)
(* sending with a leader's approval.                                        *)
Calm == {"SendFollowup", "sending", "sentback", "CheckFollowupPolicy", "none"}

LEMMA CalmMove ==
  ASSUME SpeakerInv, NEW x \in Executions, NEW at, outreach[x].at # "none",
         at \notin Calm \/ (at = "SendFollowup" /\ permission[x].approved),
         Enter(x, at) \/ Within(x, at) \/ outreach' = [outreach EXCEPT ![x].at = at],
         SpeakerKept, UNCHANGED <<editing, sent, unapproved, regime>>,
         permission' = permission \/ permission' = [permission EXCEPT ![x] = NotAsked]
           \/ (at # "SendFollowup" /\ permission' = [permission EXCEPT ![x] = Asked]),
         at = "SendFollowup" => permission' = permission
  PROVE  Proceeds(x)
<1>1. /\ DOMAIN outreach' = Executions /\ \A y \in Executions \ {x} : outreach'[y] = outreach[y]
      /\ DOMAIN outreach'[x] = {"at", "tries", "count", "read"} /\ outreach'[x].at = at
      /\ outreach'[x].tries \in {0, outreach[x].tries}
      /\ outreach'[x].count = outreach[x].count /\ outreach'[x].read = outreach[x].read
  BY ExecutionFacts DEF Enter, Within
<1>2. /\ permission' \in [Executions -> SoundConsent]
      /\ \A y \in Executions \ {x} : permission'[y] = permission[y]
  BY ExecutionFacts, AskedIsSound
<1>3. speaker' \in SpeakerItem
  BY KeptItem, ExecutionFacts
<1>4. 0 \in 0 .. FollowupRetries
  BY SpeakersAssumption
<1>5. OutreachFits(x)'
  BY <1>1, <1>3, <1>4, ExecutionFacts DEF OutreachFits, Calm
<1>6. OnItsOwn(x)'
  BY <1>1 DEF OnItsOwn, Calm
<1>7. QED
  BY <1>1, <1>2, <1>5, <1>6 DEF Proceeds, Calm

LEMMA CheckProceeds ==
  ASSUME SpeakerInv, NEW x \in Executions, CheckResponse(x)
  PROVE  Proceeds(x)
<1> DEFINE next == IF speaker.responded THEN "UpdateSpeakerState"
                   ELSE IF speaker.followups >= MaxFollowups THEN "EscalateSpeaker"
                   ELSE "CheckFollowupPolicy"
<1>1. /\ outreach[x].at = "CheckResponse"
      /\ outreach' = [outreach EXCEPT ![x].at = next, ![x].tries = 0, ![x].count = speaker.followups]
      /\ permission' = [permission EXCEPT ![x] = NotAsked]
      /\ UNCHANGED <<speaker, editing, sent, unapproved, regime>>
  BY DEF CheckResponse, sending
<1>2. next \in {"UpdateSpeakerState", "EscalateSpeaker", "CheckFollowupPolicy"}
  OBVIOUS
<1> HIDE DEF next
<1>3. /\ DOMAIN outreach' = Executions /\ \A y \in Executions \ {x} : outreach'[y] = outreach[y]
      /\ DOMAIN outreach'[x] = {"at", "tries", "count", "read"} /\ outreach'[x].at = next
      /\ outreach'[x].tries = 0 /\ outreach'[x].count = speaker.followups
      /\ outreach'[x].read = outreach[x].read
  BY <1>1, ExecutionFacts
<1>4. 0 \in 0 .. FollowupRetries
  BY SpeakersAssumption
<1>5. OutreachFits(x)'
  BY <1>1, <1>2, <1>3, <1>4, ExecutionFacts DEF OutreachFits
<1>6. OneExecution => OnItsOwn(x)'
  BY <1>1, <1>2, <1>3, ExecutionFacts DEF OnItsOwn
<1>7. permission' \in [Executions -> SoundConsent]
  BY <1>1, ExecutionFacts, AskedIsSound
<1>8. QED
  BY <1>1, <1>2, <1>3, <1>5, <1>6, <1>7 DEF Proceeds, SpeakerKept

(* "First 2 follow-ups are auto-allowed": what goes on without approval     *)
(* has sent fewer.                                                          *)
LEMMA PolicyProceeds ==
  ASSUME SpeakerInv, NEW x \in Executions, CheckFollowupPolicy(x)
  PROVE  Proceeds(x)
<1>1. /\ outreach[x].at = "CheckFollowupPolicy"
      /\ UNCHANGED <<speaker, editing, permission, sent, unapproved, regime>> /\ SpeakerKept
  BY DEF CheckFollowupPolicy, sending, SpeakerKept
<1>2. CASE RequiresApproval(outreach[x].count)
  <2>1. Enter(x, "RequestApproval")
    BY <1>2 DEF CheckFollowupPolicy
  <2>2. QED
    BY <1>1, <2>1, CalmMove DEF Calm
<1>3. CASE ~RequiresApproval(outreach[x].count)
  <2>1. Enter(x, "SendFollowup")
    BY <1>3 DEF CheckFollowupPolicy
  <2>2. /\ DOMAIN outreach' = Executions /\ \A y \in Executions \ {x} : outreach'[y] = outreach[y]
        /\ DOMAIN outreach'[x] = {"at", "tries", "count", "read"} /\ outreach'[x].at = "SendFollowup"
        /\ outreach'[x].tries = 0 /\ outreach'[x].count = outreach[x].count
        /\ outreach'[x].read = outreach[x].read
    BY <2>1, ExecutionFacts DEF Enter
  <2>3. outreach[x].count < AutoFollowups
    BY <1>3, ExecutionFacts DEF RequiresApproval, AutoFollowups
  <2>4. 0 \in 0 .. FollowupRetries
    BY SpeakersAssumption
  <2>5. OutreachFits(x)'
    BY <1>1, <2>2, <2>4, ExecutionFacts DEF OutreachFits
  <2>6. OneExecution => OnItsOwn(x)'
    BY <1>1, <2>2, <2>3, ExecutionFacts DEF OnItsOwn
  <2>7. QED
    BY <1>1, <2>2, <2>5, <2>6, ExecutionFacts DEF Proceeds
<1>4. QED
  BY <1>2, <1>3

LEMMA ReadingProceeds ==
  ASSUME SpeakerInv, NEW x \in Executions, ReadFollowups(x)
  PROVE  Proceeds(x)
<1>1. /\ outreach[x].at = "SendFollowup" /\ SpeakerKept
      /\ outreach' = [outreach EXCEPT ![x].at = "sending", ![x].read = speaker.followups]
      /\ UNCHANGED <<speaker, editing, permission, sent, unapproved, regime>>
  BY DEF ReadFollowups, sending, SpeakerKept
<1>2. /\ DOMAIN outreach' = Executions /\ \A y \in Executions \ {x} : outreach'[y] = outreach[y]
      /\ DOMAIN outreach'[x] = {"at", "tries", "count", "read"} /\ outreach'[x].at = "sending"
      /\ outreach'[x].tries = outreach[x].tries /\ outreach'[x].count = outreach[x].count
      /\ outreach'[x].read = speaker.followups
  BY <1>1, ExecutionFacts
<1>3. OutreachFits(x)'
  BY <1>1, <1>2, ExecutionFacts DEF OutreachFits
<1>4. OneExecution => OnItsOwn(x)'
  BY <1>1, <1>2, ExecutionFacts DEF OnItsOwn
<1>5. QED
  BY <1>1, <1>2, <1>3, <1>4, ExecutionFacts DEF Proceeds

(* A retry of the send, after however much of it was done, is one try more. *)
LEMMA FailureProceeds ==
  ASSUME SpeakerInv, NEW x \in Executions, OutreachFails(x)
  PROVE  Proceeds(x)
<1> DEFINE o == outreach[x]
<1>1. PICK listed \in BOOLEAN :
      /\ regime.failures /\ o.at # "none"
      /\ outreach' = [outreach EXCEPT ![x] = AfterError(o, listed)]
      /\ UNCHANGED <<speaker, editing, permission, sent, unapproved, regime>> /\ SpeakerKept
  BY DEF OutreachFails, sending, SpeakerKept
<1>2. /\ DOMAIN outreach' = Executions /\ \A y \in Executions \ {x} : outreach'[y] = outreach[y]
      /\ outreach'[x] = AfterError(o, listed)
  BY <1>1, ExecutionFacts
<1>3. /\ DOMAIN AfterError(o, listed) = {"at", "tries", "count", "read"}
      /\ AfterError(o, listed).count = o.count /\ AfterError(o, listed).read = o.read
      /\ \/ AfterError(o, listed).at = "failed" /\ AfterError(o, listed).tries = o.tries
         \/ AfterError(o, listed).at = "InviteSpeaker" /\ AfterError(o, listed).tries = o.tries + 1
              /\ o.tries < FollowupRetries
         \/ /\ AfterError(o, listed).at = "SendFollowup" /\ AfterError(o, listed).tries = o.tries + 1
            /\ o.tries < FollowupRetries /\ o.at \in {"SendFollowup", "sending", "sentback"}
  BY ExecutionFacts DEF AfterError
<1>4. OutreachFits(x)'
  BY <1>1, <1>2, <1>3, ExecutionFacts, SpeakersAssumption DEF OutreachFits
<1>5. OneExecution => OnItsOwn(x)'
  BY <1>1, <1>2, <1>3, ExecutionFacts DEF OnItsOwn, AutoFollowups
<1>6. QED
  BY <1>1, <1>2, <1>3, <1>4, <1>5, ExecutionFacts DEF Proceeds

(* Sending.  Alone, the execution counts what it sends; beside others it    *)
(* may count less, and never more.                                          *)
LEMMA SendInv ==
  ASSUME SpeakerInv, NEW x \in Executions, SendFollowup(x)
  PROVE  SpeakerInv'
<1> DEFINE o == outreach[x]
<1>1. /\ o.at = "sending" /\ Within(x, "sentback")
      /\ speaker' = [speaker EXCEPT !.status = "FOLLOWUP_SENT", !.followups = o.read + 1]
      /\ sent' = sent + 1
      /\ unapproved' = IF permission[x].approved THEN unapproved ELSE unapproved + 1
      /\ UNCHANGED <<editing, permission, regime>>
  BY DEF SendFollowup, NextFollowup
<1>2. /\ speaker \in SpeakerItem /\ speaker.followups <= sent /\ o.read \in Nat /\ o.read <= sent
      /\ sent \in Nat /\ unapproved \in 0 .. sent
  BY <1>1, ExecutionFacts DEF OutreachFits
<1> HIDE DEF o
<1>3. /\ speaker' \in SpeakerItem /\ speaker'.followups = o.read + 1
      /\ speaker'.status = "FOLLOWUP_SENT"
  <2>1. speaker' = [speaker EXCEPT !.status = "FOLLOWUP_SENT", !.followups = o.read + 1]
    BY <1>1
  <2>2. speaker \in SpeakerItem /\ o.read + 1 \in Nat
    BY <1>2
  <2>3. QED
    BY <2>1, <2>2 DEF SpeakerItem, SpeakerStatuses
<1> USE DEF o
<1>4. ASSUME speaker.responded PROVE speaker'.responded
  BY <1>1, <1>2, <1>4 DEF SpeakerItem
<1>5. /\ DOMAIN outreach' = Executions /\ \A y \in Executions \ {x} : outreach'[y] = outreach[y]
      /\ DOMAIN outreach'[x] = {"at", "tries", "count", "read"} /\ outreach'[x].at = "sentback"
      /\ outreach'[x].tries = o.tries /\ outreach'[x].count = o.count
      /\ outreach'[x].read = o.read
  BY <1>1, ExecutionFacts DEF Within
<1>6. OneExecution' => OneExecution /\ \A y \in Executions \ {x} : outreach[y].at = "none"
  BY <1>1, <1>5 DEF OneExecution
<1>7. OneExecution => /\ speaker.followups = sent /\ o.read = speaker.followups
                      /\ ~permission[x].approved => o.count < AutoFollowups /\ sent <= o.count + o.tries
  BY <1>1, ExecutionFacts DEF OnItsOwn
<1>8. o.count \in Nat /\ o.tries \in 0 .. FollowupRetries /\ (~regime.failures => o.tries = 0)
      /\ FollowupRetries \in Nat
  BY ExecutionFacts, SpeakersAssumption DEF OutreachFits
<1>9. SpeakerTyped'
  <2>1. sent' \in Nat /\ unapproved' \in 0 .. sent'
    BY <1>1, <1>2
  <2>2. QED
    BY <1>1, <1>3, <2>1, NoneIsNoSpeaker DEF SpeakerInv, SpeakerTyped
<1>10. EditsFit'
  <2>1. ASSUME NEW d \in Calls PROVE EditFits(d)'
    <3>1. EditFits(d)
      BY DEF SpeakerInv, EditsFit
    <3>2. CASE editing[d].at = "write" /\ editing[d].req.status = "CONFIRMED"
      <4>1. speaker'.responded
        BY <1>4, <3>1, <3>2 DEF EditFits
      <4>2. QED
        BY <1>1, <1>3, <3>1, <3>2, <4>1 DEF EditFits
    <3>3. CASE ~(editing[d].at = "write" /\ editing[d].req.status = "CONFIRMED")
      BY <1>1, <1>3, <3>1, <3>3 DEF EditFits
    <3>4. QED
      BY <3>2, <3>3
  <2>2. QED
    BY <1>1, <2>1 DEF SpeakerInv, EditsFit
<1>11. OutreachesFit'
  <2>1. OutreachFits(x)'
    BY <1>1, <1>3, <1>5, <1>8, ExecutionFacts DEF OutreachFits
  <2>2. ASSUME NEW y \in Executions \ {x} PROVE OutreachFits(y)'
    <3>1. OutreachFits(y)
      BY DEF SpeakerInv, OutreachesFit
    <3>2. outreach'[y].at = "sending" => outreach'[y].read <= sent'
      BY <1>1, <1>2, <1>5, <3>1 DEF OutreachFits
    <3>3. QED
      BY <1>1, <1>3, <1>5, <3>1, <3>2 DEF OutreachFits
  <2>3. OneExecution' => OnItsOwn(x)'
    BY <1>1, <1>2, <1>5, <1>6, <1>7, <1>8 DEF OnItsOwn
  <2>4. ASSUME OneExecution', NEW y \in Executions \ {x} PROVE OnItsOwn(y)'
    BY <1>5, <1>6, <2>4 DEF OnItsOwn
  <2>5. QED
    BY <1>5, <2>1, <2>2, <2>3, <2>4 DEF OutreachesFit
<1>12. FollowupsCounted'
  BY <1>1, <1>2, <1>3, <1>6, <1>7 DEF FollowupsCounted
<1>13. AutomaticFollowupsBounded'
  <2> SUFFICES ASSUME OneExecution'
               PROVE  unapproved' <= IF regime.failures THEN AutoFollowups + FollowupRetries
                                     ELSE AutoFollowups
    BY <1>1 DEF AutomaticFollowupsBounded
  <2>1. CASE permission[x].approved
    BY <1>1, <1>6, <2>1 DEF SpeakerInv, FollowupsAreAccounted, AutomaticFollowupsBounded
  <2>2. CASE ~permission[x].approved
    BY <1>1, <1>2, <1>6, <1>7, <1>8, <2>2 DEF AutoFollowups
  <2>3. QED
    BY <2>1, <2>2
<1>14. ConfirmedAfterResponse'
  BY <1>3 DEF ConfirmedAfterResponse
<1>15. QED
  BY <1>9, <1>10, <1>11, <1>12, <1>13, <1>14 DEF SpeakerInv, FollowupsAreAccounted

(* A leader's decision. *)
LEMMA DecidingProceeds ==
  ASSUME SpeakerInv, NEW x \in Executions, NEW d \in Deciders,
         FindPermission(x, d) \/ DecidePermission(x, d)
  PROVE  Proceeds(x)
<1>1. PICK item \in SoundConsent :
        permission' = [permission EXCEPT ![x] = item] /\ (permission[x].approved => item.approved)
  <2>1. permission \in [Executions -> SoundConsent]
    BY ExecutionFacts
  <2>2. CASE FindPermission(x, d)
    BY <2>1, <2>2, DecidingIsSound DEF FindPermission
  <2>3. CASE DecidePermission(x, d)
    BY <2>1, <2>3, DecidedIsSound DEF DecidePermission
  <2>4. QED
    BY <2>2, <2>3
<1>2. /\ SpeakerKept /\ UNCHANGED <<speaker, editing, outreach, sent, unapproved, regime>>
  BY DEF FindPermission, DecidePermission, sending, SpeakerKept
<1>3. OutreachFits(x)' /\ (OneExecution => OnItsOwn(x)')
  BY <1>1, <1>2, ExecutionFacts DEF OutreachFits, OnItsOwn
<1>4. QED
  BY <1>1, <1>2, <1>3, ExecutionFacts DEF Proceeds

(* Starting: the execution that is now on its own has no round begun. *)
LEMMA StartInv ==
  ASSUME SpeakerInv, NEW x \in Executions, StartOutreach(x)
  PROVE  SpeakerInv'
<1>1. /\ speaker # None /\ Enter(x, "InviteSpeaker")
      /\ UNCHANGED <<speaker, editing, permission, sent, unapproved, regime>> /\ SpeakerKept
  BY DEF StartOutreach, sending, SpeakerKept
<1>2. speaker \in SpeakerItem
  BY <1>1 DEF SpeakerInv, SpeakerTyped
<1>3. /\ DOMAIN outreach' = Executions /\ \A y \in Executions \ {x} : outreach'[y] = outreach[y]
      /\ DOMAIN outreach'[x] = {"at", "tries", "count", "read"} /\ outreach'[x].at = "InviteSpeaker"
      /\ outreach'[x].tries = 0 /\ outreach'[x].count = outreach[x].count
      /\ outreach'[x].read = outreach[x].read
  BY <1>1, ExecutionFacts DEF Enter
<1>4. 0 \in 0 .. FollowupRetries
  BY SpeakersAssumption
<1>5. OutreachFits(x)' /\ OnItsOwn(x)'
  BY <1>1, <1>2, <1>3, <1>4, ExecutionFacts DEF OutreachFits, OnItsOwn
<1>6. outreach[x].at = "none"
  BY DEF StartOutreach
<1>7. QED
  BY <1>1, <1>3, <1>5, ProceedsInv, ExecutionFacts DEF Proceeds

LEMMA OutreachInv ==
  ASSUME SpeakerInv, NEW x \in Executions, RunOutreach(x)
  PROVE  SpeakerInv'
<1> USE DEF sending, SpeakerKept
<1>1. CASE SendInvite(x)
  <2>1. /\ speaker \in SpeakerItem /\ speaker' = [speaker EXCEPT !.status = "INVITED"]
        /\ outreach[x].at = "InviteSpeaker"
    BY <1>1, ExecutionFacts DEF SendInvite
  <2>2. /\ speaker' \in SpeakerItem /\ speaker'.followups = speaker.followups
        /\ speaker.responded => speaker'.responded
        /\ speaker'.status # "CONFIRMED"
    BY <2>1 DEF SpeakerItem, SpeakerStatuses
  <2>3. QED
    BY <1>1, <2>1, <2>2, CalmMove, ProceedsInv DEF SendInvite, Calm
<1>2. CASE InviteReturns(x) \/ WaitElapses(x) \/ RequestFollowupApproval(x)
           \/ PermissionTimeout(x) \/ FollowupReturns(x)
  BY <1>2, CalmMove, ProceedsInv DEF InviteReturns, WaitElapses, RequestFollowupApproval,
     PermissionTimeout, FollowupReturns, Calm
<1>3. CASE CheckResponse(x) \/ CheckFollowupPolicy(x) \/ ReadFollowups(x) \/ OutreachFails(x)
  BY <1>3, CheckProceeds, PolicyProceeds, ReadingProceeds, FailureProceeds, ProceedsInv
<1>4. CASE AnswerOutreach(x)
  <2>1. PICK d \in AnswersTo(permission[x]) :
          Enter(x, IF d = "APPROVED" THEN "SendFollowup" ELSE "FollowupDeclined")
    BY <1>4 DEF AnswerOutreach
  <2>2. d = "APPROVED" => permission[x].approved
    BY <2>1, ExecutionFacts, SpeakersAssumption DEF AnswersTo, SoundConsent
  <2>3. QED
    BY <1>4, <2>1, <2>2, CalmMove, ProceedsInv DEF AnswerOutreach, Calm
<1>5. CASE SendFollowup(x)
  BY <1>5, SendInv
<1>6. CASE UpdateSpeakerState(x)
  <2>1. /\ speaker \in SpeakerItem /\ outreach[x].at = "UpdateSpeakerState"
        /\ speaker' = [speaker EXCEPT !.status = "CONFIRMED", !.responded = TRUE]
    BY <1>6, ExecutionFacts DEF UpdateSpeakerState, FinalWrite
  <2>2. /\ speaker' \in SpeakerItem /\ speaker'.followups = speaker.followups
        /\ speaker'.responded
    BY <2>1 DEF SpeakerItem, SpeakerStatuses
  <2>3. QED
    BY <1>6, <2>1, <2>2, CalmMove, ProceedsInv DEF UpdateSpeakerState, FinalWrite, Calm
<1>7. CASE EscalateSpeaker(x)
  <2>1. /\ speaker \in SpeakerItem /\ outreach[x].at = "EscalateSpeaker"
        /\ speaker' = [speaker EXCEPT !.status = "AWAITING_RESPONSE"]
    BY <1>7, ExecutionFacts DEF EscalateSpeaker, FinalWrite
  <2>2. /\ speaker' \in SpeakerItem /\ speaker'.followups = speaker.followups
        /\ speaker.responded => speaker'.responded
        /\ speaker'.status # "CONFIRMED"
    BY <2>1 DEF SpeakerItem, SpeakerStatuses
  <2>3. QED
    BY <1>7, <2>1, <2>2, CalmMove, ProceedsInv DEF EscalateSpeaker, FinalWrite, Calm
<1>8. CASE FollowupDeclined(x)
  BY <1>8, CalmMove, ProceedsInv DEF FollowupDeclined, FinalWrite, Calm
<1>9. QED
  BY <1>1, <1>2, <1>3, <1>4, <1>5, <1>6, <1>7, <1>8 DEF RunOutreach
---------------------------------------------------------------------------
(* The speaker is created once, and nothing has begun before that. *)
LEMMA CreateInv ==
  ASSUME SpeakerInv, CreateSpeaker
  PROVE  SpeakerInv'
<1>1. /\ speaker = None /\ speaker' = [status |-> "IDENTIFIED", followups |-> 0, responded |-> FALSE]
      /\ UNCHANGED <<editing, outreach, permission, sent, unapproved, regime>>
  BY DEF CreateSpeaker, sending
<1>2. speaker' \in SpeakerItem /\ speaker'.followups = 0 /\ speaker'.status = "IDENTIFIED"
  BY <1>1 DEF SpeakerItem, SpeakerStatuses
<1>3. sent = 0
  BY <1>1 DEF SpeakerInv, SpeakerTyped
<1>4. SpeakerTyped'
  BY <1>1, <1>2, NoneIsNoSpeaker DEF SpeakerInv, SpeakerTyped
<1>5. EditsFit'
  <2>1. ASSUME NEW c \in Calls PROVE EditFits(c)'
    BY <1>1, NoneIsNoSpeaker DEF SpeakerInv, EditsFit, EditFits
  <2>2. QED
    BY <1>1, <2>1 DEF SpeakerInv, EditsFit
<1>6. OutreachesFit'
  <2>1. ASSUME NEW x \in Executions PROVE outreach[x].at = "none" /\ OutreachFits(x)' /\ OnItsOwn(x)'
    BY <1>1, NoneIsNoSpeaker, ExecutionFacts DEF OutreachFits, OnItsOwn
  <2>2. QED
    BY <1>1, <2>1 DEF SpeakerInv, OutreachesFit
<1>7. FollowupsAreAccounted'
  BY <1>1, <1>2, <1>3 DEF SpeakerInv, FollowupsAreAccounted, FollowupsCounted,
     AutomaticFollowupsBounded, OneExecution
<1>8. ConfirmedAfterResponse'
  BY <1>2 DEF ConfirmedAfterResponse
<1>9. QED
  BY <1>4, <1>5, <1>6, <1>7, <1>8 DEF SpeakerInv

LEMMA InitSpeakerInv == SpeakersInit => SpeakerInv
<1> SUFFICES ASSUME SpeakersInit PROVE SpeakerInv
  OBVIOUS
<1>1. SpeakerTyped
  BY AskedIsSound DEF SpeakersInit, SpeakerTyped
<1>2. EditsFit
  BY DEF SpeakersInit, EditsFit, EditFits, AllIdle, Invocation, Resting
<1>3. OutreachesFit
  BY SpeakersAssumption DEF SpeakersInit, OutreachesFit, OutreachFits, OnItsOwn
<1>4. FollowupsAreAccounted
  BY SpeakersAssumption DEF SpeakersInit, FollowupsAreAccounted, FollowupsCounted,
     AutomaticFollowupsBounded, AutoFollowups
<1>5. QED
  BY <1>1, <1>2, <1>3, <1>4 DEF SpeakersInit, SpeakerInv, ConfirmedAfterResponse

LEMMA StutteredSpeakerInv ==
  ASSUME SpeakerInv, UNCHANGED speakerVars
  PROVE  SpeakerInv'
<1>1. EditsFit'
  BY DEF SpeakerInv, EditsFit, EditFits, speakerVars
<1>2. OutreachesFit'
  BY DEF SpeakerInv, OutreachesFit, OutreachFits, OnItsOwn, OneExecution, speakerVars
<1>3. QED
  BY <1>1, <1>2 DEF SpeakerInv, SpeakerTyped, FollowupsAreAccounted, FollowupsCounted, OneExecution,
     AutomaticFollowupsBounded, ConfirmedAfterResponse, speakerVars

LEMMA SpeakerInvIsInvariant == SpeakersSpec => []SpeakerInv
<1>1. SpeakerInv /\ [SpeakersNext]_speakerVars => SpeakerInv'
  BY CreateInv, EditsKeep, StartInv, DecidingProceeds, ProceedsInv, OutreachInv, StutteredSpeakerInv
     DEF SpeakersNext
<1>2. QED
  BY <1>1, InitSpeakerInv, SpeakersSafety, PTL

---------------------------------------------------------------------------
(* The variables keep their types in every regime. *)
THEOREM SpeakerTypeCorrect == SpeakersSpec => []SpeakersTypeOK
<1>1. SpeakerInv => SpeakersTypeOK
  BY DEF SpeakerInv, SpeakerTyped, EditsFit, OutreachesFit, OutreachFits, SoundConsent, SpeakersTypeOK
<1>2. QED
  BY <1>1, SpeakerInvIsInvariant, PTL

(* followup_count never says more than was sent, says exactly that of an    *)
(* execution on its own, and such an execution sends what it may send by    *)
(* itself and no more, but for the retries of a send that had gone out:     *)
(* for any number of executions, retries and edits.                         *)
THEOREM FollowupsStayAccounted == SpeakersSpec => []FollowupsAreAccounted
<1>1. SpeakerInv => FollowupsAreAccounted
  BY DEF SpeakerInv
<1>2. QED
  BY <1>1, SpeakerInvIsInvariant, PTL

(* No speaker is confirmed who has not responded, whichever executions and  *)
(* edits overlap: the check that update_speaker makes at its read still     *)
(* stands at its write.                                                     *)
THEOREM ConfirmationFollowsResponse == SpeakersSpec => []ConfirmedAfterResponse
<1>1. SpeakerInv => ConfirmedAfterResponse
  BY DEF SpeakerInv
<1>2. QED
  BY <1>1, SpeakerInvIsInvariant, PTL

---------------------------------------------------------------------------
(***************************************************************************)
(* The agent: whatever tools are registered, whatever the model answers    *)
(* and however exchanges overlap and fail, the gate keeps every call       *)
(* within its caller's authority, and what it did is reported and on       *)
(* record.                                                                 *)
(***************************************************************************)

(* The specification without its fairness, which safety does not need. *)
LEMMA AgentSafety == AgentSpec => AgentInit /\ [][AgentNext]_agentVars
BY PTL DEF AgentSpec

---------------------------------------------------------------------------
(* Authority. *)

Authorised(e) ==
  /\ e.role \in Catalogue[e.tool].roles
  /\ e.role = "LEADER" \/ (e.event # "other" /\ e.team # "other")

NeedsNoApproval(e) ==
  Catalogue[e.tool].tier \in IF e.role = "LEADER" THEN {"LOW", "MEDIUM"} ELSE {"LOW"}

(* A call the gate lets through, to its tool or to an approval, has passed  *)
(* every check before.                                                      *)
LEMMA PassedTheGate ==
  ASSUME NEW c \in Calls, Verdict(c) \in {"run", "approval"}
  PROVE  Authorised(CallId(c))
<1> DEFINE call == Called(c)
           r == chats[c].req
<1>1. call.tool \in VisibleFor(r.role) /\ ~OutOfScope(r, EventOf(c), call.team)
  BY DEF Verdict, CallVerdict
<1>2. r.role \in Catalogue[call.tool].roles
  BY <1>1 DEF VisibleFor
<1>3. r.role = "LEADER" \/ (EventOf(c) # "other" /\ call.team # "other")
  BY <1>1 DEF OutOfScope
<1>4. CallId(c).role = r.role /\ CallId(c).tool = call.tool /\ CallId(c).event = EventOf(c)
      /\ CallId(c).team = call.team
  BY DEF CallId
<1>5. QED
  BY <1>2, <1>3, <1>4 DEF Authorised

(* A call that runs is of a tier its caller needs no approval for. *)
LEMMA RunsWithoutApproval ==
  ASSUME NEW c \in Calls, Verdict(c) = "run"
  PROVE  NeedsNoApproval(CallId(c))
<1> DEFINE tier == Catalogue[Called(c).tool].tier
           role == chats[c].req.role
<1>1. /\ Called(c).tool \in Tools
      /\ EvaluatePolicy(tier, role) \notin {"DENY", "REQUIRES_APPROVAL"}
  BY DEF Verdict, CallVerdict
<1>2. tier \in Tiers
  BY <1>1, AgentAssumption
<1>3. tier \in IF role = "LEADER" THEN {"LOW", "MEDIUM"} ELSE {"LOW"}
  BY <1>1, <1>2 DEF EvaluatePolicy, Tiers
<1>4. CallId(c).role = role /\ CallId(c).tool = Called(c).tool
  BY DEF CallId
<1>5. QED
  BY <1>3, <1>4 DEF NeedsNoApproval

AuthorityKept ==
  /\ \A e \in effects \cup gated : Authorised(e)
  /\ \A e \in effects : NeedsNoApproval(e)

(* "The agent never gains scope by being an agent" (run_turn, invoke):      *)
(* nothing the model asks for takes a change or an approval request outside *)
(* its caller's role, events and teams, or a change into a tier above it.   *)
THEOREM AuthorityIsKept == AgentSpec => []ActsWithinAuthority
<1>1. AgentInit => AuthorityKept
  BY DEF AgentInit, AuthorityKept
<1>2. AuthorityKept /\ [AgentNext]_agentVars => AuthorityKept'
  <2> SUFFICES ASSUME AuthorityKept, [AgentNext]_agentVars PROVE AuthorityKept'
    OBVIOUS
  <2>1. CASE UNCHANGED <<effects, gated>>
    BY <2>1 DEF AuthorityKept, Authorised, NeedsNoApproval
  <2>2. ASSUME NEW c \in Calls, RaiseApproval(c) PROVE AuthorityKept'
    <3>1. gated' = gated \cup {CallId(c)} /\ effects' = effects
      BY <2>2 DEF RaiseApproval
    <3>2. Authorised(CallId(c))
      BY <2>2, PassedTheGate DEF RaiseApproval
    <3>3. QED
      BY <3>1, <3>2 DEF AuthorityKept
  <2>3. ASSUME NEW c \in Calls, RunTool(c) PROVE AuthorityKept'
    <3>1. gated' = gated /\ effects' \subseteq effects \cup {CallId(c)}
      BY <2>3 DEF RunTool
    <3>2. Authorised(CallId(c)) /\ NeedsNoApproval(CallId(c))
      BY <2>3, PassedTheGate, RunsWithoutApproval DEF RunTool
    <3>3. QED
      BY <3>1, <3>2 DEF AuthorityKept
  <2>4. CASE UNCHANGED agentVars
    BY <2>1, <2>4 DEF agentVars
  <2>5. ASSUME NEW c \in Calls, BeginChat(c) \/ ServeChat(c) \/ ChatDies(c),
               ~RaiseApproval(c), ~RunTool(c)
        PROVE  UNCHANGED <<effects, gated>>
    BY <2>5 DEF BeginChat, ServeChat, ChatDies, records, RefuseChat, LoadHistory, ModelAnswers,
         ModelUnavailable, ReturnError, RefuseCall, ApprovalNotRaised, BuilderFails, ToolFails,
         AuditCall, PersistUserTurn, PersistAssistantTurn
  <2>6. QED
    BY <2>1, <2>2, <2>3, <2>4, <2>5 DEF AgentNext
<1>3. AuthorityKept => ActsWithinAuthority
  BY DEF AuthorityKept, Authorised, NeedsNoApproval, ActsWithinAuthority
<1>4. QED
  BY <1>1, <1>2, <1>3, AgentSafety, PTL
---------------------------------------------------------------------------
(* Invocations and loops are records: a move of one keeps its request, and  *)
(* leaves the others alone.                                                 *)
ChatFields == {"at", "req", "saw"}
LoopFields == {"turn", "calls", "reported"}

ChatsShaped == DOMAIN chats = Calls /\ \A c \in Calls : DOMAIN chats[c] = ChatFields
LoopsShaped == DOMAIN loop = Calls /\ \A c \in Calls : DOMAIN loop[c] = LoopFields
Shape == ChatsShaped /\ LoopsShaped

LEMMA InitShape == AgentInit => Shape
BY DEF AgentInit, Shape, ChatsShaped, LoopsShaped, ChatFields, LoopFields, AllIdle, IdleLoop,
   Invocation

ChatMoved(c, at) ==
  /\ ChatsShaped' /\ chats'[c].at = at
  /\ \A d \in Calls \ {c} : chats'[d] = chats[d]

LEMMA GoingOn ==
  ASSUME Shape, NEW c \in Calls, NEW at, chats' = GoneTo(chats, c, at)
  PROVE  ChatMoved(c, at) /\ chats'[c].req = chats[c].req
BY DEF Shape, ChatsShaped, ChatFields, GoneTo, ChatMoved

LEMMA GoingOnWith ==
  ASSUME Shape, NEW c \in Calls, NEW at, NEW saw, chats' = After(chats, c, at, saw)
  PROVE  ChatMoved(c, at)
BY DEF Shape, ChatsShaped, ChatFields, After, ChatMoved

LEMMA Becoming ==
  ASSUME Shape, NEW c \in Calls, NEW at, NEW req, NEW saw,
         chats' = [chats EXCEPT ![c] = Invocation(at, req, saw)]
  PROVE  ChatMoved(c, at)
BY DEF Shape, ChatsShaped, ChatFields, Invocation, ChatMoved

(* What a step does to the records of calls, of an invocation that is ...   *)
Alone(c) == \A d \in Calls \ {c} : chats'[d] = chats[d] /\ loop'[d] = loop[d]

(* ... not at a call, or dies at one;                                       *)
KeepsRecords(c) ==
  /\ UNCHANGED records /\ loop'[c].reported = loop[c].reported
  /\ chats'[c].at # "audit"
  /\ \/ chats[c].at \notin {"audit", "died"}
     \/ chats[c].at = "audit" /\ chats'[c].at = "died" /\ regime.failures

(* ... refused, asking for approval or acting;                              *)
Acts(c) ==
  /\ chats[c].at = "tool" /\ chats'[c].at = "audit"
  /\ UNCHANGED <<loop, trail>> /\ CallId(c)' = CallId(c)
  /\ gated' \in {gated, gated \cup {CallId(c)}}
  /\ gated' \cup effects' \cup refusals' = gated \cup effects \cup refusals \cup {CallId(c)}

(* ... writing the record of its call.                                      *)
Accounts(c) ==
  /\ chats[c].at = "audit" /\ chats'[c].at \notin {"audit", "died"}
  /\ UNCHANGED <<gated, effects, refusals>>
  /\ trail' = trail \cup {CallId(c)} \/ regime.failures
  /\ trail' \in {trail, trail \cup {CallId(c)}}
  /\ loop'[c].reported = loop[c].reported \cup ({CallId(c)} \cap gated)

Classified(c) == Shape' /\ Alone(c) /\ regime' = regime /\ (KeepsRecords(c) \/ Acts(c) \/ Accounts(c))

LEMMA QuietStep ==
  ASSUME Shape, NEW c \in Calls, NEW at, ChatMoved(c, at), at # "audit",
         \/ chats[c].at \notin {"audit", "died"}
         \/ chats[c].at = "audit" /\ at = "died" /\ regime.failures,
         UNCHANGED <<loop, records, regime>>
  PROVE  Classified(c)
BY DEF ChatMoved, Classified, Shape, LoopsShaped, Alone, KeepsRecords, records

LEMMA ReturnIsQuiet ==
  ASSUME Shape, NEW c \in Calls, ReturnFromCall(c), chats[c].at = "tool",
         UNCHANGED <<records, regime>>
  PROVE  Classified(c)
<1>1. chats' = GoneTo(chats, c, AfterCall(c)) /\ AfterCall(c) \notin {"audit", "died"}
  BY DEF ReturnFromCall, AfterCall
<1>2. ChatMoved(c, AfterCall(c))
  BY <1>1, GoingOn
<1>3. /\ LoopsShaped' /\ loop'[c].reported = loop[c].reported
      /\ \A d \in Calls \ {c} : loop'[d] = loop[d]
  BY DEF ReturnFromCall, Returned, Shape, LoopsShaped, LoopFields
<1>4. QED
  BY <1>1, <1>2, <1>3 DEF ChatMoved, Classified, Shape, Alone, KeepsRecords

LEMMA ActingStep ==
  ASSUME Shape, NEW c \in Calls, chats[c].at = "tool",
         chats' = GoneTo(chats, c, "audit"), UNCHANGED <<loop, trail, regime>>,
         \/ gated' = gated \cup {CallId(c)} /\ UNCHANGED <<effects, refusals>>
         \/ effects' = effects \cup {CallId(c)} /\ UNCHANGED <<gated, refusals>>
         \/ refusals' = refusals \cup {CallId(c)} /\ UNCHANGED <<gated, effects>>
  PROVE  Classified(c)
<1>1. ChatMoved(c, "audit") /\ chats'[c].req = chats[c].req
  BY GoingOn
<1>2. CallId(c)' = CallId(c)
  BY <1>1 DEF CallId, EventOf, Called
<1>3. Acts(c)
  BY <1>1, <1>2 DEF Acts, ChatMoved
<1>4. Shape' /\ Alone(c)
  BY <1>1 DEF Shape, LoopsShaped, Alone, ChatMoved
<1>5. QED
  BY <1>3, <1>4 DEF Classified

LEMMA AccountingStep ==
  ASSUME Shape, NEW c \in Calls, AuditCall(c)
  PROVE  Classified(c)
<1>1. chats' = GoneTo(chats, c, AfterCall(c)) /\ AfterCall(c) \notin {"audit", "died"}
  BY DEF AuditCall, AfterCall
<1>2. ChatMoved(c, AfterCall(c))
  BY <1>1, GoingOn
<1>3. /\ LoopsShaped' /\ loop'[c].reported = Reported(c)
      /\ \A d \in Calls \ {c} : loop'[d] = loop[d]
  BY DEF AuditCall, Returned, Shape, LoopsShaped, LoopFields
<1>4. Accounts(c)
  BY <1>1, <1>2, <1>3 DEF Accounts, AuditCall, AuditedCall, Reported, ChatMoved
<1>5. QED
  BY <1>2, <1>3, <1>4 DEF Classified, Shape, Alone, ChatMoved, AuditCall

LEMMA EveryStepIsClassified ==
  ASSUME Shape, NEW c \in Calls, BeginChat(c) \/ ServeChat(c) \/ ChatDies(c)
  PROVE  Classified(c)
<1>1. CASE BeginChat(c)
  <2>1. ChatMoved(c, "read")
    BY <1>1, Becoming DEF BeginChat, Begun
  <2>2. QED
    BY <1>1, <2>1, QuietStep DEF BeginChat, MayBegin, records
<1>2. CASE RefuseChat(c)
  <2>1. ChatMoved(c, "died")
    BY <1>2, Becoming DEF RefuseChat, Dead
  <2>2. QED
    BY <1>2, <2>1, QuietStep DEF RefuseChat, records
<1>3. CASE LoadHistory(c)
  <2>1. ChatMoved(c, "model")
    BY <1>3, GoingOnWith DEF LoadHistory
  <2>2. QED
    BY <1>3, <2>1, QuietStep DEF LoadHistory, records
<1>4. CASE ModelAnswers(c)
  <2>1. CASE chats' = GoneTo(chats, c, "user_turn") /\ UNCHANGED loop
    BY <1>4, <2>1, GoingOn, QuietStep DEF ModelAnswers, records
  <2>2. ASSUME NEW answer, chats' = GoneTo(chats, c, "tool"),
               loop' = [loop EXCEPT ![c].turn = NextTurn(c), ![c].calls = answer]
        PROVE  Classified(c)
    <3>1. ChatMoved(c, "tool")
      BY <2>2, GoingOn
    <3>2. /\ LoopsShaped' /\ loop'[c].reported = loop[c].reported
          /\ \A d \in Calls \ {c} : loop'[d] = loop[d]
      BY <2>2 DEF Shape, LoopsShaped, LoopFields
    <3>3. chats[c].at = "model" /\ UNCHANGED <<records, regime>>
      BY <1>4 DEF ModelAnswers
    <3>4. QED
      BY <3>1, <3>2, <3>3 DEF ChatMoved, Classified, Shape, Alone, KeepsRecords
  <2>3. QED
    BY <1>4, <2>1, <2>2 DEF ModelAnswers
<1>5. CASE ModelUnavailable(c)
  <2>1. ChatMoved(c, "died")
    BY <1>5, Becoming DEF ModelUnavailable, Dead
  <2>2. QED
    BY <1>5, <2>1, QuietStep DEF ModelUnavailable, records
<1>6. CASE ReturnError(c) \/ ApprovalNotRaised(c) \/ ToolFails(c)
  BY <1>6, ReturnIsQuiet DEF ReturnError, ApprovalNotRaised, ToolFails
<1>7. CASE RefuseCall(c) \/ RaiseApproval(c)
  BY <1>7, ActingStep DEF RefuseCall, RaiseApproval
<1>8. CASE RunTool(c)
  <2>1. CASE Catalogue[Called(c).tool].mutating
    BY <1>8, <2>1, ActingStep DEF RunTool
  <2>2. CASE ~Catalogue[Called(c).tool].mutating
    BY <1>8, <2>2, ReturnIsQuiet DEF RunTool, records
  <2>3. QED
    BY <2>1, <2>2
<1>9. CASE BuilderFails(c)
  <2>1. ChatMoved(c, "died")
    BY <1>9, Becoming DEF BuilderFails, Dead
  <2>2. QED
    BY <1>9, <2>1, QuietStep DEF BuilderFails, records
<1>10. CASE AuditCall(c)
  BY <1>10, AccountingStep
<1>11. CASE PersistUserTurn(c)
  <2>1. ChatMoved(c, "assistant_turn")
    BY <1>11, GoingOn DEF PersistUserTurn
  <2>2. QED
    BY <1>11, <2>1, QuietStep DEF PersistUserTurn, records
<1>12. CASE PersistAssistantTurn(c)
  <2>1. ChatMoved(c, "end")
    BY <1>12, Becoming DEF PersistAssistantTurn, Done
  <2>2. QED
    BY <1>12, <2>1, QuietStep DEF PersistAssistantTurn, records
<1>13. CASE ChatDies(c)
  <2>1. ChatMoved(c, "died")
    BY <1>13, Becoming DEF ChatDies, Dead
  <2>2. chats[c].at # "died" /\ regime.failures /\ UNCHANGED <<loop, records, regime>>
    BY <1>13 DEF ChatDies, Active, Resting, records
  <2>3. QED
    BY <2>1, <2>2, QuietStep
<1>14. QED
  BY <1>1, <1>2, <1>3, <1>4, <1>5, <1>6, <1>7, <1>8, <1>9, <1>10, <1>11, <1>12, <1>13
  DEF ServeChat

---------------------------------------------------------------------------
(* Records and reports, of one invocation. *)

Of(S, c) == {e \in S : e.by = c}

(* At "audit" the call has happened and its record is still to be written.  *)
OnRecord(c) ==
  IF chats[c].at = "audit"
  THEN Of(gated \cup effects \cup refusals, c) = Of(trail, c) \cup {CallId(c)}
  ELSE Of(gated \cup effects \cup refusals, c) = Of(trail, c)

Reporting(c) ==
  /\ chats[c].at = "audit" => loop[c].reported \cup ({CallId(c)} \cap gated) = Of(gated, c)
  /\ chats[c].at \notin {"audit", "died"} => loop[c].reported = Of(gated, c)

Accounted ==
  /\ Shape
  /\ ~regime.failures => \A c \in Calls : OnRecord(c)
  /\ \A c \in Calls : Reporting(c)

LEMMA InitAccounted == AgentInit => Accounted
BY InitShape DEF AgentInit, Accounted, OnRecord, Reporting, Of, AllIdle, IdleLoop, Invocation

LEMMA CallsAreTheCallers == ASSUME NEW c PROVE CallId(c).by = c
BY DEF CallId

LEMMA NextAccounted == Accounted /\ [AgentNext]_agentVars => Accounted'
<1> SUFFICES ASSUME Accounted, [AgentNext]_agentVars PROVE Accounted'
  OBVIOUS
<1>1. CASE UNCHANGED agentVars
  BY <1>1 DEF Accounted, Shape, ChatsShaped, LoopsShaped, OnRecord, Reporting, Of, CallId, EventOf,
     Called, agentVars
<1>2. ASSUME NEW c \in Calls, Classified(c) PROVE Accounted'
  <2>1. Shape /\ Shape' /\ regime' = regime
    BY <1>2 DEF Accounted, Classified
  <2>2. ASSUME NEW d \in Calls \ {c} PROVE (OnRecord(d) => OnRecord(d)') /\ Reporting(d)'
    <3>1. chats'[d] = chats[d] /\ loop'[d] = loop[d] /\ CallId(d)' = CallId(d)
      BY <1>2 DEF Classified, Alone, CallId, EventOf, Called
    <3>2. CallId(c).by # d /\ CallId(d).by = d
      BY <2>2, CallsAreTheCallers
    <3>3. /\ Of(gated, d)' = Of(gated, d) /\ Of(trail, d)' = Of(trail, d)
          /\ Of(gated \cup effects \cup refusals, d)' = Of(gated \cup effects \cup refusals, d)
      <4>1. CASE KeepsRecords(c)
        BY <4>1 DEF KeepsRecords, records, Of
      <4>2. CASE Acts(c)
        BY <4>2, <3>2 DEF Acts, Of
      <4>3. CASE Accounts(c)
        BY <4>3, <3>2 DEF Accounts, Of
      <4>4. QED
        BY <1>2, <4>1, <4>2, <4>3 DEF Classified
    <3>4. {CallId(d)} \cap gated = {CallId(d)} \cap Of(gated, d)
          /\ ({CallId(d)} \cap gated)' = {CallId(d)} \cap Of(gated, d)
      BY <3>1, <3>2, <3>3 DEF Of
    <3>5. Reporting(d)
      BY <2>2 DEF Accounted
    <3>6. QED
      BY <3>1, <3>3, <3>4, <3>5 DEF OnRecord, Reporting
  <2>3. ~regime.failures => OnRecord(c)'
    <3> SUFFICES ASSUME ~regime.failures PROVE OnRecord(c)'
      OBVIOUS
    <3>1. OnRecord(c) /\ CallId(c).by = c
      BY CallsAreTheCallers DEF Accounted
    <3>2. CASE KeepsRecords(c)
      BY <3>1, <3>2 DEF KeepsRecords, records, OnRecord, Of
    <3>3. CASE Acts(c)
      BY <3>1, <3>3 DEF Acts, OnRecord, Of
    <3>4. CASE Accounts(c)
      BY <3>1, <3>4 DEF Accounts, OnRecord, Of
    <3>5. QED
      BY <1>2, <3>2, <3>3, <3>4 DEF Classified
  <2>4. Reporting(c)'
    <3>1. Reporting(c) /\ CallId(c).by = c
      BY CallsAreTheCallers DEF Accounted
    <3>2. CASE KeepsRecords(c)
      BY <3>1, <3>2 DEF KeepsRecords, records, Reporting, Of
    <3>3. CASE Acts(c)
      BY <3>1, <3>3 DEF Acts, Reporting, Of
    <3>4. CASE Accounts(c)
      BY <3>1, <3>4 DEF Accounts, Reporting, Of
    <3>5. QED
      BY <1>2, <3>2, <3>3, <3>4 DEF Classified
  <2>5. \A d \in Calls : (~regime.failures => OnRecord(d)') /\ Reporting(d)'
    BY <2>2, <2>3, <2>4 DEF Accounted
  <2>6. QED
    BY <2>1, <2>5 DEF Accounted
<1>3. QED
  BY <1>1, <1>2, EveryStepIsClassified DEF AgentNext, Accounted

LEMMA AccountedInvariant == AgentSpec => []Accounted
BY InitAccounted, NextAccounted, AgentSafety, PTL

(* "Refusals are audited as well as successes" (invoke, _audit_refusal): an *)
(* exchange that met no failure has a record of every change, approval      *)
(* request and refusal, and of nothing else, between any two of its calls.  *)
THEOREM EveryCallIsOnRecord == AgentSpec => []CallsAreAudited
<1>1. Accounted => CallsAreAudited
  BY DEF Accounted, OnRecord, Of, CallsAreAudited
<1>2. QED
  BY <1>1, AccountedInvariant, PTL

---------------------------------------------------------------------------
(* Whoever has answered is done and stays so.                               *)
AnswersStand ==
  /\ answered \in Seq(Calls)
  /\ \A i \in DOMAIN answered : chats[answered[i]].at = "end"

LEMMA NextAnswersStand ==
  Accounted /\ AnswersStand /\ [AgentNext]_agentVars => AnswersStand'
<1> SUFFICES ASSUME Accounted, AnswersStand, [AgentNext]_agentVars PROVE AnswersStand'
  OBVIOUS
<1>1. CASE UNCHANGED agentVars
  BY <1>1 DEF AnswersStand, agentVars
<1>2. ASSUME NEW c \in Calls, BeginChat(c) \/ ServeChat(c) \/ ChatDies(c) PROVE AnswersStand'
  <2>1. chats[c].at # "end"
    BY <1>2 DEF BeginChat, MayBegin, ServeChat, ChatDies, Active, Resting, RefuseChat, LoadHistory,
       ModelAnswers, ModelUnavailable, ReturnError, RefuseCall, RaiseApproval, ApprovalNotRaised,
       BuilderFails, RunTool, ToolFails, AuditCall, PersistUserTurn, PersistAssistantTurn
  <2>2. \A d \in Calls \ {c} : chats'[d] = chats[d]
    BY <1>2, EveryStepIsClassified DEF Accounted, Classified, Alone
  <2>3. \A i \in DOMAIN answered : answered[i] \in Calls \ {c}
    BY <2>1 DEF AnswersStand
  <2>4. CASE answered' = answered
    BY <2>2, <2>3, <2>4 DEF AnswersStand
  <2>5. CASE PersistAssistantTurn(c)
    <3>1. answered' = Append(answered, c) /\ chats' = [chats EXCEPT ![c] = Invocation("end", None, None)]
      BY <2>5 DEF PersistAssistantTurn, Done
    <3>2. chats'[c].at = "end"
      BY <3>1, Becoming DEF Accounted, ChatMoved
    <3>3. answered \in Seq(Calls)
      BY DEF AnswersStand
    <3>4. \A i \in DOMAIN answered' : chats'[answered'[i]].at = "end"
      BY <2>2, <2>3, <3>1, <3>2, <3>3 DEF AnswersStand
    <3>5. QED
      BY <3>1, <3>3, <3>4 DEF AnswersStand
  <2>6. answered' = answered \/ PersistAssistantTurn(c)
    BY <1>2 DEF BeginChat, ServeChat, ChatDies, RefuseChat, LoadHistory,
       ModelAnswers, ModelUnavailable, ReturnError, RefuseCall, RaiseApproval, ApprovalNotRaised,
       BuilderFails, RunTool, ToolFails, AuditCall, PersistUserTurn
  <2>7. QED
    BY <2>4, <2>5, <2>6
<1>3. QED
  BY <1>1, <1>2 DEF AgentNext

(* An answer reports the approvals its exchange raised (run_turn), however  *)
(* many passes it took, however others overlap and whatever fails.          *)
THEOREM AnswersAreComplete == AgentSpec => []AnswersReportApprovals
<1>1. AgentInit => AnswersStand
  BY DEF AgentInit, AnswersStand
<1>2. Accounted /\ AnswersStand => AnswersReportApprovals
  <2> SUFFICES ASSUME Accounted, AnswersStand, NEW i \in DOMAIN answered
               PROVE  loop[answered[i]].reported = {a \in gated : a.by = answered[i]}
    BY DEF AnswersReportApprovals
  <2>1. answered[i] \in Calls /\ chats[answered[i]].at = "end"
    BY DEF AnswersStand
  <2>2. QED
    BY <2>1 DEF Accounted, Reporting, Of
<1>3. QED
  BY <1>1, <1>2, NextAnswersStand, AccountedInvariant, AgentSafety, PTL

---------------------------------------------------------------------------
(* The conversation.  Exchanges in turn that meet no failure fill the       *)
(* sequence numbers from the first on, two for each, up to the last two     *)
(* there are, which every exchange from then on writes over.                *)
Both == 2 * HistoryTurns
TurnsKept == IF 2 * Len(answered) > Both + 2 THEN Both + 2 ELSE 2 * Len(answered)
Loaded == IF TurnsKept > Both THEN Both ELSE TurnsKept

Speaker(i) == IF i % 2 = 0 THEN "user" ELSE "assistant"
UserPut == \E c \in Calls : chats[c].at = "assistant_turn"
Written == IF UserPut /\ Loaded + 1 > TurnsKept THEN Loaded + 1 ELSE TurnsKept

InConversation ==
  /\ \A i \in Slots : IF i < Written
                      THEN transcript[i] # None /\ transcript[i].role = Speaker(i)
                      ELSE transcript[i] = None
  /\ Len(answered) > 0 /\ ~UserPut => transcript[TurnsKept - 1].by = answered[Len(answered)]

HasHistory(c) ==
  /\ chats[c].at \in {"model", "tool", "audit", "user_turn"} => chats[c].saw = LoadedHistory
  /\ chats[c].at \in {"model", "tool", "audit", "user_turn", "assistant_turn"} =>
       Len(chats[c].saw) = Loaded

OneExchange == \A c, d \in Calls : Active(chats, c) /\ Active(chats, d) => c = d

TalkInv ==
  ~regime.overlap /\ ~regime.failures =>
    OneExchange /\ InConversation /\ \A c \in Calls : HasHistory(c)

(* What is stored of a conversation without gaps, and the end of a sequence. *)
LEMMA SlotsAre == Both \in Nat /\ Both >= 2 /\ Slots = 0 .. Both + 1
BY AgentAssumption DEF Both, Slots

LEMMA StoredIs ==
  ASSUME NEW m \in 0 .. Both + 2,
         \A i \in Slots : IF i < m THEN transcript[i] # None ELSE transcript[i] = None
  PROVE  Stored = [k \in 1 .. m |-> transcript[k - 1]]
<1>1. Filled = 0 .. m - 1
  BY SlotsAre DEF Filled
<1>2. ASSUME NEW i \in Filled PROVE Cardinality(Before(i)) = i
  <2>1. Before(i) = 0 .. i - 1
    BY <1>1, <1>2 DEF Before
  <2>2. QED
    BY <1>1, <1>2, <2>1, FS_Interval
<1>3. Cardinality(Filled) = m
  BY <1>1, FS_Interval
<1> DEFINE place(k) == CHOOSE i \in Filled : Cardinality(Before(i)) = k - 1
<1>4. ASSUME NEW k \in 1 .. m PROVE place(k) = k - 1
  <2>1. k - 1 \in Filled /\ Cardinality(Before(k - 1)) = k - 1
    BY <1>1, <1>2
  <2>2. QED
    BY <1>2, <2>1
<1>5. Stored = [k \in 1 .. m |-> transcript[place(k)]]
  BY <1>3 DEF Stored
<1> HIDE DEF place
<1>6. QED
  BY <1>4, <1>5

LEMMA LastOfIs ==
  ASSUME NEW S, NEW s \in Seq(S), NEW n \in Nat \ {0}, NEW l \in Nat,
         l = IF Len(s) > n THEN n ELSE Len(s)
  PROVE  /\ LastOf(s, n) \in Seq(S) /\ Len(LastOf(s, n)) = l
         /\ \A i \in 1 .. l : LastOf(s, n)[i] = s[i + (Len(s) - l)]
<1> DEFINE first == IF Len(s) > n THEN Len(s) - n + 1 ELSE 1
           last == Len(s)
<1>1. first \in Int /\ last \in Int /\ first >= 1 /\ last - first + 1 = l
  OBVIOUS
<1>2. LastOf(s, n) = SubSeq(s, first, last)
  BY DEF LastOf
<1>3. \A i \in first .. last : s[i] \in S
  BY <1>1
<1>4. \A i \in 1 .. l : first + i - 1 = i + (Len(s) - l)
  BY <1>1
<1> HIDE DEF first, last
<1>5. /\ SubSeq(s, first, last) \in Seq(S)
      /\ Len(SubSeq(s, first, last)) = IF first <= last THEN last - first + 1 ELSE 0
      /\ \A i \in 1 .. last - first + 1 : SubSeq(s, first, last)[i] = s[first + i - 1]
  BY <1>1, <1>3, SubSeqProperties
<1>6. Len(SubSeq(s, first, last)) = l
  BY <1>1, <1>5
<1>7. \A i \in 1 .. l : SubSeq(s, first, last)[i] = s[i + (Len(s) - l)]
  BY <1>1, <1>4, <1>5
<1>8. QED
  BY <1>2, <1>5, <1>6, <1>7

(* The history an exchange loads is the end of what was kept.               *)
TalkTyped == transcript \in [Slots -> ChatTurn \cup {None}] /\ answered \in Seq(Calls)

LEMMA KeptNumbers ==
  ASSUME TalkTyped
  PROVE  /\ TurnsKept \in 0 .. Both + 2 /\ Loaded \in 0 .. Both
         /\ Loaded % 2 = 0 /\ TurnsKept % 2 = 0
         /\ TurnsKept = Loaded \/ TurnsKept = Loaded + 2
         /\ Len(answered) > 0 => Loaded >= 2
<1>1. Len(answered) \in Nat
  BY DEF TalkTyped
<1>2. HistoryTurns \in Nat /\ HistoryTurns >= 1
  BY AgentAssumption
<1>3. \A n \in Nat : (2 * n) % 2 = 0 /\ (2 * n + 2) % 2 = 0
  OBVIOUS
<1>4. (2 * Len(answered)) % 2 = 0 /\ (2 * HistoryTurns) % 2 = 0 /\ (2 * HistoryTurns + 2) % 2 = 0
  BY <1>1, <1>2, <1>3
<1>5. TurnsKept % 2 = 0 /\ Loaded % 2 = 0
  BY <1>4 DEF TurnsKept, Loaded, Both
<1>6. \A n, h \in Nat : 2 * n > 2 * h => 2 * n >= 2 * h + 2
  OBVIOUS
<1>7. 2 * Len(answered) > Both => 2 * Len(answered) >= Both + 2
  BY <1>1, <1>2, <1>6 DEF Both
<1>8. /\ TurnsKept \in 0 .. Both + 2 /\ Loaded \in 0 .. Both
      /\ TurnsKept = Loaded \/ TurnsKept = Loaded + 2
  BY <1>1, <1>7, SlotsAre DEF TurnsKept, Loaded
<1>9. Len(answered) > 0 => Loaded >= 2
  BY <1>1, SlotsAre DEF TurnsKept, Loaded
<1>10. QED
  BY <1>5, <1>8, <1>9

LEMMA HistoryIs ==
  ASSUME TalkTyped, InConversation, ~UserPut
  PROVE  /\ LoadedHistory \in Seq(ChatTurn) /\ Len(LoadedHistory) = Loaded
         /\ \A i \in 1 .. Loaded : LoadedHistory[i] = transcript[i + (TurnsKept - Loaded) - 1]
<1>1. /\ TurnsKept \in 0 .. Both + 2 /\ Loaded \in 0 .. Both
      /\ Loaded = IF TurnsKept > Both THEN Both ELSE TurnsKept
  BY KeptNumbers DEF Loaded
<1>2. \A i \in Slots : IF i < TurnsKept THEN transcript[i] # None ELSE transcript[i] = None
  BY DEF InConversation, Written
<1>3. Stored = [k \in 1 .. TurnsKept |-> transcript[k - 1]]
  BY <1>1, <1>2, StoredIs
<1>4. \A k \in 1 .. TurnsKept : transcript[k - 1] \in ChatTurn
  BY <1>1, <1>2, SlotsAre DEF TalkTyped
<1>5. Stored \in Seq(ChatTurn) /\ Len(Stored) = TurnsKept
  BY <1>1, <1>3, <1>4
<1>6. LoadedHistory = LastOf(Stored, Both) /\ Both \in Nat \ {0}
  BY SlotsAre DEF LoadedHistory, Both
<1>7. /\ LastOf(Stored, Both) \in Seq(ChatTurn) /\ Len(LastOf(Stored, Both)) = Loaded
      /\ \A i \in 1 .. Loaded : LastOf(Stored, Both)[i] = Stored[i + (Len(Stored) - Loaded)]
  <2>1. Loaded \in Nat /\ Loaded = IF Len(Stored) > Both THEN Both ELSE Len(Stored)
    BY <1>1, <1>5
  <2>2. QED
    BY <1>5, <1>6, <2>1, LastOfIs
<1>8. ASSUME NEW i \in 1 .. Loaded
      PROVE  Stored[i + (Len(Stored) - Loaded)] = transcript[i + (TurnsKept - Loaded) - 1]
  <2> DEFINE k == i + (TurnsKept - Loaded)
  <2>1. i + (Len(Stored) - Loaded) = k /\ k \in 1 .. TurnsKept /\ i + (TurnsKept - Loaded) - 1 = k - 1
    BY <1>1, <1>5
  <2> HIDE DEF k
  <2>2. Stored[k] = transcript[k - 1]
    BY <1>3, <2>1
  <2>3. QED
    BY <2>1, <2>2
<1>9. QED
  BY <1>6, <1>7, <1>8

(* What a step of an exchange that meets no failure does to the talk. *)
Talking == {"model", "tool", "audit", "user_turn"}

TalkStep(c) ==
  \/ /\ MayBegin(chats, c) /\ chats'[c].at = "read" /\ UNCHANGED <<transcript, answered>>
  \/ /\ chats[c].at = "read" /\ chats'[c].at = "died" /\ UNCHANGED <<transcript, answered>>
  \/ /\ chats[c].at = "read" /\ chats'[c].at = "model" /\ chats'[c].saw = LoadedHistory
     /\ UNCHANGED <<transcript, answered>>
  \/ /\ chats[c].at \in Talking /\ chats'[c].at \in Talking /\ chats'[c].saw = chats[c].saw
     /\ UNCHANGED <<transcript, answered>>
  \/ /\ chats[c].at = "user_turn" /\ chats'[c].at = "assistant_turn" /\ chats'[c].saw = chats[c].saw
     /\ transcript' = [transcript EXCEPT ![Len(chats[c].saw)] = [role |-> "user", by |-> c]]
     /\ UNCHANGED answered
  \/ /\ chats[c].at = "assistant_turn" /\ chats'[c].at = "end"
     /\ transcript' = [transcript EXCEPT ![Len(chats[c].saw) + 1] = [role |-> "assistant", by |-> c]]
     /\ answered' = Append(answered, c)

LEMMA GoingOnSees ==
  ASSUME Shape, NEW c \in Calls, NEW at, chats' = GoneTo(chats, c, at)
  PROVE  chats'[c].at = at /\ chats'[c].saw = chats[c].saw
BY DEF Shape, ChatsShaped, ChatFields, GoneTo

LEMMA LoopTalks ==
  ASSUME Shape, NEW c \in Calls, chats[c].at \in Talking, NEW at \in Talking,
         chats' = GoneTo(chats, c, at), UNCHANGED <<transcript, answered>>
  PROVE  TalkStep(c)
BY GoingOnSees DEF TalkStep

LEMMA EveryStepTalks ==
  ASSUME Shape, ~regime.failures, NEW c \in Calls, BeginChat(c) \/ ServeChat(c) \/ ChatDies(c)
  PROVE  TalkStep(c)
<1>1. CASE BeginChat(c)
  <2>1. ChatMoved(c, "read")
    BY <1>1, Becoming DEF BeginChat, Begun
  <2>2. QED
    BY <1>1, <2>1 DEF BeginChat, TalkStep, ChatMoved
<1>2. CASE RefuseChat(c)
  <2>1. ChatMoved(c, "died")
    BY <1>2, Becoming DEF RefuseChat, Dead
  <2>2. QED
    BY <1>2, <2>1 DEF RefuseChat, TalkStep, ChatMoved
<1>3. CASE LoadHistory(c)
  <2>1. chats' = After(chats, c, "model", LoadedHistory)
    BY <1>3 DEF LoadHistory
  <2>2. chats'[c].at = "model" /\ chats'[c].saw = LoadedHistory
    BY <2>1 DEF Shape, ChatsShaped, ChatFields, After
  <2>3. QED
    BY <1>3, <2>2 DEF LoadHistory, TalkStep
<1>4. CASE ModelAnswers(c)
  <2>1. chats' = GoneTo(chats, c, "user_turn") \/ chats' = GoneTo(chats, c, "tool")
    BY <1>4 DEF ModelAnswers
  <2>2. chats[c].at = "model" /\ UNCHANGED <<transcript, answered>>
    BY <1>4 DEF ModelAnswers
  <2>3. QED
    BY <2>1, <2>2, LoopTalks DEF Talking
<1>5. CASE ReturnError(c) \/ ApprovalNotRaised(c) \/ ToolFails(c) \/ RefuseCall(c) \/ RaiseApproval(c)
           \/ RunTool(c) \/ AuditCall(c)
  <2>1. chats[c].at \in {"tool", "audit"} /\ UNCHANGED <<transcript, answered>>
    BY <1>5 DEF ReturnError, ApprovalNotRaised, ToolFails, RefuseCall, RaiseApproval, RunTool, AuditCall
  <2>2. chats' = GoneTo(chats, c, AfterCall(c)) \/ chats' = GoneTo(chats, c, "audit")
    BY <1>5 DEF ReturnError, ApprovalNotRaised, ToolFails, RefuseCall, RaiseApproval, RunTool, AuditCall,
       ReturnFromCall
  <2>3. AfterCall(c) \in Talking
    BY DEF AfterCall, Talking
  <2>4. QED
    BY <2>1, <2>2, <2>3, LoopTalks DEF Talking
<1>6. CASE PersistUserTurn(c)
  <2>1. chats' = GoneTo(chats, c, "assistant_turn")
    BY <1>6 DEF PersistUserTurn
  <2>2. chats'[c].at = "assistant_turn" /\ chats'[c].saw = chats[c].saw
    BY <2>1, GoingOnSees
  <2>3. QED
    BY <1>6, <2>2 DEF PersistUserTurn, PersistTurn, TalkStep
<1>7. CASE PersistAssistantTurn(c)
  <2>1. ChatMoved(c, "end")
    BY <1>7, Becoming DEF PersistAssistantTurn, Done
  <2>2. QED
    BY <1>7, <2>1 DEF PersistAssistantTurn, PersistTurn, TalkStep, ChatMoved
<1>8. ~ChatDies(c) /\ ~ModelUnavailable(c) /\ ~BuilderFails(c)
  BY DEF ChatDies, ModelUnavailable, BuilderFails
<1>9. QED
  BY <1>1, <1>2, <1>3, <1>4, <1>5, <1>6, <1>7, <1>8 DEF ServeChat

(* Turns and answers keep their types, whatever fails.                      *)
LEMMA TalkStaysTyped == TalkTyped /\ [AgentNext]_agentVars => TalkTyped'
<1> SUFFICES ASSUME TalkTyped, [AgentNext]_agentVars PROVE TalkTyped'
  OBVIOUS
<1>1. CASE UNCHANGED <<transcript, answered>>
  BY <1>1 DEF TalkTyped
<1>2. ASSUME NEW c \in Calls, NEW slot, NEW role \in {"user", "assistant"}, PersistTurn(c, slot, role)
      PROVE  transcript' \in [Slots -> ChatTurn \cup {None}]
  <2>1. [role |-> role, by |-> c] \in ChatTurn
    BY <1>2 DEF ChatTurn
  <2>2. QED
    BY <1>2, <2>1 DEF PersistTurn, TalkTyped
<1>3. ASSUME NEW c \in Calls, PersistUserTurn(c) PROVE TalkTyped'
  BY <1>2, <1>3 DEF PersistUserTurn, TalkTyped
<1>4. ASSUME NEW c \in Calls, PersistAssistantTurn(c) PROVE TalkTyped'
  BY <1>2, <1>4 DEF PersistAssistantTurn, TalkTyped
<1>5. ASSUME NEW c \in Calls, BeginChat(c) \/ ServeChat(c) \/ ChatDies(c),
             ~PersistUserTurn(c), ~PersistAssistantTurn(c)
      PROVE  UNCHANGED <<transcript, answered>>
  BY <1>5 DEF BeginChat, ServeChat, ChatDies, RefuseChat, LoadHistory, ModelAnswers, ModelUnavailable,
     ReturnError, RefuseCall, RaiseApproval, ApprovalNotRaised, BuilderFails, RunTool, ToolFails, AuditCall
<1>6. CASE UNCHANGED agentVars
  BY <1>1, <1>6 DEF agentVars
<1>7. QED
  BY <1>1, <1>3, <1>4, <1>5, <1>6 DEF AgentNext

LEMMA InitTalkTyped == AgentInit => TalkTyped
BY DEF AgentInit, TalkTyped

(* Between the two puts of an exchange in turn, and after them.             *)
LEMMA UserTurnKept ==
  ASSUME TalkTyped, InConversation, ~UserPut, UserPut', NEW c \in Calls,
         transcript' = [transcript EXCEPT ![Loaded] = [role |-> "user", by |-> c]],
         UNCHANGED answered
  PROVE  InConversation'
<1>1. /\ TurnsKept \in 0 .. Both + 2 /\ Loaded \in 0 .. Both /\ Loaded % 2 = 0
      /\ TurnsKept = Loaded \/ TurnsKept = Loaded + 2
  BY KeptNumbers
<1>2. Written = TurnsKept /\ Written' = IF Loaded + 1 > TurnsKept THEN Loaded + 1 ELSE TurnsKept
  BY <1>1 DEF Written, TurnsKept, Loaded, Both
<1>3. Speaker(Loaded) = "user" /\ [role |-> "user", by |-> c] # None
  BY <1>1, AgentAssumption DEF Speaker, ChatTurn
<1>4. transcript'[Loaded].role = "user" /\ transcript'[Loaded] # None
  BY <1>1, <1>3, SlotsAre DEF TalkTyped
<1>5. ASSUME NEW i \in Slots
      PROVE  IF i < Written' THEN transcript'[i] # None /\ transcript'[i].role = Speaker(i)
                             ELSE transcript'[i] = None
  <2>1. IF i < TurnsKept THEN transcript[i] # None /\ transcript[i].role = Speaker(i) ELSE transcript[i] = None
    BY <1>2 DEF InConversation
  <2>2. i # Loaded => transcript'[i] = transcript[i]
    OBVIOUS
  <2>3. i \in Int /\ (i # Loaded => (i < Written' <=> i < TurnsKept)) /\ Loaded < Written'
    BY <1>1, <1>2, SlotsAre
  <2>4. QED
    BY <1>3, <1>4, <2>1, <2>2, <2>3
<1>6. QED
  BY <1>5 DEF InConversation, Speaker

LEMMA AnswerKept ==
  ASSUME TalkTyped, InConversation, UserPut, ~UserPut', NEW c \in Calls,
         transcript' = [transcript EXCEPT ![Loaded + 1] = [role |-> "assistant", by |-> c]],
         answered' = Append(answered, c)
  PROVE  InConversation'
<1>1. /\ TurnsKept \in 0 .. Both + 2 /\ Loaded \in 0 .. Both /\ Loaded % 2 = 0
      /\ TurnsKept = Loaded \/ TurnsKept = Loaded + 2
  BY KeptNumbers
<1>2. /\ Len(answered) \in Nat /\ Len(answered') = Len(answered) + 1
      /\ answered'[Len(answered')] = c
  BY DEF TalkTyped
<1>3. Loaded = (IF TurnsKept > Both THEN Both ELSE TurnsKept) /\ Both' = Both
  BY DEF Loaded, Both
<1>4. TurnsKept' = Loaded + 2
  <2>1. TurnsKept' = IF 2 * Len(answered) + 2 > Both + 2 THEN Both + 2 ELSE 2 * Len(answered) + 2
    BY <1>2, <1>3, SlotsAre DEF TurnsKept
  <2>2. TurnsKept = IF 2 * Len(answered) > Both + 2 THEN Both + 2 ELSE 2 * Len(answered)
    BY DEF TurnsKept
  <2>3. QED
    BY <1>1, <1>2, <1>3, <2>1, <2>2, SlotsAre
<1>5. Written' = Loaded + 2 /\ Written = IF Loaded + 1 > TurnsKept THEN Loaded + 1 ELSE TurnsKept
  BY <1>4 DEF Written
<1>6. Speaker(Loaded + 1) = "assistant" /\ [role |-> "assistant", by |-> c] # None
  <2>1. \A n \in Nat : n % 2 = 0 => (n + 1) % 2 = 1
    OBVIOUS
  <2>2. (Loaded + 1) % 2 = 1
    BY <1>1, <2>1
  <2>3. QED
    BY <2>2, AgentAssumption DEF Speaker, ChatTurn
<1>7. transcript'[Loaded + 1] = [role |-> "assistant", by |-> c]
  BY <1>1, SlotsAre DEF TalkTyped
<1>8. ASSUME NEW i \in Slots
      PROVE  IF i < Written' THEN transcript'[i] # None /\ transcript'[i].role = Speaker(i)
                             ELSE transcript'[i] = None
  <2>1. IF i < Written THEN transcript[i] # None /\ transcript[i].role = Speaker(i) ELSE transcript[i] = None
    BY DEF InConversation
  <2>2. i # Loaded + 1 => transcript'[i] = transcript[i]
    OBVIOUS
  <2>3. i \in Int /\ (i # Loaded + 1 => (i < Written' <=> i < Written)) /\ Loaded + 1 < Written'
    BY <1>1, <1>5, SlotsAre
  <2>4. transcript'[Loaded + 1] # None /\ transcript'[Loaded + 1].role = Speaker(Loaded + 1)
    BY <1>6, <1>7
  <2>5. QED
    BY <2>1, <2>2, <2>3, <2>4
<1>9. transcript'[TurnsKept' - 1].by = answered'[Len(answered')]
  <2>1. TurnsKept' - 1 = Loaded + 1
    BY <1>1, <1>4
  <2>2. QED
    BY <1>2, <1>7, <2>1
<1>10. QED
  BY <1>8, <1>9 DEF InConversation, Speaker

LEMMA TalkKept ==
  ASSUME TalkTyped, TalkTyped', Shape, TalkInv, NEW c \in Calls,
         BeginChat(c) \/ ServeChat(c) \/ ChatDies(c)
  PROVE  TalkInv'
<1>1. Alone(c) /\ regime' = regime /\ DOMAIN chats' = Calls
  BY EveryStepIsClassified DEF Classified, Shape, ChatsShaped
<1> SUFFICES ASSUME ~regime.overlap, ~regime.failures
             PROVE  OneExchange' /\ InConversation' /\ \A d \in Calls : HasHistory(d)'
  BY <1>1 DEF TalkInv
<1>2. OneExchange /\ InConversation /\ HasHistory(c) /\ TalkStep(c)
  BY EveryStepTalks DEF TalkInv
<1>3. ASSUME NEW d \in Calls \ {c} PROVE ~Active(chats, d) /\ chats'[d] = chats[d]
  <2>1. Active(chats, c) \/ MayBegin(chats, c)
    BY <1>2 DEF TalkStep, Talking, Active, Resting
  <2>2. QED
    BY <1>1, <1>2, <2>1 DEF OneExchange, Alone, MayBegin
<1>4. OneExchange'
  BY <1>3 DEF OneExchange, Active
<1>5. \A d \in Calls \ {c} : HasHistory(d)'
  BY <1>3 DEF HasHistory, Active, Resting
<1>6. /\ UserPut <=> chats[c].at = "assistant_turn"
      /\ UserPut' <=> chats'[c].at = "assistant_turn"
  BY <1>3 DEF UserPut, Active, Resting
<1>7. CASE /\ UNCHANGED <<transcript, answered>>
           /\ chats[c].at # "assistant_turn" /\ chats'[c].at # "assistant_turn"
  <2>1. ~UserPut /\ ~UserPut'
    BY <1>6, <1>7
  <2>2. InConversation'
    BY <1>2, <1>7, <2>1 DEF InConversation, Written, TurnsKept, Loaded, Both, Speaker
  <2>3. LoadedHistory' = LoadedHistory /\ Loaded' = Loaded
    BY <1>7 DEF LoadedHistory, Stored, Filled, Before, Loaded, TurnsKept, Both
  <2>4. Len(LoadedHistory) = Loaded
    BY <1>2, <2>1, HistoryIs
  <2>5. HasHistory(c)'
    BY <1>2, <1>6, <2>1, <2>3, <2>4 DEF TalkStep, Talking, HasHistory
  <2>6. QED
    BY <1>4, <1>5, <2>2, <2>5
<1>8. CASE chats[c].at = "user_turn" /\ chats'[c].at = "assistant_turn"
  <2>1. /\ chats'[c].at = "assistant_turn" /\ chats'[c].saw = chats[c].saw /\ UNCHANGED answered
        /\ transcript' = [transcript EXCEPT ![Len(chats[c].saw)] = [role |-> "user", by |-> c]]
    BY <1>2, <1>8 DEF TalkStep, Talking, MayBegin
  <2>2. Len(chats[c].saw) = Loaded /\ Loaded' = Loaded
    BY <1>2, <1>8, <2>1 DEF HasHistory, Loaded, TurnsKept, Both
  <2>3. InConversation'
    BY <1>2, <1>6, <1>8, <2>1, <2>2, UserTurnKept
  <2>4. HasHistory(c)'
    BY <2>1, <2>2 DEF HasHistory
  <2>5. QED
    BY <1>4, <1>5, <2>3, <2>4
<1>9. CASE chats[c].at = "assistant_turn"
  <2>1. /\ chats'[c].at = "end" /\ answered' = Append(answered, c)
        /\ transcript' = [transcript EXCEPT ![Len(chats[c].saw) + 1] = [role |-> "assistant", by |-> c]]
    BY <1>2, <1>9 DEF TalkStep, MayBegin, Talking
  <2>2. Len(chats[c].saw) = Loaded
    BY <1>2, <1>9 DEF HasHistory
  <2>3. InConversation'
    BY <1>2, <1>6, <1>9, <2>1, <2>2, AnswerKept
  <2>4. HasHistory(c)'
    BY <2>1 DEF HasHistory
  <2>5. QED
    BY <1>4, <1>5, <2>3, <2>4
<1>10. QED
  BY <1>2, <1>7, <1>8, <1>9 DEF TalkStep, Talking, MayBegin

LEMMA InitTalk == AgentInit => TalkInv
<1> SUFFICES ASSUME AgentInit PROVE OneExchange /\ InConversation /\ \A c \in Calls : HasHistory(c)
  BY DEF TalkInv
<1>1. \A c \in Calls : chats[c].at = "idle"
  BY DEF AgentInit, AllIdle, Invocation
<1>2. answered = <<>> /\ \A i \in Slots : transcript[i] = None
  BY DEF AgentInit
<1>3. ~UserPut /\ TurnsKept = 0
  BY <1>1, <1>2, SlotsAre DEF UserPut, TurnsKept
<1>4. InConversation
  BY <1>2, <1>3, SlotsAre DEF InConversation, Written
<1>5. QED
  BY <1>1, <1>4 DEF OneExchange, Active, Resting, HasHistory

LEMMA TalkIsInvariant == AgentSpec => [](TalkTyped /\ TalkInv)
<1>1. Shape /\ TalkTyped /\ TalkTyped' /\ TalkInv /\ [AgentNext]_agentVars => TalkInv'
  <2> SUFFICES ASSUME Shape, TalkTyped, TalkTyped', TalkInv, [AgentNext]_agentVars PROVE TalkInv'
    OBVIOUS
  <2>1. CASE UNCHANGED agentVars
    <3>1. UNCHANGED <<transcript, answered, chats, regime>>
      BY <2>1 DEF agentVars
    <3>2. LoadedHistory' = LoadedHistory /\ Loaded' = Loaded
      BY <3>1 DEF LoadedHistory, Stored, Filled, Before, Loaded, TurnsKept, Both
    <3>3. InConversation' <=> InConversation
      BY <3>1 DEF InConversation, UserPut, Written, TurnsKept, Loaded, Both, Speaker
    <3>4. \A c \in Calls : HasHistory(c)' <=> HasHistory(c)
      BY <3>1, <3>2 DEF HasHistory
    <3>5. QED
      BY <3>1, <3>3, <3>4 DEF TalkInv, OneExchange, Active
  <2>2. QED
    BY <2>1, TalkKept DEF AgentNext
<1>2. Accounted => Shape
  BY DEF Accounted
<1>3. QED
  BY <1>1, <1>2, InitTalk, InitTalkTyped, TalkStaysTyped, AccountedInvariant, AgentSafety, PTL

(* The last turns of a history: how many they are, and which.               *)
LEMMA LastTurns ==
  ASSUME NEW h \in Seq(ChatTurn), NEW l,
         l = IF Len(h) > MaxHistoryTurns THEN MaxHistoryTurns ELSE Len(h)
  PROVE  /\ MaxHistoryTurns \in Nat /\ MaxHistoryTurns >= 2
         /\ Len(h) \in Nat /\ l \in Nat /\ Len(h) - l \in Nat
         /\ LastOf(h, MaxHistoryTurns) \in Seq(ChatTurn)
         /\ Len(LastOf(h, MaxHistoryTurns)) = l
         /\ \A i \in 1 .. l : LastOf(h, MaxHistoryTurns)[i] = h[i + (Len(h) - l)]
<1>1. MaxHistoryTurns \in Nat \ {0} /\ MaxHistoryTurns >= 2
  <2>1. MaxHistoryTurns \in Nat \ {0, 1}
    BY AgentAssumption
  <2>2. QED
    BY <2>1
<1>2. Len(h) \in Nat
  OBVIOUS
<1>3. l \in Nat /\ Len(h) - l \in Nat
  BY <1>1, <1>2
<1>4. /\ LastOf(h, MaxHistoryTurns) \in Seq(ChatTurn)
      /\ Len(LastOf(h, MaxHistoryTurns)) = l
      /\ \A i \in 1 .. l : LastOf(h, MaxHistoryTurns)[i] = h[i + (Len(h) - l)]
  <2> DEFINE n == MaxHistoryTurns
  <2>1. n \in Nat \ {0} /\ l = IF Len(h) > n THEN n ELSE Len(h)
    BY <1>1
  <2> HIDE DEF n
  <2>2. /\ LastOf(h, n) \in Seq(ChatTurn) /\ Len(LastOf(h, n)) = l
        /\ \A i \in 1 .. l : LastOf(h, n)[i] = h[i + (Len(h) - l)]
    BY <1>3, <2>1, LastOfIs, ZenonT(60)
  <2>3. QED
    BY <2>2 DEF n
<1>5. QED
  BY <1>1, <1>2, <1>3, <1>4

(* What the model is shown of a conversation that alternates and ends with  *)
(* an assistant's turn: all of it, the last turns, or those but the first.  *)
LEMMA ShownAlternates ==
  ASSUME NEW h \in Seq(ChatTurn), Len(h) % 2 = 0,
         \A i \in 1 .. Len(h) : h[i].role = IF i % 2 = 1 THEN "user" ELSE "assistant"
  PROVE  /\ \A i \in DOMAIN Shown(h) : Shown(h)[i].role = IF i % 2 = 1 THEN "user" ELSE "assistant"
         /\ Len(h) > 0 => Shown(h) # <<>> /\ Shown(h)[Len(Shown(h))] = h[Len(h)]
<1> DEFINE r == LastOf(h, MaxHistoryTurns)
           l == IF Len(h) > MaxHistoryTurns THEN MaxHistoryTurns ELSE Len(h)
           starts == {i \in DOMAIN r : r[i].role = "user"}
           first == CHOOSE i \in starts : \A j \in starts : i <= j
           off == Len(h) - l
<1>1. MaxHistoryTurns \in Nat /\ MaxHistoryTurns >= 2 /\ Len(h) \in Nat /\ l \in Nat /\ off \in Nat
  BY LastTurns
<1>2. /\ r \in Seq(ChatTurn) /\ Len(r) = l
      /\ \A i \in 1 .. l : r[i] = h[i + off]
  BY LastTurns
<1>3. Shown(h) = IF starts = {} THEN <<>> ELSE SubSeq(r, first, Len(r))
  BY DEF Shown
<1>4. Len(h) = l + off /\ (Len(h) > 0 => l >= 2)
  <2>1. Len(h) # 1
    OBVIOUS
  <2>2. QED
    BY <1>1, <2>1
<1> HIDE DEF r, l, off
<1>5. \A i \in 1 .. l : r[i].role = IF (i + off) % 2 = 1 THEN "user" ELSE "assistant"
  <2> SUFFICES ASSUME NEW i \in 1 .. l
               PROVE  r[i].role = IF (i + off) % 2 = 1 THEN "user" ELSE "assistant"
    OBVIOUS
  <2> DEFINE k == i + off
  <2>1. k \in 1 .. Len(h) /\ r[i] = h[k]
    BY <1>1, <1>2, <1>4
  <2>2. k = i + off
    OBVIOUS
  <2> HIDE DEF k
  <2>3. QED
    BY <2>1, <2>2
<1>6. CASE l = 0
  <2>1. starts = {}
    BY <1>2, <1>6
  <2>2. QED
    BY <1>1, <1>3, <1>4, <1>6, <2>1
<1>7. CASE l > 0
  <2>1. l >= 2
    BY <1>1, <1>4, <1>7
  <2> DEFINE f == IF off % 2 = 0 THEN 1 ELSE 2
  <2>2. f \in 1 .. l /\ (f + off) % 2 = 1 /\ f \in {1, 2} /\ (f = 2 => (1 + off) % 2 = 0)
    BY <1>1, <2>1
  <2> HIDE DEF f
  <2>3. f \in starts /\ \A j \in starts : f <= j
    <3>1. DOMAIN r = 1 .. l
      BY <1>2
    <3>2. f \in starts
      BY <1>5, <2>2, <3>1
    <3>3. ASSUME NEW j \in starts PROVE f <= j
      <4>1. j \in 1 .. l /\ (f = 2 => j # 1)
        BY <1>1, <1>5, <2>2, <3>1, <3>3
      <4>2. QED
        BY <2>2, <4>1
    <3>4. QED
      BY <3>2, <3>3
  <2>4. first = f
    <3>1. starts \subseteq Int
      BY <1>2
    <3>2. \A i \in starts : (\A j \in starts : i <= j) => i = f
      BY <2>2, <2>3, <3>1
    <3>3. QED
      BY <2>3, <3>2
  <2>5. Shown(h) = SubSeq(r, f, l)
    BY <1>2, <1>3, <2>3, <2>4
  <2>6. /\ Len(SubSeq(r, f, l)) = l - f + 1
        /\ \A i \in 1 .. l - f + 1 : SubSeq(r, f, l)[i] = r[f + i - 1]
        /\ SubSeq(r, f, l) \in Seq(ChatTurn)
    <3>1. f \in Int /\ l \in Int /\ f <= l
      BY <1>1, <2>2
    <3>2. \A i \in f .. l : r[i] \in ChatTurn
      BY <1>2, <2>2, <3>1
    <3>3. QED
      BY <3>1, <3>2, SubSeqProperties
  <2>7. ASSUME NEW i \in DOMAIN Shown(h)
        PROVE  Shown(h)[i].role = IF i % 2 = 1 THEN "user" ELSE "assistant"
    <3>1. i \in 1 .. l - f + 1
      BY <1>1, <2>2, <2>5, <2>6
    <3>2. f + i - 1 \in 1 .. l /\ f + i - 1 + off = (f + off) + i - 1
      BY <1>1, <2>2, <3>1
    <3>3. \A a, b \in Nat : a % 2 = 1 => ((a + b - 1) % 2 = 1 <=> b % 2 = 1)
      OBVIOUS
    <3>4. (f + i - 1 + off) % 2 = 1 <=> i % 2 = 1
      BY <1>1, <2>2, <3>1, <3>2, <3>3
    <3>5. QED
      BY <1>5, <2>5, <2>6, <3>1, <3>2, <3>4
  <2>8. Shown(h) # <<>> /\ Shown(h)[Len(Shown(h))] = r[l]
    <3> DEFINE n == l - f + 1
    <3>1. n \in 1 .. n /\ f + n - 1 = l /\ n >= 1
      BY <1>1, <2>2
    <3>2. Len(Shown(h)) = n /\ Shown(h)[n] = r[f + n - 1]
      BY <2>5, <2>6, <3>1
    <3> HIDE DEF n
    <3>3. Shown(h) # <<>>
      BY <3>1, <3>2
    <3>4. QED
      BY <3>1, <3>2, <3>3
  <2>9. r[l] = h[Len(h)]
    BY <1>1, <1>2, <1>4, <1>7
  <2>10. QED
    BY <2>7, <2>8, <2>9
<1>8. QED
  BY <1>1, <1>6, <1>7

(* "So a follow-up question makes sense" (_history_messages): however long  *)
(* the session, exchanges in turn show the model a conversation that begins *)
(* with the user, alternates and ends with the latest answer.               *)
THEOREM FollowUpsStayMeaningful == AgentSpec => []FollowUpsMakeSense
<1>1. ASSUME TalkTyped, TalkInv PROVE FollowUpsMakeSense
  <2> SUFFICES ASSUME NEW c \in Calls, chats[c].at = "model", ~regime.overlap, ~regime.failures
               PROVE  LET s == Shown(chats[c].saw) IN
                      /\ \A i \in DOMAIN s : s[i].role = IF i % 2 = 1 THEN "user" ELSE "assistant"
                      /\ answered # <<>> =>
                           s # <<>> /\ s[Len(s)] = [role |-> "assistant", by |-> answered[Len(answered)]]
    BY DEF FollowUpsMakeSense
  <2> DEFINE h == LoadedHistory
  <2>1. chats[c].saw = h /\ InConversation /\ ~UserPut
    <3>1. OneExchange /\ InConversation /\ HasHistory(c)
      BY <1>1 DEF TalkInv
    <3>2. ~UserPut
      BY <3>1 DEF UserPut, OneExchange, Active, Resting
    <3>3. QED
      BY <3>1, <3>2 DEF HasHistory
  <2>2. /\ h \in Seq(ChatTurn) /\ Len(h) = Loaded
        /\ \A i \in 1 .. Loaded : h[i] = transcript[i + (TurnsKept - Loaded) - 1]
    BY <1>1, <2>1, HistoryIs
  <2>3. /\ TurnsKept \in 0 .. Both + 2 /\ Loaded \in 0 .. Both /\ Loaded % 2 = 0 /\ TurnsKept % 2 = 0
        /\ TurnsKept = Loaded \/ TurnsKept = Loaded + 2
        /\ Len(answered) > 0 => Loaded >= 2
    BY <1>1, KeptNumbers
  <2>4. \A k \in 0 .. TurnsKept - 1 : transcript[k] \in ChatTurn /\ transcript[k].role = Speaker(k)
    <3>1. Written = TurnsKept
      BY <2>1 DEF Written
    <3>2. \A k \in 0 .. TurnsKept - 1 : k \in Slots /\ k < TurnsKept
      BY <2>3, SlotsAre
    <3>3. QED
      BY <1>1, <2>1, <3>1, <3>2 DEF InConversation, TalkTyped
  <2> HIDE DEF h
  <2>5. ASSUME NEW i \in 1 .. Loaded
        PROVE  h[i].role = IF i % 2 = 1 THEN "user" ELSE "assistant"
    <3> DEFINE k == i + (TurnsKept - Loaded) - 1
    <3>1. k \in 0 .. TurnsKept - 1 /\ h[i] = transcript[k] /\ (k = i - 1 \/ k = i + 1)
      BY <2>2, <2>3
    <3>2. k % 2 = 0 <=> i % 2 = 1
      <4>1. \A n \in Int : ((n - 1) % 2 = 0 <=> n % 2 = 1) /\ ((n + 1) % 2 = 0 <=> n % 2 = 1)
        OBVIOUS
      <4> HIDE DEF k
      <4>2. QED
        BY <3>1, <4>1
    <3> HIDE DEF k
    <3>3. QED
      BY <2>4, <3>1, <3>2 DEF Speaker
  <2>6. /\ \A i \in DOMAIN Shown(h) : Shown(h)[i].role = IF i % 2 = 1 THEN "user" ELSE "assistant"
        /\ Len(h) > 0 => Shown(h) # <<>> /\ Shown(h)[Len(Shown(h))] = h[Len(h)]
    <3>1. Len(h) % 2 = 0 /\ \A i \in 1 .. Len(h) : h[i].role = IF i % 2 = 1 THEN "user" ELSE "assistant"
      BY <2>2, <2>3, <2>5
    <3>2. QED
      BY <2>2, <3>1, ShownAlternates
  <2>7. ASSUME answered # <<>>
        PROVE  Len(h) > 0 /\ h[Len(h)] = [role |-> "assistant", by |-> answered[Len(answered)]]
    <3>1. Len(answered) > 0
      BY <1>1, <2>7 DEF TalkTyped
    <3>2. Loaded \in 1 .. Loaded /\ Loaded + (TurnsKept - Loaded) - 1 = TurnsKept - 1 /\ Loaded >= 2
      BY <2>3, <3>1
    <3>3. Len(h) = Loaded /\ h[Loaded] = transcript[TurnsKept - 1]
      BY <2>2, <3>2
    <3>4. TurnsKept - 1 \in 0 .. TurnsKept - 1
      BY <2>3, <3>2
    <3>5. transcript[TurnsKept - 1].by = answered[Len(answered)]
      BY <2>1, <3>1 DEF InConversation
    <3>6. h[Loaded].role = "assistant"
      BY <2>3, <2>5, <3>2
    <3>7. h[Loaded] \in ChatTurn
      BY <2>4, <3>3, <3>4
    <3>8. QED
      BY <3>2, <3>3, <3>5, <3>6, <3>7 DEF ChatTurn
  <2>8. QED
    BY <2>1, <2>6, <2>7
<1>2. QED
  BY <1>1, TalkIsInvariant, PTL

---------------------------------------------------------------------------
(* Types.  An exchange that asks the model has passes of its loop left.     *)
LoopBounded(c) ==
  /\ loop[c].turn \in 0 .. MaxToolTurns
  /\ chats[c].at \in {"idle", "read"} => loop[c].turn = 0
  /\ chats[c].at = "model" => loop[c].turn < MaxToolTurns

LoopsBounded == \A c \in Calls : LoopBounded(c)

LEMMA AfterCallBounded ==
  ASSUME Shape, NEW c \in Calls, LoopBounded(c), chats'[c].at \in {AfterCall(c), "audit"},
         loop'[c].turn = loop[c].turn
  PROVE  LoopBounded(c)'
BY AgentAssumption DEF LoopBounded, AfterCall

LEMMA LoopKeepsBound ==
  ASSUME Shape, NEW c \in Calls, LoopBounded(c), BeginChat(c) \/ ServeChat(c) \/ ChatDies(c)
  PROVE  LoopBounded(c)'
<1>1. CASE BeginChat(c) \/ RefuseChat(c) \/ ModelUnavailable(c) \/ BuilderFails(c) \/ ChatDies(c)
           \/ PersistAssistantTurn(c)
  <2>1. CASE BeginChat(c)
    <3>1. loop' = loop /\ chats[c].at = "idle" /\ ChatMoved(c, "read")
      BY <2>1, Becoming DEF BeginChat, Begun, MayBegin
    <3>2. QED
      BY <3>1 DEF LoopBounded, ChatMoved
  <2>2. CASE RefuseChat(c) \/ ModelUnavailable(c) \/ BuilderFails(c) \/ ChatDies(c)
    <3>1. loop' = loop /\ ChatMoved(c, "died")
      BY <2>2, Becoming DEF RefuseChat, ModelUnavailable, BuilderFails, ChatDies, Dead
    <3>2. QED
      BY <3>1 DEF LoopBounded, ChatMoved
  <2>3. CASE PersistAssistantTurn(c)
    <3>1. loop' = loop /\ ChatMoved(c, "end")
      BY <2>3, Becoming DEF PersistAssistantTurn, Done
    <3>2. QED
      BY <3>1 DEF LoopBounded, ChatMoved
  <2>4. QED
    BY <1>1, <2>1, <2>2, <2>3
<1>2. CASE LoadHistory(c)
  <2>1. chats'[c].at = "model"
    BY <1>2, GoingOnWith DEF LoadHistory, ChatMoved
  <2>2. QED
    BY <1>2, <2>1, AgentAssumption DEF LoadHistory, LoopBounded
<1>3. CASE ModelAnswers(c)
  <2>1. CASE chats' = GoneTo(chats, c, "user_turn") /\ UNCHANGED loop
    BY <2>1, GoingOnSees DEF LoopBounded
  <2>2. ASSUME NEW answer, chats' = GoneTo(chats, c, "tool"),
               loop' = [loop EXCEPT ![c].turn = NextTurn(c), ![c].calls = answer]
        PROVE  LoopBounded(c)'
    <3>1. loop'[c].turn = loop[c].turn + 1
      BY <2>2 DEF Shape, LoopsShaped, LoopFields, NextTurn
    <3>2. chats[c].at = "model" /\ chats'[c].at = "tool"
      BY <1>3, <2>2, GoingOnSees DEF ModelAnswers
    <3>3. QED
      BY <3>1, <3>2, AgentAssumption DEF LoopBounded
  <2>3. QED
    BY <1>3, <2>1, <2>2 DEF ModelAnswers
<1>4. CASE ReturnError(c) \/ ApprovalNotRaised(c) \/ ToolFails(c) \/ RefuseCall(c) \/ RaiseApproval(c)
           \/ RunTool(c) \/ AuditCall(c)
  <2>1. loop'[c].turn = loop[c].turn
    <3>1. Returned(c).turn = loop[c].turn
      BY DEF Returned, Shape, LoopsShaped, LoopFields
    <3>2. [Returned(c) EXCEPT !.reported = Reported(c)].turn = loop[c].turn
      BY DEF Returned, Shape, LoopsShaped, LoopFields
    <3>3. \/ loop' = loop \/ loop' = [loop EXCEPT ![c] = Returned(c)]
          \/ loop' = [loop EXCEPT ![c] = [Returned(c) EXCEPT !.reported = Reported(c)]]
      BY <1>4 DEF ReturnError, ApprovalNotRaised, ToolFails, RefuseCall, RaiseApproval, RunTool, AuditCall,
         ReturnFromCall
    <3>4. QED
      BY <3>1, <3>2, <3>3 DEF Shape, LoopsShaped
  <2>2. chats' = GoneTo(chats, c, AfterCall(c)) \/ chats' = GoneTo(chats, c, "audit")
    BY <1>4 DEF ReturnError, ApprovalNotRaised, ToolFails, RefuseCall, RaiseApproval, RunTool, AuditCall,
       ReturnFromCall
  <2>3. QED
    BY <2>1, <2>2, GoingOnSees, AfterCallBounded
<1>5. CASE PersistUserTurn(c)
  BY <1>5, GoingOnSees DEF PersistUserTurn, LoopBounded
<1>6. QED
  BY <1>1, <1>2, <1>3, <1>4, <1>5 DEF ServeChat

LEMMA LoopsStayBounded == AgentSpec => []LoopsBounded
<1>1. AgentInit => LoopsBounded
  BY AgentAssumption DEF AgentInit, LoopsBounded, LoopBounded, IdleLoop, AllIdle, Invocation
<1>2. Accounted /\ LoopsBounded /\ [AgentNext]_agentVars => LoopsBounded'
  <2> SUFFICES ASSUME Shape, LoopsBounded, [AgentNext]_agentVars PROVE LoopsBounded'
    BY DEF Accounted
  <2>1. CASE UNCHANGED agentVars
    BY <2>1 DEF agentVars, LoopsBounded, LoopBounded
  <2>2. ASSUME NEW c \in Calls, BeginChat(c) \/ ServeChat(c) \/ ChatDies(c) PROVE LoopsBounded'
    <3>1. LoopBounded(c)'
      BY <2>2, LoopKeepsBound DEF LoopsBounded
    <3>2. \A d \in Calls \ {c} : LoopBounded(d)'
      BY <2>2, EveryStepIsClassified DEF Classified, Alone, LoopsBounded, LoopBounded
    <3>3. QED
      BY <3>1, <3>2 DEF LoopsBounded
  <2>3. QED
    BY <2>1, <2>2 DEF AgentNext
<1>3. QED
  BY <1>1, <1>2, AccountedInvariant, AgentSafety, PTL

CallsNamed == \A e \in gated \cup effects \cup refusals \cup trail : e.by \in Calls

LEMMA CallsStayNamed == CallsNamed /\ [AgentNext]_agentVars => CallsNamed'
<1> SUFFICES ASSUME CallsNamed, [AgentNext]_agentVars PROVE CallsNamed'
  OBVIOUS
<1>1. ASSUME NEW c \in Calls,
             (gated \cup effects \cup refusals \cup trail)'
               \subseteq gated \cup effects \cup refusals \cup trail \cup {CallId(c)}
      PROVE  CallsNamed'
  BY <1>1, CallsAreTheCallers DEF CallsNamed
<1>2. CASE UNCHANGED records
  BY <1>2 DEF records, CallsNamed
<1>3. ASSUME NEW c \in Calls, RefuseCall(c) \/ RaiseApproval(c) PROVE CallsNamed'
  BY <1>1, <1>3 DEF RefuseCall, RaiseApproval
<1>4. ASSUME NEW c \in Calls, RunTool(c) \/ AuditCall(c) PROVE CallsNamed'
  BY <1>1, <1>4 DEF RunTool, AuditCall, AuditedCall
<1>5. ASSUME NEW c \in Calls, BeginChat(c) \/ ServeChat(c) \/ ChatDies(c),
             ~RefuseCall(c), ~RaiseApproval(c), ~RunTool(c), ~AuditCall(c)
      PROVE  UNCHANGED records
  BY <1>5 DEF BeginChat, ServeChat, ChatDies, RefuseChat, LoadHistory, ModelAnswers, ModelUnavailable,
     ReturnError, ApprovalNotRaised, BuilderFails, ToolFails, PersistUserTurn, PersistAssistantTurn
<1>6. CASE UNCHANGED agentVars
  BY <1>2, <1>6 DEF agentVars, records
<1>7. QED
  BY <1>2, <1>3, <1>4, <1>5, <1>6 DEF AgentNext

(* The agent's records keep their types, and the loop of an exchange its    *)
(* ceiling (run_turn), whatever the model answers.                          *)
THEOREM AgentTypeCorrect == AgentSpec => []AgentTypeOK
<1>1. AgentInit => CallsNamed
  BY DEF AgentInit, CallsNamed
<1>2. Accounted /\ LoopsBounded /\ CallsNamed /\ TalkTyped => AgentTypeOK
  BY DEF Accounted, Shape, ChatsShaped, LoopsBounded, LoopBounded, CallsNamed, TalkTyped, AgentTypeOK
<1>3. QED
  BY <1>1, <1>2, CallsStayNamed, LoopsStayBounded, AccountedInvariant, InitTalkTyped, TalkStaysTyped,
     AgentSafety, PTL

---------------------------------------------------------------------------
(***************************************************************************)
(* The parts beside each other.                                            *)
(***************************************************************************)

LEMMA ResponseStep ==
  ASSUME [MCNext]_<<incidentVars, speakerVars, agentVars>>
  PROVE  [IncidentNext]_incidentVars /\ [SpeakersNext]_speakerVars /\ [AgentNext]_agentVars
<1>1. /\ IncidentNext \/ UNCHANGED incidentVars
      /\ SpeakersNext \/ UNCHANGED speakerVars
      /\ AgentNext \/ UNCHANGED agentVars
  BY DEF MCNext
<1>2. QED
  BY <1>1

(* Beside the others the incident, the speaker and the agent take their own *)
(* steps and no more, and are scheduled as they are alone: whatever holds   *)
(* of one of them by itself holds of it there.                              *)
THEOREM ResponsesKeepTheirSteps == MCSpec => IncidentSpec /\ SpeakersSpec /\ AgentSpec
<1>1. MCInit => IncidentInit /\ SpeakersInit /\ AgentInit
  BY DEF MCInit
<1>2. QED
  BY <1>1, ResponseStep, PTL DEF MCSpec, IncidentSpec, SpeakersSpec, AgentSpec

(* The incident, the speaker and the chat keep their types, whatever their  *)
(* requests and workflows write; the workflows' retry counters and the      *)
(* agent's loop keep their bounds.                                          *)
THEOREM ResponseKeepsTypes == MCSpec => []ResponseTypeOK
<1>1. IncidentTypeOK /\ SpeakersTypeOK /\ AgentTypeOK => ResponseTypeOK
  BY DEF ResponseTypeOK
<1>2. QED
  BY <1>1, ResponsesKeepTheirSteps, IncidentTypeCorrect, SpeakerTypeCorrect, AgentTypeCorrect, PTL
=============================================================================
