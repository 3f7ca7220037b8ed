------------------------------ MODULE Speakers ------------------------------
(***************************************************************************)
(* One speaker: services/api/speakers_handler and the executions of the    *)
(* follow-up workflow (workflows/speaker-followup over                     *)
(* services/workflows/speaker_followup), which write the same SPEAKER item.*)
(*                                                                         *)
(* The tools that would send a message or confirm the speaker are          *)
(* approval-gated: their handlers are called by nothing (see AgentGate).   *)
(* Nothing under src starts an execution or answers its task token either; *)
(* StartOutreach and AnswerOutreach stand for whoever does.                *)
(***************************************************************************)
EXTENDS Integers, Consents

CONSTANTS
  Executions,        \* executions of the workflow that may be started
  SpeakerRequests,   \* requests of update_speaker
  FollowupRetries    \* MaxAttempts of SendFollowup and of InviteSpeaker

SpeakerStatuses == {"IDENTIFIED", "INVITED", "AWAITING_RESPONSE", "FOLLOWUP_SENT", "CONFIRMED",
                    "DECLINED", "CANCELLED", "BACKUP"}

(* An update gives a status, or None, and may record that the speaker is    *)
(* available, which counts as a response.                                   *)
UpdateSpeaker(status, available) ==
  [kind |-> "update_speaker", status |-> status, available |-> available]
AnySpeakerRequest ==
  {UpdateSpeaker(s, available) : s \in SpeakerStatuses \cup {None}, available \in BOOLEAN}

SpeakerItem == [status : SpeakerStatuses, followups : Nat, responded : BOOLEAN]

MaxFollowups == 3
AutoFollowups == 2

(* Of a regime: executions, those that are started; answered, somebody      *)
(* answers their tokens.                                                    *)
ASSUME SpeakersAssumption ==
  /\ FollowupRetries \in Nat
  /\ SpeakerRequests \subseteq AnySpeakerRequest
  /\ None \notin SpeakerItem \cup SpeakerStatuses \cup {"APPROVED"}
  /\ \A r \in Regimes : r.part = "speakers" =>
       /\ {"executions", "answered", "deciders"} \subseteq DOMAIN r
       /\ r.executions \subseteq Executions /\ r.answered \in BOOLEAN

VARIABLES
  speaker,      \* the SPEAKER item, or None
  editing,      \* the invocations of update_speaker
  outreach,     \* where each execution stands, what it tried, checked and read
  permission,   \* the APPROVAL item each execution asked for in its present round
  sent,         \* history: follow-ups sent
  unapproved    \* history: follow-ups sent without an approval

speakerVars == <<speaker, editing, outreach, permission, sent, unapproved, regime>>
sending == <<sent, unapproved>>

SpeakersInit ==
  /\ speaker = None
  /\ editing = AllIdle
  /\ outreach = [x \in Executions |-> [at |-> "none", tries |-> 0, count |-> 0, read |-> 0]]
  /\ permission = [x \in Executions |-> NotAsked]
  /\ sent = 0 /\ unapproved = 0
  /\ regime \in Regimes

CreateSpeaker ==
  /\ speaker = None
  /\ speaker' = [status |-> "IDENTIFIED", followups |-> 0, responded |-> FALSE]
  /\ UNCHANGED <<editing, outreach, permission, sending, regime>>

---------------------------------------------------------------------------
(* update_speaker. *)

BeginEdit(c) ==
  /\ speaker # None /\ MayBegin(editing, c)
  /\ \E r \in SpeakerRequests : r.kind \in regime.kinds /\ editing' = Begun(editing, c, r)
  /\ UNCHANGED <<speaker, outreach, permission, sending, regime>>

(* Mutation of EditRefused: any status may be set. *)
EditRefusedNever(r, s) == FALSE

(* "Confirming a speaker is a public commitment": not by editing a field.   *)
EditRefused(r, s) == r.status = "CONFIRMED" /\ s.status # "CONFIRMED"

ReadSpeaker(c) ==
  /\ editing[c].at = "read"
  /\ editing' = IF EditRefused(editing[c].req, speaker) THEN Done(editing, c)
                ELSE GoneTo(editing, c, "write")
  /\ UNCHANGED <<speaker, outreach, permission, sending, regime>>

WriteSpeaker(c) ==
  LET r == editing[c].req IN
  /\ editing[c].at = "write"
  /\ speaker' = [speaker EXCEPT !.status = IF r.status = None THEN @ ELSE r.status,
                                !.responded = @ \/ r.available]
  /\ editing' = Done(editing, c)
  /\ UNCHANGED <<outreach, permission, sending, regime>>

EditDies(c) ==
  /\ regime.failures /\ Active(editing, c)
  /\ editing' = Dead(editing, c)
  /\ UNCHANGED <<speaker, outreach, permission, sending, regime>>

Edit(c) == ReadSpeaker(c) \/ WriteSpeaker(c)

---------------------------------------------------------------------------
(* The workflow.  "invited", "sending" and "sentback" are within a handler: *)
(* after its write, between its read and its write, after its write.        *)

OutreachEnd == {"confirmed", "escalated", "declined", "failed"}
Enter(x, at) == outreach' = [outreach EXCEPT ![x].at = at, ![x].tries = 0]
Within(x, at) == outreach' = [outreach EXCEPT ![x].at = at]

StartOutreach(x) ==
  /\ speaker # None /\ x \in regime.executions /\ outreach[x].at = "none"
  /\ Enter(x, "InviteSpeaker")
  /\ UNCHANGED <<speaker, editing, permission, sending, regime>>

SendInvite(x) ==
  /\ outreach[x].at = "InviteSpeaker"
  /\ speaker' = [speaker EXCEPT !.status = "INVITED"]
  /\ Within(x, "invited")
  /\ UNCHANGED <<editing, permission, sending, regime>>

InviteReturns(x) ==
  /\ outreach[x].at = "invited"
  /\ Enter(x, "WaitForResponse")
  /\ UNCHANGED <<speaker, editing, permission, sending, regime>>

WaitElapses(x) ==
  /\ outreach[x].at = "WaitForResponse"
  /\ Enter(x, "CheckResponse")
  /\ UNCHANGED <<speaker, editing, permission, sending, regime>>

(* _check_response and the choice after it. *)
CheckResponse(x) ==
  /\ outreach[x].at = "CheckResponse"
  /\ outreach' = [outreach EXCEPT
       ![x].at = IF speaker.responded THEN "UpdateSpeakerState"
                 ELSE IF speaker.followups >= MaxFollowups THEN "EscalateSpeaker"
                 ELSE "CheckFollowupPolicy",
       ![x].tries = 0, ![x].count = speaker.followups]
  /\ permission' = [permission EXCEPT ![x] = NotAsked]
  /\ UNCHANGED <<speaker, editing, sending, regime>>

(* "First 2 follow-ups are auto-allowed." *)
RequiresApproval(count) == count >= AutoFollowups

CheckFollowupPolicy(x) ==
  /\ outreach[x].at = "CheckFollowupPolicy"
  /\ Enter(x, IF RequiresApproval(outreach[x].count) THEN "RequestApproval" ELSE "SendFollowup")
  /\ UNCHANGED <<speaker, editing, permission, sending, regime>>

RequestFollowupApproval(x) ==
  /\ outreach[x].at = "RequestApproval"
  /\ permission' = [permission EXCEPT ![x] = Asked]
  /\ Enter(x, "WaitForApproval")
  /\ UNCHANGED <<speaker, editing, sending, regime>>

(* Leaders decide through the approvals API, at any time and also at once.  *)
(* (Nobody reads what is decided on an earlier round's item.)               *)
FindPermission(x, d) ==
  /\ MayDecide(permission[x], d)
  /\ permission' = [permission EXCEPT ![x] = Deciding(@, d)]
  /\ UNCHANGED <<speaker, editing, outreach, sending, regime>>

DecidePermission(x, d) ==
  /\ d \in permission[x].deciding
  /\ \E decision \in Decisions : permission' = [permission EXCEPT ![x] = Decided(@, d, decision)]
  /\ UNCHANGED <<speaker, editing, outreach, sending, regime>>

(* The token is answered with the decision or with something else. *)
AnswerOutreach(x) ==
  /\ outreach[x].at = "WaitForApproval" /\ regime.answered
  /\ \E d \in AnswersTo(permission[x]) :
       Enter(x, IF d = "APPROVED" THEN "SendFollowup" ELSE "FollowupDeclined")
  /\ UNCHANGED <<speaker, editing, permission, sending, regime>>

(* After seven days: States.Timeout is caught. *)
PermissionTimeout(x) ==
  /\ outreach[x].at = "WaitForApproval"
  /\ Enter(x, "EscalateSpeaker")
  /\ UNCHANGED <<speaker, editing, permission, sending, regime>>

(* _send_followup reads the count, then sets the next one. *)
ReadFollowups(x) ==
  /\ outreach[x].at = "SendFollowup"
  /\ outreach' = [outreach EXCEPT ![x].at = "sending", ![x].read = speaker.followups]
  /\ UNCHANGED <<speaker, editing, permission, sending, regime>>

(* Mutation of NextFollowup: counted from what CheckResponse found. *)
NextFollowupFromCheck(x) == outreach[x].count + 1

NextFollowup(x) == outreach[x].read + 1

SendFollowup(x) ==
  /\ outreach[x].at = "sending"
  /\ speaker' = [speaker EXCEPT !.status = "FOLLOWUP_SENT", !.followups = NextFollowup(x)]
  /\ sent' = sent + 1
  /\ unapproved' = IF permission[x].approved THEN unapproved ELSE unapproved + 1
  /\ Within(x, "sentback")
  /\ UNCHANGED <<editing, permission, regime>>

FollowupReturns(x) ==
  /\ outreach[x].at = "sentback"
  /\ Enter(x, "WaitForResponse")
  /\ UNCHANGED <<speaker, editing, permission, sending, regime>>

(* The states that end the execution with one write.  Extracting the        *)
(* response only reads, so ExtractResponseData is part of the first.        *)
FinalWrite(x, at, end, written) ==
  /\ outreach[x].at = at
  /\ speaker' = written
  /\ Enter(x, end)
  /\ UNCHANGED <<editing, permission, sending, regime>>

UpdateSpeakerState(x) ==
  FinalWrite(x, "UpdateSpeakerState", "confirmed",
             [speaker EXCEPT !.status = "CONFIRMED", !.responded = TRUE])
EscalateSpeaker(x) ==
  FinalWrite(x, "EscalateSpeaker", "escalated", [speaker EXCEPT !.status = "AWAITING_RESPONSE"])
FollowupDeclined(x) == FinalWrite(x, "FollowupDeclined", "declined", speaker)

(* Inviting and sending are retried, from the start of the handler, on the  *)
(* Lambda service errors their Retry lists; every other error, caught or    *)
(* not, ends the execution as failed.                                       *)
AfterError(o, listed) ==
  IF ~listed THEN [o EXCEPT !.at = "failed"]
  ELSE IF o.at \in {"InviteSpeaker", "invited"} /\ o.tries < FollowupRetries
  THEN [o EXCEPT !.at = "InviteSpeaker", !.tries = @ + 1]
  ELSE IF o.at \in {"SendFollowup", "sending", "sentback"} /\ o.tries < FollowupRetries
  THEN [o EXCEPT !.at = "SendFollowup", !.tries = @ + 1]
  ELSE [o EXCEPT !.at = "failed"]

OutreachFails(x) ==
  /\ regime.failures
  /\ outreach[x].at \notin {"none", "WaitForResponse", "WaitForApproval"} \cup OutreachEnd
  /\ \E listed \in BOOLEAN : outreach' = [outreach EXCEPT ![x] = AfterError(@, listed)]
  /\ UNCHANGED <<speaker, editing, permission, sending, regime>>

RunOutreach(x) ==
  \/ SendInvite(x) \/ InviteReturns(x) \/ WaitElapses(x) \/ CheckResponse(x)
  \/ CheckFollowupPolicy(x) \/ RequestFollowupApproval(x) \/ AnswerOutreach(x)
  \/ PermissionTimeout(x) \/ ReadFollowups(x) \/ SendFollowup(x) \/ FollowupReturns(x)
  \/ UpdateSpeakerState(x) \/ EscalateSpeaker(x) \/ FollowupDeclined(x) \/ OutreachFails(x)

SpeakersNext ==
  \/ CreateSpeaker
  \/ \E c \in Calls : BeginEdit(c) \/ Edit(c) \/ EditDies(c)
  \/ \E x \in Executions : StartOutreach(x) \/ RunOutreach(x)
  \/ \E x \in Executions, d \in Deciders : FindPermission(x, d) \/ DecidePermission(x, d)

(* Step Functions runs every execution that was started, and its timers. *)
SpeakersFairness == \A x \in Executions : WF_speakerVars(RunOutreach(x))

SpeakersSpec == SpeakersInit /\ [][SpeakersNext]_speakerVars /\ SpeakersFairness

---------------------------------------------------------------------------
(* Every variable keeps its type. *)
SpeakersTypeOK ==
  /\ speaker \in SpeakerItem \cup {None}
  /\ DOMAIN editing = Calls
  /\ \A x \in Executions : outreach[x].tries \in 0 .. FollowupRetries
  /\ permission \in [Executions -> Consent]
  /\ sent \in Nat /\ unapproved \in 0 .. sent

OneExecution ==
  \A x, y \in Executions : outreach[x].at # "none" /\ outreach[y].at # "none" => x = y

(* followup_count counts what was sent, whatever fails and is retried: an   *)
(* execution on its own counts every follow-up; executions side by side     *)
(* read and set the same counter and may lose some, but invent none.        *)
FollowupsCounted ==
  speaker # None => /\ speaker.followups <= sent
                    /\ OneExecution => speaker.followups = sent

(* "First 2 follow-ups are auto-allowed": an execution on its own sends no  *)
(* third one by itself, but for the retries of a send that had gone out.    *)
AutomaticFollowupsBounded ==
  OneExecution => unapproved <= IF regime.failures THEN AutoFollowups + FollowupRetries
                                ELSE AutoFollowups

(* Follow-ups are counted, and few of them go out without a leader          *)
(* (followup_count is read and set by retried states).                      *)
FollowupsAreAccounted == FollowupsCounted /\ AutomaticFollowupsBounded

(* Confirming is behind a response on every path: the workflow confirms     *)
(* whoever responded, and update_speaker never confirms first.              *)
ConfirmedAfterResponse ==
  speaker # None /\ speaker.status = "CONFIRMED" => speaker.responded

(* Every execution that is started ends, though nobody answers it, and      *)
(* however sends fail: the follow-up limit breaks its loop.  (An execution  *)
(* is started once, so from some time on none is under way.)                *)
OutreachEnds == <>[](\A x \in Executions : outreach[x].at \in OutreachEnd \cup {"none"})
=============================================================================
