----------------------------- MODULE MCResponse -----------------------------
(***************************************************************************)
(* The incident, the speaker and the chat beside each other: the part of a *)
(* behaviour's regime says which of them is at work, the others rest.      *)
(***************************************************************************)
EXTENDS Incidents, Speakers, AgentGate

CONSTANTS c1, c2, c3, c4, x1, x2, look, draft, announce, spend, authorise

Regime(part, callers, kinds, overlap, failures) ==
  [part |-> part, callers |-> callers, kinds |-> kinds, overlap |-> overlap,
   failures |-> failures]
With(r, more) == [f \in DOMAIN r \cup DOMAIN more |-> IF f \in DOMAIN r THEN r[f] ELSE more[f]]

---------------------------------------------------------------------------
(* One incident: three requests at once, three in turn beside the           *)
(* simulation, and the workflow with a leader beside it.                    *)
IncidentWork ==
  {Update(FALSE, "ACKNOWLEDGED", None), Update(FALSE, "RESOLVED", None),
   Update(TRUE, "CLOSED", None), Update(TRUE, None, "CRITICAL"),
   Comment(TRUE), Comment(FALSE), Resolve(TRUE), Resolve(FALSE), Reopen(TRUE), Analyse}

ApiKinds == {"update", "comment", "resolve", "reopen"}
NoWorkflow == [severities |-> {"LOW"}, workflow |-> FALSE, answered |-> FALSE,
               deciders |-> {}]
Workflow == [severities |-> Severities, workflow |-> TRUE, answered |-> TRUE,
             deciders |-> {c1, c2}]

IncidentRegimes ==
  {With(Regime("incidents", {c1, c2, c3}, ApiKinds, TRUE, TRUE), NoWorkflow),
   With(Regime("incidents", {c1, c2, c3}, ApiKinds \cup {"analyse"}, FALSE, TRUE), NoWorkflow),
   With(Regime("incidents", {c1}, {"update", "resolve", "reopen"}, FALSE, TRUE), Workflow)}

---------------------------------------------------------------------------
(* One speaker: an execution beside two edits with failures, and two        *)
(* executions beside one edit without.                                      *)
SpeakerWork ==
  {UpdateSpeaker("DECLINED", FALSE), UpdateSpeaker("CONFIRMED", FALSE), UpdateSpeaker(None, TRUE)}

Edits == {"update_speaker"}
SpeakerRegimes ==
  {With(Regime("speakers", {c1, c2}, Edits, TRUE, TRUE),
        [executions |-> {x1}, answered |-> TRUE, deciders |-> {c1, c2}]),
   With(Regime("speakers", {c1}, Edits, TRUE, FALSE),
        [executions |-> {x1, x2}, answered |-> TRUE, deciders |-> {c1}])}

---------------------------------------------------------------------------
(* One session: four exchanges in turn and three at once without tools, and *)
(* one exchange for every caller with every tool.                           *)
Kit ==
  [t \in Tools |->
     CASE t = look      -> [tier |-> "LOW", roles |-> Roles, mutating |-> FALSE, reads |-> FALSE]
       [] t = draft     -> [tier |-> "LOW", roles |-> Roles, mutating |-> TRUE, reads |-> FALSE]
       [] t = announce  -> [tier |-> "MEDIUM", roles |-> Roles, mutating |-> TRUE, reads |-> FALSE]
       [] t = spend     -> [tier |-> "HIGH", roles |-> {"LEADER"}, mutating |-> TRUE, reads |-> TRUE]
       [] t = authorise -> [tier |-> "NEVER", roles |-> {"LEADER"}, mutating |-> FALSE,
                            reads |-> FALSE]]

OneCall ==
  {<<ToolCall(t, TRUE, "none", "none")>> : t \in Tools}
  \cup {<<ToolCall("nothing", TRUE, "none", "none")>>, <<ToolCall(draft, FALSE, "none", "none")>>,
        <<ToolCall(draft, TRUE, "other", "none")>>, <<ToolCall(draft, TRUE, "none", "own")>>,
        <<ToolCall(announce, TRUE, "own", "other")>>, <<ToolCall(draft, TRUE, "none", "other")>>}
SomeCalls ==
  OneCall \cup {None, <<>>, <<ToolCall(spend, TRUE, "own", "none"), ToolCall(spend, TRUE, "own", "own")>>,
                <<ToolCall(draft, TRUE, "none", "none"), ToolCall(spend, TRUE, "none", "none")>>}

LeaderChats == [chatters |-> {Chat("LEADER", TRUE, "own")}, answers |-> {None}]
AnyoneActs ==
  [chatters |-> {Chat("LEADER", TRUE, "own"), Chat("LEADER", TRUE, "none"),
                 Chat("TEAM_MEMBER", TRUE, "own"), Chat("TEAM_MEMBER", TRUE, "other"),
                 Chat("TEAM_MEMBER", FALSE, "none")},
   answers |-> SomeCalls]

AgentRegimes ==
  {With(Regime("agent", Calls, {"chat"}, FALSE, FALSE), LeaderChats),
   With(Regime("agent", {c1, c2, c3}, {"chat"}, TRUE, TRUE), LeaderChats),
   With(Regime("agent", {c1}, {"chat"}, FALSE, FALSE), AnyoneActs),
   With(Regime("agent", {c1}, {"chat"}, FALSE, TRUE), AnyoneActs)}

AllRegimes == IncidentRegimes \cup SpeakerRegimes \cup AgentRegimes

---------------------------------------------------------------------------
MCInit == IncidentInit /\ SpeakersInit /\ AgentInit

MCNext ==
  \/ regime.part = "incidents" /\ IncidentNext /\ UNCHANGED <<speakerVars, agentVars>>
  \/ regime.part = "speakers" /\ SpeakersNext /\ UNCHANGED <<incidentVars, agentVars>>
  \/ regime.part = "agent" /\ AgentNext /\ UNCHANGED <<incidentVars, speakerVars>>

MCSpec ==
  /\ MCInit /\ [][MCNext]_<<incidentVars, speakerVars, agentVars>>
  /\ WF_incidentVars(RunResponse) /\ SpeakersFairness /\ AgentFairness

(* Incident, speakers and chats keep their types, the retry counters their  *)
(* range.                                                                   *)
ResponseTypeOK == IncidentTypeOK /\ SpeakersTypeOK /\ AgentTypeOK

(* Whatever is started by the workflow engine or by a chat comes to an end: *)
(* retries, timeouts, the follow-up limit and the tool ceiling bound it.    *)
StartedWorkEnds == ResponseEnds /\ OutreachEnds /\ ChatEnds
=============================================================================
