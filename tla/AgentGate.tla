----------------------------- MODULE AgentGate -----------------------------
(***************************************************************************)
(* The agent: one chat session (services/api/agent_handler), the tool loop *)
(* of one exchange (agents/runtime.run_turn) and the gate every tool call  *)
(* goes through (tools/registry over services/shared/policy).              *)
(*                                                                         *)
(* The language model is external: it may answer anything in the answers   *)
(* of the regime, any number of times.  A tool handler is abstracted to    *)
(* whether it acts; what the acting ones write is modelled in Tasks,       *)
(* Incidents and Speakers.                                                 *)
(***************************************************************************)
EXTENDS Integers, Sequences, FiniteSets, Invocations

CONSTANTS
  Tools,            \* the names registered
  Catalogue,        \* of each: its tier, the roles it is for, whether it is
                    \* mutating, whether its approval is built from reads
  MaxToolTurns,     \* the ceiling of the tool loop
  HistoryTurns,     \* exchanges of a session that are loaded
  MaxHistoryTurns   \* turns of them the model is shown

Roles == {"LEADER", "TEAM_MEMBER"}
Tiers == {"LOW", "MEDIUM", "HIGH", "NEVER"}

(* The caller's role; whether a member's teams could be loaded; whether the *)
(* chat names an event, of the caller's own or another.                     *)
Chat(role, placed, event) ==
  [kind |-> "chat", role |-> role, placed |-> placed, event |-> event]

(* A call the model makes: its tool, whether its arguments fit the schema,  *)
(* and the event and the team it names, if any.                             *)
ToolCall(tool, valid, event, team) ==
  [tool |-> tool, valid |-> valid, event |-> event, team |-> team]
EventNames == {"none", "own", "other"}

(* A turn of the conversation: who speaks in it, in which exchange. *)
ChatTurn == [role : {"user", "assistant"}, by : Calls]

(* Of a regime: chatters, who asks; answers, sequences of calls the model   *)
(* may answer with, and None for an answer that asks for no tool.           *)
ASSUME AgentAssumption ==
  /\ Catalogue \in [Tools -> [tier : Tiers, roles : SUBSET Roles, mutating : BOOLEAN,
                              reads : BOOLEAN]]
  /\ MaxToolTurns \in Nat \ {0} /\ HistoryTurns \in Nat \ {0} /\ MaxHistoryTurns \in Nat \ {0, 1}
  /\ None \notin ChatTurn
  /\ \A r \in Regimes : r.part = "agent" =>
       /\ {"chatters", "answers"} \subseteq DOMAIN r
       /\ r.chatters \subseteq {Chat(role, placed, event) :
                                  role \in Roles, placed \in BOOLEAN, event \in EventNames}

VARIABLES
  transcript,   \* the CHAT_TURN items by sequence number
  chats,        \* the invocations; saw is the history they loaded
  loop,         \* each one's tool loop
  gated,        \* the APPROVAL items the gate has put
  effects,      \* history: mutations tool handlers made
  refusals,     \* history: calls refused by role, scope or policy
  trail,        \* the audit records of calls
  answered      \* history: the invocations that answered, in their order

agentVars == <<transcript, chats, loop, gated, effects, refusals, trail, answered, regime>>
records == <<gated, effects, refusals, trail>>

Slots == 0 .. 2 * HistoryTurns + 1
IdleLoop == [turn |-> 0, calls |-> <<>>, reported |-> {}]

AgentInit ==
  /\ transcript = [i \in Slots |-> None]
  /\ chats = AllIdle
  /\ loop = [c \in Calls |-> IdleLoop]
  /\ gated = {} /\ effects = {} /\ refusals = {} /\ trail = {}
  /\ answered = <<>>
  /\ regime \in Regimes

---------------------------------------------------------------------------
(* Authority. *)

(* authorize_scope, for the event and the team a call is about. *)
OutOfScope(r, event, team) ==
  /\ r.role # "LEADER" /\ (event # "none" \/ team # "none")
  /\ ~r.placed \/ event = "other" \/ team = "other"

(* visible_for: what the model is offered; it may ask for anything. *)
VisibleFor(role) == {t \in Tools : role \in Catalogue[t].roles}

(* evaluate_policy within one organization: the gate never passes           *)
(* has_approval.                                                            *)
EvaluatePolicy(tier, role) ==
  CASE tier = "NEVER" -> "DENY"
    [] tier = "HIGH" -> "REQUIRES_APPROVAL"
    [] tier = "MEDIUM" -> IF role = "LEADER" THEN "ALLOW" ELSE "DENY"
    [] tier = "LOW" -> "ALLOW"

---------------------------------------------------------------------------
(* The session. *)

LastOf(s, n) == SubSeq(s, IF Len(s) > n THEN Len(s) - n + 1 ELSE 1, Len(s))

(* The turns that were put, in the order of their sequence numbers. *)
Filled == {i \in Slots : transcript[i] # None}
Before(i) == {j \in Filled : j < i}
Stored ==
  [k \in 1 .. Cardinality(Filled) |->
     transcript[CHOOSE i \in Filled : Cardinality(Before(i)) = k - 1]]

(* Mutation of LoadedHistory: the first turns are kept, not the last. *)
LoadedHistoryFirst ==
  SubSeq(Stored, 1, IF Len(Stored) < 2 * HistoryTurns THEN Len(Stored) ELSE 2 * HistoryTurns)

LoadedHistory == LastOf(Stored, 2 * HistoryTurns)

(* _history_messages: the model is shown the last turns, from a user's on. *)
Shown(history) ==
  LET recent == LastOf(history, MaxHistoryTurns)
      starts == {i \in DOMAIN recent : recent[i].role = "user"}
  IN IF starts = {} THEN <<>>
     ELSE SubSeq(recent, CHOOSE i \in starts : \A j \in starts : i <= j, Len(recent))

(* chat: the scope check, then the history; a failure to load it is taken   *)
(* for an empty one.                                                        *)
BeginChat(c) ==
  /\ MayBegin(chats, c)
  /\ \E r \in regime.chatters : chats' = Begun(chats, c, r)
  /\ UNCHANGED <<transcript, loop, records, answered, regime>>

RefuseChat(c) ==
  /\ chats[c].at = "read" /\ OutOfScope(chats[c].req, chats[c].req.event, "none")
  /\ chats' = Dead(chats, c)
  /\ UNCHANGED <<transcript, loop, records, answered, regime>>

LoadHistory(c) ==
  /\ chats[c].at = "read" /\ ~OutOfScope(chats[c].req, chats[c].req.event, "none")
  /\ \/ chats' = After(chats, c, "model", LoadedHistory)
     \/ regime.failures /\ chats' = After(chats, c, "model", <<>>)
  /\ UNCHANGED <<transcript, loop, records, answered, regime>>

---------------------------------------------------------------------------
(* The tool loop. *)

(* Mutation of NextTurn: a turn that only calls tools is not counted. *)
NextTurnUncounted(c) == loop[c].turn

NextTurn(c) == loop[c].turn + 1

(* Each pass asks the model once; an answer without a call ends the loop.   *)
ModelAnswers(c) ==
  /\ chats[c].at = "model"
  /\ \E answer \in regime.answers :
       IF answer = None \/ answer = <<>>
       THEN chats' = GoneTo(chats, c, "user_turn") /\ UNCHANGED loop
       ELSE /\ chats' = GoneTo(chats, c, "tool")
            /\ loop' = [loop EXCEPT ![c].turn = NextTurn(c), ![c].calls = answer]
  /\ UNCHANGED <<transcript, records, answered, regime>>

(* The model is not available: the exchange ends with an error. *)
ModelUnavailable(c) ==
  /\ regime.failures /\ chats[c].at = "model"
  /\ chats' = Dead(chats, c)
  /\ UNCHANGED <<transcript, loop, records, answered, regime>>

(* After a call: the next call of the answer, the next pass, or the ceiling. *)
AfterCall(c) ==
  IF Len(loop[c].calls) > 1 THEN "tool"
  ELSE IF loop[c].turn < MaxToolTurns THEN "model" ELSE "user_turn"

Returned(c) == [loop[c] EXCEPT !.calls = Tail(@)]
ReturnFromCall(c) ==
  /\ chats' = GoneTo(chats, c, AfterCall(c))
  /\ loop' = [loop EXCEPT ![c] = Returned(c)]

(* A call about to be looked at, and the event it is about. *)
Called(c) == Head(loop[c].calls)
EventOf(c) == IF Called(c).event # "none" THEN Called(c).event ELSE chats[c].req.event
CallId(c) == [by |-> c, turn |-> loop[c].turn, left |-> Len(loop[c].calls),
              tool |-> Called(c).tool, role |-> chats[c].req.role, event |-> EventOf(c),
              team |-> Called(c).team]

(* Mutation of CallVerdict: the role is left to the catalogue the model saw. *)
CallVerdictOffered(call, r, event) ==
  IF call.tool \notin Tools THEN "error"
  ELSE IF ~call.valid THEN "error"
  ELSE IF OutOfScope(r, event, call.team) THEN "refused"
  ELSE CASE EvaluatePolicy(Catalogue[call.tool].tier, r.role) = "DENY" -> "refused"
         [] EvaluatePolicy(Catalogue[call.tool].tier, r.role) = "REQUIRES_APPROVAL" -> "approval"
         [] OTHER -> "run"

(* invoke, up to the point where something happens: an unknown tool, a tool *)
(* for another role, arguments, scope and policy, in this order.            *)
CallVerdict(call, r, event) ==
  IF call.tool \notin Tools THEN "error"
  ELSE IF call.tool \notin VisibleFor(r.role) THEN "refused"
  ELSE IF ~call.valid THEN "error"
  ELSE IF OutOfScope(r, event, call.team) THEN "refused"
  ELSE CASE EvaluatePolicy(Catalogue[call.tool].tier, r.role) = "DENY" -> "refused"
         [] EvaluatePolicy(Catalogue[call.tool].tier, r.role) = "REQUIRES_APPROVAL" -> "approval"
         [] OTHER -> "run"

Verdict(c) == CallVerdict(Called(c), chats[c].req, EventOf(c))

(* An error comes back to the model as a result. *)
ReturnError(c) ==
  /\ chats[c].at = "tool" /\ Verdict(c) = "error"
  /\ ReturnFromCall(c)
  /\ UNCHANGED <<transcript, records, answered, regime>>

(* _audit_refusal, then the refusal comes back. *)
RefuseCall(c) ==
  /\ chats[c].at = "tool" /\ Verdict(c) = "refused"
  /\ refusals' = refusals \cup {CallId(c)}
  /\ chats' = GoneTo(chats, c, "audit")
  /\ UNCHANGED <<transcript, loop, gated, effects, trail, answered, regime>>

(* _raise_approval puts the APPROVAL item and reports its id; without an    *)
(* event, or if the put fails, nothing is raised and an error comes back.   *)
(* A read of the approval builder that fails is caught by nobody: the       *)
(* exchange ends there.                                                     *)
RaiseApproval(c) ==
  /\ chats[c].at = "tool" /\ Verdict(c) = "approval" /\ EventOf(c) # "none"
  /\ gated' = gated \cup {CallId(c)}
  /\ chats' = GoneTo(chats, c, "audit")
  /\ UNCHANGED <<transcript, loop, effects, refusals, trail, answered, regime>>

ApprovalNotRaised(c) ==
  /\ chats[c].at = "tool" /\ Verdict(c) = "approval" /\ (EventOf(c) = "none" \/ regime.failures)
  /\ ReturnFromCall(c)
  /\ UNCHANGED <<transcript, records, answered, regime>>

BuilderFails(c) ==
  /\ regime.failures /\ chats[c].at = "tool" /\ Verdict(c) = "approval" /\ EventOf(c) # "none"
  /\ Catalogue[Called(c).tool].reads
  /\ chats' = Dead(chats, c)
  /\ UNCHANGED <<transcript, loop, records, answered, regime>>

(* The handler of a call that is allowed; it acts, or reports an error.     *)
RunTool(c) ==
  /\ chats[c].at = "tool" /\ Verdict(c) = "run"
  /\ IF Catalogue[Called(c).tool].mutating
     THEN /\ effects' = effects \cup {CallId(c)}
          /\ chats' = GoneTo(chats, c, "audit") /\ UNCHANGED loop
     ELSE ReturnFromCall(c) /\ UNCHANGED effects
  /\ UNCHANGED <<transcript, gated, refusals, trail, answered, regime>>

ToolFails(c) ==
  /\ chats[c].at = "tool" /\ Verdict(c) = "run"
  /\ ReturnFromCall(c)
  /\ UNCHANGED <<transcript, records, answered, regime>>

(* Mutation of Reported: only the approval of the latest call is kept. *)
ReportedLast(c) == {CallId(c)} \cap gated

(* run_turn adds an approval to those it reports if the gate raised it.     *)
Reported(c) == loop[c].reported \cup ({CallId(c)} \cap gated)

(* Mutation of AuditedCall: only what a tool did is audited. *)
AuditedCallEffects(c) == trail \cup ({CallId(c)} \cap effects)

AuditedCall(c) == trail \cup {CallId(c)}

(* create_audit_event swallows its failure. *)
AuditCall(c) ==
  /\ chats[c].at = "audit"
  /\ \/ trail' = AuditedCall(c)
     \/ regime.failures /\ UNCHANGED trail
  /\ chats' = GoneTo(chats, c, AfterCall(c))
  /\ loop' = [loop EXCEPT ![c] = [Returned(c) EXCEPT !.reported = Reported(c)]]
  /\ UNCHANGED <<transcript, gated, effects, refusals, answered, regime>>

---------------------------------------------------------------------------
(* The transcript: two puts, under numbers that follow from the history as  *)
(* it was loaded.  A put that fails is logged.                              *)

PersistTurn(c, slot, role) ==
  \/ transcript' = [transcript EXCEPT ![slot] = [role |-> role, by |-> c]]
  \/ regime.failures /\ UNCHANGED transcript

PersistUserTurn(c) ==
  /\ chats[c].at = "user_turn"
  /\ PersistTurn(c, Len(chats[c].saw), "user")
  /\ chats' = GoneTo(chats, c, "assistant_turn")
  /\ UNCHANGED <<loop, records, answered, regime>>

(* The answer is delivered with the approvals the loop reported. *)
PersistAssistantTurn(c) ==
  /\ chats[c].at = "assistant_turn"
  /\ PersistTurn(c, Len(chats[c].saw) + 1, "assistant")
  /\ answered' = Append(answered, c)
  /\ chats' = Done(chats, c)
  /\ UNCHANGED <<loop, records, regime>>

ChatDies(c) ==
  /\ regime.failures /\ Active(chats, c)
  /\ chats' = Dead(chats, c)
  /\ UNCHANGED <<transcript, loop, records, answered, regime>>

ServeChat(c) ==
  \/ RefuseChat(c) \/ LoadHistory(c) \/ ModelAnswers(c) \/ ModelUnavailable(c)
  \/ ReturnError(c) \/ RefuseCall(c) \/ RaiseApproval(c) \/ ApprovalNotRaised(c)
  \/ BuilderFails(c) \/ RunTool(c) \/ ToolFails(c) \/ AuditCall(c)
  \/ PersistUserTurn(c) \/ PersistAssistantTurn(c)

AgentNext == \E c \in Calls : BeginChat(c) \/ ServeChat(c) \/ ChatDies(c)

(* A Lambda that has begun runs on; nobody has to talk to the agent. *)
AgentFairness == \A c \in Calls : WF_agentVars(ServeChat(c))

AgentSpec == AgentInit /\ [][AgentNext]_agentVars /\ AgentFairness

---------------------------------------------------------------------------
(* Every variable keeps its type. *)
AgentTypeOK ==
  /\ transcript \in [Slots -> ChatTurn \cup {None}]
  /\ DOMAIN chats = Calls
  /\ \A c \in Calls : loop[c].turn \in 0 .. MaxToolTurns
  /\ \A e \in gated \cup effects \cup refusals \cup trail : e.by \in Calls
  /\ \A i \in DOMAIN answered : answered[i] \in Calls

(* "The agent never gains scope by being an agent" (run_turn): whatever the *)
(* model asks for, what it changed or asked to be approved is by a tool of  *)
(* the caller's role, on an event and for a team of the caller's, and what  *)
(* it changed is of a tier that needs no approval.                          *)
ActsWithinAuthority ==
  /\ \A e \in effects \cup gated :
       /\ e.role \in Catalogue[e.tool].roles
       /\ e.role = "LEADER" \/ (e.event # "other" /\ e.team # "other")
  /\ \A e \in effects :
       Catalogue[e.tool].tier \in IF e.role = "LEADER" THEN {"LOW", "MEDIUM"} ELSE {"LOW"}

(* An answer reports the approvals its exchange raised, all of them and no  *)
(* others, however many passes the loop took.                               *)
AnswersReportApprovals ==
  \A i \in DOMAIN answered :
    loop[answered[i]].reported = {a \in gated : a.by = answered[i]}

(* "Refusals are audited as well as successes": of an exchange that is not  *)
(* in the middle of a call and met no failure, every change, every approval *)
(* and every refusal has its record, and nothing else has one.              *)
CallsAreAudited ==
  ~regime.failures =>
    \A c \in Calls : chats[c].at # "audit" =>
      {e \in trail : e.by = c} = {e \in gated \cup effects \cup refusals : e.by = c}

(* "So a follow-up question makes sense": exchanges in turn show the model  *)
(* a conversation that begins with the user, alternates and ends with the   *)
(* latest answer, also when the session is longer than what is loaded.      *)
FollowUpsMakeSense ==
  \A c \in Calls :
    chats[c].at = "model" /\ ~regime.overlap /\ ~regime.failures =>
      LET s == Shown(chats[c].saw) IN
      /\ \A i \in DOMAIN s : s[i].role = IF i % 2 = 1 THEN "user" ELSE "assistant"
      /\ answered # <<>> =>
           s # <<>> /\ s[Len(s)] = [role |-> "assistant", by |-> answered[Len(answered)]]

(* Whatever the model answers, every exchange ends: the loop has a ceiling. *)
(* (An invocation serves one, so from some time on none is under way.)      *)
ChatEnds == <>[](\A c \in Calls : ~Active(chats, c))
=============================================================================
