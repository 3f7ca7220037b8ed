------------------------------- MODULE Teams -------------------------------
(***************************************************************************)
(* One team of an event and its memberships, as services/api/teams_handler *)
(* keeps them: a TEAM item with a member count, and a TEAM_MEMBER item per *)
(* person, deactivated rather than deleted.                                *)
(***************************************************************************)
EXTENDS Integers, FiniteSets, Invocations

CONSTANTS
  Users,         \* people who may be on the team
  TeamRequests   \* requests of teams_handler

CreateTeam == [kind |-> "create_team"]
DefaultTeams == [kind |-> "default_teams"]
UpdateTeam(lead) == [kind |-> "update_team", user |-> lead]
AddMember(u, lead) == [kind |-> "add", user |-> u, lead |-> lead]
RemoveMember(u) == [kind |-> "remove", user |-> u]

AnyTeamRequest ==
  {CreateTeam, DefaultTeams} \cup {UpdateTeam(u) : u \in Users} \cup {RemoveMember(u) : u \in Users}
  \cup {AddMember(u, lead) : u \in Users, lead \in BOOLEAN}

TeamItem == [count : Int, lead : Users \cup {None}]

(* Of a regime: opening, who is on the team from the start.                *)
ASSUME TeamsAssumption ==
  /\ TeamRequests \subseteq AnyTeamRequest /\ None \notin TeamItem
  /\ \A r \in Regimes : r.part = "board" =>
       "opening" \in DOMAIN r /\ r.opening \subseteq Users /\ IsFiniteSet(r.opening)

VARIABLES
  team,          \* the TEAM item: its member count and its lead, or None
  membership,    \* each user's TEAM_MEMBER item: "none", "active", "inactive"
  working        \* the invocations

teamVars == <<team, membership, working, regime>>

NewTeam == [count |-> 0, lead |-> None]

Opening == IF regime.part = "board" THEN regime.opening ELSE {}

TeamsInit ==
  /\ regime \in Regimes
  /\ team = IF Opening = {} THEN None
            ELSE [NewTeam EXCEPT !.count = Cardinality(Opening)]
  /\ membership = [u \in Users |-> IF u \in Opening THEN "active" ELSE "none"]
  /\ working = AllIdle

BeginTeamRequest(c) ==
  /\ MayBegin(working, c)
  /\ \E r \in TeamRequests : r.kind \in regime.kinds /\ working' = Begun(working, c, r)
  /\ UNCHANGED <<team, membership, regime>>

Asks(c, kind) == working[c].at = "read" /\ working[c].req.kind = kind
TeamCallEnds(c) == working' = Done(working, c)

(* create_team: a conditional put; a team that is there is not replaced. *)
PutTeam(c) ==
  /\ Asks(c, "create_team")
  /\ team' = IF team = None THEN NewTeam ELSE team
  /\ TeamCallEnds(c)
  /\ UNCHANGED <<membership, regime>>

(* create_default_teams queries the teams there are, then puts the others   *)
(* in one batch, which replaces what came in between.                       *)
FindTeams(c) ==
  /\ Asks(c, "default_teams")
  /\ working' = IF team = None THEN GoneTo(working, c, "batch") ELSE Done(working, c)
  /\ UNCHANGED <<team, membership, regime>>

PutDefaultTeams(c) ==
  /\ working[c].at = "batch"
  /\ team' = NewTeam
  /\ TeamCallEnds(c)
  /\ UNCHANGED <<membership, regime>>

(* update_team: any field but the count; the lead is the one others read. *)
ChangeTeam(c) ==
  /\ Asks(c, "update_team")
  /\ team' = IF team = None THEN None ELSE [team EXCEPT !.lead = working[c].req.user]
  /\ TeamCallEnds(c)
  /\ UNCHANGED <<membership, regime>>

(* add_member. *)
FindTeam(c) ==
  /\ Asks(c, "add")
  /\ working' = IF team = None THEN Done(working, c)
                ELSE After(working, c, "put", team.count)
  /\ UNCHANGED <<team, membership, regime>>

PutMember(c) ==
  LET u == working[c].req.user IN
  /\ working[c].at = "put"
  /\ IF membership[u] = "none"
     THEN /\ membership' = [membership EXCEPT ![u] = "active"]
          /\ working' = GoneTo(working, c, "count")
     ELSE /\ working' = GoneTo(working, c, "reactivate")
          /\ UNCHANGED membership
  /\ UNCHANGED <<team, regime>>

(* Whoever is on the team already is made active; the count is left alone. *)
Reactivate(c) ==
  LET u == working[c].req.user IN
  /\ working[c].at = "reactivate"
  /\ membership' = [membership EXCEPT ![u] = "active"]
  /\ TeamCallEnds(c)
  /\ UNCHANGED <<team, regime>>

(* Mutation of CountAfterAdding: read, then set. *)
CountAfterAddingRead(c) == working[c].saw + 1

(* "An atomic ADD rather than a read-then-write". *)
CountAfterAdding(c) == team.count + 1

CountMember(c) ==
  /\ working[c].at = "count"
  /\ team' = [team EXCEPT !.count = CountAfterAdding(c)]
  /\ working' = IF working[c].req.lead THEN GoneTo(working, c, "lead") ELSE Done(working, c)
  /\ UNCHANGED <<membership, regime>>

NameLead(c) ==
  /\ working[c].at = "lead"
  /\ team' = [team EXCEPT !.lead = working[c].req.user]
  /\ TeamCallEnds(c)
  /\ UNCHANGED <<membership, regime>>

(* remove_member: refused for a stranger, a no-op for an inactive member.   *)
Leaves(u) == membership[u] = "active"

FindMember(c) ==
  /\ Asks(c, "remove")
  /\ working' = IF Leaves(working[c].req.user) THEN GoneTo(working, c, "deactivate")
                ELSE Done(working, c)
  /\ UNCHANGED <<team, membership, regime>>

Deactivate(c) ==
  /\ working[c].at = "deactivate"
  /\ membership' = [membership EXCEPT ![working[c].req.user] = "inactive"]
  /\ working' = GoneTo(working, c, "uncount")
  /\ UNCHANGED <<team, regime>>

UncountMember(c) ==
  /\ working[c].at = "uncount"
  /\ team' = [team EXCEPT !.count = @ - 1]
  /\ TeamCallEnds(c)
  /\ UNCHANGED <<membership, regime>>

TeamCallDies(c) ==
  /\ regime.failures /\ Active(working, c)
  /\ working' = Dead(working, c)
  /\ UNCHANGED <<team, membership, regime>>

ServeTeam(c) ==
  \/ PutTeam(c) \/ FindTeams(c) \/ PutDefaultTeams(c) \/ ChangeTeam(c)
  \/ FindTeam(c) \/ PutMember(c) \/ Reactivate(c) \/ CountMember(c) \/ NameLead(c)
  \/ FindMember(c) \/ Deactivate(c) \/ UncountMember(c)

TeamsNext == \E c \in Calls : BeginTeamRequest(c) \/ ServeTeam(c) \/ TeamCallDies(c)

TeamsSpec == TeamsInit /\ [][TeamsNext]_teamVars

---------------------------------------------------------------------------
(* The item and the memberships keep their types. *)
TeamsTypeOK ==
  /\ team \in TeamItem \cup {None}
  /\ membership \in [Users -> {"none", "active", "inactive"}]
  /\ DOMAIN working = Calls

Members == {u \in Users : membership[u] # "none"}
ActiveMembers == {u \in Users : membership[u] = "active"}
Counting(at) == {c \in Calls : working[c].at = at}

(* "Two leaders adding members at once" (add_member) lose no increment:     *)
(* while nobody leaves and no invocation dies, member_count is the number   *)
(* of members stored less those on their way to the counter, however the    *)
(* requests overlap and however often the team is created again.            *)
MemberCountIsAccounted ==
  /\ regime.kinds \cap {"remove", "default_teams"} = {}
  /\ ~regime.failures
  /\ team # None
  => team.count = Cardinality(Members) - Cardinality(Counting("count"))

(* The model of the item: member_count is "Field(default=0, ge=0)".         *)
(* remove_member counts every removal, add_member no reactivation.          *)
CountIsNatural == team # None => team.count >= 0
=============================================================================
