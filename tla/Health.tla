------------------------------- MODULE Health -------------------------------
(***************************************************************************)
(* The health score of an event (services/shared/health), a pure function  *)
(* of the snapshot services/shared/aggregate takes.  The board below is    *)
(* what the score looks at, as the records stand; the steps are the        *)
(* changes people and agents make to the records.                          *)
(***************************************************************************)
EXTENDS Integers, FiniteSetsExt, Invocations

CONSTANTS
  MaxTasks,        \* bound: tasks that are late or blocked
  MaxIncidents,    \* bound: open incidents besides the one tasks wait for
  Total, Amounts,  \* the budget, and what may be spent and committed of it
  Registered, Gaps \* registrations, and how many may miss information

SeverityPoints == [CRITICAL |-> 36, HIGH |-> 18, MEDIUM |-> 8, LOW |-> 3]
Grades == DOMAIN SeverityPoints

(* Tasks that matter: late or not, and free, blocked, or blocked by the     *)
(* incident they come from.                                                 *)
Free == "free"
Trouble == [late : BOOLEAN, hold : {Free, "blocked", "linked"}]
             \ {[late |-> FALSE, hold |-> Free]}

Boards ==
  [tasks : [Trouble -> Nat], incident : Grades \cup {None}, others : [Grades -> Nat],
   silent : 0 .. 3, stale : 0 .. 4, used : Nat, imminent : BOOLEAN, gaps : 0 .. Registered]

ASSUME HealthAssumption ==
  /\ MaxTasks \in Nat /\ MaxIncidents \in Nat
  /\ Total \in Nat /\ Amounts \subseteq Nat
  /\ Registered \in Nat /\ Gaps \subseteq 0 .. Registered
  /\ None \notin Grades
  /\ \A r \in Regimes : r.part = "health" => r.board \in Boards

(* Of a regime: board, where a behaviour begins; kinds: what changes.       *)
VARIABLE board
healthVars == <<board, regime>>

CalmBoard ==
  [tasks |-> [k \in Trouble |-> 0], incident |-> None, others |-> [g \in Grades |-> 0],
   silent |-> 0, stale |-> 0, used |-> 0, imminent |-> FALSE, gaps |-> 0]

HealthInit ==
  /\ regime \in Regimes
  /\ board = IF regime.part = "health" THEN regime.board ELSE None

Summed(f, S) == MapThenSumSet(LAMBDA x : f[x], S)
AtMost(n, cap) == IF n < cap THEN n ELSE cap

---------------------------------------------------------------------------
(* The snapshot. *)

(* Late is decided by the deadline, blocked or not. *)
OverdueTasks(b) == Summed(b.tasks, {k \in Trouble : k.late})

(* Work blocked by an incident that is open is not counted beside it.       *)
IndependentlyBlocked(b) ==
  Summed(b.tasks, {k \in Trouble : k.hold = "blocked" \/ (k.hold = "linked" /\ b.incident = None)})

OpenOf(b, g) == b.others[g] + (IF b.incident = g THEN 1 ELSE 0)

(* Python's round: to the nearest integer, halves to the even one. *)
Rounded(n, d) ==
  LET q == n \div d
      r == 2 * (n % d)
  IN IF r > d \/ (r = d /\ q % 2 = 1) THEN q + 1 ELSE q

Utilization(b) == Rounded(b.used * 100, Total)
Incomplete(b) == 100 - Rounded((Registered - b.gaps) * 100, Registered)

---------------------------------------------------------------------------
(* The signals. *)

OverduePoints(b) == AtMost(6 * OverdueTasks(b), 30)
BlockedPoints(b) == AtMost(4 * IndependentlyBlocked(b), 16)

(* Weighted by severity and capped as a group. *)
IncidentPoints(b) ==
  AtMost(MapThenSumSet(LAMBDA g : OpenOf(b, g) * SeverityPoints[g], Grades), 48)

SilentPoints(b) == AtMost(10 * b.silent, 20)
StalePoints(b) == AtMost(5 * b.stale, 15)

(* Mutation of BudgetPoints: an overrun reads as no utilization. *)
BudgetPointsWithin(b) ==
  IF Total = 0 \/ b.used > Total THEN 0
  ELSE IF Utilization(b) >= 90 THEN 12 ELSE IF Utilization(b) >= 75 THEN 6 ELSE 0

(* Of a budget there is. *)
BudgetPoints(b) ==
  IF Total = 0 THEN 0
  ELSE IF b.used > Total THEN 20
  ELSE IF Utilization(b) >= 90 THEN 12 ELSE IF Utilization(b) >= 75 THEN 6 ELSE 0

(* Proximity counts when something serious is open. *)
ImminentPoints(b) ==
  IF b.imminent /\ OpenOf(b, "CRITICAL") + OpenOf(b, "HIGH") + OverdueTasks(b) > 0 THEN 10 ELSE 0

GapPoints(b) == IF Registered > 0 /\ Incomplete(b) > 10 THEN 6 ELSE 0

(* compute_health: the signals that fired, their sum up to 100, its band.   *)
Signals(b) ==
  <<OverduePoints(b), BlockedPoints(b), IncidentPoints(b), SilentPoints(b), StalePoints(b),
    BudgetPoints(b), ImminentPoints(b), GapPoints(b)>>
Fired(b) == {i \in 1 .. 8 : Signals(b)[i] > 0}
Score(b) == AtMost(Summed(Signals(b), 1 .. 8), 100)

Band(b) ==
  IF Score(b) >= 60 THEN "RED" ELSE IF Score(b) >= 35 THEN "ORANGE"
  ELSE IF Score(b) >= 15 THEN "YELLOW" ELSE "GREEN"

---------------------------------------------------------------------------
(* The records change. *)

Changes(kind, b) ==
  /\ kind \in regime.kinds /\ board # None
  /\ board' = b /\ UNCHANGED regime

(* A task gets late or blocked, stops being so, or is done. *)
TaskChanges ==
  \E k \in Trouble :
    \/ Summed(board.tasks, Trouble) < MaxTasks
       /\ Changes("tasks", [board EXCEPT !.tasks[k] = @ + 1])
    \/ board.tasks[k] > 0 /\ Changes("tasks", [board EXCEPT !.tasks[k] = @ - 1])

(* The incident that holds work up is reported, judged anew, or resolved.   *)
IncidentChanges ==
  \E g \in (Grades \cup {None}) \ {board.incident} :
    Changes("incidents", [board EXCEPT !.incident = g])

OtherIncidents ==
  \E g \in Grades :
    \/ Summed(board.others, Grades) < MaxIncidents
       /\ Changes("incidents", [board EXCEPT !.others[g] = @ + 1])
    \/ board.others[g] > 0 /\ Changes("incidents", [board EXCEPT !.others[g] = @ - 1])

(* Speakers fall silent and answer; requests grow stale and are decided.    *)
PeopleChange ==
  \/ \E n \in {board.silent - 1, board.silent + 1} \cap 0 .. 3 :
       Changes("people", [board EXCEPT !.silent = n])
  \/ \E n \in {board.stale - 1, board.stale + 1} \cap 0 .. 4 :
       Changes("people", [board EXCEPT !.stale = n])

(* Money is committed, spent or released; registrations are completed.      *)
MoneyChanges ==
  \/ \E n \in Amounts : Changes("money", [board EXCEPT !.used = n])
  \/ \E n \in Gaps : Changes("money", [board EXCEPT !.gaps = n])

StartNears == ~board.imminent /\ Changes("start", [board EXCEPT !.imminent = TRUE])

HealthNext ==
  TaskChanges \/ IncidentChanges \/ OtherIncidents \/ PeopleChange \/ MoneyChanges \/ StartNears

HealthSpec == HealthInit /\ [][HealthNext]_healthVars

---------------------------------------------------------------------------
(* Tasks blocked by the incident that holds work up. *)
Linked(b) == Summed(b.tasks, {k \in Trouble : k.hold = "linked"})

(* Nothing got worse, and no incident was closed over work it blocks.       *)
Eases(b, a) ==
  /\ \A k \in Trouble : a.tasks[k] <= b.tasks[k]
  /\ \A g \in Grades : a.others[g] <= b.others[g]
  /\ \/ a.incident = b.incident
     \/ a.incident = None /\ Linked(b) = 0
     \/ a.incident # None /\ b.incident # None
          /\ SeverityPoints[a.incident] <= SeverityPoints[b.incident]
  /\ a.silent <= b.silent /\ a.stale <= b.stale /\ a.used <= b.used /\ a.gaps <= b.gaps
  /\ a.imminent = b.imminent

(* Relief never raises the score: finishing work, closing an incident,      *)
(* hearing from a speaker, deciding, releasing money.  (Closing an incident *)
(* over work that stays blocked may raise it: that work then counts.)       *)
ReliefDoesNotHurt == [][board' # board /\ Eases(board, board') => Score(board') <= Score(board)]_healthVars

(* "One unresolved critical incident crosses the ORANGE threshold on its    *)
(* own", whatever else there is.                                            *)
CriticalShows ==
  board # None /\ OpenOf(board, "CRITICAL") > 0 => Band(board) \in {"ORANGE", "RED"}

(* "Without a cap a single noisy signal would saturate the score": no       *)
(* signal alone makes the event RED.                                        *)
NoSignalAloneIsRed ==
  board # None /\ Cardinality(Fired(board)) = 1 => Band(board) # "RED"

(* The score can be acted on: relief lowers it, one critical incident shows *)
(* and no single signal drowns the others.                                  *)
ScoreIsSound == ReliefDoesNotHurt /\ [](CriticalShows /\ NoSignalAloneIsRed)
=============================================================================
