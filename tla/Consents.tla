------------------------------ MODULE Consents ------------------------------
(***************************************************************************)
(* The APPROVAL item a workflow raises and waits on, as leaders decide it  *)
(* through decide_approval of services/api/approvals_handler: the status   *)
(* is checked in one step and written, without a condition, in a later     *)
(* one.  (Such an approval names no budget category, so no money moves;    *)
(* Approvals models those that do.)                                        *)
(***************************************************************************)
EXTENDS Invocations

CONSTANT Deciders   \* leaders' invocations of decide_approval

Decisions == {"APPROVED", "DECLINED", "EDITED"}

(* status, of the item; deciding, who found it pending and has not written  *)
(* yet; approved, history: "APPROVED" was written.                          *)
Consent ==
  [status : {"none", "PENDING"} \cup Decisions, deciding : SUBSET Deciders, approved : BOOLEAN]

ConsentItem(status) == [status |-> status, deciding |-> {}, approved |-> FALSE]
NotAsked == ConsentItem("none")
Asked == ConsentItem("PENDING")

(* Of a regime of a workflow: deciders, the invocations there may be.      *)
MayDecide(item, d) ==
  item.status = "PENDING" /\ d \in regime.deciders /\ d \notin item.deciding
Deciding(item, d) == [item EXCEPT !.deciding = @ \cup {d}]

(* The write replaces what another leader has decided meanwhile. *)
Decided(item, d, decision) ==
  [item EXCEPT !.status = decision, !.deciding = @ \ {d},
               !.approved = @ \/ decision = "APPROVED"]

(* What the token may be answered with: the decision, or something else.    *)
AnswersTo(item) == {item.status, None} \ {"PENDING"}
=============================================================================
