----------------------------- MODULE MCApprovals -----------------------------
(* Two financial requests in one category, and a locked action: two of the  *)
(* requests decided and paid in turn, one beside the locked action by calls *)
(* that overlap, lag and fail.                                              *)
EXTENDS Approvals, TLC

CONSTANTS hall, stage_rig, wire, venue

Asked == (hall      :> [category |-> venue, amount |-> 1, tier |-> "HIGH"])
      @@ (stage_rig :> [category |-> venue, amount |-> 2, tier |-> "HIGH"])
      @@ (wire      :> [category |-> venue, amount |-> 1, tier |-> "NEVER"])

AskedOne == hall :> [category |-> venue, amount |-> 1, tier |-> "HIGH"]

On(ids) == {x \in Tasks : x.id \in ids}
Edits == {x \in Tasks : x.kind = "decide" /\ x.decision = "EDITED"}
Large == {x \in Tasks : x.kind = "pay" /\ x.amount > 1}

(* Where calls overlap, an edit would do what declining does. *)
OneByOne == [tasks |-> On({hall, stage_rig}),
             overlap |-> FALSE, stale |-> FALSE, failures |-> FALSE]
AtOnce == [tasks |-> On({hall, wire}) \ (Edits \cup Large),
           overlap |-> TRUE, stale |-> TRUE, failures |-> TRUE]
Both == {OneByOne, AtOnce}

OnlyOverlap == {[tasks |-> On({hall}), overlap |-> TRUE, stale |-> FALSE, failures |-> FALSE]}

OneBudget == [total |-> 4, allocated |-> 4, spent |-> 0, committed |-> 0]
OneLine == venue :> [allocated |-> 4, spent |-> 0, committed |-> 0]
=============================================================================
