----------------------------- MODULE Invocations -----------------------------
(***************************************************************************)
(* What the handlers of every component have in common.  An invocation is  *)
(* one run of a Lambda handler: it serves one request in a few calls to    *)
(* DynamoDB, and between two of them anything may happen.                  *)
(*                                                                         *)
(* A regime says what the environment of a behaviour does.  It is chosen   *)
(* at the start and never changes, so that one specification speaks of     *)
(* requests in turn, of requests that overlap and of invocations that die, *)
(* and one run of the model checker goes through several instances.        *)
(***************************************************************************)
CONSTANTS
  Calls,     \* invocations
  None,      \* no value
  Regimes    \* records with at least the fields below

VARIABLE regime

(* part: the component whose handlers run; callers: the invocations there   *)
(* are; kinds: the kinds of request they serve; overlap: they may overlap;  *)
(* failures: they may die, or a call of theirs may fail.                    *)
ASSUME RegimeAssumption ==
  \A r \in Regimes :
    /\ {"part", "callers", "kinds", "overlap", "failures"} \subseteq DOMAIN r
    /\ r.callers \subseteq Calls
    /\ r.overlap \in BOOLEAN /\ r.failures \in BOOLEAN

(* An invocation: where it stands, its request, what it uses of its read.   *)
Invocation(at, req, saw) == [at |-> at, req |-> req, saw |-> saw]
Resting == {"idle", "end", "died"}

(* The invocations of a component are a function from Calls.                *)
AllIdle == [c \in Calls |-> Invocation("idle", None, None)]
Active(inv, c) == inv[c].at \notin Resting
MayBegin(inv, c) ==
  /\ c \in regime.callers /\ inv[c].at = "idle"
  /\ regime.overlap \/ \A d \in Calls : ~Active(inv, d)

Begun(inv, c, req) == [inv EXCEPT ![c] = Invocation("read", req, None)]
After(inv, c, at, saw) == [inv EXCEPT ![c].at = at, ![c].saw = saw]
GoneTo(inv, c, at) == [inv EXCEPT ![c].at = at]
Done(inv, c) == [inv EXCEPT ![c] = Invocation("end", None, None)]
Dead(inv, c) == [inv EXCEPT ![c] = Invocation("died", None, None)]
=============================================================================
