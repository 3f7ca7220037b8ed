------------------------------ MODULE CheckIn ------------------------------
(***************************************************************************)
(* The server side of check-in: verify_handler and complete_handler        *)
(* (services/checkin/handlers) over the CHECKIN item, which is created by  *)
(* a conditional put, and the is_checked_in flag of the registration,      *)
(* which is updated afterwards and may fail on its own.                    *)
(*                                                                         *)
(* A request is served in the steps of its handler; its answer waits in    *)
(* answer[c] until the client takes it.                                    *)
(***************************************************************************)
EXTENDS Integers, FiniteSets, Invocations

CONSTANTS Registrations, Devices

(* A regime of check-in also names the devices that are used; whether       *)
(* get_item is eventually consistent, as the code uses it (stale); and      *)
(* whether registrations are cancelled, paid or refunded meanwhile          *)
(* (changes).  Its callers are the places for requests in flight; volunteers*)
(* verify QR payloads, as the page allows, if its kinds have "scan".        *)
ASSUME CheckInAssumption ==
  \A r \in Regimes : r.part = "checkin" =>
    /\ {"devices", "stale", "changes"} \subseteq DOMAIN r
    /\ r.devices \subseteq Devices /\ {r.stale, r.changes} \subseteq BOOLEAN

VARIABLES
  checkin,     \* the registrations that have a CHECKIN item
  reg,         \* each REG item: does it pass the checks, and is_checked_in
  regPast,     \* earlier versions of it a lagging read may return
  at,          \* where each request stands
  job,         \* what it asks: [kind, reg]
  answer,      \* the response waiting for the client
  vouched,     \* history: registrations that a verification found to pass
  audits,      \* history: CHECKIN_COMPLETED events per registration
  fresh        \* history: answers that reported a new check-in

store == <<checkin, reg, regPast>>
history == <<vouched, audits, fresh>>
serverVars == <<regime, store, at, job, answer, history>>

To(c, stage) == at' = [at EXCEPT ![c] = stage]

(* The response of request c; "error" stands for every failure the client sees. *)
Verdict(r, item) == [kind |-> "verified", reg |-> r, passed |-> item.passes,
                     warned |-> item.flag]
Completed(r, already) == [kind |-> "completed", reg |-> r, already |-> already]
Error(r) == [kind |-> "error", reg |-> r]

Respond(c, response) ==
  /\ To(c, "answered")
  /\ answer' = [answer EXCEPT ![c] = response]

ServerInit ==
  /\ regime \in Regimes
  /\ checkin = {}
  /\ reg \in [Registrations -> [passes : BOOLEAN, flag : {FALSE}]]
  /\ regPast = [r \in Registrations |-> {}]
  /\ at = [c \in Calls |-> "free"]
  /\ job = [c \in Calls |-> None]
  /\ answer = [c \in Calls |-> None]
  /\ vouched = {}
  /\ audits = [r \in Registrations |-> 0]
  /\ fresh = [r \in Registrations |-> 0]

Update(r, item) ==
  /\ reg' = [reg EXCEPT ![r] = item]
  /\ regPast' = IF regime.stale THEN [regPast EXCEPT ![r] = @ \cup {reg[r]}] ELSE regPast

(* A registration is confirmed, cancelled, paid or refunded: no handler     *)
(* does it, the records come from the registration system.                  *)
RegistrationMoves ==
  /\ regime.changes
  /\ \E r \in Registrations : Update(r, [reg[r] EXCEPT !.passes = ~@])
  /\ UNCHANGED <<regime, checkin, at, job, answer, history>>

(* verify_handler: the checks of verify_registration on one read of the REG *)
(* item.  The CHECKIN item is not consulted.                                *)
Verify(c) ==
  LET r == job[c].reg
  IN /\ at[c] = "verify"
     /\ \E item \in {reg[r]} \cup regPast[r] :
          /\ Respond(c, Verdict(r, item))
          /\ vouched' = IF item.passes THEN vouched \cup {r} ELSE vouched
     /\ UNCHANGED <<regime, store, job, audits, fresh>>

(* Mutation of PutCheckin: the put is unconditional. *)
PutCheckinAlways(c) ==
  /\ at[c] = "complete"
  /\ checkin' = checkin \cup {job[c].reg}
  /\ To(c, "flag")
  /\ UNCHANGED <<regime, reg, regPast, job, answer, history>>

(* complete_handler: whoever creates the CHECKIN item does the rest. *)
PutCheckin(c) ==
  LET r == job[c].reg
  IN /\ at[c] = "complete"
     /\ checkin' = checkin \cup {r}
     /\ To(c, IF r \in checkin THEN "existing" ELSE "flag")
     /\ UNCHANGED <<regime, reg, regPast, job, answer, history>>

SetFlag(c) ==
  LET r == job[c].reg
  IN /\ at[c] = "flag"
     /\ Update(r, [reg[r] EXCEPT !.flag = TRUE])
     /\ To(c, "audit")
     /\ UNCHANGED <<regime, checkin, job, answer, history>>

(* A failed flag update is logged and swallowed. *)
SkipFlag(c) ==
  /\ regime.failures
  /\ at[c] = "flag"
  /\ To(c, "audit")
  /\ UNCHANGED <<regime, store, job, answer, history>>

(* create_audit_event never fails its caller, whether or not it wrote. *)
Audit(c) ==
  LET r == job[c].reg
  IN /\ at[c] = "audit"
     /\ \/ audits' = [audits EXCEPT ![r] = @ + 1]
        \/ regime.failures /\ UNCHANGED audits
     /\ Respond(c, Completed(r, FALSE))
     /\ fresh' = [fresh EXCEPT ![r] = @ + 1]
     /\ UNCHANGED <<regime, store, job, vouched>>

ReadExisting(c) ==
  /\ at[c] = "existing"
  /\ Respond(c, Completed(job[c].reg, TRUE))
  /\ UNCHANGED <<regime, store, job, history>>

InServer(c) == at[c] \notin {"free", "answered"}

(* The invocation dies or an unguarded DynamoDB call fails. *)
Die(c) ==
  /\ regime.failures
  /\ InServer(c)
  /\ Respond(c, Error(job[c].reg))
  /\ UNCHANGED <<regime, store, job, history>>

Serve(c) ==
  \/ Verify(c) \/ PutCheckin(c) \/ SetFlag(c) \/ SkipFlag(c)
  \/ Audit(c) \/ ReadExisting(c) \/ Die(c)

---------------------------------------------------------------------------
Requests == {"search", "scan", "reconcile", "verify", "complete", "recover"}
Jobs == [kind : Requests, reg : Registrations \cup {None}]
Items == [passes : BOOLEAN, flag : BOOLEAN]

ServerTypeOK ==
  /\ checkin \subseteq Registrations /\ vouched \subseteq Registrations
  /\ reg \in [Registrations -> Items]
  /\ regPast \in [Registrations -> SUBSET Items]
  /\ at \in [Calls -> {"free", "lookup", "verify", "complete", "existing", "flag",
                       "audit", "answered"}]
  /\ audits \in [Registrations -> Nat] /\ fresh \in [Registrations -> Nat]

(* "No duplicate side effects" (complete_handler): however many completions *)
(* of one registration overlap or are retried, one reports a new check-in   *)
(* and one is audited.                                                      *)
CheckedInOnce == \A r \in Registrations : audits[r] <= fresh[r] /\ fresh[r] <= 1

(* The flag on the registration is never ahead of the CHECKIN item. *)
FlagNeedsCheckin == \A r \in Registrations : reg[r].flag => r \in checkin

(* The CHECKIN item decides: one completion reports it new, and everything  *)
(* complete_handler writes besides it follows from it.                      *)
CompletionIsTrue == CheckedInOnce /\ FlagNeedsCheckin
=============================================================================
