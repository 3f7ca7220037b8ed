--------------------------- MODULE CheckinConsole ---------------------------
(***************************************************************************)
(* The check-in page (apps/web/src/pages/CheckinConsole.tsx and            *)
(* checkin/checkinFlow.ts): find an attendee, verify, complete.  Every     *)
(* request is a promise; its response is applied whenever it arrives, to   *)
(* whatever the page shows by then.  Several devices run the page against  *)
(* the handlers of CheckIn.                                                *)
(***************************************************************************)
EXTENDS CheckIn

VARIABLES
  client,        \* the device a request belongs to
  flags,         \* searching, verifying, recovering, reconciling, completing, qrChecking
  outcome,       \* what the last lookup left on screen
  resolved,      \* the registration on screen
  verification,  \* the verify response on screen
  handed,        \* a recovered ticket is on screen
  completion,    \* the complete response on screen
  scanned,       \* the registration of the last valid QR
  failure        \* the request whose failure is on screen, with its "Try again"

pageVars ==
  <<client, flags, outcome, resolved, verification, handed, completion, scanned, failure>>
vars == <<serverVars, pageVars>>

Scanning == "scan" \in regime.kinds
Busy(d) == flags[d] # {}
Finding(d) == resolved[d] = None /\ completion[d] = None

Init ==
  /\ ServerInit
  /\ client = [c \in Calls |-> None]
  /\ flags = [d \in Devices |-> {}]
  /\ outcome = [d \in Devices |-> "blank"]
  /\ resolved = [d \in Devices |-> None]
  /\ verification = [d \in Devices |-> None]
  /\ handed = [d \in Devices |-> FALSE]
  /\ completion = [d \in Devices |-> None]
  /\ scanned = [d \in Devices |-> None]
  /\ failure = [d \in Devices |-> "none"]

FirstStage(kind) == IF kind \in {"verify", "complete"} THEN kind ELSE "lookup"

(* Request c carries kind for device d; the page raises its flag and clears *)
(* the failure it was showing.                                              *)
Send(c, d, kind, r) ==
  /\ kind \in regime.kinds
  /\ To(c, FirstStage(kind))
  /\ job' = [job EXCEPT ![c] = [kind |-> kind, reg |-> r]]
  /\ answer' = [answer EXCEPT ![c] = None]
  /\ client' = [client EXCEPT ![c] = d]
  /\ failure' = [failure EXCEPT ![d] = "none"]

Raise(d, kind) == flags' = [flags EXCEPT ![d] = @ \cup {kind}]

(* resolve: a registration is on screen and its verification is requested. *)
Resolve(c, d, r, lowered) ==
  /\ resolved' = [resolved EXCEPT ![d] = r]
  /\ outcome' = [outcome EXCEPT ![d] = "blank"]
  /\ verification' = [verification EXCEPT ![d] = None]
  /\ handed' = [handed EXCEPT ![d] = FALSE]
  /\ flags' = [flags EXCEPT ![d] = (@ \ lowered) \cup {"verify"}]
  /\ Send(c, d, "verify", r)

serverRest == <<regime, store, history>>

(* The buttons, with the conditions under which the page enables them, and  *)
(* "Try again", which repeats the failed request whatever else is running.  *)
Search(c, d) ==
  /\ \/ Finding(d) /\ ~Busy(d)
     \/ failure[d] = "search"
  /\ Send(c, d, "search", None)
  /\ Raise(d, "search")
  /\ outcome' = [outcome EXCEPT ![d] = "blank"]
  /\ UNCHANGED <<serverRest, resolved, verification, handed, completion, scanned>>

ScanQr(c, d) ==
  /\ \/ Finding(d) /\ "scan" \notin flags[d]
     \/ failure[d] = "scan"
  /\ Send(c, d, "scan", None)
  /\ Raise(d, "scan")
  /\ scanned' = [scanned EXCEPT ![d] = None]
  /\ UNCHANGED <<serverRest, outcome, resolved, verification, handed, completion>>

Reconcile(c, d) ==
  /\ \/ Finding(d) /\ outcome[d] = "none" /\ ~Busy(d)
     \/ failure[d] = "reconcile"
  /\ Send(c, d, "reconcile", None)
  /\ Raise(d, "reconcile")
  /\ UNCHANGED <<serverRest, outcome, resolved, verification, handed, completion, scanned>>

UseScanned(c, d) ==
  /\ Finding(d) /\ scanned[d] # None
  /\ Resolve(c, d, scanned[d], {})
  /\ UNCHANGED <<serverRest, completion, scanned>>

PickCandidate(c, d) ==
  /\ Finding(d) /\ outcome[d] = "candidates" /\ "search" \notin flags[d]
  /\ \E r \in Registrations : Resolve(c, d, r, {})
  /\ UNCHANGED <<serverRest, completion, scanned>>

VerifyAgain(c, d) ==
  /\ failure[d] = "verify" /\ resolved[d] # None
  /\ Send(c, d, "verify", resolved[d])
  /\ Raise(d, "verify")
  /\ UNCHANGED <<serverRest, outcome, resolved, verification, handed, completion, scanned>>

(* Mutation of CompletionAvailable: any verify response will do. *)
CompletionAfterVerify(d) == verification[d] # None

(* completionAvailable: a verify response is on screen and nothing in it    *)
(* failed; a warning that the attendee is already through does not block.   *)
CompletionAvailable(d) == verification[d] # None /\ verification[d].passed

Complete(c, d) ==
  /\ resolved[d] # None
  /\ \/ completion[d] = None /\ CompletionAvailable(d) /\ ~Busy(d)
     \/ failure[d] = "complete"
  /\ Send(c, d, "complete", resolved[d])
  /\ Raise(d, "complete")
  /\ UNCHANGED <<serverRest, outcome, resolved, verification, handed, completion, scanned>>

(* runRecover: "Recover ticket", offered where completion is, until a       *)
(* ticket is on screen.  What recover_handler does to it is in Tickets.     *)
Recover(c, d) ==
  /\ resolved[d] # None
  /\ \/ /\ completion[d] = None /\ ~handed[d]
        /\ CompletionAvailable(d) /\ ~Busy(d)
     \/ failure[d] = "recover"
  /\ Send(c, d, "recover", resolved[d])
  /\ Raise(d, "recover")
  /\ UNCHANGED <<serverRest, outcome, resolved, verification, handed, completion, scanned>>

(* startOver: "Search someone else", and "Next attendee" after completion. *)
StartOver(d) ==
  /\ completion[d] # None \/ (resolved[d] # None /\ ~Busy(d))
  /\ flags' = [flags EXCEPT ![d] = {}]
  /\ outcome' = [outcome EXCEPT ![d] = "blank"]
  /\ resolved' = [resolved EXCEPT ![d] = None]
  /\ verification' = [verification EXCEPT ![d] = None]
  /\ handed' = [handed EXCEPT ![d] = FALSE]
  /\ completion' = [completion EXCEPT ![d] = None]
  /\ scanned' = [scanned EXCEPT ![d] = None]
  /\ failure' = [failure EXCEPT ![d] = "none"]
  /\ UNCHANGED <<serverVars, client>>

---------------------------------------------------------------------------
(* What the lookups answer: a registration, candidates, or nothing found.   *)
Found(r) == [kind |-> "found", reg |-> r]
Otherwise ==
  [search |-> {"candidates", "nothing"}, reconcile |-> {"nothing"}, scan |-> {"error"},
   recover |-> {"recovered"}]
LookupAnswers(kind) ==
  {Found(r) : r \in IF kind = "recover" THEN {} ELSE Registrations}
  \cup {[kind |-> k, reg |-> None] : k \in Otherwise[kind]}

Lookup(c) ==
  /\ at[c] = "lookup"
  /\ \E response \in LookupAnswers(job[c].kind) : Respond(c, response)
  /\ UNCHANGED <<serverRest, job, pageVars>>

Handle(c) == Serve(c) /\ UNCHANGED pageVars

Free(c) ==
  /\ To(c, "free")
  /\ job' = [job EXCEPT ![c] = None]
  /\ answer' = [answer EXCEPT ![c] = None]
  /\ client' = [client EXCEPT ![c] = None]

Lower(d, kind) == flags' = [flags EXCEPT ![d] = @ \ {kind}]

(* The then-callbacks.  A search or a payment reference that resolves one   *)
(* registration goes straight on to its verification.                       *)
Advance(c, d) ==
  /\ job[c].kind \in {"search", "reconcile"} /\ answer[c].kind = "found"
  /\ Resolve(c, d, answer[c].reg, {job[c].kind})
  /\ UNCHANGED <<serverRest, completion, scanned>>

ShowOutcome(c, d) ==
  /\ answer[c].kind \in {"candidates", "nothing"}
  /\ outcome' = IF job[c].kind = "search"
                THEN [outcome EXCEPT ![d] = IF answer[c].kind = "nothing" THEN "none"
                                            ELSE "candidates"]
                ELSE outcome
  /\ Lower(d, job[c].kind)
  /\ Free(c)
  /\ UNCHANGED <<serverRest, resolved, verification, handed, completion, scanned, failure>>

ShowScan(c, d) ==
  /\ job[c].kind = "scan" /\ answer[c].kind = "found"
  /\ scanned' = [scanned EXCEPT ![d] = answer[c].reg]
  /\ Lower(d, "scan")
  /\ Free(c)
  /\ UNCHANGED <<serverRest, outcome, resolved, verification, handed, completion, failure>>

(* runVerify's callback stores the response without asking which            *)
(* registration the page shows by now.                                      *)
Shown(d, response) == response

ShowVerification(c, d) ==
  /\ answer[c].kind = "verified"
  /\ verification' = [verification EXCEPT ![d] = Shown(d, answer[c])]
  /\ Lower(d, "verify")
  /\ Free(c)
  /\ UNCHANGED <<serverRest, outcome, resolved, handed, completion, scanned, failure>>

ShowCompletion(c, d) ==
  /\ answer[c].kind = "completed"
  /\ completion' = [completion EXCEPT ![d] = answer[c]]
  /\ Lower(d, "complete")
  /\ Free(c)
  /\ UNCHANGED <<serverRest, outcome, resolved, verification, handed, scanned, failure>>

ShowTicket(c, d) ==
  /\ answer[c].kind = "recovered"
  /\ handed' = [handed EXCEPT ![d] = TRUE]
  /\ Lower(d, "recover")
  /\ Free(c)
  /\ UNCHANGED <<serverRest, outcome, resolved, verification, completion, scanned, failure>>

(* Mutation of ShowFailure: the rejected branch leaves the flag up. *)
ShowFailureBusy(c, d) ==
  /\ answer[c].kind = "error"
  /\ failure' = [failure EXCEPT ![d] = job[c].kind]
  /\ Free(c)
  /\ UNCHANGED <<serverRest, flags, outcome, resolved, verification, handed, completion, scanned>>

ShowFailure(c, d) ==
  /\ answer[c].kind = "error"
  /\ failure' = [failure EXCEPT ![d] = job[c].kind]
  /\ Lower(d, job[c].kind)
  /\ Free(c)
  /\ UNCHANGED <<serverRest, outcome, resolved, verification, handed, completion, scanned>>

Receive(c) ==
  LET d == client[c]
  IN /\ at[c] = "answered"
     /\ \/ Advance(c, d) \/ ShowOutcome(c, d) \/ ShowScan(c, d)
        \/ ShowVerification(c, d) \/ ShowCompletion(c, d) \/ ShowTicket(c, d)
        \/ ShowFailure(c, d)

Press(c, d) ==
  /\ at[c] = "free" /\ c \in regime.callers /\ d \in regime.devices
  /\ \/ Search(c, d) \/ ScanQr(c, d) \/ Reconcile(c, d) \/ UseScanned(c, d)
     \/ PickCandidate(c, d) \/ VerifyAgain(c, d) \/ Complete(c, d) \/ Recover(c, d)

(* Requests are served and their responses arrive. *)
Progress(c) == Lookup(c) \/ Handle(c) \/ Receive(c)

Next ==
  \/ \E c \in Calls, d \in Devices : Press(c, d)
  \/ \E d \in Devices : StartOver(d)
  \/ \E c \in Calls : Progress(c)
  \/ RegistrationMoves /\ UNCHANGED pageVars

Spec == Init /\ [][Next]_vars

---------------------------------------------------------------------------
Verdicts == [kind : {"verified"}, reg : Registrations, passed : BOOLEAN, warned : BOOLEAN]
Completions == [kind : {"completed"}, reg : Registrations, already : BOOLEAN]

(* Every variable of the page and of the handlers keeps its type. *)
TypeOK ==
  /\ ServerTypeOK
  /\ job \in [Calls -> Jobs \cup {None}]
  /\ client \in [Calls -> Devices \cup {None}]
  /\ flags \in [Devices -> SUBSET Requests]
  /\ handed \in [Devices -> BOOLEAN]
  /\ outcome \in [Devices -> {"blank", "candidates", "none"}]
  /\ resolved \in [Devices -> Registrations \cup {None}]
  /\ scanned \in [Devices -> Registrations \cup {None}]
  /\ verification \in [Devices -> Verdicts \cup {None}]
  /\ completion \in [Devices -> Completions \cup {None}]

(* The verdict on screen is about the person on screen, in whatever order   *)
(* the responses arrive.                                                    *)
VerdictMatchesPerson ==
  \A d \in Devices : verification[d] # None => verification[d].reg = resolved[d]

(* Nobody is admitted on another registration's checks: "verification is    *)
(* never bypassed" (completionAvailable), though complete_handler itself    *)
(* verifies nothing.  Who was let through may have been cancelled since.    *)
OnlyVerifiedAdmitted == checkin \subseteq vouched

(* The verdict decides who enters, where volunteers do not use the scanner: *)
(* it is about the person on screen, and nobody is checked in past it.      *)
VerdictDecides == ~Scanning => VerdictMatchesPerson /\ OnlyVerifiedAdmitted

(* No spinner is for ever: every flag the page raises comes down again,     *)
(* whatever fails and however responses overtake one another, if requests   *)
(* are served and their responses arrive; nobody has to press.              *)
PageRecovers == \A d \in Devices, k \in Requests : k \in flags[d] ~> k \notin flags[d]
=============================================================================
