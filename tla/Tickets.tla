------------------------------ MODULE Tickets ------------------------------
(***************************************************************************)
(* The ticket of one registration: issue_ticket and revoke_ticket          *)
(* (services/api/tickets_handler), recover_handler and verify_qr_handler   *)
(* (services/checkin/handlers), over ticket_service.generate_ticket.       *)
(*                                                                         *)
(* Three stores hold it: the TICKET item, the PDF in S3 under one key per  *)
(* registration, and the copies people have downloaded.  Every generation  *)
(* signs a new payload (it carries a timestamp); a payload is named here   *)
(* by the invocation that signed it.                                       *)
(***************************************************************************)
EXTENDS Integers, FiniteSets, Invocations

CONSTANTS
  OpeningTicket,  \* the TICKET item when the calls begin, or None
  OpeningQr       \* the payload an opening ticket was printed with

Payloads == Calls \cup {OpeningQr}
Ticket == [status : {"ACTIVE", "REVOKED"}, qr : Payloads, count : Nat]

TicketRequests == {"issue", "recover", "revoke", "scan"}

ASSUME OpeningTicketAssumption ==
  /\ None \notin Ticket \cup Payloads
  /\ OpeningTicket = None \/ (OpeningTicket \in Ticket /\ OpeningTicket.qr = OpeningQr)

(* A regime of tickets also says whether get_item is eventually consistent, *)
(* as the code uses it (stale).                                             *)
ASSUME TicketsAssumption ==
  \A r \in Regimes : r.part = "tickets" => "stale" \in DOMAIN r /\ r.stale \in BOOLEAN

VARIABLES
  eligible,      \* the registration is CONFIRMED and its payment valid
  ticket,        \* the TICKET item
  ticketPast,    \* earlier versions of it a lagging read may return
  pdf,           \* the payload printed in the S3 object
  linked,        \* some caller was handed a download link
  held,          \* payloads people hold on a downloaded ticket
  phase, kind,   \* where each invocation stands, and what it serves
  seen,          \* the ticket it read
  gate,          \* what a scan answered: its verdict, and the status it reports
  wasEligible,   \* history: the registration was eligible at some time
  served         \* history: times the ticket on record was handed out

ticketVars == <<regime, eligible, ticket, ticketPast, pdf, linked, held, phase, kind, seen, gate,
          wasEligible, served>>

Go(c, next) == phase' = [phase EXCEPT ![c] = next]
Running(c) == phase[c] \notin {"idle", "end"}
Readable == {ticket} \cup ticketPast
NotScanned == [verdict |-> "none", status |-> "none"]

Store(new) ==
  /\ ticket' = new
  /\ ticketPast' = IF regime.stale THEN ticketPast \cup {ticket} ELSE ticketPast

TicketsInit ==
  /\ regime \in Regimes
  /\ eligible \in BOOLEAN
  /\ ticket = OpeningTicket
  /\ ticketPast = {}
  /\ pdf = IF OpeningTicket = None THEN None ELSE OpeningQr
  /\ linked = (OpeningTicket # None)
  /\ held = {}
  /\ phase = [c \in Calls |-> "idle"]
  /\ kind = [c \in Calls |-> "none"]
  /\ seen = [c \in Calls |-> None]
  /\ gate = [c \in Calls |-> NotScanned]
  /\ wasEligible = (eligible \/ OpeningTicket # None)
  /\ served = IF OpeningTicket = None THEN 0 ELSE OpeningTicket.count

(* The registration system confirms, cancels or refunds; an attendee opens  *)
(* a link and keeps what the S3 object holds at that moment.                *)
RegistrationChanges ==
  /\ eligible' = ~eligible
  /\ wasEligible' = TRUE
  /\ UNCHANGED <<regime, ticket, ticketPast, pdf, linked, held, phase, kind, seen, gate, served>>

Download ==
  /\ linked /\ pdf \notin held
  /\ held' = held \cup {pdf}
  /\ UNCHANGED <<regime, eligible, ticket, ticketPast, pdf, linked, phase, kind, seen, gate,
                 wasEligible, served>>

(* Mutation of FirstPhase: the caller's own verification is trusted. *)
FirstPhaseTrusting(k) == IF k = "scan" THEN "scan" ELSE "ticket"

FirstPhase(k) ==
  IF k = "issue" THEN "registration" ELSE IF k = "scan" THEN "scan" ELSE "ticket"

BeginTicketCall(c) ==
  /\ phase[c] = "idle" /\ c \in regime.callers
  /\ regime.overlap \/ \A d \in Calls : ~Running(d)
  /\ \E k \in regime.kinds \cap TicketRequests :
       kind' = [kind EXCEPT ![c] = k] /\ Go(c, FirstPhase(k))
  /\ UNCHANGED <<regime, eligible, ticket, ticketPast, pdf, linked, held, seen, gate,
                 wasEligible, served>>

(* issue_ticket verifies the registration again, then looks for a ticket. *)
CheckRegistration(c) ==
  /\ phase[c] = "registration"
  /\ Go(c, IF eligible THEN "ticket" ELSE "end")
  /\ UNCHANGED <<regime, eligible, ticket, ticketPast, pdf, linked, held, kind, seen, gate,
                 wasEligible, served>>

(* Mutations of AfterRead: an existing ticket is generated again; a revoked *)
(* one is issued anew.                                                      *)
AfterReadRegenerates(k, t) ==
  IF k = "revoke" THEN (IF t = None \/ t.status = "REVOKED" THEN "end" ELSE "revoke")
  ELSE IF k = "issue" /\ t # None /\ t.status = "REVOKED" THEN "end"
  ELSE "generate"

AfterReadReinstates(k, t) ==
  IF k = "revoke" THEN (IF t = None \/ t.status = "REVOKED" THEN "end" ELSE "revoke")
  ELSE IF t = None \/ t.status = "REVOKED" THEN "generate"
  ELSE "count"

(* What each request does about the ticket it finds. *)
AfterRead(k, t) ==
  IF k = "revoke" THEN (IF t = None \/ t.status = "REVOKED" THEN "end" ELSE "revoke")
  ELSE IF t = None THEN "generate"
  ELSE IF k = "issue" /\ t.status = "REVOKED" THEN "end"
  ELSE "count"

ReadTicket(c) ==
  /\ phase[c] = "ticket"
  /\ \E t \in Readable : /\ seen' = [seen EXCEPT ![c] = t]
                         /\ Go(c, AfterRead(kind[c], t))
  /\ UNCHANGED <<regime, eligible, ticket, ticketPast, pdf, linked, held, kind, gate,
                 wasEligible, served>>

(* generate_ticket: a new payload is signed, printed and uploaded. *)
Generate(c) ==
  /\ phase[c] = "generate"
  /\ pdf' = c
  /\ Go(c, "put")
  /\ UNCHANGED <<regime, eligible, ticket, ticketPast, linked, held, kind, seen, gate,
                 wasEligible, served>>

(* The TICKET item is put, whether or not one exists by now; only then does *)
(* the caller get a link.                                                   *)
PutTicket(c) ==
  /\ phase[c] = "put"
  /\ Store([status |-> "ACTIVE", qr |-> c, count |-> 1])
  /\ linked' = TRUE
  /\ served' = 1
  /\ Go(c, "end")
  /\ UNCHANGED <<regime, eligible, pdf, held, kind, seen, gate, wasEligible>>

(* Mutation of NewCount: issue_ticket computes from its read as well. *)
NewCountFromRead(c) == seen[c].count + 1

(* The reissue counter: an atomic ADD in issue_ticket, in recover_handler a *)
(* SET of the value computed from the read.                                 *)
NewCount(c) == IF kind[c] = "issue" THEN ticket.count + 1 ELSE seen[c].count + 1

CountReissue(c) ==
  /\ phase[c] = "count"
  /\ Store([ticket EXCEPT !.count = NewCount(c)])
  /\ served' = served + 1
  /\ Go(c, "end")
  /\ UNCHANGED <<regime, eligible, pdf, linked, held, kind, seen, gate, wasEligible>>

Revoke(c) ==
  /\ phase[c] = "revoke"
  /\ Store([ticket EXCEPT !.status = "REVOKED"])
  /\ Go(c, "end")
  /\ UNCHANGED <<regime, eligible, pdf, linked, held, kind, seen, gate, wasEligible, served>>

(* verify_qr_handler compares the payload with the stored signature; the    *)
(* status of the ticket is reported, not judged.                            *)
ScanVerdict(t, p) ==
  IF t = None THEN "unknown" ELSE IF t.qr = p THEN "valid" ELSE "mismatch"

Answer(t, p) ==
  [verdict |-> ScanVerdict(t, p), status |-> IF t = None THEN "none" ELSE t.status]

Scan(c) ==
  /\ phase[c] = "scan"
  /\ \E p \in held, t \in Readable : gate' = [gate EXCEPT ![c] = Answer(t, p)]
  /\ Go(c, "end")
  /\ UNCHANGED <<regime, eligible, ticket, ticketPast, pdf, linked, held, kind, seen,
                 wasEligible, served>>

TicketCallFails(c) ==
  /\ regime.failures /\ Running(c)
  /\ Go(c, "end")
  /\ UNCHANGED <<regime, eligible, ticket, ticketPast, pdf, linked, held, kind, seen, gate,
                 wasEligible, served>>

ServeTicket(c) ==
  \/ CheckRegistration(c) \/ ReadTicket(c) \/ Generate(c) \/ PutTicket(c)
  \/ CountReissue(c) \/ Revoke(c) \/ Scan(c)

TicketsNext ==
  \/ RegistrationChanges
  \/ Download
  \/ \E c \in Calls : BeginTicketCall(c) \/ ServeTicket(c) \/ TicketCallFails(c)

TicketsSpec == TicketsInit /\ [][TicketsNext]_ticketVars

---------------------------------------------------------------------------
Answers == [verdict : {"none", "unknown", "valid", "mismatch"},
            status : {"none", "ACTIVE", "REVOKED"}]

(* Every variable keeps its type. *)
TicketsTypeOK ==
  /\ regime \in Regimes
  /\ eligible \in BOOLEAN /\ linked \in BOOLEAN /\ wasEligible \in BOOLEAN
  /\ ticket \in Ticket \cup {None}
  /\ ticketPast \subseteq Ticket \cup {None}
  /\ pdf \in Payloads \cup {None} /\ held \subseteq Payloads
  /\ phase \in [Calls -> {"idle", "registration", "ticket", "generate", "put", "count",
                          "revoke", "scan", "end"}]
  /\ kind \in [Calls -> TicketRequests \cup {"none"}]
  /\ seen \in [Calls -> Ticket \cup {None}]
  /\ gate \in [Calls -> Answers]
  /\ served \in Nat

(* Requests one after another, each reading what the last one wrote. *)
InTurn == ~regime.overlap /\ ~regime.stale

(* Requests in turn: when none is at work, the PDF behind the link carries  *)
(* the payload whose signature the TICKET item keeps, even if an earlier    *)
(* one died between the upload and the put.                                 *)
PdfMatchesTicket ==
  InTurn /\ ticket # None /\ (\A c \in Calls : ~Running(c)) => pdf = ticket.qr

(* Requests in turn: the gate turns away a ticket somebody downloaded only  *)
(* when it has been revoked, since handing it out again "produces the same  *)
(* ticket" (recover_handler, issue_ticket).                                 *)
GateAcceptsHeld ==
  InTurn => \A c \in Calls :
    gate[c].verdict \in {"unknown", "mismatch"} => gate[c].status = "REVOKED"

(* What is behind the link and what was downloaded from it are good at the  *)
(* gate: issuing, recovering and dying never part a PDF from its ticket.    *)
HeldTicketsWork == PdfMatchesTicket /\ GateAcceptsHeld

(* Requests in turn: the gate does not let a revoked ticket pass.  "QR      *)
(* verification will now reject it" (revoke_ticket); verify_qr_handler      *)
(* compares signatures and leaves the status to its caller.                 *)
RevokedIsRefused ==
  InTurn => \A c \in Calls : gate[c].status = "REVOKED" => gate[c].verdict # "valid"

(* Requests in turn: a revoked ticket stays revoked until somebody          *)
(* deliberately reinstates it (issue_ticket), and nothing in the code does. *)
RevocationSticks ==
  [][InTurn /\ ticket # None /\ ticket.status = "REVOKED"
       => ticket'.status = "REVOKED"]_ticketVars

(* No ticket is recovered at the desk. *)
IssuingOnly == "recover" \notin regime.kinds

(* generated_count counts every time the ticket on record was handed out:   *)
(* the atomic ADD of issue_ticket loses none of the reissues that overlap.  *)
(* A first issue that overlaps another replaces its ticket, and starts at 1.*)
CountsItsIssues == IssuingOnly /\ ticket # None => ticket.count = served

(* A ticket exists only for a registration that was found eligible, however *)
(* verification, cancellation and issuing interleave.                       *)
TicketNeedsEligibility == IssuingOnly /\ ticket # None => wasEligible
=============================================================================
