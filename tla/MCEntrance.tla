----------------------------- MODULE MCEntrance -----------------------------
(***************************************************************************)
(* The entrance: check-in desks, and the ticket of one registration.  The  *)
(* part of a behaviour's regime says which of them is at work, the other   *)
(* rests.                                                                  *)
(***************************************************************************)
EXTENDS CheckinConsole, Tickets

CONSTANTS asha, ravi, printed, c1, c2, d1, d2

(* Check-in: two desks with lagging reads, whose handlers may die; two desks*)
(* while registrations change; and a QR scanner, with two requests in flight *)
(* at one desk.  There completion is left out: the page sends it only when  *)
(* nothing else is in flight.                                               *)
Desks(devices, callers, kinds, failures, stale, changes) ==
  [part |-> "checkin", devices |-> devices, callers |-> callers, kinds |-> kinds,
   overlap |-> TRUE, failures |-> failures, stale |-> stale, changes |-> changes]

CheckInRegimes ==
  {Desks({d1, d2}, {c1, c2}, Requests \ {"scan"}, TRUE, TRUE, FALSE),
   Desks({d1, d2}, {c1, c2}, {"search", "verify", "complete"}, FALSE, FALSE, TRUE),
   Desks({d1}, {c1, c2}, Requests \ {"complete"}, TRUE, FALSE, FALSE)}

(* Requests of every kind in turn; three that overlap.  Any of them may die.*)
TicketCalls(callers, kinds, overlap) ==
  [part |-> "tickets", callers |-> callers, kinds |-> kinds, overlap |-> overlap,
   failures |-> TRUE, stale |-> overlap]

TicketRegimes ==
  {TicketCalls(Calls, TicketRequests, FALSE),
   TicketCalls(Calls, {"issue", "revoke", "scan"}, TRUE)}

AllRegimes == CheckInRegimes \cup TicketRegimes
OneScanner == {Desks({d1}, {c1, c2}, Requests, FALSE, FALSE, FALSE)}
TicketsInTurn == {TicketCalls(Calls, TicketRequests, FALSE)}

---------------------------------------------------------------------------
OfCheckIn == <<store, at, job, answer, history, pageVars>>
OfTickets == <<eligible, ticket, ticketPast, pdf, linked, held, phase, kind, seen, gate,
               wasEligible, served>>

(* The registrations rest where they have no part; at the scanner one of    *)
(* the two passes the checks.                                               *)
MCInit ==
  /\ Init /\ TicketsInit
  /\ regime.part = "checkin" => ~eligible
  /\ \/ regime.part = "checkin" /\ regime.changes
     \/ reg = [r \in Registrations |-> [passes |-> r = asha, flag |-> FALSE]]

MCNext ==
  \/ regime.part = "checkin" /\ Next /\ UNCHANGED OfTickets
  \/ regime.part = "tickets" /\ TicketsNext /\ UNCHANGED OfCheckIn

MCSpec == MCInit /\ [][MCNext]_<<regime, OfCheckIn, OfTickets>>

(* Handlers answer, the browser delivers. *)
MCFairSpec ==
  /\ MCSpec
  /\ \A c \in Calls :
       WF_<<regime, OfCheckIn, OfTickets>>(
         regime.part = "checkin" /\ Progress(c) /\ UNCHANGED OfTickets)
=============================================================================
