---------------------------- MODULE TicketsProofs ----------------------------
(***************************************************************************)
(* Proofs about Tickets, for every set of invocations and every opening    *)
(* ticket.                                                                 *)
(***************************************************************************)
EXTENDS Tickets, TLAPS

(***************************************************************************)
(* Type correctness.  A ticket that has been seen has not gone: whoever    *)
(* counts a reissue or revokes finds a ticket there.                       *)
(***************************************************************************)
Kept ==
  /\ ticket = None => ticketPast \subseteq {None}
  /\ linked => pdf \in Payloads

CallInv(c) ==
  /\ phase[c] \in {"count", "revoke"} => seen[c] # None /\ ticket # None
  /\ phase[c] = "put" => pdf \in Payloads
  /\ phase[c] \notin {"idle", "end"} => kind[c] \in TicketRequests
  /\ phase[c] = "revoke" => kind[c] = "revoke"

IInv == TicketsTypeOK /\ Kept /\ \A c \in Calls : CallInv(c)

LEMMA InitIInv == TicketsInit => IInv
<1> SUFFICES ASSUME TicketsInit PROVE IInv
  OBVIOUS
<1> USE OpeningTicketAssumption DEF TicketsInit
<1>1. served \in Nat
  BY DEF Ticket
<1>2. wasEligible \in BOOLEAN /\ linked \in BOOLEAN
  BY Zenon
<1>3. ticket \in Ticket \cup {None} /\ pdf \in Payloads \cup {None}
  BY DEF Payloads
<1>4. TicketsTypeOK
  <2>1. gate \in [Calls -> Answers]
    BY DEF NotScanned, Answers
  <2>2. QED
    BY <1>1, <1>2, <1>3, <2>1 DEF TicketsTypeOK
<1>5. Kept
  BY DEF Kept, Payloads
<1>6. QED
  BY <1>4, <1>5 DEF IInv, CallInv

(* The requests' own steps, those that leave the ticket alone first. *)
LEMMA BesideIInv ==
  ASSUME IInv, RegistrationChanges \/ Download
  PROVE  IInv'
<1>1. CASE RegistrationChanges
  BY <1>1 DEF RegistrationChanges, IInv, TicketsTypeOK, Kept, CallInv
<1>2. CASE Download
  <2>1. pdf \in Payloads
    BY <1>2 DEF Download, IInv, Kept
  <2>2. held' \subseteq Payloads
    BY <1>2, <2>1 DEF Download, IInv, TicketsTypeOK
  <2>3. QED
    BY <1>2, <2>2 DEF Download, IInv, TicketsTypeOK, Kept, CallInv
<1>3. QED
  BY <1>1, <1>2

LEMMA BeginIInv ==
  ASSUME IInv, NEW c \in Calls, BeginTicketCall(c)
  PROVE  IInv'
<1>1. PICK k \in TicketRequests : /\ kind' = [kind EXCEPT ![c] = k]
                         /\ phase' = [phase EXCEPT ![c] = FirstPhase(k)]
  BY DEF BeginTicketCall, Go, IInv, TicketsTypeOK
<1>2. FirstPhase(k) \in {"registration", "scan", "ticket"}
  BY DEF FirstPhase
<1>3. TicketsTypeOK'
  BY <1>1, <1>2 DEF BeginTicketCall, IInv, TicketsTypeOK
<1>4. Kept' /\ \A d \in Calls : CallInv(d)'
  BY <1>1, <1>2 DEF BeginTicketCall, IInv, TicketsTypeOK, Kept, CallInv
<1>5. QED
  BY <1>3, <1>4 DEF IInv

LEMMA ReadTicketIInv ==
  ASSUME IInv, NEW c \in Calls, ReadTicket(c)
  PROVE  IInv'
<1>1. PICK t \in Readable : /\ seen' = [seen EXCEPT ![c] = t]
                            /\ phase' = [phase EXCEPT ![c] = AfterRead(kind[c], t)]
  BY DEF ReadTicket, Go
<1>2. t \in Ticket \cup {None} /\ (t # None => ticket # None)
  BY DEF Readable, IInv, TicketsTypeOK, Kept
<1>3. /\ AfterRead(kind[c], t) \in {"end", "revoke", "generate", "count"}
      /\ AfterRead(kind[c], t) \in {"revoke", "count"} => t # None
      /\ AfterRead(kind[c], t) = "revoke" => kind[c] = "revoke"
  BY DEF AfterRead
<1>4. TicketsTypeOK'
  BY <1>1, <1>2, <1>3 DEF ReadTicket, IInv, TicketsTypeOK
<1>5. Kept' /\ \A d \in Calls : CallInv(d)'
  BY <1>1, <1>2, <1>3 DEF ReadTicket, IInv, TicketsTypeOK, Kept, CallInv
<1>6. QED
  BY <1>4, <1>5 DEF IInv

LEMMA GenerateIInv ==
  ASSUME IInv, NEW c \in Calls, Generate(c)
  PROVE  IInv'
<1>1. pdf' \in Payloads /\ phase' = [phase EXCEPT ![c] = "put"]
  BY DEF Generate, Go, Payloads
<1>2. TicketsTypeOK'
  BY <1>1 DEF Generate, IInv, TicketsTypeOK
<1>3. Kept' /\ \A d \in Calls : CallInv(d)'
  BY <1>1 DEF Generate, IInv, TicketsTypeOK, Kept, CallInv
<1>4. QED
  BY <1>2, <1>3 DEF IInv

(* The steps that store a ticket store one, and the request is over. *)
LEMMA StoreIInv ==
  ASSUME IInv, NEW c \in Calls, NEW new \in Ticket, Store(new),
         linked' \in BOOLEAN, linked' => pdf \in Payloads, served' \in Nat,
         phase' = [phase EXCEPT ![c] = "end"],
         UNCHANGED <<regime, eligible, pdf, held, kind, seen, gate, wasEligible>>
  PROVE  IInv'
<1>1. ticket' \in Ticket /\ ticket' # None
      /\ ticketPast' \subseteq Ticket \cup {None}
  BY OpeningTicketAssumption DEF Store, IInv, TicketsTypeOK
<1>2. TicketsTypeOK'
  BY <1>1 DEF IInv, TicketsTypeOK
<1>3. Kept' /\ \A d \in Calls : CallInv(d)'
  BY <1>1 DEF IInv, TicketsTypeOK, Kept, CallInv
<1>4. QED
  BY <1>2, <1>3 DEF IInv

LEMMA PutTicketIInv ==
  ASSUME IInv, NEW c \in Calls, PutTicket(c)
  PROVE  IInv'
<1>1. [status |-> "ACTIVE", qr |-> c, count |-> 1] \in Ticket
  BY DEF Ticket, Payloads
<1>2. pdf \in Payloads
  BY DEF PutTicket, IInv, CallInv
<1>3. QED
  BY <1>1, <1>2, StoreIInv DEF PutTicket, Go

LEMMA CountReissueIInv ==
  ASSUME IInv, NEW c \in Calls, CountReissue(c)
  PROVE  IInv'
<1>1. ticket \in Ticket /\ seen[c] \in Ticket
  BY DEF CountReissue, IInv, TicketsTypeOK, CallInv
<1>2. NewCount(c) \in Nat
  BY <1>1 DEF NewCount, Ticket
<1>3. [ticket EXCEPT !.count = NewCount(c)] \in Ticket
  BY <1>1, <1>2 DEF Ticket
<1>4. served' \in Nat
  BY DEF CountReissue, IInv, TicketsTypeOK
<1>5. QED
  BY <1>3, <1>4, StoreIInv DEF CountReissue, Go, IInv, TicketsTypeOK, Kept

LEMMA RevokeIInv ==
  ASSUME IInv, NEW c \in Calls, Revoke(c)
  PROVE  IInv'
<1>1. ticket \in Ticket
  BY DEF Revoke, IInv, TicketsTypeOK, CallInv
<1>2. [ticket EXCEPT !.status = "REVOKED"] \in Ticket
  BY <1>1 DEF Ticket
<1>3. QED
  BY <1>2, StoreIInv DEF Revoke, Go, IInv, TicketsTypeOK, Kept

(* A check, a scan and a failure end the request or let it go on.           *)
LEMMA OtherIInv ==
  ASSUME IInv, NEW c \in Calls, CheckRegistration(c) \/ Scan(c) \/ TicketCallFails(c)
  PROVE  IInv'
<1>1. \E next \in {"ticket", "end"} : phase' = [phase EXCEPT ![c] = next]
  BY DEF CheckRegistration, Scan, TicketCallFails, Go
<1>2. CheckRegistration(c) => kind[c] \in TicketRequests
  BY DEF CheckRegistration, IInv, CallInv
<1>3. gate' = gate \/ \E p \in held, t \in Readable :
                        gate' = [gate EXCEPT ![c] = Answer(t, p)]
  BY DEF CheckRegistration, Scan, TicketCallFails
<1>4. gate' \in [Calls -> Answers]
  <2>1. ASSUME NEW p \in held, NEW t \in Readable PROVE Answer(t, p) \in Answers
    BY DEF Readable, IInv, TicketsTypeOK, Answer, ScanVerdict, Answers, Ticket
  <2>2. gate \in [Calls -> Answers]
    BY DEF IInv, TicketsTypeOK
  <2>3. QED
    BY <1>3, <2>1, <2>2
<1>5. UNCHANGED <<regime, eligible, ticket, ticketPast, pdf, linked, held, kind, seen,
                  wasEligible, served>>
  BY DEF CheckRegistration, Scan, TicketCallFails
<1>6. TicketsTypeOK'
  BY <1>1, <1>4, <1>5 DEF IInv, TicketsTypeOK
<1>7. phase[c] \notin {"idle", "end"}
  BY DEF CheckRegistration, Scan, TicketCallFails, Running
<1>8. Kept' /\ \A d \in Calls : CallInv(d)'
  BY <1>1, <1>5, <1>7 DEF IInv, TicketsTypeOK, Kept, CallInv
<1>9. QED
  BY <1>6, <1>8 DEF IInv

LEMMA NextIInv == IInv /\ [TicketsNext]_ticketVars => IInv'
<1> SUFFICES ASSUME IInv, [TicketsNext]_ticketVars PROVE IInv'
  OBVIOUS
<1>1. CASE UNCHANGED ticketVars
  BY <1>1 DEF ticketVars, IInv, TicketsTypeOK, Kept, CallInv
<1>2. CASE RegistrationChanges \/ Download
  BY <1>2, BesideIInv
<1>3. ASSUME NEW c \in Calls, BeginTicketCall(c) \/ ServeTicket(c) \/ TicketCallFails(c) PROVE IInv'
  BY <1>3, BeginIInv, ReadTicketIInv, GenerateIInv, PutTicketIInv, CountReissueIInv,
     RevokeIInv, OtherIInv DEF ServeTicket
<1>4. QED
  BY <1>1, <1>2, <1>3 DEF TicketsNext

LEMMA RegimeKept == [TicketsNext]_ticketVars => regime' = regime
BY DEF TicketsNext, ticketVars, RegistrationChanges, Download, BeginTicketCall, ServeTicket,
       CheckRegistration,
       ReadTicket, Generate, PutTicket, CountReissue, Revoke, Scan, TicketCallFails

LEMMA SpecIInv == TicketsSpec => []IInv
BY InitIInv, NextIInv, PTL DEF TicketsSpec

(* Every variable keeps its type, for any number of overlapping requests.   *)
THEOREM TypeCorrect == TicketsSpec => []TicketsTypeOK
BY SpecIInv, PTL DEF IInv

---------------------------------------------------------------------------
(***************************************************************************)
(* Issuing, where nobody recovers tickets at the desk.                     *)
(***************************************************************************)
Vouched ==
  /\ eligible \/ ticket # None => wasEligible
  /\ ticket # None => ticket.count = served
  /\ \A c \in Calls :
       /\ phase[c] = "ticket" => kind[c] # "issue" \/ wasEligible
       /\ phase[c] \in {"generate", "put"} => wasEligible
       /\ phase[c] = "ticket" => kind[c] \in {"issue", "revoke"}
       /\ phase[c] = "registration" => kind[c] = "issue"
       /\ phase[c] = "count" => kind[c] = "issue"

LEMMA VouchedInvariant == TicketsSpec => [](IssuingOnly => Vouched)
<1>1. TicketsInit => Vouched
  BY OpeningTicketAssumption DEF TicketsInit, Vouched
<1>2. IInv /\ (IssuingOnly => Vouched) /\ [TicketsNext]_ticketVars => (IssuingOnly => Vouched)'
  <2> SUFFICES ASSUME IInv, IssuingOnly => Vouched, [TicketsNext]_ticketVars, IssuingOnly'
               PROVE  Vouched'
    OBVIOUS
  <2>0. /\ TicketsTypeOK /\ DOMAIN phase = Calls /\ DOMAIN kind = Calls
        /\ IssuingOnly /\ Vouched
    BY RegimeKept DEF IInv, TicketsTypeOK, IssuingOnly
  <2>1. CASE UNCHANGED ticketVars
    BY <2>0, <2>1 DEF ticketVars, Vouched
  <2>2. CASE RegistrationChanges
    BY <2>0, <2>2 DEF RegistrationChanges, Vouched
  <2>3. CASE Download
    BY <2>0, <2>3 DEF Download, Vouched
  <2>4. ASSUME NEW c \in Calls, BeginTicketCall(c) PROVE Vouched'
    <3>1. PICK k \in TicketRequests : /\ kind' = [kind EXCEPT ![c] = k]
                             /\ phase' = [phase EXCEPT ![c] = FirstPhase(k)]
      BY <2>0, <2>4 DEF BeginTicketCall, Go, TicketsTypeOK
    <3>2. k \in {"issue", "revoke", "scan"}
      BY <2>0, <2>4, <3>1 DEF BeginTicketCall, IssuingOnly, TicketsTypeOK, TicketRequests
    <3>3. QED
      BY <2>0, <2>4, <3>1, <3>2 DEF BeginTicketCall, FirstPhase, Vouched
  <2>5. ASSUME NEW c \in Calls, CheckRegistration(c) PROVE Vouched'
    BY <2>0, <2>5 DEF CheckRegistration, Go, Vouched
  <2>6. ASSUME NEW c \in Calls, ReadTicket(c) PROVE Vouched'
    <3>1. PICK t \in Readable : phase' = [phase EXCEPT ![c] = AfterRead(kind[c], t)]
      BY <2>6 DEF ReadTicket, Go
    <3>2. kind[c] \in {"issue", "revoke"} /\ (kind[c] = "issue" => wasEligible)
      BY <2>0, <2>6 DEF ReadTicket, Vouched
    <3>3. /\ AfterRead(kind[c], t) \in {"end", "revoke", "generate", "count"}
          /\ AfterRead(kind[c], t) \in {"generate", "count"} => kind[c] = "issue"
      BY <3>2 DEF AfterRead
    <3>4. QED
      BY <2>0, <2>6, <3>1, <3>2, <3>3 DEF ReadTicket, Vouched
  <2>7. ASSUME NEW c \in Calls, Generate(c) PROVE Vouched'
    BY <2>0, <2>7 DEF Generate, Go, Vouched
  <2>8. ASSUME NEW c \in Calls, PutTicket(c) PROVE Vouched'
    BY <2>0, <2>8 DEF PutTicket, Store, Go, Vouched
  <2>9. ASSUME NEW c \in Calls, CountReissue(c) PROVE Vouched'
    <3>1. ticket \in Ticket /\ wasEligible /\ kind[c] = "issue" /\ ticket.count = served
      BY <2>0, <2>9 DEF CountReissue, IInv, TicketsTypeOK, CallInv, Vouched
    <3>2. ticket'.count = served' /\ UNCHANGED <<regime, eligible, kind, wasEligible>>
      BY <2>9, <3>1 DEF CountReissue, Store, NewCount, Ticket
    <3>3. QED
      BY <2>0, <2>9, <3>1, <3>2 DEF CountReissue, Go, Vouched
  <2>10. ASSUME NEW c \in Calls, Revoke(c) PROVE Vouched'
    <3>1. ticket \in Ticket /\ wasEligible /\ ticket.count = served
      BY <2>0, <2>10 DEF Revoke, IInv, TicketsTypeOK, CallInv, Vouched
    <3>2. ticket'.count = served' /\ UNCHANGED <<regime, eligible, kind, wasEligible>>
      BY <2>10, <3>1 DEF Revoke, Store, Ticket
    <3>3. QED
      BY <2>0, <2>10, <3>1, <3>2 DEF Revoke, Go, Vouched
  <2>11. ASSUME NEW c \in Calls, Scan(c) \/ TicketCallFails(c) PROVE Vouched'
    BY <2>0, <2>11 DEF Scan, TicketCallFails, Go, Vouched
  <2>12. QED
    BY <2>1, <2>2, <2>3, <2>4, <2>5, <2>6, <2>7, <2>8, <2>9, <2>10, <2>11
       DEF TicketsNext, ServeTicket
<1>3. QED
  BY <1>1, <1>2, SpecIInv, PTL DEF TicketsSpec

(* Without recovery, no ticket exists for a registration never found        *)
(* eligible, however issuing races cancellation and revocation.             *)
THEOREM TicketsAreVouchedFor == TicketsSpec => []TicketNeedsEligibility
<1>1. (IssuingOnly => Vouched) => TicketNeedsEligibility
  BY DEF Vouched, TicketNeedsEligibility
<1>2. QED
  BY <1>1, VouchedInvariant, PTL

(* Without recovery, whose counter is set and not added to, every time the  *)
(* ticket on record was handed out is counted.                              *)
THEOREM IssuesAreCounted == TicketsSpec => []CountsItsIssues
<1>1. (IssuingOnly => Vouched) => CountsItsIssues
  BY DEF Vouched, CountsItsIssues
<1>2. QED
  BY <1>1, VouchedInvariant, PTL

---------------------------------------------------------------------------
(***************************************************************************)
(* Requests one after another on consistent reads, recovery included.      *)
(***************************************************************************)
OneAtWork ==
  /\ ticketPast = {}
  /\ \A c, d \in Calls : Running(c) /\ Running(d) => c = d

(* A ticket is generated only where there is none, so every copy anybody    *)
(* holds is a copy of the one on record.                                    *)
OneTicket ==
  /\ \A c \in Calls : /\ phase[c] \in {"generate", "put"} => ticket = None
                      /\ phase[c] = "put" => pdf = c
  /\ ticket # None => pdf = ticket.qr /\ held \subseteq {ticket.qr}
  /\ linked \/ held # {} => ticket # None
  /\ \A c \in Calls : gate[c].verdict \in {"none", "valid"}

LEMMA ActsAlone ==
  ASSUME IInv, OneAtWork, NEW c \in Calls, ServeTicket(c) \/ TicketCallFails(c)
  PROVE  \A d \in Calls \ {c} : ~Running(d) /\ phase'[d] = phase[d]
<1>1. Running(c)
  BY DEF ServeTicket, CheckRegistration, ReadTicket, Generate, PutTicket, CountReissue,
         Revoke, Scan, TicketCallFails, Running
<1>2. PICK next : phase' = [phase EXCEPT ![c] = next]
  BY DEF ServeTicket, CheckRegistration, ReadTicket, AfterRead, Generate, PutTicket,
         CountReissue, Revoke, Scan, TicketCallFails, Go
<1>3. QED
  BY <1>1, <1>2 DEF OneAtWork, IInv, TicketsTypeOK

LEMMA OneAtWorkInvariant == TicketsSpec => [](InTurn => OneAtWork)
<1>1. TicketsInit => OneAtWork
  BY DEF TicketsInit, OneAtWork, Running
<1>2. IInv /\ (InTurn => OneAtWork) /\ [TicketsNext]_ticketVars => (InTurn => OneAtWork)'
  <2> SUFFICES ASSUME IInv, InTurn => OneAtWork, [TicketsNext]_ticketVars, InTurn'
               PROVE  OneAtWork'
    OBVIOUS
  <2>0. InTurn /\ OneAtWork /\ DOMAIN phase = Calls
    BY RegimeKept DEF IInv, TicketsTypeOK, InTurn
  <2>1. CASE UNCHANGED ticketVars
    BY <2>0, <2>1 DEF ticketVars, OneAtWork, Running
  <2>2. CASE RegistrationChanges \/ Download
    BY <2>0, <2>2 DEF RegistrationChanges, Download, OneAtWork, Running
  <2>3. ASSUME NEW c \in Calls, BeginTicketCall(c) PROVE OneAtWork'
    <3>1. \A d \in Calls : ~Running(d)
      BY <2>0, <2>3 DEF BeginTicketCall, InTurn
    <3>2. PICK next \in {"registration", "scan", "ticket"} :
            phase' = [phase EXCEPT ![c] = next]
      BY <2>3 DEF BeginTicketCall, Go, FirstPhase
    <3>3. QED
      BY <2>0, <2>3, <3>1, <3>2 DEF BeginTicketCall, OneAtWork, Running
  <2>4. ASSUME NEW c \in Calls, ServeTicket(c) \/ TicketCallFails(c) PROVE OneAtWork'
    <3>1. ticketPast' = {}
      BY <2>0, <2>4 DEF ServeTicket, CheckRegistration, ReadTicket, Generate, PutTicket,
                        CountReissue, Revoke, Scan, TicketCallFails, Store, OneAtWork, InTurn
    <3>2. QED
      BY <2>0, <2>4, <3>1, ActsAlone DEF OneAtWork, Running
  <2>5. QED
    BY <2>1, <2>2, <2>3, <2>4 DEF TicketsNext
<1>3. QED
  BY <1>1, <1>2, SpecIInv, PTL DEF TicketsSpec

LEMMA OneTicketInvariant == TicketsSpec => [](InTurn => OneTicket)
<1>1. TicketsInit => OneTicket
  <2> SUFFICES ASSUME TicketsInit PROVE OneTicket
    OBVIOUS
  <2>1. \A c \in Calls : phase[c] = "idle" /\ gate[c].verdict = "none"
    BY DEF TicketsInit, NotScanned
  <2>2. ticket # None => pdf = ticket.qr /\ held \subseteq {ticket.qr}
    BY OpeningTicketAssumption DEF TicketsInit
  <2>3. linked \/ held # {} => ticket # None
    BY Zenon DEF TicketsInit
  <2>4. QED
    BY <2>1, <2>2, <2>3 DEF OneTicket
<1>2. /\ IInv /\ (InTurn => OneAtWork) /\ (InTurn => OneTicket) /\ [TicketsNext]_ticketVars
      => (InTurn => OneTicket)'
  <2> SUFFICES ASSUME IInv, InTurn => OneAtWork, InTurn => OneTicket,
                      [TicketsNext]_ticketVars, InTurn'
               PROVE  OneTicket'
    OBVIOUS
  <2>0. /\ InTurn /\ OneAtWork /\ OneTicket
        /\ DOMAIN phase = Calls /\ DOMAIN gate = Calls
    BY RegimeKept DEF IInv, TicketsTypeOK, InTurn
  <2>1. CASE UNCHANGED ticketVars
    BY <2>0, <2>1 DEF ticketVars, OneTicket
  <2>2. CASE RegistrationChanges \/ Download
    BY <2>0, <2>2 DEF RegistrationChanges, Download, OneTicket
  <2>3. ASSUME NEW c \in Calls, BeginTicketCall(c) PROVE OneTicket'
    <3>1. PICK next \in {"registration", "scan", "ticket"} :
            phase' = [phase EXCEPT ![c] = next]
      BY <2>3 DEF BeginTicketCall, Go, FirstPhase
    <3>2. QED
      BY <2>0, <2>3, <3>1 DEF BeginTicketCall, OneTicket
  <2>4. ASSUME NEW c \in Calls, ServeTicket(c) \/ TicketCallFails(c) PROVE OneTicket'
    <3>0. \A d \in Calls \ {c} : phase[d] \in {"idle", "end"} /\ phase'[d] = phase[d]
      BY <2>0, <2>4, ActsAlone DEF Running
    <3>1. CASE CheckRegistration(c) \/ TicketCallFails(c)
      BY <2>0, <3>0, <3>1 DEF CheckRegistration, TicketCallFails, Go, OneTicket
    <3>2. CASE ReadTicket(c)
      <4>1. phase'[c] = AfterRead(kind[c], ticket)
        BY <2>0, <3>2 DEF ReadTicket, Readable, OneAtWork, Go
      <4>2. phase'[c] # "put" /\ (phase'[c] = "generate" => ticket = None)
        BY <4>1 DEF AfterRead
      <4>3. QED
        BY <2>0, <3>0, <3>2, <4>2 DEF ReadTicket, OneTicket
    <3>3. CASE Generate(c)
      BY <2>0, <3>0, <3>3 DEF Generate, Go, OneTicket
    <3>4. CASE PutTicket(c)
      <4>1. ticket = None /\ pdf = c /\ held = {}
        BY <2>0, <3>4 DEF PutTicket, OneTicket
      <4>2. ticket'.qr = pdf' /\ ticket' # None /\ held' = {}
            /\ UNCHANGED gate /\ phase'[c] = "end"
        BY <2>0, <3>4, <4>1, OpeningTicketAssumption DEF PutTicket, Store, Go, Ticket, Payloads
      <4>3. QED
        BY <2>0, <3>0, <4>2 DEF OneTicket
    <3>5. CASE CountReissue(c) \/ Revoke(c)
      <4>1. ticket \in Ticket /\ ticket # None
        BY <3>5 DEF CountReissue, Revoke, IInv, TicketsTypeOK, CallInv
      <4>2. ticket' # None /\ ticket'.qr = ticket.qr
        <5>1. ASSUME NEW n \in Nat
              PROVE  /\ [ticket EXCEPT !.count = n] \in Ticket
                     /\ [ticket EXCEPT !.count = n].qr = ticket.qr
          BY <4>1 DEF Ticket
        <5>2. /\ [ticket EXCEPT !.status = "REVOKED"] \in Ticket
              /\ [ticket EXCEPT !.status = "REVOKED"].qr = ticket.qr
          BY <4>1 DEF Ticket
        <5>3. CountReissue(c) => NewCount(c) \in Nat
          BY <4>1 DEF CountReissue, NewCount, Ticket, IInv, TicketsTypeOK, CallInv
        <5>4. QED
          BY <3>5, <5>1, <5>2, <5>3, OpeningTicketAssumption DEF CountReissue, Revoke, Store
      <4>3. UNCHANGED <<pdf, held, linked, gate>> /\ phase'[c] = "end"
        BY <2>0, <3>5 DEF CountReissue, Revoke, Go
      <4>4. QED
        BY <2>0, <3>0, <4>1, <4>2, <4>3 DEF OneTicket
    <3>6. CASE Scan(c)
      <4>1. PICK p \in held : gate' = [gate EXCEPT ![c] = Answer(ticket, p)]
        BY <2>0, <3>6 DEF Scan, Readable, OneAtWork
      <4>2. Answer(ticket, p).verdict = "valid"
        BY <2>0, <4>1 DEF OneTicket, Answer, ScanVerdict
      <4>3. QED
        BY <2>0, <3>0, <3>6, <4>1, <4>2 DEF Scan, Go, OneTicket
    <3>7. QED
      BY <2>4, <3>1, <3>2, <3>3, <3>4, <3>5, <3>6 DEF ServeTicket
  <2>5. QED
    BY <2>1, <2>2, <2>3, <2>4 DEF TicketsNext
<1>3. QED
  BY <1>1, <1>2, SpecIInv, OneAtWorkInvariant, PTL DEF TicketsSpec

(* Requests in turn leave the PDF of the ticket on record behind the link,  *)
(* wherever they die.                                                       *)
THEOREM PdfIsTheTickets == TicketsSpec => []PdfMatchesTicket
<1>1. (InTurn => OneTicket) => PdfMatchesTicket
  BY DEF OneTicket, PdfMatchesTicket
<1>2. QED
  BY <1>1, OneTicketInvariant, PTL

(* The gate turns no downloaded ticket away that is not revoked, while      *)
(* requests come in turn: no reissue and no recovery signs a new payload.   *)
THEOREM HeldTicketsVerify == TicketsSpec => []GateAcceptsHeld
<1>1. (InTurn => OneTicket) => GateAcceptsHeld
  BY DEF OneTicket, GateAcceptsHeld
<1>2. QED
  BY <1>1, OneTicketInvariant, PTL

(* Requests in turn never bring a revoked ticket back, wherever they die.   *)
THEOREM RevocationIsFinal == TicketsSpec => RevocationSticks
<1>1. IInv /\ (InTurn => OneTicket) /\ [TicketsNext]_ticketVars =>
        [InTurn /\ ticket # None /\ ticket.status = "REVOKED"
           => ticket'.status = "REVOKED"]_ticketVars
  <2> SUFFICES ASSUME IInv, InTurn => OneTicket, TicketsNext, InTurn,
                      ticket # None, ticket.status = "REVOKED"
               PROVE  ticket'.status = "REVOKED"
    BY DEF ticketVars
  <2>1. ticket \in Ticket
    BY DEF IInv, TicketsTypeOK
  <2>2. CASE RegistrationChanges \/ Download
    BY <2>2 DEF RegistrationChanges, Download
  <2>3. ASSUME NEW c \in Calls, BeginTicketCall(c) \/ ServeTicket(c) \/ TicketCallFails(c)
        PROVE  ticket'.status = "REVOKED"
    <3>1. CASE PutTicket(c)
      BY <3>1 DEF PutTicket, OneTicket
    <3>2. CASE CountReissue(c)
      BY <2>1, <3>2 DEF CountReissue, Store, Ticket
    <3>3. CASE Revoke(c)
      BY <2>1, <3>3 DEF Revoke, Store, Ticket
    <3>4. CASE UNCHANGED ticket
      BY <3>4
    <3>5. QED
      BY <2>3, <3>1, <3>2, <3>3, <3>4 DEF BeginTicketCall, ServeTicket,
             CheckRegistration, ReadTicket, Generate, Scan, TicketCallFails
  <2>4. QED
    BY <2>2, <2>3 DEF TicketsNext
<1>2. QED
  BY <1>1, OneTicketInvariant, SpecIInv, PTL DEF TicketsSpec, RevocationSticks

(* Requests in turn keep every PDF good, behind the link and downloaded.    *)
THEOREM TicketsKeepWorking == TicketsSpec => []HeldTicketsWork
BY PdfIsTheTickets, HeldTicketsVerify, PTL DEF HeldTicketsWork
=============================================================================
