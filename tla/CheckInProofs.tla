---------------------------- MODULE CheckInProofs ----------------------------
(***************************************************************************)
(* Proofs about check-in, for every number of desks, requests in flight    *)
(* and registrations, with failing handlers and lagging reads.  The first  *)
(* part is about the store: one check-in per person.  The second is about  *)
(* the page: on a desk that does not use the QR scanner verification is    *)
(* never bypassed, because such a desk never has two requests in flight.   *)
(***************************************************************************)
EXTENDS CheckinConsole, TLAPS

(* Request c has created the CHECKIN item of r and has not answered yet. *)
Holds(c, r) == at[c] \in {"flag", "audit"} /\ job[c].reg = r

(* For each registration, at most one request ever gets past the            *)
(* conditional put, and it reports its check-in at most once.               *)
OnceInv(r) ==
  /\ audits[r] <= fresh[r] /\ fresh[r] <= 1
  /\ fresh[r] > 0 \/ reg[r].flag => r \in checkin
  /\ \A c \in Calls : Holds(c, r) => r \in checkin /\ fresh[r] = 0
  /\ \A c, d \in Calls : Holds(c, r) /\ Holds(d, r) => c = d

StoreShape ==
  /\ DOMAIN at = Calls /\ DOMAIN job = Calls
  /\ reg \in [Registrations -> Items]
  /\ audits \in [Registrations -> Nat] /\ fresh \in [Registrations -> Nat]

CInv == StoreShape /\ \A r \in Registrations : OnceInv(r)

(* A step that leaves the store and its history alone and moves requests    *)
(* only to stages before the conditional put, or out of the handler.        *)
Aside ==
  /\ UNCHANGED <<checkin, reg, audits, fresh>>
  /\ DOMAIN at' = Calls /\ DOMAIN job' = Calls
  /\ \A c \in Calls : \/ at'[c] \notin {"flag", "audit"}
                      \/ at'[c] = at[c] /\ job'[c] = job[c]

LEMMA AsideCInv == CInv /\ Aside => CInv'
<1> SUFFICES ASSUME CInv, Aside PROVE CInv'
  OBVIOUS
<1>1. StoreShape'
  BY DEF CInv, StoreShape, Aside
<1>2. \A c \in Calls, r \in Registrations : Holds(c, r)' => Holds(c, r)
  BY DEF Holds, Aside
<1>3. \A r \in Registrations : OnceInv(r)'
  BY <1>2 DEF CInv, OnceInv, Aside
<1>4. QED
  BY <1>1, <1>3 DEF CInv

---------------------------------------------------------------------------
(* The page. *)

(* A request that is sent starts before the conditional put. *)
LEMMA SendAside ==
  ASSUME StoreShape, NEW c \in Calls, NEW d, NEW kind, NEW r,
         Send(c, d, kind, r), UNCHANGED serverRest
  PROVE  Aside
<1>1. FirstStage(kind) \notin {"flag", "audit"}
  BY DEF FirstStage
<1>2. QED
  BY <1>1 DEF StoreShape, Send, To, Aside, serverRest, store, history

LEMMA PressAside ==
  ASSUME StoreShape, NEW c \in Calls, NEW d \in Devices, Press(c, d)
  PROVE  Aside
<1>1. ASSUME NEW r, NEW lowered, Resolve(c, d, r, lowered) PROVE Send(c, d, "verify", r)
  BY <1>1 DEF Resolve
<1>2. CASE Search(c, d)
  BY <1>2, SendAside DEF Search
<1>3. CASE ScanQr(c, d)
  BY <1>3, SendAside DEF ScanQr
<1>4. CASE Reconcile(c, d)
  BY <1>4, SendAside DEF Reconcile
<1>5. CASE UseScanned(c, d)
  BY <1>1, <1>5, SendAside DEF UseScanned
<1>6. CASE PickCandidate(c, d)
  <2>1. PICK r \in Registrations : Resolve(c, d, r, {})
    BY <1>6 DEF PickCandidate
  <2>2. QED
    BY <1>1, <1>6, <2>1, SendAside DEF PickCandidate
<1>7. CASE VerifyAgain(c, d)
  BY <1>7, SendAside DEF VerifyAgain
<1>8. CASE Complete(c, d)
  BY <1>8, SendAside DEF Complete
<1>9. CASE Recover(c, d)
  BY <1>9, SendAside DEF Recover
<1>10. QED
  BY <1>2, <1>3, <1>4, <1>5, <1>6, <1>7, <1>8, <1>9 DEF Press

LEMMA ReceiveAside ==
  ASSUME StoreShape, NEW c \in Calls, Receive(c)
  PROVE  Aside
<1> DEFINE d == client[c]
<1>1. CASE Advance(c, d)
  <2>1. Send(c, d, "verify", answer[c].reg) /\ UNCHANGED serverRest
    BY <1>1 DEF Advance, Resolve
  <2>2. QED
    BY <2>1, SendAside
<1>2. CASE ~Advance(c, d)
  <2>1. Free(c) /\ UNCHANGED serverRest
    BY <1>2 DEF Receive, ShowOutcome, ShowScan, ShowVerification, ShowCompletion, ShowTicket,
                  ShowFailure
  <2>2. QED
    BY <2>1 DEF Free, To, StoreShape, Aside, serverRest, store, history
<1>3. QED
  BY <1>1, <1>2

---------------------------------------------------------------------------
(* The handlers. *)

(* Steps of a handler that end in an answer and change nothing else. *)
LEMMA RespondAside ==
  ASSUME StoreShape, NEW c \in Calls, NEW response, Respond(c, response),
         UNCHANGED <<checkin, reg, audits, fresh, job>>
  PROVE  Aside
BY DEF StoreShape, Respond, To, Aside

(* A registration that is cancelled or paid keeps its is_checked_in. *)
LEMMA MovesCInv == CInv /\ RegistrationMoves => CInv'
<1> SUFFICES ASSUME CInv, RegistrationMoves PROVE CInv'
  OBVIOUS
<1>1. PICK p \in Registrations : reg' = [reg EXCEPT ![p] = [reg[p] EXCEPT !.passes = ~@]]
  BY DEF RegistrationMoves, Update
<1>2. UNCHANGED <<checkin, at, job, audits, fresh>>
  BY DEF RegistrationMoves, history
<1>3. reg \in [Registrations -> Items]
  BY DEF CInv, StoreShape
<1>4. reg[p].passes \in BOOLEAN /\ reg[p].flag \in BOOLEAN
  BY <1>3 DEF Items
<1>5. /\ reg' \in [Registrations -> Items]
      /\ \A r \in Registrations : reg'[r].flag = reg[r].flag
  BY <1>1, <1>3, <1>4 DEF Items
<1>6. QED
  BY <1>2, <1>5 DEF CInv, StoreShape, OnceInv, Holds

LEMMA PutCheckinCInv ==
  ASSUME CInv, NEW c \in Calls, PutCheckin(c)
  PROVE  CInv'
<1> DEFINE p == job[c].reg
<1>1. /\ at[c] = "complete" /\ checkin' = checkin \cup {p}
      /\ at' = [at EXCEPT ![c] = IF p \in checkin THEN "existing" ELSE "flag"]
      /\ UNCHANGED <<reg, job, answer, audits, fresh>>
  BY DEF PutCheckin, To, history
<1>2. StoreShape'
  BY <1>1 DEF CInv, StoreShape
<1>3. ASSUME NEW r \in Registrations PROVE OnceInv(r)'
  <2>1. \A d \in Calls : Holds(d, r)' => Holds(d, r) \/ (d = c /\ p = r /\ r \notin checkin)
    BY <1>1 DEF Holds, CInv, StoreShape
  <2>2. r \notin checkin => fresh[r] = 0 /\ \A d \in Calls : ~Holds(d, r)
    BY DEF CInv, StoreShape, OnceInv
  <2>3. \A d \in Calls : Holds(d, r)' => r \in checkin' /\ fresh'[r] = 0
    BY <1>1, <2>1, <2>2 DEF CInv, OnceInv
  <2>4. \A d, e \in Calls : Holds(d, r)' /\ Holds(e, r)' => d = e
    BY <1>1, <2>1, <2>2 DEF CInv, OnceInv
  <2>5. QED
    BY <1>1, <2>3, <2>4 DEF CInv, OnceInv
<1>4. QED
  BY <1>2, <1>3 DEF CInv

LEMMA FlagCInv ==
  ASSUME CInv, NEW c \in Calls, SetFlag(c) \/ SkipFlag(c)
  PROVE  CInv'
<1> DEFINE p == job[c].reg
<1>1. /\ at[c] = "flag" /\ at' = [at EXCEPT ![c] = "audit"]
      /\ reg' = reg \/ reg' = [reg EXCEPT ![p] = [reg[p] EXCEPT !.flag = TRUE]]
      /\ UNCHANGED <<checkin, job, audits, fresh>>
  BY DEF SetFlag, SkipFlag, Update, To, store, history
<1>2. StoreShape'
  <2>1. reg \in [Registrations -> Items]
    BY DEF CInv, StoreShape
  <2>2. p \in Registrations => [reg[p] EXCEPT !.flag = TRUE] \in Items
    BY <2>1 DEF Items
  <2>3. reg' \in [Registrations -> Items]
    BY <1>1, <2>1, <2>2
  <2>4. QED
    BY <1>1, <2>3 DEF CInv, StoreShape
<1>3. ASSUME NEW r \in Registrations PROVE OnceInv(r)'
  <2>1. \A d \in Calls : Holds(d, r)' <=> Holds(d, r)
    BY <1>1 DEF Holds, CInv, StoreShape
  <2>2. reg'[r].flag => reg[r].flag \/ Holds(c, r)
    BY <1>1 DEF Holds, CInv, StoreShape, Items
  <2>3. QED
    BY <1>1, <2>1, <2>2 DEF CInv, OnceInv
<1>4. QED
  BY <1>2, <1>3 DEF CInv

LEMMA AuditCInv ==
  ASSUME CInv, NEW c \in Calls, Audit(c)
  PROVE  CInv'
<1> DEFINE p == job[c].reg
<1>1. /\ at[c] = "audit" /\ at' = [at EXCEPT ![c] = "answered"]
      /\ audits' = [audits EXCEPT ![p] = @ + 1] \/ audits' = audits
      /\ fresh' = [fresh EXCEPT ![p] = @ + 1]
      /\ UNCHANGED <<checkin, reg, job>>
  BY DEF Audit, Respond, To, store
<1>2. StoreShape'
  <2>1. ASSUME NEW f \in [Registrations -> Nat]
        PROVE  [f EXCEPT ![p] = @ + 1] \in [Registrations -> Nat]
    <3>1. CASE p \in Registrations
      <4>1. f[p] + 1 \in Nat
        BY <3>1
      <4>2. QED
        BY <4>1
    <3>2. CASE p \notin Registrations
      BY <3>2
    <3>3. QED
      BY <3>1, <3>2
  <2>2. fresh' \in [Registrations -> Nat] /\ audits' \in [Registrations -> Nat]
    <3>1. fresh \in [Registrations -> Nat] /\ audits \in [Registrations -> Nat]
      BY DEF CInv, StoreShape
    <3>2. QED
      BY <1>1, <2>1, <3>1
  <2>3. DOMAIN at' = Calls /\ DOMAIN job' = Calls
    BY <1>1 DEF CInv, StoreShape
  <2>4. QED
    BY <1>1, <2>2, <2>3 DEF CInv, StoreShape
<1>3. ASSUME NEW r \in Registrations PROVE OnceInv(r)'
  <2>1. \A d \in Calls : Holds(d, r)' => Holds(d, r) /\ d # c
    BY <1>1 DEF Holds, CInv, StoreShape
  <2>2. CASE r = p
    <3>1. Holds(c, r)
      BY <1>1, <2>2 DEF Holds
    <3>2. r \in checkin /\ fresh[r] = 0 /\ audits[r] <= fresh[r]
          /\ \A d \in Calls \ {c} : ~Holds(d, r)
      BY <3>1 DEF CInv, OnceInv
    <3>3. fresh'[r] = 1 /\ audits'[r] <= 1
      BY <1>1, <2>2, <3>2 DEF CInv, StoreShape
    <3>4. QED
      BY <1>1, <2>1, <3>2, <3>3 DEF OnceInv
  <2>3. CASE r # p
    <3>1. fresh'[r] = fresh[r] /\ audits'[r] = audits[r]
      BY <1>1, <2>3 DEF CInv, StoreShape
    <3>2. QED
      BY <1>1, <2>1, <3>1 DEF CInv, OnceInv
  <2>4. QED
    BY <2>2, <2>3
<1>4. QED
  BY <1>2, <1>3 DEF CInv

LEMMA ServeCInv ==
  ASSUME CInv, NEW c \in Calls, Serve(c)
  PROVE  CInv'
<1> USE DEF store, history
<1>1. CASE Verify(c)
  <2>1. PICK item : Respond(c, Verdict(job[c].reg, item))
    BY <1>1 DEF Verify
  <2>2. QED
    BY <1>1, <2>1, RespondAside, AsideCInv DEF Verify, CInv
<1>2. CASE ReadExisting(c)
  BY <1>2, RespondAside, AsideCInv DEF ReadExisting, CInv
<1>3. CASE Die(c)
  BY <1>3, RespondAside, AsideCInv DEF Die, CInv
<1>4. QED
  BY <1>1, <1>2, <1>3, PutCheckinCInv, FlagCInv, AuditCInv DEF Serve

---------------------------------------------------------------------------
LEMMA InitCInv == Init => CInv
<1> SUFFICES ASSUME Init PROVE CInv
  OBVIOUS
<1>1. reg \in [Registrations -> Items] /\ \A r \in Registrations : ~reg[r].flag
  BY DEF Init, ServerInit, Items
<1>2. QED
  BY <1>1 DEF Init, ServerInit, CInv, StoreShape, OnceInv, Holds

LEMMA NextCInv == CInv /\ [Next]_vars => CInv'
<1> SUFFICES ASSUME CInv, [Next]_vars PROVE CInv'
  OBVIOUS
<1>1. StoreShape
  BY DEF CInv
<1>2. CASE UNCHANGED vars
  BY <1>1, <1>2, AsideCInv DEF vars, serverVars, store, history, Aside, StoreShape
<1>3. ASSUME NEW c \in Calls, NEW d \in Devices, Press(c, d) PROVE CInv'
  BY <1>1, <1>3, PressAside, AsideCInv
<1>4. ASSUME NEW d \in Devices, StartOver(d) PROVE CInv'
  BY <1>1, <1>4, AsideCInv DEF StartOver, serverVars, store, history, Aside, StoreShape
<1>5. ASSUME NEW c \in Calls, Lookup(c) PROVE CInv'
  <2>1. PICK response : /\ Respond(c, response)
                        /\ UNCHANGED <<checkin, reg, audits, fresh, job>>
    BY <1>5 DEF Lookup, serverRest, store, history
  <2>2. QED
    BY <1>1, <2>1, RespondAside, AsideCInv
<1>6. ASSUME NEW c \in Calls, Handle(c) PROVE CInv'
  BY <1>6, ServeCInv DEF Handle
<1>7. ASSUME NEW c \in Calls, Receive(c) PROVE CInv'
  BY <1>1, <1>7, ReceiveAside, AsideCInv
<1>8. QED
  BY <1>2, <1>3, <1>4, <1>5, <1>6, <1>7, MovesCInv DEF Next, Progress

LEMMA SpecCInv == Spec => []CInv
BY InitCInv, NextCInv, PTL DEF Spec

(* One new check-in and at most one audit entry per person, however many    *)
(* desks complete the same registration (complete_handler's conditional put)*)
THEOREM CompletedOnce == Spec => []CheckedInOnce
<1>1. CInv => CheckedInOnce
  BY DEF CInv, OnceInv, CheckedInOnce
<1>2. QED
  BY <1>1, SpecCInv, PTL

(* is_checked_in on the registration is never ahead of the CHECKIN item.    *)
THEOREM FlagFollowsItem == Spec => []FlagNeedsCheckin
<1>1. CInv => FlagNeedsCheckin
  BY DEF CInv, OnceInv, FlagNeedsCheckin
<1>2. QED
  BY <1>1, SpecCInv, PTL

(* The CHECKIN item decides, however many desks complete at once.           *)
THEOREM CompletionFollowsItem == Spec => []CompletionIsTrue
BY CompletedOnce, FlagFollowsItem, PTL DEF CompletionIsTrue

---------------------------------------------------------------------------
(* The page and its requests. *)

Flying(c) == at[c] # "free"
Completing == {"complete", "existing", "flag", "audit"}
Kinds == {"search", "reconcile", "verify", "complete", "recover"}

Shape ==
  /\ DOMAIN at = Calls /\ DOMAIN job = Calls
  /\ DOMAIN answer = Calls /\ DOMAIN client = Calls
  /\ DOMAIN flags = Devices /\ DOMAIN outcome = Devices /\ DOMAIN resolved = Devices
  /\ DOMAIN verification = Devices /\ DOMAIN completion = Devices
  /\ DOMAIN scanned = Devices /\ DOMAIN failure = Devices

(* An answer fits the request it answers. *)
AnswerFits(c) ==
  LET k == job[c].kind
  IN /\ answer[c].kind = "found" => k \in {"search", "reconcile"} /\ answer[c].reg \in Registrations
     /\ answer[c].kind \in {"candidates", "nothing"} => k \in {"search", "reconcile"}
     /\ answer[c].kind = "candidates" => k = "search"
     /\ answer[c].kind = "verified" =>
          /\ k = "verify" /\ answer[c].reg = job[c].reg
          /\ answer[c].passed => job[c].reg \in vouched
     /\ answer[c].kind = "completed" => k = "complete"
     /\ answer[c].kind = "recovered" => k = "recover"

(* A request in flight is its desk's only business, and is about the person *)
(* on the desk's screen.                                                    *)
RequestInv(c) ==
  LET d == client[c]
      k == job[c].kind
  IN Flying(c) =>
       /\ d \in Devices /\ k \in Kinds /\ flags[d] = {k}
       /\ at[c] \in {"lookup", "verify", "answered"} \cup Completing
       /\ at[c] = "lookup" => k \in {"search", "reconcile", "recover"}
       /\ at[c] = "verify" => k = "verify"
       /\ at[c] \in Completing => k = "complete"
       /\ k \in {"verify", "complete", "recover"} => resolved[d] # None /\ job[c].reg = resolved[d]
       /\ k = "complete" => job[c].reg \in vouched
       /\ at[c] = "answered" => AnswerFits(c)

(* What is on the screen of a desk. *)
DeviceInv(d) ==
  /\ scanned[d] = None
  /\ flags[d] \subseteq Kinds
  /\ "reconcile" \in flags[d] \/ failure[d] = "reconcile" => outcome[d] = "none"
  /\ flags[d] \cap {"verify", "complete", "recover"} # {} => resolved[d] # None
  /\ failure[d] # "none" => flags[d] = {} /\ failure[d] \in Kinds
  /\ failure[d] = "complete" => resolved[d] \in vouched
  /\ completion[d] # None => flags[d] = {} /\ failure[d] = "none"
  /\ verification[d] # None => /\ verification[d].reg = resolved[d]
                               /\ verification[d].passed => resolved[d] \in vouched

OneFlight(c, e) == Flying(c) /\ Flying(e) /\ client[c] = client[e] => c = e

VInv ==
  /\ Shape
  /\ checkin \subseteq vouched
  /\ \A c \in Calls : RequestInv(c)
  /\ \A c, e \in Calls : OneFlight(c, e)
  /\ \A d \in Devices : DeviceInv(d)

---------------------------------------------------------------------------
(* The screen of a device stays as it is. *)
SameScreen(d) ==
  /\ flags'[d] = flags[d] /\ outcome'[d] = outcome[d] /\ resolved'[d] = resolved[d]
  /\ verification'[d] = verification[d] /\ completion'[d] = completion[d]
  /\ scanned'[d] = scanned[d] /\ failure'[d] = failure[d]

SameRequest(c) ==
  at'[c] = at[c] /\ job'[c] = job[c] /\ answer'[c] = answer[c] /\ client'[c] = client[c]

(* A step of one request and its desk keeps the invariant if it keeps their *)
(* own parts of it, and nothing else of the desk is in flight.              *)
LEMMA OneStep ==
  ASSUME VInv, NEW c \in Calls, NEW d \in Devices,
         Shape', checkin' \subseteq vouched', vouched \subseteq vouched',
         RequestInv(c)', DeviceInv(d)',
         Flying(c)' => client'[c] = d,
         \A e \in Calls \ {c} : SameRequest(e) /\ (Flying(e) => client[e] # d),
         \A o \in Devices \ {d} : SameScreen(o)
  PROVE  VInv'
<1>1. ASSUME NEW e \in Calls \ {c} PROVE RequestInv(e)'
  <2>1. CASE ~Flying(e)
    BY <2>1 DEF Flying, RequestInv, SameRequest
  <2>2. CASE Flying(e)
    <3>1. RequestInv(e) /\ client[e] \in Devices \ {d}
      BY <2>2 DEF VInv, RequestInv
    <3>2. SameRequest(e) /\ SameScreen(client[e])
      BY <3>1
    <3>3. QED
      BY <3>1, <3>2 DEF RequestInv, AnswerFits, Flying, SameRequest, SameScreen
  <2>3. QED
    BY <2>1, <2>2
<1>2. ASSUME NEW e \in Calls, NEW f \in Calls PROVE OneFlight(e, f)'
  BY DEF VInv, OneFlight, Flying, SameRequest
<1>3. ASSUME NEW o \in Devices \ {d} PROVE DeviceInv(o)'
  BY DEF VInv, DeviceInv, SameScreen
<1>4. QED
  BY <1>1, <1>2, <1>3 DEF VInv

---------------------------------------------------------------------------
(* Calls that a desk sends while it has none in flight. *)

LEMMA IdleDesk ==
  ASSUME VInv, NEW d \in Devices, flags[d] = {}
  PROVE  \A e \in Calls : Flying(e) => client[e] # d
BY DEF VInv, RequestInv

(* A new request is at the stage its kind starts with. *)
LEMMA Sent ==
  ASSUME Shape, NEW c \in Calls, NEW d \in Devices, NEW kind \in Kinds, NEW r,
         Send(c, d, kind, r)
  PROVE  /\ at'[c] = (IF kind \in {"verify", "complete"} THEN kind ELSE "lookup")
         /\ client'[c] = d /\ job'[c].kind = kind /\ job'[c].reg = r
         /\ failure'[d] = "none"
         /\ \A e \in Calls \ {c} : SameRequest(e)
         /\ \A o \in Devices \ {d} : failure'[o] = failure[o]
         /\ DOMAIN at' = Calls /\ DOMAIN job' = Calls /\ DOMAIN answer' = Calls
         /\ DOMAIN client' = Calls /\ DOMAIN failure' = Devices
BY DEF Shape, Send, To, FirstStage, SameRequest

LEMMA LookupSent ==
  ASSUME VInv, NEW c \in Calls, NEW d \in Devices, NEW kind \in {"search", "reconcile"},
         flags[d] = {}, completion[d] = None, Send(c, d, kind, None), Raise(d, kind),
         UNCHANGED <<serverRest, resolved, verification, completion, scanned>>,
         \/ kind = "search" /\ outcome' = [outcome EXCEPT ![d] = "blank"]
         \/ kind = "reconcile" /\ outcome[d] = "none" /\ outcome' = outcome
  PROVE  VInv'
<1>1. Shape /\ DeviceInv(d)
  BY DEF VInv
<1>2. kind \in Kinds
  BY DEF Kinds
<1>3. /\ at'[c] = "lookup" /\ client'[c] = d /\ job'[c].kind = kind
      /\ failure'[d] = "none"
      /\ \A e \in Calls \ {c} : SameRequest(e)
      /\ \A o \in Devices \ {d} : failure'[o] = failure[o]
      /\ DOMAIN at' = Calls /\ DOMAIN job' = Calls /\ DOMAIN answer' = Calls
      /\ DOMAIN client' = Calls /\ DOMAIN failure' = Devices
  BY <1>1, <1>2, Sent
<1>4. flags'[d] = {kind}
  BY <1>1 DEF Raise, Shape
<1>5. Shape'
  BY <1>1, <1>3 DEF Shape, Raise
<1>6. RequestInv(c)'
  BY <1>2, <1>3, <1>4 DEF RequestInv, Flying, Completing
<1>7. DeviceInv(d)'
  BY <1>1, <1>2, <1>3, <1>4 DEF DeviceInv, Shape, Kinds, serverRest, history
<1>8. \A o \in Devices \ {d} : SameScreen(o)
  BY <1>1, <1>3 DEF SameScreen, Raise, Shape
<1>9. checkin' \subseteq vouched' /\ vouched \subseteq vouched'
  BY DEF VInv, serverRest, store, history
<1>10. QED
  BY <1>3, <1>5, <1>6, <1>7, <1>8, <1>9, OneStep, IdleDesk

(* A person appears on a screen whose desk has nothing (else) in flight. *)
LEMMA Resolved ==
  ASSUME VInv, None \notin Registrations,
         NEW c \in Calls, NEW d \in Devices, NEW r \in Registrations, NEW lowered,
         Resolve(c, d, r, lowered), flags[d] \ lowered = {}, completion[d] = None,
         \A e \in Calls \ {c} : Flying(e) => client[e] # d,
         UNCHANGED <<serverRest, completion, scanned>>
  PROVE  VInv'
<1>1. Shape /\ DeviceInv(d) /\ "verify" \in Kinds /\ r # None
  BY DEF VInv, Kinds
<1>2. Send(c, d, "verify", r)
  BY DEF Resolve
<1>3. /\ at'[c] = "verify" /\ client'[c] = d /\ job'[c].kind = "verify" /\ job'[c].reg = r
      /\ failure'[d] = "none"
      /\ \A e \in Calls \ {c} : SameRequest(e)
      /\ \A o \in Devices \ {d} : failure'[o] = failure[o]
      /\ DOMAIN at' = Calls /\ DOMAIN job' = Calls /\ DOMAIN answer' = Calls
      /\ DOMAIN client' = Calls /\ DOMAIN failure' = Devices
  BY <1>1, <1>2, Sent
<1>4. flags'[d] = {"verify"} /\ resolved'[d] = r /\ verification'[d] = None
  BY <1>1 DEF Resolve, Shape
<1>5. Shape'
  BY <1>1, <1>3 DEF Shape, Resolve
<1>6. RequestInv(c)'
  BY <1>1, <1>3, <1>4 DEF RequestInv, Flying, Completing
<1>7. DeviceInv(d)'
  BY <1>1, <1>3, <1>4 DEF DeviceInv, Shape, Kinds, serverRest, history
<1>8. \A o \in Devices \ {d} : SameScreen(o)
  BY <1>1, <1>3 DEF SameScreen, Resolve, Shape
<1>9. checkin' \subseteq vouched' /\ vouched \subseteq vouched'
  BY DEF VInv, serverRest, store, history
<1>10. QED
  BY <1>3, <1>5, <1>6, <1>7, <1>8, <1>9, OneStep

(* "Try again" for a verification, a completion and a recovery. *)
LEMMA PersonSent ==
  ASSUME VInv, NEW c \in Calls, NEW d \in Devices, NEW kind \in {"verify", "complete", "recover"},
         flags[d] = {}, completion[d] = None, resolved[d] # None,
         kind = "complete" => resolved[d] \in vouched,
         Send(c, d, kind, resolved[d]), Raise(d, kind),
         UNCHANGED <<serverRest, outcome, resolved, verification, completion, scanned>>
  PROVE  VInv'
<1>1. Shape /\ DeviceInv(d) /\ kind \in Kinds
  BY DEF VInv, Kinds
<1>2. /\ at'[c] = (IF kind \in {"verify", "complete"} THEN kind ELSE "lookup")
      /\ client'[c] = d /\ job'[c].kind = kind /\ job'[c].reg = resolved[d]
      /\ failure'[d] = "none"
      /\ \A e \in Calls \ {c} : SameRequest(e)
      /\ \A o \in Devices \ {d} : failure'[o] = failure[o]
      /\ DOMAIN at' = Calls /\ DOMAIN job' = Calls /\ DOMAIN answer' = Calls
      /\ DOMAIN client' = Calls /\ DOMAIN failure' = Devices
  BY <1>1, Sent
<1>3. flags'[d] = {kind}
  BY <1>1 DEF Raise, Shape
<1>4. Shape'
  BY <1>1, <1>2 DEF Shape, Raise
<1>5. RequestInv(c)'
  BY <1>1, <1>2, <1>3 DEF RequestInv, Flying, Completing, serverRest, history
<1>6. DeviceInv(d)'
  BY <1>1, <1>2, <1>3 DEF DeviceInv, Shape, Kinds, serverRest, history
<1>7. \A o \in Devices \ {d} : SameScreen(o)
  BY <1>1, <1>2 DEF SameScreen, Raise, Shape
<1>8. checkin' \subseteq vouched' /\ vouched \subseteq vouched'
  BY DEF VInv, serverRest, store, history
<1>9. QED
  BY <1>2, <1>4, <1>5, <1>6, <1>7, <1>8, OneStep, IdleDesk

LEMMA PressVInv ==
  ASSUME VInv, ~Scanning, None \notin Registrations,
         NEW c \in Calls, NEW d \in Devices, Press(c, d)
  PROVE  VInv'
<1>1. DeviceInv(d) /\ Shape
  BY DEF VInv
<1>2. failure[d] # "none" => flags[d] = {} /\ completion[d] = None
  BY <1>1 DEF DeviceInv
<1>3. CASE Search(c, d)
  <2>1. flags[d] = {} /\ completion[d] = None
    BY <1>2, <1>3 DEF Search, Finding, Busy
  <2>2. QED
    BY <1>3, <2>1, LookupSent DEF Search
<1>4. CASE Reconcile(c, d)
  <2>1. flags[d] = {} /\ completion[d] = None /\ outcome[d] = "none"
    BY <1>1, <1>2, <1>4 DEF Reconcile, Finding, Busy, DeviceInv
  <2>2. QED
    BY <1>4, <2>1, LookupSent DEF Reconcile
<1>5. CASE PickCandidate(c, d)
  <2>1. flags[d] = {} /\ completion[d] = None
    BY <1>1, <1>5 DEF PickCandidate, Finding, DeviceInv, Kinds
  <2>2. PICK r \in Registrations : Resolve(c, d, r, {})
    BY <1>5 DEF PickCandidate
  <2>3. QED
    BY <1>5, <2>1, <2>2, Resolved, IdleDesk DEF PickCandidate
<1>6. CASE VerifyAgain(c, d)
  BY <1>2, <1>6, PersonSent DEF VerifyAgain
<1>7. CASE Complete(c, d)
  <2>1. flags[d] = {} /\ completion[d] = None /\ resolved[d] \in vouched
    BY <1>1, <1>2, <1>7 DEF Complete, Busy, CompletionAvailable, DeviceInv
  <2>2. QED
    BY <1>7, <2>1, PersonSent DEF Complete
<1>8. CASE Recover(c, d)
  <2>1. flags[d] = {} /\ completion[d] = None
    BY <1>2, <1>8 DEF Recover, Busy
  <2>2. QED
    BY <1>8, <2>1, PersonSent DEF Recover
<1>9. ~ScanQr(c, d) /\ ~UseScanned(c, d)
  BY <1>1 DEF ScanQr, UseScanned, DeviceInv, Send, Scanning
<1>10. QED
  BY <1>3, <1>4, <1>5, <1>6, <1>7, <1>8, <1>9 DEF Press

LEMMA StartOverVInv ==
  ASSUME VInv, NEW d \in Devices, StartOver(d)
  PROVE  VInv'
<1>1. Shape /\ DeviceInv(d)
  BY DEF VInv
<1>2. flags[d] = {}
  BY <1>1 DEF StartOver, Busy, DeviceInv
<1>3. Shape' /\ UNCHANGED <<at, job, answer, client, checkin, vouched>>
  BY <1>1 DEF StartOver, Shape, serverVars, store, history
<1>4. \A o \in Devices \ {d} : SameScreen(o)
  BY <1>1 DEF StartOver, SameScreen, Shape
<1>5. ASSUME NEW e \in Calls PROVE RequestInv(e)'
  <2>1. CASE ~Flying(e)
    BY <1>3, <2>1 DEF Flying, RequestInv
  <2>2. CASE Flying(e)
    <3>1. RequestInv(e) /\ client[e] \in Devices \ {d}
      BY <1>2, <2>2, IdleDesk DEF VInv, RequestInv
    <3>2. SameScreen(client[e])
      BY <1>4, <3>1
    <3>3. QED
      BY <1>3, <3>1, <3>2 DEF RequestInv, AnswerFits, Flying, SameScreen
  <2>3. QED
    BY <2>1, <2>2
<1>6. DeviceInv(d)'
  BY <1>1 DEF StartOver, DeviceInv, Shape
<1>7. ASSUME NEW o \in Devices \ {d} PROVE DeviceInv(o)'
  BY <1>3, <1>4 DEF VInv, DeviceInv, SameScreen
<1>8. QED
  BY <1>3, <1>5, <1>6, <1>7 DEF VInv, OneFlight, Flying

---------------------------------------------------------------------------
(* The server. *)

(* A step of the server on one request leaves every screen alone. *)
LEMMA ServerStep ==
  ASSUME VInv, NEW c \in Calls, Flying(c), UNCHANGED pageVars, UNCHANGED job,
         DOMAIN at' = Calls, DOMAIN answer' = Calls,
         \A e \in Calls \ {c} : at'[e] = at[e] /\ answer'[e] = answer[e],
         checkin' \subseteq vouched', vouched \subseteq vouched', RequestInv(c)'
  PROVE  VInv'
<1>0. PICK d \in Devices : client[c] = d
  BY DEF VInv, RequestInv
<1>1. Shape /\ DeviceInv(d)
  BY DEF VInv
<1>2. Shape' /\ DeviceInv(d)'
  BY <1>1 DEF Shape, DeviceInv, pageVars
<1>3. \A e \in Calls \ {c} : SameRequest(e) /\ (Flying(e) => client[e] # d)
  BY <1>0 DEF SameRequest, VInv, OneFlight, pageVars
<1>4. \A o \in Devices : SameScreen(o)
  BY DEF SameScreen, pageVars
<1>5. Flying(c)' => client'[c] = d
  BY <1>0 DEF pageVars
<1>6. QED
  BY <1>1, <1>2, <1>3, <1>4, <1>5, OneStep

LEMMA Answering ==
  ASSUME VInv, NEW c \in Calls, Flying(c), NEW response, Respond(c, response),
         UNCHANGED pageVars, UNCHANGED job, checkin' = checkin, vouched \subseteq vouched',
         AnswerFits(c)'
  PROVE  VInv'
<1>1. Shape /\ RequestInv(c)
  BY DEF VInv
<1>2. at' = [at EXCEPT ![c] = "answered"] /\ answer' = [answer EXCEPT ![c] = response]
  BY DEF Respond, To
<1>3. at'[c] = "answered"
  BY <1>1, <1>2 DEF Shape
<1>4. RequestInv(c)'
  BY <1>1, <1>3 DEF RequestInv, Flying, Completing, pageVars
<1>5. QED
  BY <1>1, <1>2, <1>4, ServerStep DEF Shape, VInv

LEMMA LookupVInv ==
  ASSUME VInv, NEW c \in Calls, Lookup(c)
  PROVE  VInv'
<1>1. Shape /\ RequestInv(c) /\ Flying(c) /\ job[c].kind \in {"search", "reconcile", "recover"}
  BY DEF VInv, RequestInv, Lookup, Flying
<1>2. PICK response \in LookupAnswers(job[c].kind) : Respond(c, response)
  BY DEF Lookup
<1>3. answer'[c] = response /\ job' = job /\ checkin' = checkin /\ vouched \subseteq vouched'
  BY <1>1, <1>2 DEF Respond, Shape, Lookup, serverRest, store, history
<1>4. /\ response.kind \in {"found", "candidates", "nothing", "recovered"}
      /\ response.kind = "found" =>
           response.reg \in Registrations /\ job[c].kind \in {"search", "reconcile"}
      /\ response.kind = "candidates" => job[c].kind = "search"
      /\ response.kind = "nothing" => job[c].kind \in {"search", "reconcile"}
      /\ response.kind = "recovered" => job[c].kind = "recover"
  BY <1>1, <1>2 DEF LookupAnswers, Found, Otherwise
<1>5. AnswerFits(c)'
  BY <1>1, <1>3, <1>4 DEF AnswerFits
<1>6. QED
  BY <1>1, <1>2, <1>3, <1>5, Answering DEF Lookup

LEMMA HandleVInv ==
  ASSUME VInv, NEW c \in Calls, Handle(c)
  PROVE  VInv'
<1> DEFINE r == job[c].reg
<1>1. Shape /\ RequestInv(c) /\ Serve(c) /\ UNCHANGED pageVars
  BY DEF VInv, Handle
<1>2. CASE Verify(c)
  <2>1. Flying(c) /\ job[c].kind = "verify"
    BY <1>1, <1>2 DEF Verify, RequestInv, Flying
  <2>2. PICK item : /\ Respond(c, Verdict(r, item))
                    /\ vouched' = IF item.passes THEN vouched \cup {r} ELSE vouched
    BY <1>2 DEF Verify
  <2>3. /\ answer'[c] = Verdict(r, item)
       /\ job' = job /\ checkin' = checkin /\ vouched \subseteq vouched'
    BY <1>1, <1>2, <2>2 DEF Verify, Respond, Shape, store
  <2>4. /\ answer'[c].kind = "verified" /\ answer'[c].reg = r
        /\ answer'[c].passed => r \in vouched'
    BY <2>2, <2>3 DEF Verdict
  <2>5. AnswerFits(c)'
    BY <2>1, <2>3, <2>4 DEF AnswerFits
  <2>6. QED
    BY <1>1, <2>1, <2>2, <2>3, <2>5, Answering
<1>3. CASE Audit(c) \/ ReadExisting(c)
  <2>1. Flying(c) /\ job[c].kind = "complete"
    BY <1>1, <1>3 DEF Audit, ReadExisting, RequestInv, Flying, Completing
  <2>2. PICK already \in BOOLEAN : Respond(c, Completed(r, already))
    BY <1>3 DEF Audit, ReadExisting
  <2>3. /\ answer'[c] = Completed(r, already)
       /\ job' = job /\ checkin' = checkin /\ vouched \subseteq vouched'
    BY <1>1, <1>3, <2>2 DEF Audit, ReadExisting, Respond, Shape, store, history
  <2>4. AnswerFits(c)'
    BY <2>1, <2>3 DEF AnswerFits, Completed
  <2>5. QED
    BY <1>1, <2>1, <2>2, <2>3, <2>4, Answering
<1>4. CASE Die(c)
  <2>1. /\ Flying(c) /\ Respond(c, Error(r))
       /\ job' = job /\ checkin' = checkin /\ vouched \subseteq vouched'
    BY <1>4 DEF Die, InServer, Flying, store, history
  <2>2. AnswerFits(c)'
    BY <1>1, <2>1 DEF AnswerFits, Error, Respond, Shape
  <2>3. QED
    BY <1>1, <2>1, <2>2, Answering
<1>5. CASE PutCheckin(c) \/ SetFlag(c) \/ SkipFlag(c)
  <2>1. at[c] \in {"complete", "flag"} /\ Flying(c) /\ job[c].kind = "complete" /\ r \in vouched
    BY <1>1, <1>5 DEF PutCheckin, SetFlag, SkipFlag, RequestInv, Flying, Completing
  <2>2. /\ UNCHANGED <<job, answer, vouched>>
        /\ checkin' \subseteq checkin \cup {r}
        /\ \E next \in {"existing", "flag", "audit"} : at' = [at EXCEPT ![c] = next]
    BY <1>5 DEF PutCheckin, SetFlag, SkipFlag, To, store, history
  <2>3. /\ at'[c] \in {"existing", "flag", "audit"} /\ DOMAIN at' = Calls
        /\ \A e \in Calls \ {c} : at'[e] = at[e]
    BY <1>1, <2>2 DEF Shape
  <2>4. RequestInv(c)'
    BY <1>1, <2>1, <2>2, <2>3 DEF RequestInv, Flying, Completing, pageVars
  <2>5. checkin' \subseteq vouched' /\ vouched \subseteq vouched'
    BY <2>1, <2>2 DEF VInv
  <2>6. QED
    BY <1>1, <2>1, <2>2, <2>3, <2>4, <2>5, ServerStep DEF Shape
<1>6. QED
  BY <1>1, <1>2, <1>3, <1>4, <1>5 DEF Serve

---------------------------------------------------------------------------
(* Responses. *)

(* A callback that ends its request; what it does to its own screen is left *)
(* to the caller.                                                           *)
LEMMA Ending ==
  ASSUME VInv, NEW c \in Calls, Flying(c), Free(c), UNCHANGED serverRest,
         NEW d \in Devices, client[c] = d,
         DOMAIN flags' = Devices, DOMAIN outcome' = Devices, DOMAIN resolved' = Devices,
         DOMAIN verification' = Devices, DOMAIN completion' = Devices,
         DOMAIN scanned' = Devices, DOMAIN failure' = Devices,
         \A o \in Devices \ {d} : SameScreen(o), DeviceInv(d)'
  PROVE  VInv'
<1>1. Shape
  BY DEF VInv
<1>2. Shape' /\ ~Flying(c)' /\ \A e \in Calls \ {c} : SameRequest(e)
  BY <1>1 DEF Shape, Free, To, Flying, SameRequest
<1>3. \A e \in Calls \ {c} : Flying(e) => client[e] # d
  BY DEF VInv, OneFlight
<1>4. RequestInv(c)'
  BY <1>2 DEF RequestInv
<1>5. checkin' \subseteq vouched' /\ vouched \subseteq vouched'
  BY DEF VInv, serverRest, store, history
<1>6. QED
  BY <1>1, <1>2, <1>3, <1>4, <1>5, OneStep

LEMMA ReceiveVInv ==
  ASSUME VInv, None \notin Registrations, NEW c \in Calls, Receive(c)
  PROVE  VInv'
<1> DEFINE k == job[c].kind
<1>0. PICK d \in Devices : client[c] = d
  BY DEF VInv, Receive, Flying, RequestInv
<1>1. /\ Shape /\ Flying(c) /\ at[c] = "answered" /\ RequestInv(c)
      /\ DeviceInv(d) /\ flags[d] = {k} /\ k \in Kinds
      /\ failure[d] = "none" /\ completion[d] = None
  BY <1>0 DEF VInv, Receive, Flying, RequestInv, DeviceInv
<1>2. AnswerFits(c)
  BY <1>0, <1>1 DEF RequestInv
<1>3. CASE Advance(c, d)
  <2>1. Resolve(c, d, answer[c].reg, {k}) /\ UNCHANGED <<serverRest, completion, scanned>>
    BY <1>3 DEF Advance
  <2>2. answer[c].reg \in Registrations
    BY <1>2, <1>3 DEF Advance, AnswerFits
  <2>3. \A e \in Calls \ {c} : Flying(e) => client[e] # d
    BY <1>0, <1>1 DEF VInv, OneFlight
  <2>4. QED
    BY <1>0, <1>1, <2>1, <2>2, <2>3, Resolved
<1>4. CASE ShowOutcome(c, d)
  <2>1. flags' = [flags EXCEPT ![d] = @ \ {k}] /\ Free(c)
        /\ UNCHANGED <<serverRest, resolved, verification, completion, scanned, failure>>
        /\ \E shown : outcome' = [outcome EXCEPT ![d] = shown] \/ outcome' = outcome
    BY <1>4 DEF ShowOutcome, Lower
  <2>2. flags'[d] = {}
    BY <1>0, <1>1, <2>1 DEF Shape
  <2>3. DeviceInv(d)'
    BY <1>0, <1>1, <2>1, <2>2 DEF DeviceInv, Kinds, serverRest, history
  <2>4. QED
    BY <1>0, <1>1, <2>1, <2>3, Ending DEF Shape, SameScreen
<1>5. CASE ShowVerification(c, d)
  <2>1. flags' = [flags EXCEPT ![d] = @ \ {k}] /\ Free(c) /\ k = "verify"
        /\ UNCHANGED <<serverRest, outcome, resolved, completion, scanned, failure>>
        /\ verification' = [verification EXCEPT ![d] = answer[c]]
    BY <1>2, <1>5 DEF ShowVerification, Lower, Shown, AnswerFits
  <2>2. flags'[d] = {} /\ verification'[d] = answer[c]
    BY <1>0, <1>1, <2>1 DEF Shape
  <2>3. /\ answer[c].reg = resolved[d]
        /\ answer[c].passed => resolved[d] \in vouched
    BY <1>0, <1>1, <1>2, <1>5, <2>1 DEF RequestInv, AnswerFits, ShowVerification
  <2>4. DeviceInv(d)'
    BY <1>0, <1>1, <2>1, <2>2, <2>3 DEF DeviceInv, serverRest, history
  <2>5. QED
    BY <1>0, <1>1, <2>1, <2>4, Ending DEF Shape, SameScreen
<1>6. CASE ShowCompletion(c, d)
  <2>1. flags' = [flags EXCEPT ![d] = @ \ {k}] /\ Free(c) /\ k = "complete"
        /\ UNCHANGED <<serverRest, outcome, resolved, verification, scanned, failure>>
        /\ completion' = [completion EXCEPT ![d] = answer[c]]
    BY <1>2, <1>6 DEF ShowCompletion, Lower, AnswerFits
  <2>2. flags'[d] = {}
    BY <1>0, <1>1, <2>1 DEF Shape
  <2>3. DeviceInv(d)'
    BY <1>0, <1>1, <2>1, <2>2 DEF DeviceInv, serverRest, history
  <2>4. QED
    BY <1>0, <1>1, <2>1, <2>3, Ending DEF Shape, SameScreen
<1>7. CASE ShowFailure(c, d)
  <2>1. flags' = [flags EXCEPT ![d] = @ \ {k}] /\ Free(c)
        /\ UNCHANGED <<serverRest, outcome, resolved, verification, completion, scanned>>
        /\ failure' = [failure EXCEPT ![d] = k]
    BY <1>7 DEF ShowFailure, Lower
  <2>2. flags'[d] = {} /\ failure'[d] = k
    BY <1>0, <1>1, <2>1 DEF Shape
  <2>3. k = "complete" => resolved[d] \in vouched
    BY <1>0, <1>1 DEF RequestInv
  <2>4. k = "reconcile" => outcome[d] = "none"
    BY <1>0, <1>1 DEF DeviceInv, serverRest, history
  <2>5. DeviceInv(d)'
    BY <1>0, <1>1, <2>1, <2>2, <2>3, <2>4 DEF DeviceInv, serverRest, history
  <2>6. QED
    BY <1>0, <1>1, <2>1, <2>5, Ending DEF Shape, SameScreen
<1>8. CASE ShowTicket(c, d)
  <2>1. flags' = [flags EXCEPT ![d] = @ \ {k}] /\ Free(c) /\ k = "recover"
        /\ UNCHANGED <<serverRest, outcome, resolved, verification, completion, scanned, failure>>
    BY <1>2, <1>8 DEF ShowTicket, Lower, AnswerFits
  <2>2. flags'[d] = {}
    BY <1>0, <1>1, <2>1 DEF Shape
  <2>3. DeviceInv(d)'
    BY <1>0, <1>1, <2>1, <2>2 DEF DeviceInv, serverRest, history
  <2>4. QED
    BY <1>0, <1>1, <2>1, <2>3, Ending DEF Shape, SameScreen
<1>9. ~ShowScan(c, d)
  BY <1>0, <1>1 DEF ShowScan, Kinds
<1>10. QED
  BY <1>0, <1>3, <1>4, <1>5, <1>6, <1>7, <1>8, <1>9 DEF Receive

---------------------------------------------------------------------------
LEMMA InitVInv == Init => VInv
BY DEF Init, ServerInit, VInv, Shape, RequestInv, DeviceInv, OneFlight, Flying, Kinds

LEMMA NextVInv ==
  ASSUME ~Scanning, None \notin Registrations
  PROVE  VInv /\ [Next]_vars => VInv'
<1> SUFFICES ASSUME VInv, [Next]_vars PROVE VInv'
  OBVIOUS
<1>1. CASE UNCHANGED vars
  BY <1>1 DEF vars, serverVars, store, history, pageVars, VInv, Shape, RequestInv, AnswerFits,
              DeviceInv, OneFlight, Flying
<1>2. ASSUME NEW c \in Calls, NEW d \in Devices, Press(c, d) PROVE VInv'
  BY <1>2, PressVInv
<1>3. ASSUME NEW d \in Devices, StartOver(d) PROVE VInv'
  BY <1>3, StartOverVInv
<1>4. ASSUME NEW c \in Calls, Progress(c) PROVE VInv'
  BY <1>4, LookupVInv, HandleVInv, ReceiveVInv DEF Progress
<1>5. CASE RegistrationMoves /\ UNCHANGED pageVars
  BY <1>5 DEF RegistrationMoves, history, pageVars, VInv, Shape, RequestInv, AnswerFits,
              DeviceInv, OneFlight, Flying
<1>6. QED
  BY <1>1, <1>2, <1>3, <1>4, <1>5 DEF Next

LEMMA RegimeStays == [Next]_vars => regime' = regime
<1> SUFFICES ASSUME Next PROVE regime' = regime
  BY DEF vars, serverVars
<1>1. ASSUME NEW c \in Calls, NEW d \in Devices, Press(c, d) PROVE regime' = regime
  BY <1>1 DEF Press, Search, ScanQr, Reconcile, UseScanned, PickCandidate, VerifyAgain,
              Complete, Recover, serverRest
<1>2. ASSUME NEW c \in Calls, Progress(c) PROVE regime' = regime
  <2>1. CASE Handle(c)
    BY <2>1 DEF Handle, Serve, Verify, PutCheckin, SetFlag, SkipFlag, Audit, ReadExisting, Die
  <2>2. CASE Lookup(c) \/ Receive(c)
    BY <2>2 DEF Lookup, Receive, Advance, ShowOutcome, ShowScan, ShowVerification,
                ShowCompletion, ShowTicket, ShowFailure, serverRest
  <2>3. QED
    BY <1>2, <2>1, <2>2 DEF Progress
<1>3. QED
  BY <1>1, <1>2 DEF Next, StartOver, RegistrationMoves, serverVars

LEMMA SpecVInv ==
  ASSUME None \notin Registrations
  PROVE  Spec => [](~Scanning => VInv)
<1>1. (~Scanning => VInv) /\ [Next]_vars => (~Scanning => VInv)'
  BY NextVInv, RegimeStays DEF Scanning
<1>2. QED
  BY <1>1, InitVInv, PTL DEF Spec

(* Nobody is checked in whose registration no verification found to pass,   *)
(* and the verdict a desk shows is about the person it shows: the verdict   *)
(* decides who enters, on every desk that does not use the scanner, though  *)
(* complete_handler checks nothing itself and records may change meanwhile. *)
THEOREM VerdictsDecide ==
  ASSUME None \notin Registrations
  PROVE  Spec => []VerdictDecides
<1>1. (~Scanning => VInv) => VerdictDecides
  BY DEF VInv, DeviceInv, VerdictMatchesPerson, OnlyVerifiedAdmitted, VerdictDecides
<1>2. QED
  BY <1>1, SpecVInv, PTL
=============================================================================
