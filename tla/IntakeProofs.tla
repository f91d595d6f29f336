---------------------------- MODULE IntakeProofs ----------------------------
(***************************************************************************)
(* The head of the intake graphs, for every number of vcrun invocations,   *)
(* argument sets and names.                                                *)
(*                                                                         *)
(* No table loses what it has (Grows), so what an invocation carries from  *)
(* one helper to the next is still in the table when it is used            *)
(* (ClaimHeld, CompanyHeld, LeadHeld); what company-resolve-create read    *)
(* under its two locks is still true when it writes (TurnHeld,             *)
(* DomainHeld); and invocations of one request that found a lead found the *)
(* same one (Agreement), which is why workflow-start cannot refuse them.   *)
(***************************************************************************)
EXTENDS Intake, WellFoundedInduction, TLAPS

Row == [at : Between \cup Resolving \cup Over,
        ask : Asks \cup {None}, company : Domains \cup {None},
        lead : Keys \cup {None}, hits : SUBSET Domains,
        names : SUBSET Domains]

Ask(c) == client[c].ask
Its(c) == Request(client[c].ask)

InTransaction(c) == client[c].at \in Resolving
HasDomain(c) == client[c].at \in {"naming", "deciding"}
HasCompany(c) == client[c].at \in {"lead", "start"}

AskHeld(c) == client[c].at \notin Over => Ask(c) \in Asks

ClaimHeld(c) ==
  client[c].at = "resolve" \/ InTransaction(c) \/ HasCompany(c)
    => claims[Its(c)] = Claimed(Ask(c))

TurnHeld(c) == InTransaction(c) => resolved[Its(c)].outcome = "none"

DomainHeld(c) ==
  HasDomain(c) =>
    IF client[c].hits = {}
    THEN Known(Ask(c).domain) => companies[Ask(c).domain].by = "operator"
    ELSE client[c].hits = {Ask(c).domain} /\ Known(Ask(c).domain)

Made == {"existing", "created"}

CompanyHeld(c) ==
  HasCompany(c) => /\ client[c].company \in Domains
                   /\ resolved[Its(c)].outcome \in Made
                   /\ resolved[Its(c)].company = client[c].company

(* A lead is found by its key or by its provider event.                    *)
LeadHeld(c) ==
  client[c].at = "start" =>
    /\ client[c].lead \in Keys
    /\ leads[client[c].lead] = LeadRow(Ask(c), client[c].company)
    /\ client[c].lead = Ask(c).key \/ Ask(c).event # None

Held(c) ==
  /\ AskHeld(c) /\ ClaimHeld(c) /\ TurnHeld(c) /\ DomainHeld(c)
  /\ CompanyHeld(c) /\ LeadHeld(c)

Exclusive ==
  \A b, c \in Clients : b # c =>
    /\ InTransaction(b) /\ InTransaction(c) => Its(b) # Its(c)
    /\ HasDomain(b) /\ HasDomain(c) => Ask(b).domain # Ask(c).domain

Agreement ==
  \A c \in Clients : client[c].at = "start" =>
    /\ \A b \in Clients : client[b].at = "start" /\ Its(b) = Its(c)
                            => client[b].lead = client[c].lead
    /\ runs[Its(c)] # None => runs[Its(c)].lead = client[c].lead

DecisionsName ==
  \A r \in Requests :
    IF resolved[r].outcome \in Made
    THEN resolved[r].company \in Domains /\ Known(resolved[r].company)
    ELSE resolved[r].company = None

RunsCite ==
  \A r \in Requests : runs[r] # None =>
    /\ runs[r].ask \in Asks /\ Request(runs[r].ask) = r
    /\ runs[r].lead \in Keys /\ runs[r].company \in Domains
    /\ runs[r].lead = runs[r].ask.key \/ runs[r].ask.event # None

IInv ==
  /\ TypeOK
  /\ \A c \in Clients : Held(c)
  /\ Exclusive /\ Agreement
  /\ DecisionsName /\ RunsCite
  /\ LeadsFollowDecisions /\ RunsFollowDecisions

Grows ==
  /\ \A r \in Requests :
       /\ claims[r] # None => claims'[r] = claims[r]
       /\ resolved[r].outcome # "none" => resolved'[r] = resolved[r]
       /\ runs[r] # None => runs'[r] = runs[r]
  /\ \A k \in Keys : leads[k] # None => leads'[k] = leads[k]
  /\ \A d \in Domains : Known(d) => companies'[d] = companies[d]

-----------------------------------------------------------------------------
LEMMA AskFields ==
  ASSUME NEW a \in Asks
  PROVE  /\ a.key \in Keys /\ a.domain \in Domains /\ a.name \in Names
         /\ Request(a) \in Requests /\ Request(a) = <<a.flow, a.key>>
         /\ a # None /\ a.domain # None /\ a.key # None
BY IntakeAssumption DEF Keys, Domains, Requests, Request

LEMMA NamesAreNotNone == \A n \in Names : n # None
BY IntakeAssumption

LEMMA NoneIsNoDomain == None \notin Domains /\ None \notin Keys
BY IntakeAssumption DEF Domains, Keys

(* What a lead, a request and a claim say of the arguments is all of them. *)
LEMMA AsksAreDetermined ==
  ASSUME NEW a \in Asks, NEW b \in Asks, NEW d, NEW e,
         Request(a) = Request(b), Claimed(a) = Claimed(b),
         LeadRow(a, d) = LeadRow(b, e)
  PROVE  a = b
<1>1. a.flow = b.flow /\ a.key = b.key
  BY DEF Request
<1>2. a.name = b.name /\ a.domain = b.domain /\ a.event = b.event
  BY DEF Claimed
<1>3. a.origin = b.origin
  BY DEF LeadRow
<1>4. /\ a = [flow |-> a.flow, key |-> a.key, name |-> a.name,
              domain |-> a.domain, event |-> a.event, origin |-> a.origin]
      /\ b = [flow |-> b.flow, key |-> b.key, name |-> b.name,
              domain |-> b.domain, event |-> b.event, origin |-> b.origin]
  BY IntakeAssumption
<1> QED BY <1>1, <1>2, <1>3, <1>4

LEMMA KnownIsNamed ==
  ASSUME TypeOK, NEW d \in Domains
  PROVE  Known(d) <=> companies[d].by # "nobody" \/ companies[d].name # None
<1>1. companies[d] = [name |-> companies[d].name, by |-> companies[d].by]
  BY DEF TypeOK
<1> QED BY <1>1 DEF Known, NoCompany

LEMMA RowFields ==
  ASSUME TypeOK, NEW c \in Clients
  PROVE  /\ client[c] \in Row /\ client[c].ask \in Asks \cup {None}
         /\ client[c].at \in Between \cup Resolving \cup Over
         /\ client[c].company \in Domains \cup {None}
         /\ client[c].lead \in Keys \cup {None}
         /\ client[c].hits \in SUBSET Domains
BY DEF TypeOK, Row

LEMMA UndecidedHasNone ==
  ASSUME IInv, NEW r \in Requests, resolved[r].company # None
  PROVE  resolved[r].outcome \in Made /\ resolved[r].outcome # "none"
BY DEF IInv, DecisionsName, Made

LEMMA InitIInv == Init => IInv
<1> SUFFICES ASSUME Init PROVE IInv
  OBVIOUS
<1>1. \A c \in Clients : /\ client[c] \in Row /\ client[c].at = "idle"
                         /\ client[c].ask = None
  BY DEF Init, ClientAt, Row, Over
<1>2. TypeOK
  BY <1>1 DEF Init, TypeOK, NoCompany, Decision, Row
<1>3. \A c \in Clients : Held(c)
  BY <1>1 DEF Held, AskHeld, ClaimHeld, TurnHeld, DomainHeld, CompanyHeld,
              LeadHeld, InTransaction, HasDomain, HasCompany, Over, Resolving
<1>4. Exclusive /\ Agreement
  BY <1>1 DEF Exclusive, Agreement, InTransaction, HasDomain, Resolving
<1>5. DecisionsName /\ RunsCite /\ LeadsFollowDecisions /\ RunsFollowDecisions
  BY DEF Init, Decision, DecisionsName, RunsCite, LeadsFollowDecisions,
         RunsFollowDecisions, Made
<1> QED BY <1>2, <1>3, <1>4, <1>5 DEF IInv

-----------------------------------------------------------------------------
(* An invocation that does not step keeps what it holds, if its request is *)
(* not resolved by another and no other resolver takes its domain.         *)
LEMMA OthersHold ==
  ASSUME IInv, Grows, NEW b \in Clients, client'[b] = client[b],
         InTransaction(b) => resolved'[Its(b)] = resolved[Its(b)],
         HasDomain(b) => \/ companies'[Ask(b).domain] = companies[Ask(b).domain]
                         \/ companies'[Ask(b).domain].by = "operator"
  PROVE  Held(b)'
<1>1. Held(b) /\ TypeOK
  BY DEF IInv
<1>2. AskHeld(b)'
  BY <1>1 DEF Held, AskHeld, Ask
<1>3. ClaimHeld(b)'
  <2> SUFFICES ASSUME client[b].at = "resolve" \/ InTransaction(b) \/ HasCompany(b)
               PROVE  claims'[Its(b)] = Claimed(Ask(b))
    BY DEF ClaimHeld, InTransaction, HasCompany, Its, Ask
  <2>1. Its(b) \in Requests /\ claims[Its(b)] = Claimed(Ask(b)) /\ Ask(b) \in Asks
    BY <1>1, AskFields DEF Held, AskHeld, ClaimHeld, InTransaction, HasCompany,
                           Resolving, Over, Its, Ask
  <2>2. Claimed(Ask(b)) # None
    <3>1. PICK a \in Asks : a = Ask(b)
      BY <2>1
    <3>2. a.domain \in Domains /\ a.key \in Keys
      BY AskFields
    <3> QED BY <3>1, <3>2, RowsAreNotNone
  <2> QED BY <2>1, <2>2 DEF Grows
<1>4. TurnHeld(b)'
  BY <1>1 DEF Held, TurnHeld, InTransaction, Its
<1>5. DomainHeld(b)'
  <2> SUFFICES ASSUME HasDomain(b)
               PROVE  DomainHeld(b)'
    BY DEF DomainHeld, HasDomain
  <2>1. Ask(b).domain \in Domains
    BY <1>1, AskFields DEF Held, AskHeld, HasDomain, Over, Ask
  <2>2. Known(Ask(b).domain) => companies'[Ask(b).domain] = companies[Ask(b).domain]
    BY <2>1 DEF Grows
  <2> QED BY <1>1, <2>2 DEF Held, DomainHeld, HasDomain, Ask, Known
<1>6. CompanyHeld(b)'
  <2> SUFFICES ASSUME HasCompany(b)
               PROVE  CompanyHeld(b)'
    BY DEF CompanyHeld, HasCompany
  <2>1. Its(b) \in Requests
    BY <1>1, AskFields DEF Held, AskHeld, HasCompany, Over, Ask, Its
  <2> QED BY <1>1, <2>1 DEF Held, CompanyHeld, HasCompany, Its, Made, Grows
<1>7. LeadHeld(b)'
  <2> SUFFICES ASSUME client[b].at = "start"
               PROVE  LeadHeld(b)'
    BY DEF LeadHeld
  <2>1. LeadHeld(b) /\ CompanyHeld(b) /\ AskHeld(b)
    BY <1>1 DEF Held
  <2>2. /\ client[b].lead \in Keys /\ client[b].company \in Domains
        /\ Ask(b) \in Asks
        /\ leads[client[b].lead] = LeadRow(Ask(b), client[b].company)
    BY <2>1 DEF LeadHeld, CompanyHeld, HasCompany, AskHeld, Over
  <2>3. leads[client[b].lead] # None
    BY <2>2, RowsAreNotNone
  <2>4. leads'[client[b].lead] = leads[client[b].lead]
    BY <2>2, <2>3 DEF Grows
  <2> QED BY <2>1, <2>2, <2>4 DEF LeadHeld, Ask
<1> QED BY <1>2, <1>3, <1>4, <1>5, <1>6, <1>7 DEF Held

(* The invocation c moves, and a lock it comes to hold is free.            *)
Moves(c) == \A b \in Clients \ {c} : client'[b] = client[b]

Takes(c) ==
  /\ InTransaction(c)' =>
       \A b \in Clients \ {c} : InTransaction(b) => Its(b) # Its(c)'
  /\ HasDomain(c)' =>
       \A b \in Clients \ {c} : HasDomain(b) => Ask(b).domain # Ask(c).domain'

(* A lock that c keeps was taken by nobody else.                           *)
LEMMA KeepsLocks ==
  ASSUME IInv, NEW c \in Clients, Ask(c)' = Ask(c),
         InTransaction(c)' => InTransaction(c),
         HasDomain(c)' => HasDomain(c)
  PROVE  Takes(c)
BY DEF IInv, Exclusive, Takes, Its, Ask

LEMMA ReleasesLocks ==
  ASSUME NEW c \in Clients, client'[c].at \notin Resolving
  PROVE  Takes(c)
BY DEF Takes, InTransaction, HasDomain, Resolving

LEMMA MoveExcludes ==
  ASSUME IInv, NEW c \in Clients, Moves(c), Takes(c)
  PROVE  Exclusive'
<1>1. \A b \in Clients \ {c} : /\ InTransaction(b)' = InTransaction(b)
                               /\ HasDomain(b)' = HasDomain(b)
                               /\ Its(b)' = Its(b) /\ Ask(b)' = Ask(b)
  BY DEF Moves, InTransaction, HasDomain, Its, Ask
<1>2. SUFFICES ASSUME NEW b \in Clients, NEW d \in Clients, b # d
               PROVE  /\ InTransaction(b)' /\ InTransaction(d)' => Its(b)' # Its(d)'
                      /\ HasDomain(b)' /\ HasDomain(d)'
                           => Ask(b).domain' # Ask(d).domain'
  BY DEF Exclusive
<1>3. CASE b # c /\ d # c
  BY <1>1, <1>2, <1>3 DEF IInv, Exclusive
<1>4. CASE b = c
  BY <1>1, <1>2, <1>4 DEF Takes
<1>5. CASE d = c
  BY <1>1, <1>2, <1>5 DEF Takes
<1> QED BY <1>3, <1>4, <1>5

(* What is said of the tables survives what leaves its own table alone.    *)
LEMMA TablesFollow ==
  ASSUME IInv, Grows
  PROVE  /\ resolved' = resolved => DecisionsName'
         /\ runs' = runs => RunsCite' /\ RunsFollowDecisions'
         /\ leads' = leads => LeadsFollowDecisions'
<1>1. ASSUME resolved' = resolved PROVE DecisionsName'
  BY <1>1 DEF IInv, DecisionsName, Grows, Known
<1>2. ASSUME runs' = runs PROVE RunsCite'
  BY <1>2 DEF IInv, RunsCite
<1>3. ASSUME runs' = runs PROVE RunsFollowDecisions'
  <2> SUFFICES ASSUME NEW r \in Requests, runs[r] # None
               PROVE  /\ runs[r].company # None
                      /\ runs[r].company = resolved'[r].company
                      /\ leads'[runs[r].lead] = LeadRow(runs[r].ask, runs[r].company)
                      /\ claims'[r] = Claimed(runs[r].ask)
    BY <1>3 DEF RunsFollowDecisions
  <2>1. PICK a \in Asks, d \in Domains, k \in Keys : 
           /\ runs[r].ask = a /\ runs[r].company = d /\ runs[r].lead = k
    BY DEF IInv, RunsCite
  <2>2. /\ d # None /\ d = resolved[r].company
        /\ leads[k] = LeadRow(a, d) /\ claims[r] = Claimed(a)
    BY <2>1 DEF IInv, RunsFollowDecisions
  <2>3. leads'[k] = leads[k] /\ claims'[r] = claims[r]
    BY <2>2, RowsAreNotNone DEF Grows
  <2>4. resolved[r].outcome # "none"
    BY <2>2, UndecidedHasNone
  <2>5. resolved'[r] = resolved[r]
    BY <2>4 DEF Grows
  <2> QED BY <2>1, <2>2, <2>3, <2>5
<1>4. ASSUME leads' = leads PROVE LeadsFollowDecisions'
  <2> SUFFICES ASSUME NEW k \in Keys, leads[k] # None
               PROVE  LET r == <<leads[k].flow, k>> IN
                        /\ r \in Requests /\ Known(leads[k].company)'
                        /\ resolved'[r] \in {Decision(o, leads[k].company) : o \in Made}
    BY <1>4 DEF LeadsFollowDecisions, Made
  <2> DEFINE r == <<leads[k].flow, k>>
             d == leads[k].company
  <2>1. /\ r \in Requests /\ Known(d)
        /\ resolved[r] \in {Decision(o, d) : o \in Made}
    BY DEF IInv, LeadsFollowDecisions, Made
  <2>2. d \in Domains
    BY DEF IInv, TypeOK, LeadRow
  <2>3. Known(d)'
    BY <2>1, <2>2 DEF Grows, Known
  <2>4. resolved[r].outcome # "none"
    BY <2>1 DEF Decision, Made
  <2>5. resolved'[r] = resolved[r]
    BY <2>1, <2>4 DEF Grows
  <2> QED BY <2>1, <2>3, <2>5
<1> QED BY <1>1, <1>2, <1>3, <1>4

(* An invocation that does not come to workflow-start finds no lead.       *)
LEMMA AgreementFollows ==
  ASSUME IInv, NEW c \in Clients, Moves(c), client'[c].at # "start", runs' = runs
  PROVE  Agreement'
BY DEF IInv, Agreement, Moves, Its

LEMMA AllHold ==
  ASSUME IInv, Grows, NEW c \in Clients, Moves(c), Takes(c), Held(c)',
         \A b \in Clients \ {c} :
           /\ InTransaction(b) => resolved'[Its(b)] = resolved[Its(b)]
           /\ HasDomain(b) =>
                \/ companies'[Ask(b).domain] = companies[Ask(b).domain]
                \/ companies'[Ask(b).domain].by = "operator"
  PROVE  (\A b \in Clients : Held(b)') /\ Exclusive'
<1>1. \A b \in Clients \ {c} : Held(b)'
  BY OthersHold DEF Moves
<1> QED BY <1>1, MoveExcludes

LEMMA NothingShrinks ==
  ASSUME UNCHANGED tables
  PROVE  Grows
BY DEF tables, Grows

(* A step of one invocation that writes no table.                          *)
LEMMA ReadingStep ==
  ASSUME IInv, NEW c \in Clients, UNCHANGED tables, Moves(c), Takes(c),
         client' = [client EXCEPT ![c] = client'[c]], client'[c] \in Row,
         Held(c)', client'[c].at # "start"
  PROVE  IInv'
<1>1. TypeOK'
  <2>1. client' \in [Clients -> Row]
    BY DEF IInv, TypeOK, Row
  <2> QED BY <2>1 DEF IInv, TypeOK, tables, Row
<1>2. (\A b \in Clients : Held(b)') /\ Exclusive'
  BY AllHold, NothingShrinks DEF tables
<1>3. Agreement' /\ DecisionsName' /\ RunsCite' /\ RunsFollowDecisions'
      /\ LeadsFollowDecisions'
  BY TablesFollow, NothingShrinks, AgreementFollows DEF tables
<1> QED BY <1>1, <1>2, <1>3 DEF IInv

-----------------------------------------------------------------------------
(* The three ways in which an invocation moves on.                         *)
LEMMA OverFacts ==
  ASSUME IInv, NEW c \in Clients, NEW p \in Over, NEW a \in Asks \cup {None},
         client' = [client EXCEPT ![c] = ClientAt(p, a)]
  PROVE  /\ Moves(c) /\ Takes(c) /\ Held(c)' /\ client'[c].at \in Over
         /\ client' = [client EXCEPT ![c] = client'[c]] /\ client'[c] \in Row
         /\ client'[c].at = p
<1> DEFINE u == ClientAt(p, a)
<1>1. u \in Row /\ u.at = p /\ client' = [client EXCEPT ![c] = u]
  BY DEF ClientAt, Row
<1> HIDE DEF u
<1>2. Moves(c) /\ client'[c] = u
  BY <1>1 DEF IInv, TypeOK, Moves
<1>3. client'[c].at \notin Between \cup Resolving /\ client'[c].at \in Over
  BY <1>1, <1>2 DEF Between, Resolving, Over
<1>4. Held(c)'
  BY <1>3 DEF Held, AskHeld, ClaimHeld, TurnHeld, DomainHeld, CompanyHeld,
              LeadHeld, InTransaction, HasDomain, HasCompany, Between, Resolving
<1>5. Takes(c)
  BY <1>3, ReleasesLocks
<1> QED BY <1>1, <1>2, <1>4, <1>5

LEMMA GoesFacts ==
  ASSUME IInv, NEW c \in Clients, NEW p \in Between \cup Resolving, Goes(c, p)
  PROVE  /\ Moves(c) /\ client' = [client EXCEPT ![c] = client'[c]]
         /\ client'[c] \in Row /\ client'[c].at = p
         /\ client'[c].ask = client[c].ask /\ client'[c].company = client[c].company
         /\ client'[c].lead = client[c].lead /\ client'[c].hits = client[c].hits
<1>1. client \in [Clients -> Row] /\ client' = [client EXCEPT ![c].at = p]
  BY DEF IInv, TypeOK, Row, Goes
<1> DEFINE u == [client[c] EXCEPT !.at = p]
<1>2. /\ u \in Row /\ u.at = p /\ u.ask = client[c].ask
      /\ u.company = client[c].company /\ u.lead = client[c].lead
      /\ u.hits = client[c].hits
  BY <1>1 DEF Row
<1>3. client' = [client EXCEPT ![c] = u]
  BY <1>1
<1> HIDE DEF u
<1>4. client'[c] = u /\ Moves(c)
  BY <1>1, <1>3 DEF Moves
<1> QED BY <1>2, <1>3, <1>4

LEMMA DieStep ==
  ASSUME IInv, NEW c \in Clients, Die(c)
  PROVE  IInv'
<1>1. UNCHANGED tables /\ client' = [client EXCEPT ![c] = ClientAt("idle", None)]
  BY DEF Die, Finishes
<1>2. client'[c].at # "start"
  BY <1>1, OverFacts DEF Over
<1> QED BY <1>1, <1>2, OverFacts, ReadingStep DEF Over

LEMMA LaunchStep ==
  ASSUME IInv, NEW c \in Clients, NEW a \in Asks, Launch(c, a)
  PROVE  IInv'
<1> DEFINE u == ClientAt("probe", a)
<1>1. u \in Row /\ u.at = "probe" /\ u.ask = a
  BY DEF ClientAt, Row, Between
<1>2. UNCHANGED tables /\ client' = [client EXCEPT ![c] = u]
  BY DEF Launch
<1> HIDE DEF u
<1>3. Moves(c) /\ client'[c] = u
  BY <1>2 DEF IInv, TypeOK, Moves
<1>4. Held(c)'
  BY <1>1, <1>3 DEF Held, AskHeld, ClaimHeld, TurnHeld, DomainHeld, CompanyHeld,
       LeadHeld, InTransaction, HasDomain, HasCompany, Resolving, Ask
<1>5. Takes(c)
  BY <1>1, <1>3, ReleasesLocks DEF Resolving
<1> QED BY <1>1, <1>2, <1>3, <1>4, <1>5, ReadingStep

LEMMA ProbeStep ==
  ASSUME IInv, NEW c \in Clients, Probe(c)
  PROVE  IInv'
<1>1. CASE Finishes(c)
  <2>1. UNCHANGED tables /\ client' = [client EXCEPT ![c] = ClientAt("idle", None)]
    BY <1>1 DEF Probe, Finishes
  <2>2. client'[c].at # "start"
    BY <2>1, OverFacts DEF Over
  <2> QED BY <2>1, <2>2, OverFacts, ReadingStep DEF Over
<1>2. CASE Goes(c, "claim")
  <2>1. UNCHANGED tables /\ client[c].at = "probe"
    BY DEF Probe
  <2>2. /\ Moves(c) /\ client' = [client EXCEPT ![c] = client'[c]]
        /\ client'[c] \in Row /\ client'[c].at = "claim" /\ Ask(c)' = Ask(c)
    BY <1>2, GoesFacts DEF Between, Ask
  <2>3. AskHeld(c)'
    BY <2>1, <2>2 DEF IInv, Held, AskHeld, Over
  <2>4. Held(c)'
    BY <2>2, <2>3 DEF Held, ClaimHeld, TurnHeld, DomainHeld, CompanyHeld,
         LeadHeld, InTransaction, HasDomain, HasCompany, Resolving
  <2>5. Takes(c)
    BY <2>2, ReleasesLocks DEF Resolving
  <2> QED BY <2>1, <2>2, <2>4, <2>5, ReadingStep
<1> QED BY <1>1, <1>2 DEF Probe

LEMMA ClaimStep ==
  ASSUME IInv, NEW c \in Clients, Claim(c)
  PROVE  IInv'
<1> DEFINE a == Ask(c)
           r == Its(c)
<1>1. /\ client[c].at = "claim" /\ a \in Asks /\ r \in Requests
      /\ UNCHANGED <<companies, resolved, leads, runs>>
  BY AskFields DEF Claim, IInv, Held, AskHeld, Over, Its, Ask
<1>2. CASE Finishes(c) /\ UNCHANGED claims
  <2>1. UNCHANGED tables /\ client' = [client EXCEPT ![c] = ClientAt("idle", None)]
    BY <1>1, <1>2 DEF Finishes, tables
  <2>2. client'[c].at # "start"
    BY <2>1, OverFacts DEF Over
  <2> QED BY <2>1, <2>2, OverFacts, ReadingStep DEF Over
<1>3. CASE /\ Goes(c, "resolve") /\ claims'[r] = Claimed(a)
           /\ claims' = claims \/ (claims[r] = None /\
                                   claims' = [claims EXCEPT ![r] = Claimed(a)])
  <2>1. /\ Moves(c) /\ client' = [client EXCEPT ![c] = client'[c]]
        /\ client'[c] \in Row /\ client'[c].at = "resolve" /\ Ask(c)' = Ask(c)
    BY <1>3, GoesFacts DEF Between, Ask
  <2>2. Grows
    BY <1>1, <1>3 DEF Grows, IInv, TypeOK
  <2>3. TypeOK'
    <3>1. client' \in [Clients -> Row]
      BY <2>1 DEF IInv, TypeOK, Row
    <3>2. claims' \in [Requests -> {Claimed(b) : b \in Asks} \cup {None}]
      BY <1>1, <1>3 DEF IInv, TypeOK
    <3> QED BY <1>1, <3>1, <3>2 DEF IInv, TypeOK, Row
  <2>4. AskHeld(c)' /\ ClaimHeld(c)'
    BY <1>1, <1>3, <2>1 DEF AskHeld, ClaimHeld, Its, Ask
  <2>5. Held(c)'
    BY <2>1, <2>4 DEF Held, TurnHeld, DomainHeld, CompanyHeld,
         LeadHeld, InTransaction, HasDomain, HasCompany, Resolving
  <2>6. Takes(c)
    BY <2>1, ReleasesLocks DEF Resolving
  <2>7. (\A b \in Clients : Held(b)') /\ Exclusive'
    BY <1>1, <2>1, <2>2, <2>5, <2>6, AllHold
  <2>8. Agreement'
    BY <1>1, <2>1, AgreementFollows
  <2> QED BY <1>1, <2>2, <2>3, <2>7, <2>8, TablesFollow DEF IInv
<1>4. \/ Finishes(c) /\ UNCHANGED claims
      \/ Goes(c, "resolve") /\ claims[r] = Claimed(a) /\ UNCHANGED claims
      \/ /\ Goes(c, "resolve") /\ claims[r] = None
         /\ claims' = [claims EXCEPT ![r] = Claimed(a)]
  BY DEF Claim, Its, Ask
<1>5. claims = [s \in Requests |-> claims[s]]
  BY DEF IInv, TypeOK
<1> QED BY <1>1, <1>2, <1>3, <1>4, <1>5

-----------------------------------------------------------------------------
(* company-resolve-create.                                                 *)
LEMMA ResolvesFacts ==
  ASSUME IInv, NEW c \in Clients, NEW d \in Domains, client[c].ask \in Asks,
         Resolves(c, d)
  PROVE  /\ Moves(c) /\ Takes(c)
         /\ client' = [client EXCEPT ![c] = client'[c]]
         /\ client'[c] \in Row /\ client'[c].at = "lead"
         /\ client'[c].ask = client[c].ask /\ client'[c].company = d
<1> DEFINE u == [ClientAt("lead", client[c].ask) EXCEPT !.company = d]
<1>1. /\ u \in Row /\ u.at = "lead" /\ u.ask = client[c].ask /\ u.company = d
      /\ client' = [client EXCEPT ![c] = u]
  BY DEF ClientAt, Row, Between, Resolves
<1> HIDE DEF u
<1>2. Moves(c) /\ client'[c] = u
  BY <1>1 DEF IInv, TypeOK, Moves
<1>3. Takes(c)
  BY <1>1, <1>2, ReleasesLocks DEF Resolving
<1> QED BY <1>1, <1>2, <1>3

LEMMA AtLeadHeld ==
  ASSUME NEW c \in Clients, client'[c].at = "lead", AskHeld(c)', ClaimHeld(c)',
         CompanyHeld(c)'
  PROVE  Held(c)'
BY DEF Held, TurnHeld, DomainHeld, LeadHeld, InTransaction, HasDomain, Resolving

LEMMA ResolveBeginStep ==
  ASSUME IInv, NEW c \in Clients, ResolveBegin(c)
  PROVE  IInv'
<1> DEFINE r == Its(c)
<1>1. /\ client[c].at = "resolve" /\ Ask(c) \in Asks /\ r \in Requests
      /\ claims[r] = Claimed(Ask(c)) /\ UNCHANGED tables
  BY AskFields DEF ResolveBegin, IInv, Held, AskHeld, ClaimHeld, Over, Its, Ask
<1>2. CASE Finishes(c)
  <2>1. client' = [client EXCEPT ![c] = ClientAt("idle", None)]
    BY <1>2 DEF Finishes
  <2>2. client'[c].at # "start"
    BY <2>1, OverFacts DEF Over
  <2> QED BY <1>1, <2>1, <2>2, OverFacts, ReadingStep DEF Over
<1>3. CASE Goes(c, "locking") /\ resolved[r].outcome = "none"
  <2>1. /\ Moves(c) /\ client' = [client EXCEPT ![c] = client'[c]]
        /\ client'[c] \in Row /\ client'[c].at = "locking" /\ Ask(c)' = Ask(c)
    BY <1>3, GoesFacts DEF Resolving, Ask
  <2>2. AskHeld(c)' /\ ClaimHeld(c)' /\ TurnHeld(c)'
    BY <1>1, <1>3, <2>1 DEF AskHeld, ClaimHeld, TurnHeld, Its, Ask, tables
  <2>3. Held(c)'
    BY <2>1, <2>2 DEF Held, DomainHeld, CompanyHeld, LeadHeld, HasDomain, HasCompany
  <2>4. \A b \in Clients \ {c} : InTransaction(b) => Its(b) # r
    BY DEF ResolveBegin, RequestLocked, InTransaction, Its
  <2>5. Takes(c)
    BY <2>1, <2>4 DEF Takes, HasDomain, Its, Ask
  <2> QED BY <1>1, <2>1, <2>3, <2>5, ReadingStep
<1>4. CASE resolved[r].outcome \in Made /\ Resolves(c, resolved[r].company)
  <2>1. resolved[r].company \in Domains
    BY <1>1, <1>4 DEF IInv, DecisionsName
  <2>2. /\ Moves(c) /\ Takes(c) /\ client' = [client EXCEPT ![c] = client'[c]]
        /\ client'[c] \in Row /\ client'[c].at = "lead" /\ Ask(c)' = Ask(c)
        /\ client'[c].company = resolved[r].company
    BY <1>1, <1>4, <2>1, ResolvesFacts DEF Ask
  <2>3. AskHeld(c)' /\ ClaimHeld(c)' /\ CompanyHeld(c)'
    BY <1>1, <1>4, <2>1, <2>2 DEF AskHeld, ClaimHeld, CompanyHeld, Its, Ask, tables
  <2> QED BY <1>1, <2>2, <2>3, AtLeadHeld, ReadingStep
<1> QED BY <1>2, <1>3, <1>4 DEF ResolveBegin, Its, Made

LEMMA ResolveLockStep ==
  ASSUME IInv, NEW c \in Clients, ResolveLock(c)
  PROVE  IInv'
<1> DEFINE d == Ask(c).domain
           hits == IF Known(d) THEN {d} ELSE {}
           u == [client[c] EXCEPT !.at = "naming", !.hits = hits]
<1>1. /\ client[c].at = "locking" /\ Ask(c) \in Asks /\ d \in Domains
      /\ claims[Its(c)] = Claimed(Ask(c)) /\ resolved[Its(c)].outcome = "none"
      /\ UNCHANGED tables
  BY AskFields DEF ResolveLock, IInv, Held, AskHeld, ClaimHeld, TurnHeld,
                   InTransaction, Resolving, Over, Its, Ask
<1>2. /\ client[c] \in Row /\ hits \in SUBSET Domains
  BY <1>1, RowFields DEF IInv
<1>3. /\ u \in Row /\ u.at = "naming" /\ u.ask = client[c].ask /\ u.hits = hits
  BY <1>2 DEF Row, Resolving
<1>4. client' = [client EXCEPT ![c] = u]
  BY DEF ResolveLock, IInv, TypeOK, Ask
<1> HIDE DEF u
<1>5. Moves(c) /\ client'[c] = u
  BY <1>4 DEF IInv, TypeOK, Moves
<1>6. AskHeld(c)' /\ ClaimHeld(c)' /\ TurnHeld(c)'
  BY <1>1, <1>3, <1>5 DEF AskHeld, ClaimHeld, TurnHeld, Its, Ask, tables
<1>7. DomainHeld(c)'
  BY <1>1, <1>3, <1>5 DEF DomainHeld, Ask, Known, tables
<1>8. Held(c)'
  BY <1>3, <1>5, <1>6, <1>7 DEF Held, CompanyHeld, LeadHeld, HasCompany
<1>9. Takes(c)
  <2>1. \A b \in Clients \ {c} : HasDomain(b) => Ask(b).domain # d
    BY DEF ResolveLock, DomainLocked, HasDomain, Resolving, Ask
  <2>2. \A b \in Clients \ {c} : InTransaction(b) => Its(b) # Its(c)
    BY <1>1 DEF IInv, Exclusive, InTransaction, Resolving
  <2> QED BY <1>3, <1>5, <2>1, <2>2 DEF Takes, Ask, Its
<1> QED BY <1>1, <1>3, <1>4, <1>5, <1>8, <1>9, ReadingStep

LEMMA ResolveNamesStep ==
  ASSUME IInv, NEW c \in Clients, ResolveNames(c)
  PROVE  IInv'
<1> DEFINE found == NamesFound(client[c].hits, client[c].ask.name)
           u == [client[c] EXCEPT !.at = "deciding", !.names = found]
<1>1. client[c].at = "naming" /\ UNCHANGED tables
  BY DEF ResolveNames
<1>2. client[c] \in Row /\ found \in SUBSET Domains
  BY RowFields DEF IInv, NamesFound, SameName, Alike
<1> HIDE DEF found
<1>3. /\ u \in Row /\ u.at = "deciding" /\ u.ask = client[c].ask
      /\ u.hits = client[c].hits
  BY <1>2 DEF Row, Resolving
<1>4. client' = [client EXCEPT ![c] = u]
  BY DEF ResolveNames, IInv, TypeOK, found
<1> HIDE DEF u
<1>5. Moves(c) /\ client'[c] = u
  BY <1>4 DEF IInv, TypeOK, Moves
<1>6. Held(c)'
  BY <1>1, <1>3, <1>5 DEF IInv, Held, AskHeld, ClaimHeld, TurnHeld, DomainHeld,
       CompanyHeld, LeadHeld, InTransaction, HasDomain, HasCompany, Its, Ask,
       Known, Over, Resolving, tables
<1>7. Takes(c)
  BY <1>1, <1>3, <1>5, KeepsLocks DEF InTransaction, HasDomain, Resolving, Ask
<1> QED BY <1>1, <1>3, <1>4, <1>5, <1>6, <1>7, ReadingStep

(* What is read under the lock of the domain is still so.                  *)
LEMMA DecidingFacts ==
  ASSUME IInv, NEW c \in Clients, client[c].at = "deciding"
  PROVE  /\ Ask(c) \in Asks /\ Its(c) \in Requests /\ Ask(c).domain \in Domains
         /\ claims[Its(c)] = Claimed(Ask(c)) /\ resolved[Its(c)].outcome = "none"
         /\ client[c].hits # {} => Known(Ask(c).domain)
         /\ client[c].hits = {} /\ Known(Ask(c).domain)
              => companies[Ask(c).domain].by = "operator"
BY AskFields DEF IInv, Held, AskHeld, ClaimHeld, TurnHeld, DomainHeld,
     InTransaction, HasDomain, Resolving, Over, Its, Ask

LEMMA ResolveCommitStep ==
  ASSUME IInv, NEW c \in Clients, ResolveCommit(c)
  PROVE  IInv'
<1> DEFINE r == Its(c)
           d == Ask(c).domain
           o == Outcome(client[c].hits, client[c].names)
<1>1. /\ client[c].at = "deciding" /\ Ask(c) \in Asks /\ r \in Requests
      /\ d \in Domains /\ claims[r] = Claimed(Ask(c)) /\ resolved[r].outcome = "none"
      /\ UNCHANGED <<claims, leads, runs>>
      /\ client[c].hits # {} => Known(d)
  BY DecidingFacts DEF ResolveCommit
<1>2. \A b \in Clients \ {c} : /\ InTransaction(b) => Its(b) # r
                               /\ HasDomain(b) => Ask(b).domain # d
  BY <1>1 DEF IInv, Exclusive, InTransaction, HasDomain, Resolving
<1>3. CASE Ends(c, "collided") /\ UNCHANGED <<resolved, companies>>
  <2>1. /\ UNCHANGED tables
        /\ client' = [client EXCEPT ![c] = ClientAt("collided", client[c].ask)]
    BY <1>1, <1>3 DEF Ends, tables
  <2>2. client[c].ask \in Asks \cup {None}
    BY <1>1 DEF Ask
  <2>3. client'[c].at # "start"
    BY <2>1, <2>2, OverFacts DEF Over
  <2> QED BY <2>1, <2>2, <2>3, OverFacts, ReadingStep DEF Over
<1>4. CASE /\ resolved' = [resolved EXCEPT ![r] = Decision("review", None)]
           /\ Finishes(c) /\ UNCHANGED companies
  <2>1. client' = [client EXCEPT ![c] = ClientAt("idle", None)]
    BY <1>4 DEF Finishes
  <2>2. /\ Moves(c) /\ Takes(c) /\ Held(c)' /\ client'[c].at = "idle"
        /\ client' = [client EXCEPT ![c] = client'[c]] /\ client'[c] \in Row
    BY <2>1, OverFacts DEF Over
  <2>3. \A s \in Requests :
          resolved'[s] = IF s = r THEN Decision("review", None) ELSE resolved[s]
    BY <1>1, <1>4 DEF IInv, TypeOK
  <2>4. Grows
    BY <1>1, <1>4, <2>3 DEF Grows
  <2>5. TypeOK'
    <3>1. client' \in [Clients -> Row]
      BY <2>2 DEF IInv, TypeOK, Row
    <3>2. Decision("review", None) \in
            [outcome : {"none", "existing", "created", "review"},
             company : Domains \cup {None}]
      BY DEF Decision
    <3>3. resolved' \in [Requests -> [outcome : {"none", "existing", "created", "review"},
                                      company : Domains \cup {None}]]
      BY <1>1, <1>4, <3>2 DEF IInv, TypeOK
    <3> QED BY <1>1, <1>4, <3>1, <3>3 DEF IInv, TypeOK, Row
  <2>6. (\A b \in Clients : Held(b)') /\ Exclusive'
    <3>1. \A b \in Clients \ {c} : InTransaction(b) => Its(b) \in Requests
      BY AskFields DEF IInv, Held, AskHeld, InTransaction, Resolving, Over, Its, Ask
    <3> QED BY <1>2, <1>4, <2>2, <2>3, <2>4, <3>1, AllHold
  <2>7. DecisionsName'
    BY <1>4, <2>3 DEF IInv, DecisionsName, Decision, Made, Known
  <2>8. Agreement'
    BY <1>1, <2>2, AgreementFollows
  <2> QED BY <1>1, <2>4, <2>5, <2>6, <2>7, <2>8, TablesFollow DEF IInv
<1>5. CASE /\ resolved' = [resolved EXCEPT ![r] = Decision(o, d)] /\ o \in Made
           /\ Resolves(c, d)
           /\ \/ companies' = companies /\ Known(d)
              \/ /\ companies' = [companies EXCEPT ![d] =
                                    [name |-> Ask(c).name, by |-> "resolver"]]
                 /\ ~Known(d)
  <2>1. /\ Moves(c) /\ Takes(c) /\ client' = [client EXCEPT ![c] = client'[c]]
        /\ client'[c] \in Row /\ client'[c].at = "lead" /\ Ask(c)' = Ask(c)
        /\ client'[c].company = d
    BY <1>1, <1>5, ResolvesFacts DEF Ask
  <2>2. \A s \in Requests :
          resolved'[s] = IF s = r THEN Decision(o, d) ELSE resolved[s]
    BY <1>1, <1>5 DEF IInv, TypeOK
  <2>3. \A e \in Domains : /\ e # d => companies'[e] = companies[e]
                           /\ Known(e) => companies'[e] = companies[e]
    BY <1>1, <1>5 DEF IInv, TypeOK
  <2>4. companies'[d] # NoCompany
    BY <1>1, <1>5 DEF IInv, TypeOK, Known, NoCompany
  <2>5. Grows
    BY <1>1, <2>2, <2>3 DEF Grows
  <2>6. TypeOK'
    <3>1. client' \in [Clients -> Row]
      BY <2>1 DEF IInv, TypeOK, Row
    <3>2. Decision(o, d) \in
            [outcome : {"none", "existing", "created", "review"},
             company : Domains \cup {None}]
      BY <1>1, <1>5 DEF Decision, Made
    <3>3. resolved' \in [Requests -> [outcome : {"none", "existing", "created", "review"},
                                      company : Domains \cup {None}]]
      BY <1>1, <1>5, <3>2 DEF IInv, TypeOK
    <3>4. companies' \in [Domains -> [name : Names \cup {None},
                                      by : {"nobody", "resolver", "operator"}]]
      BY <1>1, <1>5, AskFields DEF IInv, TypeOK
    <3> QED BY <1>1, <3>1, <3>3, <3>4 DEF IInv, TypeOK, Row
  <2>7. AskHeld(c)' /\ ClaimHeld(c)' /\ CompanyHeld(c)'
    BY <1>1, <1>5, <2>1, <2>2 DEF AskHeld, ClaimHeld, CompanyHeld, Its, Ask, Decision
  <2>8. (\A b \in Clients : Held(b)') /\ Exclusive'
    <3>1. \A b \in Clients \ {c} :
            /\ InTransaction(b) => Its(b) \in Requests
            /\ HasDomain(b) => Ask(b).domain \in Domains
      BY AskFields DEF IInv, Held, AskHeld, InTransaction, HasDomain,
                       Resolving, Over, Its, Ask
    <3> QED BY <1>2, <2>1, <2>2, <2>3, <2>5, <2>7, <3>1, AtLeadHeld, AllHold
  <2>9. DecisionsName'
    <3> SUFFICES ASSUME NEW s \in Requests
                 PROVE  IF resolved'[s].outcome \in Made
                        THEN resolved'[s].company \in Domains /\ companies'[resolved'[s].company] # NoCompany
                        ELSE resolved'[s].company = None
      BY DEF DecisionsName, Known
    <3>1. CASE s = r
      BY <1>1, <1>5, <2>2, <2>4, <3>1 DEF Decision
    <3>2. CASE s # r
      BY <2>2, <2>3, <3>2 DEF IInv, DecisionsName, Known
    <3> QED BY <3>1, <3>2
  <2>10. Agreement'
    BY <1>1, <2>1, AgreementFollows
  <2> QED BY <1>1, <2>5, <2>6, <2>8, <2>9, <2>10, TablesFollow DEF IInv
<1>6. o = "existing" => Known(d)
  BY <1>1 DEF Outcome
<1> QED BY <1>1, <1>3, <1>4, <1>5, <1>6 DEF ResolveCommit, Its, Ask, Made

-----------------------------------------------------------------------------
(* create-lead.  A lead that was found for arguments is found again for    *)
(* all that share their request and their claim.                           *)
LEMMA FoundAgain ==
  ASSUME IInv, NEW a \in Asks, NEW b \in Asks, NEW k \in Keys, NEW d \in Domains,
         Request(a) = Request(b), Claimed(a) = Claimed(b),
         leads[k] = LeadRow(b, d), k = b.key \/ b.event # None
  PROVE  k \in Matches(a)
<1>1. a.key = b.key /\ a.event = b.event
  BY DEF Request, Claimed
<1>2. leads[k] # None
  BY RowsAreNotNone
<1>3. leads[k].event = b.event
  BY DEF LeadRow
<1> QED BY <1>1, <1>2, <1>3 DEF Matches

LEMMA AtLeadFacts ==
  ASSUME IInv, NEW c \in Clients, HasCompany(c)
  PROVE  /\ Ask(c) \in Asks /\ Its(c) \in Requests /\ client[c].company \in Domains
         /\ claims[Its(c)] = Claimed(Ask(c)) /\ resolved[Its(c)].outcome \in Made
         /\ resolved[Its(c)].company = client[c].company
         /\ Known(client[c].company)
BY AskFields DEF IInv, Held, AskHeld, ClaimHeld, CompanyHeld, HasCompany,
     DecisionsName, Over, Its, Ask

LEMMA AtStartFacts ==
  ASSUME IInv, NEW c \in Clients, client[c].at = "start"
  PROVE  /\ HasCompany(c) /\ client[c].lead \in Keys
         /\ leads[client[c].lead] = LeadRow(Ask(c), client[c].company)
         /\ client[c].lead = Ask(c).key \/ Ask(c).event # None
BY DEF IInv, Held, LeadHeld, HasCompany

(* What others carry, and what a run has, is found by c too.               *)
LEMMA OthersAreFound ==
  ASSUME IInv, NEW c \in Clients, HasCompany(c)
  PROVE  /\ \A b \in Clients : client[b].at = "start" /\ Its(b) = Its(c)
                                 => client[b].lead \in Matches(Ask(c))
         /\ runs[Its(c)] # None => runs[Its(c)].lead \in Matches(Ask(c))
<1>1. /\ Ask(c) \in Asks /\ Its(c) \in Requests /\ Its(c) = Request(Ask(c))
      /\ claims[Its(c)] = Claimed(Ask(c))
  BY AtLeadFacts DEF Its, Ask
<1>2. ASSUME NEW b \in Clients, client[b].at = "start", Its(b) = Its(c)
      PROVE  client[b].lead \in Matches(Ask(c))
  <2>1. /\ Ask(b) \in Asks /\ claims[Its(b)] = Claimed(Ask(b))
        /\ client[b].company \in Domains /\ Its(b) = Request(Ask(b))
        /\ client[b].lead \in Keys
        /\ leads[client[b].lead] = LeadRow(Ask(b), client[b].company)
        /\ client[b].lead = Ask(b).key \/ Ask(b).event # None
    BY <1>2, AtLeadFacts, AtStartFacts DEF Its, Ask
  <2> QED BY <1>1, <1>2, <2>1, FoundAgain
<1>3. ASSUME runs[Its(c)] # None
      PROVE  runs[Its(c)].lead \in Matches(Ask(c))
  <2> DEFINE run == runs[Its(c)]
  <2>1. /\ run.ask \in Asks /\ Request(run.ask) = Its(c) /\ run.lead \in Keys
        /\ run.company \in Domains
        /\ run.lead = run.ask.key \/ run.ask.event # None
    BY <1>1, <1>3 DEF IInv, RunsCite
  <2>2. leads[run.lead] = LeadRow(run.ask, run.company)
        /\ claims[Its(c)] = Claimed(run.ask)
    BY <1>1, <1>3 DEF IInv, RunsFollowDecisions
  <2> QED BY <1>1, <2>1, <2>2, FoundAgain
<1> QED BY <1>2, <1>3

LEMMA CreateLeadStep ==
  ASSUME IInv, NEW c \in Clients, CreateLead(c)
  PROVE  IInv'
<1> DEFINE a == Ask(c)
           d == client[c].company
           row == LeadRow(a, d)
<1>1. /\ client[c].at = "lead" /\ HasCompany(c)
      /\ UNCHANGED <<claims, companies, resolved, runs>>
  BY DEF CreateLead, HasCompany
<1>2. /\ a \in Asks /\ Its(c) \in Requests /\ d \in Domains
      /\ claims[Its(c)] = Claimed(a) /\ resolved[Its(c)].outcome \in Made
      /\ resolved[Its(c)].company = d /\ Known(d)
      /\ a.key \in Keys /\ Its(c) = <<a.flow, a.key>>
  BY <1>1, AtLeadFacts, AskFields DEF Its, Ask
<1>3. CASE Ends(c, "lead_refused") /\ UNCHANGED leads
  <2>1. /\ UNCHANGED tables
        /\ client' = [client EXCEPT ![c] = ClientAt("lead_refused", client[c].ask)]
    BY <1>1, <1>3 DEF Ends, tables
  <2>2. client[c].ask \in Asks \cup {None}
    BY <1>2 DEF Ask
  <2>3. client'[c].at # "start"
    BY <2>1, <2>2, OverFacts DEF Over
  <2> QED BY <2>1, <2>2, <2>3, OverFacts, ReadingStep DEF Over
<1>4. ASSUME NEW k \in Keys, leads'[k] = row,
             Matches(a) \subseteq {k}, k = a.key \/ a.event # None,
             client' = [client EXCEPT ![c].at = "start", ![c].lead = k],
             \/ leads' = leads
             \/ leads' = [leads EXCEPT ![k] = row] /\ leads[k] = None /\ k = a.key
      PROVE  IInv'
  <2> DEFINE u == [client[c] EXCEPT !.at = "start", !.lead = k]
  <2>1. /\ u \in Row /\ u.at = "start" /\ u.lead = k
        /\ u.ask = client[c].ask /\ u.company = client[c].company
    BY RowFields DEF Row, Between, IInv
  <2>2. client' = [client EXCEPT ![c] = u]
    BY <1>4 DEF IInv, TypeOK
  <2> HIDE DEF u
  <2>3. /\ Moves(c) /\ client'[c] \in Row /\ client'[c].at = "start"
        /\ client'[c].lead = k /\ client'[c].ask = a /\ client'[c].company = d
        /\ Its(c)' = Its(c) /\ Ask(c)' = a
    BY <2>1, <2>2 DEF IInv, TypeOK, Moves, Its, Ask
  <2>4. \A l \in Keys : leads'[l] = IF l = k THEN row ELSE leads[l]
    BY <1>4 DEF IInv, TypeOK
  <2>5. Grows
    BY <1>1, <1>4, <2>4 DEF Grows
  <2>6. TypeOK'
    <3>1. client' \in [Clients -> Row]
      BY <2>2, <2>3 DEF IInv, TypeOK, Row
    <3>2. leads' \in [Keys -> {LeadRow(b, e) : b \in Asks, e \in Domains} \cup {None}]
      BY <1>2, <1>4 DEF IInv, TypeOK
    <3> QED BY <1>1, <3>1, <3>2 DEF IInv, TypeOK, Row
  <2>7. Held(c)'
    <3>1. AskHeld(c)' /\ ClaimHeld(c)' /\ CompanyHeld(c)'
      BY <1>1, <1>2, <2>3 DEF AskHeld, ClaimHeld, CompanyHeld
    <3>2. LeadHeld(c)'
      BY <1>4, <2>3 DEF LeadHeld
    <3> QED BY <2>3, <3>1, <3>2 DEF Held, TurnHeld, DomainHeld, InTransaction,
                                    HasDomain, Resolving
  <2>8. (\A b \in Clients : Held(b)') /\ Exclusive'
    <3>1. Takes(c)
      BY <2>3, ReleasesLocks DEF Resolving
    <3> QED BY <1>1, <2>3, <2>5, <2>7, <3>1, AllHold
  <2>9. Agreement'
    <3>1. /\ \A b \in Clients : client[b].at = "start" /\ Its(b) = Its(c)
                                  => client[b].lead = k
          /\ runs[Its(c)] # None => runs[Its(c)].lead = k
      BY <1>1, <1>4, OthersAreFound
    <3>2. \A b \in Clients : client'[b].at = "start" /\ Its(b)' = Its(c)
                               => client'[b].lead = k
      BY <2>3, <3>1 DEF Moves, Its
    <3> SUFFICES ASSUME NEW b \in Clients, client'[b].at = "start"
                 PROVE  /\ \A e \in Clients : client'[e].at = "start" /\ Its(e)' = Its(b)'
                                                => client'[e].lead = client'[b].lead
                        /\ runs[Its(b)'] # None => runs[Its(b)'].lead = client'[b].lead
      BY <1>1 DEF Agreement
    <3>3. CASE Its(b)' = Its(c)
      BY <3>1, <3>2, <3>3
    <3>4. CASE Its(b)' # Its(c)
      BY <2>3, <3>4 DEF IInv, Agreement, Moves, Its
    <3> QED BY <3>3, <3>4
  <2>10. LeadsFollowDecisions'
    <3>1. CASE leads' = leads
      BY <3>1, <2>5, TablesFollow
    <3>2. CASE k = a.key
      <4>1. resolved[Its(c)] \in {Decision(o, d) : o \in Made}
        BY <1>2 DEF IInv, TypeOK, Decision
      <4>2. row.flow = a.flow /\ row.company = d
        BY DEF LeadRow
      <4>3. \A l \in Keys \ {k} : leads[l] # None =>
              LET r == <<leads[l].flow, l>> IN
                /\ r \in Requests /\ Known(leads[l].company)
                /\ resolved[r] \in {Decision(o, leads[l].company) : o \in Made}
        BY DEF IInv, LeadsFollowDecisions, Made
      <4>4. SUFFICES ASSUME NEW l \in Keys, leads'[l] # None
                     PROVE  LET r == <<leads'[l].flow, l>> IN
                              /\ r \in Requests /\ Known(leads'[l].company)
                              /\ resolved[r] \in {Decision(o, leads'[l].company) : o \in Made}
        BY <1>1 DEF LeadsFollowDecisions, Made, Known
      <4>5. CASE l = k
        BY <1>2, <2>4, <3>2, <4>1, <4>2, <4>5
      <4>6. CASE l # k
        BY <2>4, <4>3, <4>4, <4>6
      <4> QED BY <4>5, <4>6
    <3> QED BY <1>4, <3>1, <3>2
  <2> QED BY <1>1, <2>5, <2>6, <2>8, <2>9, <2>10, TablesFollow DEF IInv
<1>5. ASSUME Matches(a) = {}, leads' = [leads EXCEPT ![a.key] = row],
             client' = [client EXCEPT ![c].at = "start", ![c].lead = a.key]
      PROVE  IInv'
  <2>1. leads[a.key] = None
    BY <1>2, <1>5 DEF Matches
  <2>2. leads'[a.key] = row
    BY <1>2, <1>5 DEF IInv, TypeOK
  <2> QED BY <1>2, <1>4, <1>5, <2>1, <2>2
<1>6. ASSUME NEW k \in Keys, Matches(a) = {k}, leads[k] = row, UNCHANGED leads,
             client' = [client EXCEPT ![c].at = "start", ![c].lead = k]
      PROVE  IInv'
  <2>1. k = a.key \/ a.event # None
    BY <1>6 DEF Matches
  <2> QED BY <1>4, <1>6, <2>1
<1> QED BY <1>3, <1>5, <1>6 DEF CreateLead, Ask

-----------------------------------------------------------------------------
(* workflow-start: no refusal is possible.                                 *)
LEMMA StartMatches ==
  ASSUME IInv, NEW c \in Clients, client[c].at = "start"
  PROVE  LET run == RunOf(Ask(c), client[c].company, client[c].lead) IN
           /\ leads[run.lead].company = run.company
           /\ runs[Its(c)] \in {None, run}
<1> DEFINE a == Ask(c)
           d == client[c].company
           k == client[c].lead
           run == RunOf(a, d, k)
           old == runs[Its(c)]
<1>1. /\ a \in Asks /\ Its(c) \in Requests /\ d \in Domains /\ k \in Keys
      /\ claims[Its(c)] = Claimed(a) /\ resolved[Its(c)].company = d
      /\ leads[k] = LeadRow(a, d) /\ Its(c) = Request(a)
  BY AtLeadFacts, AtStartFacts DEF Its, Ask
<1>2. leads[run.lead].company = run.company
  BY <1>1 DEF RunOf, LeadRow
<1>3. ASSUME old # None PROVE old = run
  <2>1. /\ old.ask \in Asks /\ Request(old.ask) = Request(a)
        /\ old.company = resolved[Its(c)].company
        /\ leads[old.lead] = LeadRow(old.ask, old.company)
        /\ claims[Its(c)] = Claimed(old.ask)
    BY <1>1, <1>3 DEF IInv, RunsCite, RunsFollowDecisions
  <2>2. old.lead = k
    BY <1>3 DEF IInv, Agreement
  <2>3. old.ask = a
    BY <1>1, <2>1, <2>2, AsksAreDetermined
  <2>4. old = RunOf(old.ask, old.company, old.lead)
    BY <1>1, <1>3 DEF IInv, TypeOK, RunOf
  <2> QED BY <1>1, <2>1, <2>2, <2>3, <2>4
<1> QED BY <1>2, <1>3

LEMMA StartStep ==
  ASSUME IInv, NEW c \in Clients, Start(c)
  PROVE  IInv'
<1> DEFINE a == Ask(c)
           d == client[c].company
           k == client[c].lead
           run == RunOf(a, d, k)
           r == Its(c)
<1>1. /\ client[c].at = "start" /\ UNCHANGED <<claims, companies, resolved, leads>>
      /\ a \in Asks /\ r \in Requests /\ d \in Domains /\ k \in Keys
      /\ claims[r] = Claimed(a) /\ resolved[r].company = d
      /\ leads[k] = LeadRow(a, d) /\ r = Request(a)
      /\ k = a.key \/ a.event # None
  BY AtLeadFacts, AtStartFacts DEF Start, Its, Ask
<1>2. /\ Finishes(c)
      /\ \/ runs' = runs
         \/ runs[r] = None /\ runs' = [runs EXCEPT ![r] = run]
  BY <1>1, StartMatches DEF Start, Its, Ask
<1>3. client' = [client EXCEPT ![c] = ClientAt("idle", None)]
  BY <1>2 DEF Finishes
<1>4. /\ Moves(c) /\ Takes(c) /\ Held(c)' /\ client'[c].at = "idle"
      /\ client' = [client EXCEPT ![c] = client'[c]] /\ client'[c] \in Row
  BY <1>3, OverFacts DEF Over
<1>5. CASE runs' = runs
  BY <1>1, <1>4, <1>5, ReadingStep DEF tables
<1>6. CASE runs[r] = None /\ runs' = [runs EXCEPT ![r] = run]
  <2>1. \A s \in Requests : runs'[s] = IF s = r THEN run ELSE runs[s]
    BY <1>6 DEF IInv, TypeOK
  <2>2. Grows
    BY <1>1, <1>6, <2>1 DEF Grows
  <2>3. TypeOK'
    <3>1. client' \in [Clients -> Row]
      BY <1>4 DEF IInv, TypeOK, Row
    <3>2. runs' \in [Requests -> {RunOf(b, e, l) : b \in Asks, e \in Domains, l \in Keys}
                                   \cup {None}]
      BY <1>1, <1>6 DEF IInv, TypeOK
    <3> QED BY <1>1, <3>1, <3>2 DEF IInv, TypeOK, Row
  <2>4. (\A b \in Clients : Held(b)') /\ Exclusive'
    BY <1>1, <1>4, <2>2, AllHold
  <2>5. run.ask = a /\ run.company = d /\ run.lead = k
    BY DEF RunOf
  <2>6. RunsCite' /\ RunsFollowDecisions'
    <3>1. d # None
      BY <1>1, NoneIsNoDomain
    <3> HIDE DEF run
    <3>2. SUFFICES ASSUME NEW s \in Requests, runs'[s] # None
                   PROVE  /\ runs'[s].ask \in Asks /\ Request(runs'[s].ask) = s
                          /\ runs'[s].lead \in Keys /\ runs'[s].company \in Domains
                          /\ runs'[s].lead = runs'[s].ask.key \/ runs'[s].ask.event # None
                          /\ runs'[s].company # None
                          /\ runs'[s].company = resolved[s].company
                          /\ leads[runs'[s].lead] = LeadRow(runs'[s].ask, runs'[s].company)
                          /\ claims[s] = Claimed(runs'[s].ask)
      BY <1>1 DEF RunsCite, RunsFollowDecisions
    <3>3. CASE s = r
      <4>1. runs'[s] = run
        BY <2>1, <3>3
      <4>2. run.company # None /\ run.company = resolved[s].company
        BY <1>1, <2>5, <3>1, <3>3
      <4>3. run.lead = run.ask.key \/ run.ask.event # None
        BY <1>1, <2>5
      <4>4. leads[run.lead] = LeadRow(run.ask, run.company)
        BY <1>1, <2>5
      <4>5. /\ run.ask \in Asks /\ Request(run.ask) = s /\ run.lead \in Keys
            /\ run.company \in Domains /\ claims[s] = Claimed(run.ask)
        BY <1>1, <2>5, <3>3
      <4> HIDE DEF r
      <4> QED BY <4>1, <4>2, <4>3, <4>4, <4>5
    <3>4. CASE s # r
      BY <2>1, <3>2, <3>4 DEF IInv, RunsCite, RunsFollowDecisions
    <3> QED BY <3>3, <3>4
  <2>7. Agreement'
    <3> SUFFICES ASSUME NEW b \in Clients, client'[b].at = "start"
                 PROVE  /\ \A e \in Clients : client'[e].at = "start" /\ Its(e)' = Its(b)'
                                                => client'[e].lead = client'[b].lead
                        /\ runs'[Its(b)'] # None => runs'[Its(b)'].lead = client'[b].lead
      BY DEF Agreement
    <3>1. b # c /\ client'[b] = client[b] /\ Its(b)' = Its(b)
      BY <1>4 DEF Moves, Its
    <3>2. \A e \in Clients : client'[e].at = "start" /\ Its(e)' = Its(b)
                               => client'[e].lead = client[b].lead
      BY <1>4, <3>1 DEF IInv, Agreement, Moves, Its
    <3>3. Its(b) \in Requests
      BY <3>1, AtStartFacts, AtLeadFacts
    <3>4. runs'[Its(b)] # None => runs'[Its(b)].lead = client[b].lead
      BY <1>1, <2>1, <2>5, <3>1, <3>3 DEF IInv, Agreement
    <3> QED BY <3>1, <3>2, <3>4
  <2> QED BY <1>1, <2>2, <2>3, <2>4, <2>6, <2>7, TablesFollow DEF IInv
<1> QED BY <1>2, <1>5, <1>6

LEMMA UpsertStep ==
  ASSUME IInv, NEW d \in Domains, NEW n \in Names, CompanyUpsert(d, n)
  PROVE  IInv'
<1>1. /\ UNCHANGED <<claims, resolved, leads, runs, client>>
      /\ \A e \in Domains :
           \/ companies'[e] = companies[e]
           \/ ~Known(e) /\ companies'[e].by = "operator"
  BY DEF CompanyUpsert, IInv, TypeOK
<1>2. Grows
  BY <1>1 DEF Grows
<1>3. TypeOK'
  <2>1. companies' \in [Domains -> [name : Names \cup {None},
                                    by : {"nobody", "resolver", "operator"}]]
    BY DEF CompanyUpsert, IInv, TypeOK
  <2> QED BY <1>1, <2>1 DEF IInv, TypeOK
<1>4. \A b \in Clients : Held(b)'
  <2> TAKE b \in Clients
  <2>1. HasDomain(b) => Ask(b).domain \in Domains
    BY AskFields DEF IInv, Held, AskHeld, HasDomain, Over, Ask
  <2> QED BY <1>1, <1>2, <2>1, OthersHold
<1>5. Exclusive' /\ Agreement'
  BY <1>1 DEF IInv, Exclusive, Agreement, InTransaction, HasDomain, Its, Ask
<1> QED BY <1>1, <1>2, <1>3, <1>4, <1>5, TablesFollow DEF IInv

LEMMA StepIInv == IInv /\ [Next]_vars => IInv'
<1> SUFFICES ASSUME IInv, [Next]_vars PROVE IInv'
  OBVIOUS
<1>1. ASSUME NEW c \in Clients, NEW a \in Asks, Launch(c, a) PROVE IInv'
  BY <1>1, LaunchStep
<1>2. ASSUME NEW c \in Clients,
             \/ Probe(c) \/ Claim(c) \/ ResolveBegin(c) \/ ResolveLock(c)
             \/ ResolveNames(c) \/ ResolveCommit(c) \/ CreateLead(c)
             \/ Start(c) \/ Die(c)
      PROVE  IInv'
  BY <1>2, ProbeStep, ClaimStep, ResolveBeginStep, ResolveLockStep, ResolveNamesStep,
     ResolveCommitStep, CreateLeadStep, StartStep, DieStep
<1>3. ASSUME NEW d \in Domains, NEW n \in Names, CompanyUpsert(d, n) PROVE IInv'
  BY <1>3, UpsertStep
<1>4. CASE UNCHANGED vars
  BY <1>4 DEF vars, IInv, TypeOK, Held, AskHeld, ClaimHeld, TurnHeld, DomainHeld,
       CompanyHeld, LeadHeld, Exclusive, Agreement, DecisionsName, RunsCite,
       LeadsFollowDecisions, RunsFollowDecisions, InTransaction, HasDomain,
       HasCompany, Its, Ask, Known
<1> QED BY <1>1, <1>2, <1>3, <1>4 DEF Next

LEMMA Inductive == Spec => []IInv
BY InitIInv, StepIInv, PTL DEF Spec

-----------------------------------------------------------------------------
(* An invocation is moved by its own helpers alone.                        *)
Steps(c) ==
  \/ \E a \in Asks : Launch(c, a)
  \/ Probe(c) \/ Claim(c) \/ ResolveBegin(c) \/ ResolveLock(c)
  \/ ResolveNames(c) \/ ResolveCommit(c) \/ CreateLead(c) \/ Start(c) \/ Die(c)

LEMMA OneMoves ==
  ASSUME IInv, [Next]_vars, NEW c \in Clients, client'[c] # client[c]
  PROVE  Steps(c)
<1>1. client = [b \in Clients |-> client[b]]
  BY DEF IInv, TypeOK
<1>2. ASSUME NEW b \in Clients, Steps(b) PROVE b = c
  <2>1. \A e \in Clients \ {b} : client'[e] = client[e]
    BY <1>1, <1>2 DEF Steps, Launch, Probe, Claim, ResolveBegin, ResolveLock,
       ResolveNames, ResolveCommit, CreateLead, Start, Die, Finishes, Goes,
       Ends, Resolves
  <2> QED BY <2>1
<1>3. ASSUME NEW d \in Domains, NEW n \in Names, CompanyUpsert(d, n) PROVE FALSE
  BY <1>3 DEF CompanyUpsert
<1>4. ~UNCHANGED vars
  BY DEF vars
<1> QED BY <1>2, <1>3, <1>4 DEF Next, Steps

(* Where a step leaves its invocation.                                     *)
LEMMA Endings ==
  ASSUME IInv, NEW c \in Clients, Steps(c)
  PROVE  /\ client'[c].at = "start_refused" => Start(c) /\ ~Finishes(c)
         /\ client'[c].at = "collided" => ResolveCommit(c) /\ Ends(c, "collided")
<1>1. ASSUME Finishes(c) PROVE client'[c].at = "idle"
  BY <1>1 DEF Finishes, ClientAt, IInv, TypeOK
<1>2. ASSUME NEW p, Ends(c, p) PROVE client'[c].at = p
  BY <1>2 DEF Ends, ClientAt, IInv, TypeOK
<1>3. ASSUME NEW p, Goes(c, p) PROVE client'[c].at = p
  BY <1>3 DEF Goes, IInv, TypeOK
<1>4. ASSUME NEW d, Resolves(c, d) PROVE client'[c].at = "lead"
  BY <1>4 DEF Resolves, ClientAt, IInv, TypeOK
<1>5. ASSUME NEW a \in Asks, Launch(c, a) PROVE client'[c].at = "probe"
  BY <1>5 DEF Launch, ClientAt, IInv, TypeOK
<1>6. ASSUME ResolveLock(c) PROVE client'[c].at = "naming"
  BY <1>6 DEF ResolveLock, IInv, TypeOK
<1>7. ASSUME ResolveNames(c) PROVE client'[c].at = "deciding"
  BY <1>7 DEF ResolveNames, IInv, TypeOK
<1>8. ASSUME CreateLead(c) PROVE client'[c].at \in {"start", "lead_refused"}
  BY <1>2, <1>8 DEF CreateLead, IInv, TypeOK
<1>9. ASSUME ResolveBegin(c) PROVE client'[c].at \in {"idle", "locking", "lead"}
  BY <1>1, <1>3, <1>4, <1>9 DEF ResolveBegin
<1>10. ASSUME Start(c) PROVE client'[c].at = "idle" \/ client'[c].at = "start_refused"
  BY <1>1, <1>2, <1>10 DEF Start
<1>11. ASSUME ResolveCommit(c)
       PROVE  client'[c].at \in {"idle", "lead"} \/ Ends(c, "collided")
  BY <1>1, <1>4, <1>11 DEF ResolveCommit
<1>12. ASSUME Probe(c) \/ Claim(c) \/ Die(c)
       PROVE  client'[c].at \in {"idle", "claim", "resolve"}
  BY <1>1, <1>3, <1>12 DEF Probe, Claim, Die
<1>13. client'[c].at = "start_refused" => ~Finishes(c)
  BY <1>1
<1>14. Ends(c, "collided") => client'[c].at = "collided"
  BY <1>2
<1> QED BY <1>5, <1>6, <1>7, <1>8, <1>9, <1>10, <1>11, <1>12, <1>13, <1>14 DEF Steps

-----------------------------------------------------------------------------
(* However often, by whomever and in whatever order the helpers of a       *)
(* request run, workflow-start never refuses what the earlier steps let    *)
(* through (vcops.py:3238-3298).                                           *)
THEOREM StartAlwaysAccepts == Spec => []StartNeverRefuses
<1>1. Init => StartNeverRefuses
  BY DEF Init, StartNeverRefuses, ClientAt
<1>2. StartNeverRefuses /\ IInv /\ [Next]_vars => StartNeverRefuses'
  <2> SUFFICES ASSUME StartNeverRefuses, IInv, [Next]_vars, NEW c \in Clients,
                      client'[c].at = "start_refused"
               PROVE  FALSE
    BY DEF StartNeverRefuses
  <2>1. client'[c] # client[c]
    BY DEF StartNeverRefuses
  <2>2. Start(c) /\ ~Finishes(c)
    BY <2>1, OneMoves, Endings
  <2>3. client[c].at = "start"
    BY <2>2 DEF Start
  <2> QED BY <2>2, <2>3, StartMatches DEF Start, Its, Ask
<1> QED BY <1>1, <1>2, Inductive, PTL DEF Spec

(* Every lead and every run follows the decision of its own request,       *)
(* whoever else created companies and leads meanwhile (vcops.py:2713-2931).*)
THEOREM RecordsAlwaysFollow == Spec => []RecordsFollowDecisions
<1>1. IInv => RecordsFollowDecisions
  BY DEF IInv, RecordsFollowDecisions
<1> QED BY <1>1, Inductive, PTL

(* The advisory locks of the request and of the domain are enough: only    *)
(* company-upsert, which takes neither, makes a resolution collide         *)
(* (vcops.py:2749, 2826).                                                  *)
THEOREM LocksSuffice == Spec => OnlyUpsertCollides
<1>1. IInv /\ [Next]_vars =>
        [\A c \in Clients :
           client[c].at = "deciding" /\ client'[c].at = "collided" =>
             /\ resolved[Request(client[c].ask)].outcome = "none"
             /\ companies[client[c].ask.domain].by = "operator"]_vars
  <2> SUFFICES ASSUME IInv, [Next]_vars, NEW c \in Clients,
                      client[c].at = "deciding", client'[c].at = "collided"
               PROVE  /\ resolved[Request(client[c].ask)].outcome = "none"
                      /\ companies[client[c].ask.domain].by = "operator"
    OBVIOUS
  <2>1. client'[c] # client[c]
    OBVIOUS
  <2>2. ResolveCommit(c) /\ Ends(c, "collided")
    BY <2>1, OneMoves, Endings
  <2>3. ~Finishes(c) /\ \A d : ~Resolves(c, d)
    <3>1. Finishes(c) => client'[c].at = "idle"
      BY DEF Finishes, ClientAt, IInv, TypeOK
    <3>2. ASSUME NEW d, Resolves(c, d) PROVE client'[c].at = "lead"
      BY <3>2 DEF Resolves, ClientAt, IInv, TypeOK
    <3> QED BY <3>1, <3>2
  <2>4. resolved[Its(c)].outcome = "none"
    BY DecidingFacts
  <2>5. Outcome(client[c].hits, client[c].names) = "created" /\ Known(Ask(c).domain)
    BY <2>2, <2>3, <2>4 DEF ResolveCommit, Its, Ask
  <2>6. client[c].hits = {}
    BY <2>5 DEF Outcome
  <2> QED BY <2>4, <2>5, <2>6, DecidingFacts DEF Its, Ask
<1> QED BY <1>1, Inductive, PTL DEF Spec, OnlyUpsertCollides

(***************************************************************************)
(* The resolver, for every database whose levels and confidences are in    *)
(* range and every identity.  An answer is admissible because no search    *)
(* skips a row that ties a company to the identity (SearchesMissNothing),  *)
(* a match above the ceiling denies the answer, and all the rest of the    *)
(* answer is taken from what is below it (DecisionIsBounded, FactsAreBelow,*)
(* HistoryIsBelow).                                                        *)
(***************************************************************************)

(* A choice of the greatest chooses one of the set.                        *)
LEMMA NaturalsHaveLeast ==
  ASSUME NEW T \in SUBSET Nat, T # {}
  PROVE  \E x \in T : \A y \in T : x <= y
<1> DEFINE less == {p \in Nat \X Nat : p[1] < p[2]}
<1>1. IsWellFoundedOn(less, Nat)
  BY NatLessThanWellFounded, Zenon DEF OpToRel
<1>2. \A x, y \in T : <<y, x>> \notin less => x <= y
  OBVIOUS
<1> HIDE DEF less
<1> QED BY <1>1, <1>2, WFMin

LEMMA PercentagesHaveGreatest ==
  ASSUME NEW T \in SUBSET Percentages, T # {}
  PROVE  \E x \in T : \A y \in T : y <= x
<1> DEFINE U == {100 - x : x \in T}
<1>1. \A x \in T : x \in 0..100 /\ 100 - x \in Nat
  BY DEF Percentages
<1>. U \in SUBSET Nat
  BY <1>1
<1>. U # {}
  OBVIOUS
<1>2. PICK u \in U : \A v \in U : u <= v
  BY NaturalsHaveLeast
<1>3. PICK x \in T : u = 100 - x
  BY <1>2
<1>4. \A y \in T : 100 - x <= 100 - y
  BY <1>2, <1>3
<1>5. \A y \in T : y <= x
  <2> TAKE y \in T
  <2>1. x \in 0..100 /\ y \in 0..100 /\ 100 - x <= 100 - y
    BY <1>1, <1>4
  <2> HIDE DEF U
  <2> QED BY <2>1
<1> QED BY <1>5

LEMMA StrongestIsOne ==
  ASSUME NEW S, S # {}, \A m \in S : m.confidence \in Percentages
  PROVE  Strongest(S) \in S
<1> DEFINE T == {m.confidence : m \in S}
<1>. T \in SUBSET Percentages /\ T # {}
  OBVIOUS
<1>1. PICK x \in T : \A y \in T : y <= x
  BY PercentagesHaveGreatest
<1>2. PICK m \in S : m.confidence = x
  BY <1>1
<1>3. \E k \in S : \A n \in S : n.confidence <= k.confidence
  BY <1>1, <1>2
<1> QED BY <1>3 DEF Strongest

LEMMA OfEachAreSome ==
  ASSUME NEW S, \A m \in S : m.confidence \in Percentages
  PROVE  OfEach(S) \subseteq S
<1> SUFFICES ASSUME NEW c \in {m.company : m \in S}
             PROVE  Strongest({m \in S : m.company = c}) \in S
  BY DEF OfEach
<1>1. {m \in S : m.company = c} # {}
  OBVIOUS
<1> QED BY <1>1, StrongestIsOne

LEMMA MaxIsOne ==
  ASSUME NEW S \in SUBSET Levels, S # {}
  PROVE  Max(S) \in S
<1>1. S \in SUBSET Percentages
  BY DEF Levels, Percentages
<1>2. PICK x \in S : \A y \in S : y <= x
  BY <1>1, PercentagesHaveGreatest
<1>3. \A y \in S : x >= y
  BY <1>1, <1>2 DEF Percentages
<1> QED BY <1>3 DEF Max

LEMMA FirstsAreSome ==
  ASSUME NEW S, NEW n
  PROVE  Firsts(S, Better, n) \subseteq S /\ Firsts(S, <, n) \subseteq S
BY DEF Firsts

(* What the constraints of the tables and of the command line leave.       *)
Askable(db, q) == WellFormed(db, SearchedNames(q)) /\ q.ceiling \in Levels

LEMMA MatchFields ==
  ASSUME NEW c, NEW method, NEW confidence, NEW level
  PROVE  LET m == Match(c, method, confidence, level)
         IN  /\ m.company = c /\ m.method = method
             /\ m.confidence = confidence /\ m.level = level
BY DEF Match

-----------------------------------------------------------------------------
Rated(m) == m.level \in Levels /\ m.confidence \in Percentages

LEMMA ConstantsAreRated ==
  /\ Internal \in Levels /\ Public \in Levels
  /\ {90, 95, 98, 100} \subseteq Percentages
BY DEF Internal, Public, Levels, Percentages

MatchOf(l, a) == Match(l.company, "artifact_sha256", 100, Max({l.level, a.level}))

LEMMA ArtifactMatches ==
  ASSUME NEW db, NEW q, NEW m
  PROVE  m \in ByArtifact(db, q) <=>
           \E l \in db.leads : \E a \in l.artifacts : a.sha = q.sha /\ m = MatchOf(l, a)
<1> DEFINE of(l) == {MatchOf(l, a) : a \in {x \in l.artifacts : x.sha = q.sha}}
<1>1. ByArtifact(db, q) = UNION {of(l) : l \in db.leads}
  BY DEF ByArtifact, MatchOf
<1>2. \A l : m \in of(l) <=> \E a \in l.artifacts : a.sha = q.sha /\ m = MatchOf(l, a)
  OBVIOUS
<1> HIDE DEF of
<1> QED BY <1>1, <1>2

LEMMA ExactAreRated ==
  ASSUME NEW db, NEW q, Askable(db, q)
  PROVE  \A m \in Exact(db, q) : Rated(m)
<1>1. \A m \in ById(db, q) : Rated(m)
  BY ConstantsAreRated DEF ById, Rated, Askable, WellFormed, Match
<1>2. \A m \in ByArtifact(db, q) : Rated(m)
  <2> SUFFICES ASSUME NEW m, m \in ByArtifact(db, q) PROVE Rated(m)
    OBVIOUS
  <2>1. PICK l \in db.leads : \E a \in l.artifacts : a.sha = q.sha /\ m = MatchOf(l, a)
    BY ArtifactMatches
  <2>2. PICK a \in l.artifacts : m = MatchOf(l, a)
    BY <2>1
  <2>3. {l.level, a.level} \in SUBSET Levels
    BY DEF Askable, WellFormed
  <2>4. Max({l.level, a.level}) \in Levels
    BY <2>3, MaxIsOne
  <2> QED BY <2>2, <2>4, ConstantsAreRated, MatchFields DEF MatchOf, Rated
<1>3. \A m \in ByExternal(db, q) : Rated(m)
  BY MatchFields DEF ByExternal, Rated, Askable, WellFormed
<1>4. \A m \in ByChannel(db, q) : Rated(m)
  BY MatchFields, ConstantsAreRated DEF ByChannel, Rated, Askable, WellFormed
<1>5. \A m \in ByDomain(db, q) : Rated(m)
  BY MatchFields, ConstantsAreRated DEF ByDomain, Rated, Askable, WellFormed
<1>6. \A n : \A m \in ByName(db, n) : Rated(m)
  BY MatchFields, ConstantsAreRated DEF ByName, Rated, Askable, WellFormed
<1> QED BY <1>1, <1>2, <1>3, <1>4, <1>5, <1>6 DEF Exact

(* The searches miss no row: whatever ties a company to the identity is    *)
(* matched, in a column only when no row has what is asked.                *)
LEMMA SearchesMissNothing ==
  ASSUME NEW db, NEW q, NEW c \in Carriers(db, q)
  PROVE  \E m \in Exact(db, q) : m.company = c
<1>1. CASE \E x \in db.companies : x.id = q.company /\ c = x.id
  BY <1>1, MatchFields DEF ById, Exact
<1>2. CASE \E l \in db.leads : l.id = q.lead /\ c = l.company
  BY <1>2, MatchFields DEF ById, Exact
<1>3. CASE \E l \in db.leads : q.event # None /\ l.event = q.event /\ c = l.company
  BY <1>3, MatchFields DEF ByChannel, Exact
<1>4. CASE \E l \in db.leads : c = l.company /\ \E a \in l.artifacts : a.sha = q.sha
  <2>0. PICK l \in db.leads : c = l.company /\ \E a \in l.artifacts : a.sha = q.sha
    BY <1>4
  <2>1. PICK a \in l.artifacts : a.sha = q.sha
    BY <2>0
  <2>2. MatchOf(l, a) \in ByArtifact(db, q)
    BY <2>1, ArtifactMatches
  <2> QED BY <2>0, <2>1, <2>2, MatchFields DEF MatchOf, Exact
<1>5. CASE \E e \in db.externals : e.external = q.external /\ c = e.company
  BY <1>5, MatchFields DEF ByExternal, Exact
<1>6. CASE \E h \in db.hosts : h.host = q.domain /\ c = h.company
  BY <1>6, MatchFields DEF ByDomain, Exact
<1>7. CASE \E a \in db.aliases :
             a.plain /\ a.name \in SearchedNames(q) /\ c = a.company
  <2>1. PICK a \in db.aliases :
          a.plain /\ a.name \in SearchedNames(q) /\ c = a.company
    BY <1>7
  <2>2. \E m \in ByName(db, a.name) : m.company = c
    BY <2>1, MatchFields DEF ByName
  <2> QED BY <2>1, <2>2 DEF Exact
<1> QED BY <1>1, <1>2, <1>3, <1>4, <1>5, <1>6, <1>7 DEF Carriers

(* What may be found by similarity is below the ceiling.                   *)
LEMMA SimilarAreBelow ==
  ASSUME NEW db, NEW q, Askable(db, q), Fuzzy(db, q)
  PROVE  /\ \A m \in EqualNames(db, q) : Rated(m) /\ m.level <= q.ceiling
         /\ \A m \in SimilarNames(db, q) : Rated(m) /\ m.level <= q.ceiling
<1>1. \A x \in Bucket(db, q) : x.level \in Levels /\ x.level <= q.ceiling
  BY ConstantsAreRated DEF Bucket, Fuzzy, Askable, WellFormed
<1>2. Target(q) \in SearchedNames(q)
  BY DEF Fuzzy, Target, SearchedNames
<1>3. \A o \in DOMAIN db.alike[Target(q)] : db.alike[Target(q)][o] \in Percentages
  BY <1>2 DEF Askable, WellFormed
<1> QED BY <1>1, <1>3, MatchFields, ConstantsAreRated DEF EqualNames, SimilarNames, Rated

-----------------------------------------------------------------------------
Bounded(q, matches) == \A m \in matches : Rated(m) /\ m.level <= q.ceiling

(* What a decision is, whatever matched.                                   *)
LEMMA DecisionFields ==
  ASSUME NEW o, NEW c, NEW candidates
  PROVE  /\ Decided(o, c, candidates).outcome = o
         /\ Decided(o, c, candidates).company = c
         /\ Decided(o, c, candidates).candidates = candidates
BY DEF Decided

LEMMA DecisionIsBounded ==
  ASSUME NEW q, NEW exact, NEW fuzzy, NEW denied,
         Bounded(q, exact), Bounded(q, fuzzy)
  PROVE  LET found == {m.company : m \in exact}
             decision == DecideResolution(exact, fuzzy, denied, q)
         IN  /\ Bounded(q, decision.candidates)
             /\ decision.outcome = "existing" =>
                  denied = {} /\ found = {decision.company}
             /\ decision.outcome = "new_allowed" =>
                  /\ denied = {} /\ found = {} /\ fuzzy = {}
                  /\ q.name # None /\ q.domain # None
<1> DEFINE found == {m.company : m \in exact}
           one == \E c \in found : found = {c}
           the == CHOOSE c \in found : TRUE
           decision == DecideResolution(exact, fuzzy, denied, q)
<1> SUFFICES /\ Bounded(q, decision.candidates)
             /\ decision.outcome = "existing" =>
                  denied = {} /\ found = {decision.company}
             /\ decision.outcome = "new_allowed" =>
                  /\ denied = {} /\ found = {} /\ fuzzy = {}
                  /\ q.name # None /\ q.domain # None
  OBVIOUS
<1>1. Bounded(q, OfEach(exact)) /\ Bounded(q, {})
  BY OfEachAreSome DEF Bounded, Rated
<1>2. \/ decision = Decided("denied", None, {})
      \/ decision = Decided("human_review", None, OfEach(exact))
      \/ denied = {} /\ one /\ decision = Decided("existing", the, {})
      \/ decision = Decided("human_review", None, fuzzy)
      \/ /\ denied = {} /\ found = {} /\ fuzzy = {} /\ q.name # None /\ q.domain # None
         /\ decision = Decided("new_allowed", None, {})
      \/ decision = Decided("no_match", None, {})
  BY DEF DecideResolution
<1>3. one => found = {the}
  OBVIOUS
<1> HIDE DEF decision, one, the, found
<1> QED BY <1>1, <1>2, <1>3, DecisionFields

(* The records that go with a company are below the ceiling.               *)
LEMMA FactsAreBelow ==
  ASSUME NEW db, NEW q, NEW c, NEW i \in DOMAIN CurrentFacts(db, c, q)
  PROVE  /\ db.facts[i].lead # None => LevelOf(db, db.facts[i].lead) <= q.ceiling
         /\ \A j \in CurrentFacts(db, c, q)[i] : db.facts[i].sources[j] <= q.ceiling
BY DEF CurrentFacts, Firsts, Visible

LEMMA HistoryIsBelow ==
  ASSUME NEW db, NEW q, NEW c, NEW rows, NEW i \in History(db, c, q, rows)
  PROVE  rows[i].lead # None => LevelOf(db, rows[i].lead) <= q.ceiling
BY DEF History, Firsts, Visible

LEMMA AnswerFields ==
  ASSUME NEW db, NEW q
  PROVE  LET all == Exact(db, q)
             exact == Below(q, all) \cup (IF Fuzzy(db, q) THEN EqualNames(db, q) ELSE {})
             fuzzy == IF Fuzzy(db, q) THEN Candidates(db, q) ELSE {}
             decision == DecideResolution(exact, fuzzy, Denied(q, all), q)
             c == decision.company
             a == Answer(db, q)
         IN  /\ a.outcome = decision.outcome /\ a.company = c
             /\ a.candidates = decision.candidates
             /\ decision.outcome # "existing" =>
                  /\ a.matched = None /\ a.facts = <<>>
                  /\ a.evaluations = {} /\ a.memos = {} /\ a.runs = {}
             /\ decision.outcome = "existing" =>
                  /\ a.matched = Max({m.level : m \in {n \in exact : n.company = c}})
                  /\ a.facts = CurrentFacts(db, c, q)
                  /\ a.evaluations = History(db, c, q, db.evaluations)
                  /\ a.memos = History(db, c, q, db.memos)
                  /\ a.runs = History(db, c, q, db.runs)
BY DEF Answer

LEMMA AnswerIsAdmissible ==
  ASSUME NEW db, NEW q, Askable(db, q)
  PROVE  Admissible(db, q, Answer(db, q))
<1> DEFINE all == Exact(db, q)
           exact == Below(q, all) \cup (IF Fuzzy(db, q) THEN EqualNames(db, q) ELSE {})
           fuzzy == IF Fuzzy(db, q) THEN Candidates(db, q) ELSE {}
           found == {m.company : m \in exact}
           decision == DecideResolution(exact, fuzzy, Denied(q, all), q)
           c == decision.company
           a == Answer(db, q)
<1>1. /\ a.outcome = decision.outcome /\ a.company = c
      /\ a.candidates = decision.candidates
      /\ decision.outcome # "existing" =>
           /\ a.matched = None /\ a.facts = <<>>
           /\ a.evaluations = {} /\ a.memos = {} /\ a.runs = {}
      /\ decision.outcome = "existing" =>
           /\ a.matched = Max({m.level : m \in {n \in exact : n.company = c}})
           /\ a.facts = CurrentFacts(db, c, q)
           /\ a.evaluations = History(db, c, q, db.evaluations)
           /\ a.memos = History(db, c, q, db.memos)
           /\ a.runs = History(db, c, q, db.runs)
  BY AnswerFields
<1>2. Bounded(q, exact)
  BY ExactAreRated, SimilarAreBelow DEF Bounded, Below
<1>3. Bounded(q, fuzzy)
  <2>1. CASE Fuzzy(db, q)
    <3>1. Candidates(db, q) \subseteq SimilarNames(db, q)
      <4>1. \A m \in SimilarNames(db, q) : Rated(m) /\ m.level <= q.ceiling
        BY <2>1, SimilarAreBelow
      <4>2. OfEach(SimilarNames(db, q)) \subseteq SimilarNames(db, q)
        BY <4>1, OfEachAreSome DEF Rated
      <4> QED BY <4>2 DEF Candidates, Firsts
    <3> QED BY <2>1, <3>1, SimilarAreBelow DEF Bounded
  <2> QED BY <2>1 DEF Bounded
<1>4. Denied(q, all) = {} => \A m \in all : m \in exact
  BY DEF Denied, Below
<1>5. \A m \in exact : m \in all \/ (all = {} /\ Fuzzy(db, q) /\ m \in EqualNames(db, q))
  BY DEF Below, Fuzzy
<1>6. Fuzzy(db, q) => EqualNames(db, q) \subseteq exact
  OBVIOUS
<1> HIDE DEF exact, fuzzy
<1>7. /\ Bounded(q, decision.candidates)
      /\ decision.outcome = "existing" => Denied(q, all) = {} /\ found = {c}
      /\ decision.outcome = "new_allowed" =>
           /\ Denied(q, all) = {} /\ found = {} /\ fuzzy = {}
           /\ q.name # None /\ q.domain # None
  BY <1>2, <1>3, DecisionIsBounded
<1> HIDE DEF decision, a
<1>8. a.outcome = "existing" => Carriers(db, q) \subseteq {a.company}
  BY <1>1, <1>4, <1>7, SearchesMissNothing
<1>9. ASSUME a.outcome = "new_allowed"
      PROVE  /\ Carriers(db, q) = {}
             /\ \A x \in db.companies : /\ x.domain # q.domain
                                        /\ x.plain => x.name \notin SearchedNames(q)
             /\ q.ceiling >= Internal => \A x \in Bucket(db, q) : x.name # q.name
  <2>1. /\ all = {} /\ exact = {} /\ q.name # None /\ q.domain # None
    BY <1>1, <1>4, <1>7, <1>9
  <2>2. Carriers(db, q) = {}
    BY <2>1, SearchesMissNothing
  <2>3. ASSUME NEW x \in db.companies
        PROVE  x.domain # q.domain /\ (x.plain => x.name \notin SearchedNames(q))
    <3>1. ByDomain(db, q) = {} /\ \A n \in SearchedNames(q) : ByName(db, n) = {}
      BY <2>1 DEF Exact
    <3>2. x.domain # q.domain
      BY <2>1, <3>1 DEF ByDomain
    <3>3. ByName(db, x.name) = {} => ~x.plain
      BY DEF ByName
    <3> QED BY <3>1, <3>2, <3>3
  <2>4. ASSUME q.ceiling >= Internal, NEW x \in Bucket(db, q)
        PROVE  x.name # q.name
    <3>1. Fuzzy(db, q)
      BY <2>1, <2>4 DEF Fuzzy, Target, Askable, Levels, Internal
    <3>2. EqualNames(db, q) = {}
      BY <1>6, <2>1, <3>1
    <3>3. x.name = Target(q) => EqualNames(db, q) # {}
      BY DEF EqualNames
    <3> QED BY <2>1, <3>2, <3>3 DEF Target
  <2> QED BY <2>2, <2>3, <2>4
<1>10. WithinCeiling(db, q, a)
  <2>1. \A m \in a.candidates : m.level <= q.ceiling
    BY <1>1, <1>7 DEF Bounded
  <2>2. CASE decision.outcome = "existing"
    <3>1. a.matched <= q.ceiling
      <4> DEFINE levels == {m.level : m \in {n \in exact : n.company = c}}
      <4>1. levels # {} /\ levels \in SUBSET Levels
        BY <1>2, <1>7, <2>2 DEF Bounded, Rated
      <4>2. Max(levels) \in levels
        BY <4>1, MaxIsOne
      <4> QED BY <1>1, <1>2, <2>2, <4>2 DEF Bounded
    <3>2. \A i \in DOMAIN a.facts :
            /\ db.facts[i].lead # None => LevelOf(db, db.facts[i].lead) <= q.ceiling
            /\ \A j \in a.facts[i] : db.facts[i].sources[j] <= q.ceiling
      BY <1>1, <2>2, FactsAreBelow
    <3>3. \A lead \in {db.evaluations[i].lead : i \in a.evaluations}
                     \cup {db.memos[i].lead : i \in a.memos}
                     \cup {db.runs[i].lead : i \in a.runs} :
            lead # None => LevelOf(db, lead) <= q.ceiling
      BY <1>1, <2>2, HistoryIsBelow
    <3> QED BY <2>1, <3>1, <3>2, <3>3 DEF WithinCeiling
  <2>3. CASE decision.outcome # "existing"
    <3>1. DOMAIN a.facts = {}
      BY <1>1, <2>3
    <3> QED BY <1>1, <2>1, <2>3, <3>1 DEF WithinCeiling
  <2> QED BY <2>2, <2>3
<1> QED BY <1>8, <1>9, <1>10 DEF Admissible, a

-----------------------------------------------------------------------------
(* memory-lookup asks the same with another identity, and overwrites one   *)
(* field of the answer.                                                    *)
LEMMA SwitchedOff ==
  ASSUME NEW o, NEW c, NEW k, NEW l, NEW f, NEW e, NEW m, NEW r, NEW x, NEW y
  PROVE  LET a == [outcome |-> o, company |-> c, candidates |-> k, matched |-> l,
                   facts |-> f, evaluations |-> e, memos |-> m, runs |-> r,
                   research |-> x]
             b == [a EXCEPT !.research = y]
         IN  /\ b.outcome = a.outcome /\ b.company = a.company
             /\ b.candidates = a.candidates /\ b.matched = a.matched
             /\ b.facts = a.facts /\ b.evaluations = a.evaluations
             /\ b.memos = a.memos /\ b.runs = a.runs /\ b.research = y
OBVIOUS

LEMMA LookupIsAdmissible ==
  ASSUME NEW db, NEW q, NEW text, Askable(db, LookupIdentity(text, q))
  PROVE  LET a == MemoryLookup(db, text, q)
         IN  Admissible(db, LookupIdentity(text, q), a) /\ ~a.research
<1> DEFINE asked == LookupIdentity(text, q)
           no == FALSE
           a == Answer(db, asked)
           b == [a EXCEPT !.research = no]
<1>1. Admissible(db, asked, a)
  BY AnswerIsAdmissible
<1>2. MemoryLookup(db, text, q) = b
  BY DEF MemoryLookup
<1> HIDE DEF no, asked
<1>3. /\ b.outcome = a.outcome /\ b.company = a.company
      /\ b.candidates = a.candidates /\ b.matched = a.matched
      /\ b.facts = a.facts /\ b.evaluations = a.evaluations
      /\ b.memos = a.memos /\ b.runs = a.runs /\ b.research = no
  BY SwitchedOff DEF Answer
<1> HIDE DEF a, b
<1>4. Admissible(db, asked, b)
  BY <1>1, <1>3 DEF Admissible, WithinCeiling
<1>5. ~b.research
  BY <1>3 DEF no
<1> QED BY <1>2, <1>4, <1>5 DEF asked

(* It asks for what its caller asked for, or for its text.                 *)
LEMMA LookedUp ==
  ASSUME NEW q, NEW text,
         q = [x \in IdentityKeys \cup {"purpose", "ceiling", "limit"} |-> q[x]]
  PROVE  /\ LookupIdentity(text, q).ceiling = q.ceiling
         /\ SearchedNames(LookupIdentity(text, q)) \subseteq {text.name}
<1> DEFINE asked == LookupIdentity(text, q)
<1>1. {"ceiling", "name", "alias"} \subseteq DOMAIN q
  BY DEF IdentityKeys
<1>2. asked.ceiling = q.ceiling
  BY <1>1 DEF LookupIdentity, IdentityKeys
<1>3. asked.name \in {text.name, None} /\ asked.alias \in {text.name, None}
  BY <1>1 DEF LookupIdentity, IdentityKeys
<1> QED BY <1>2, <1>3 DEF SearchedNames

LEMMA FewerNames ==
  ASSUME NEW db, NEW names, NEW some \in SUBSET names, WellFormed(db, names)
  PROVE  WellFormed(db, some)
BY DEF WellFormed

LEMMA EveryAnswerIsAdmissible == AnswersAreAdmissible
<1> SUFFICES ASSUME NEW db \in Databases, NEW q \in Identities
             PROVE  /\ Identified(q) => Admissible(db, q, EntityResolve(db, q))
                    /\ \A text \in Texts :
                         LET a == MemoryLookup(db, text, q)
                         IN  Admissible(db, LookupIdentity(text, q), a) /\ ~a.research
  BY DEF AnswersAreAdmissible
<1> DEFINE names == (UNION {SearchedNames(r) : r \in Identities})
                       \cup {t.name : t \in Texts}
<1>1. /\ q = [x \in IdentityKeys \cup {"purpose", "ceiling", "limit"} |-> q[x]]
      /\ q.ceiling \in Levels /\ WellFormed(db, names)
  BY ResolverAssumption
<1>2. SearchedNames(q) \in SUBSET names
  OBVIOUS
<1>3. \A text \in Texts : {text.name} \in SUBSET names
  <2> TAKE text \in Texts
  <2>1. text.name \in {t.name : t \in Texts}
    OBVIOUS
  <2>2. text.name \in names
    BY <2>1
  <2> HIDE DEF names
  <2> QED BY <2>2
<1> HIDE DEF names
<1>4. Identified(q) => Admissible(db, q, EntityResolve(db, q))
  <2>1. Askable(db, q)
    BY <1>1, <1>2, FewerNames DEF Askable
  <2> QED BY <2>1, AnswerIsAdmissible DEF EntityResolve
<1>5. ASSUME NEW text \in Texts
      PROVE  Askable(db, LookupIdentity(text, q))
  <2>1. SearchedNames(LookupIdentity(text, q)) \in SUBSET names
    BY <1>1, <1>3, LookedUp
  <2> QED BY <1>1, <2>1, FewerNames, LookedUp DEF Askable
<1> QED BY <1>4, <1>5, LookupIsAdmissible

(* Whatever the tables hold, an answer shows nothing above the ceiling of  *)
(* its caller, a company that is found is the only one that any row ties   *)
(* to the identity, and a company that may be created shares its domain    *)
(* with none, its name as it is spelt with none, and its normalized name   *)
(* with none that the trigram index returns (vcops.py:608-701, 2433-2692). *)
THEOREM ResolverIsAlwaysAdmissible == Spec => []ResolverIsAdmissible
<1>1. ResolverIsAdmissible
  BY EveryAnswerIsAdmissible DEF ResolverIsAdmissible
<1> QED BY <1>1, PTL
=============================================================================
