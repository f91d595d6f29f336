------------------------------- MODULE Intake -------------------------------
(***************************************************************************)
(* How a request becomes a company, a lead and a run: the shared head of   *)
(* the graphs outbound-scout, inbound-text-intake and inbound-intake,      *)
(* executed by concurrent vcrun processes, beside an operator who adds     *)
(* companies with company-upsert.                                          *)
(*                                                                         *)
(* workflow-request-claim, create-lead and workflow-start are each one     *)
(* step.  company-resolve-create is one READ COMMITTED transaction of      *)
(* several: it waits for the advisory lock of its request, then for the    *)
(* one of its domain, reads domains and names in separate statements, and  *)
(* writes at the end.  A lock is held by whoever is at a place between     *)
(* taking it and the end of the transaction.                               *)
(*                                                                         *)
(* companies_canonical_domain_uidx gives a domain at most one company, so  *)
(* a domain stands for its company.  All identity rows are internal, as    *)
(* these commands write them; the title of a lead goes with its name.      *)
(***************************************************************************)
EXTENDS Naturals, FiniteSets

CONSTANTS
  Clients,    \* vcrun invocations
  Asks,       \* the argument sets they may be launched with
  Names,      \* normalized company names
  Similar,    \* pairs of different names over the review threshold
  Databases, Identities, Texts,  \* what the resolver is asked outside intake
  None

Domains == {a.domain : a \in Asks}
Keys == {a.key : a \in Asks}
Request(a) == <<a.flow, a.key>>
Requests == {Request(a) : a \in Asks}

ASSUME IntakeAssumption ==
  /\ \A a \in Asks : /\ a = [flow |-> a.flow, key |-> a.key, name |-> a.name,
                            domain |-> a.domain, event |-> a.event, origin |-> a.origin]
                     /\ a.name \in Names /\ a.key # None /\ a.domain # None
  /\ None \notin Names \cup Asks
  /\ \A n \in Names : <<n, n>> \notin Similar

(* Outside intake any agent asks the resolver, on rows of every kind.      *)
INSTANCE EntityResolver

ASSUME ResolverAssumption ==
  /\ \A q \in Identities :
       /\ q = [x \in IdentityKeys \cup {"purpose", "ceiling", "limit"} |-> q[x]]
       /\ q.ceiling \in Levels
  /\ LET names == (UNION {SearchedNames(q) : q \in Identities})
                    \cup {t.name : t \in Texts}
     IN  \A db \in Databases : WellFormed(db, names)

VARIABLES
  claims,     \* workflow_requests: what each request is bound to
  companies,  \* the company of each domain: its name, and who made it
  resolved,   \* the persisted decision of each request
  leads,      \* the lead of each idempotency key
  runs,       \* the identity of each run: its arguments, company and lead
  client      \* per invocation: where it is and what it carries

vars == <<claims, companies, resolved, leads, runs, client>>
tables == <<claims, companies, resolved, leads, runs>>

Claimed(a) == [name |-> a.name, domain |-> a.domain, event |-> a.event]
NoCompany == [name |-> None, by |-> "nobody"]
Decision(o, d) == [outcome |-> o, company |-> d]

(* Mutant: the request hash of a lead leaves its origin out.               *)
LeadRowAnyOrigin(a, d) ==
  [flow |-> a.flow, origin |-> "unknown", event |-> a.event, company |-> d]

LeadRow(a, d) == [flow |-> a.flow, origin |-> a.origin, event |-> a.event, company |-> d]
RunOf(a, d, k) == [ask |-> a, company |-> d, lead |-> k]

ASSUME RowsAreNotNone ==
  \A a \in Asks, d \in Domains, k \in Keys :
    None \notin {Claimed(a), LeadRow(a, d), RunOf(a, d, k)}

(* Where an invocation can be: outside the database, in the transaction of *)
(* company-resolve-create, and over.  Its caller may try again in any way  *)
(* it ended; only the endings that a property is about have a name.        *)
Between   == {"probe", "claim", "resolve", "lead", "start"}
Resolving == {"locking", "naming", "deciding"}
Over      == {"idle", "collided", "lead_refused", "start_refused"}

(* company: the resolved one; lead: the key of its lead; hits, names: the  *)
(* companies that the domain and the name statements returned.             *)
ClientAt(p, a) == [at |-> p, ask |-> a, company |-> None, lead |-> None,
                   hits |-> {}, names |-> {}]

TypeOK ==
  /\ claims \in [Requests -> {Claimed(a) : a \in Asks} \cup {None}]
  /\ companies \in [Domains -> [name : Names \cup {None},
                                by : {"nobody", "resolver", "operator"}]]
  /\ resolved \in [Requests -> [outcome : {"none", "existing", "created", "review"},
                                company : Domains \cup {None}]]
  /\ leads \in [Keys -> {LeadRow(a, d) : a \in Asks, d \in Domains} \cup {None}]
  /\ runs \in [Requests -> {RunOf(a, d, k) : a \in Asks, d \in Domains, k \in Keys}
                              \cup {None}]
  /\ client \in [Clients -> [at : Between \cup Resolving \cup Over,
                             ask : Asks \cup {None}, company : Domains \cup {None},
                             lead : Keys \cup {None}, hits : SUBSET Domains,
                             names : SUBSET Domains]]

Init ==
  /\ claims = [r \in Requests |-> None]
  /\ companies = [d \in Domains |-> NoCompany]
  /\ resolved = [r \in Requests |-> Decision("none", None)]
  /\ leads = [k \in Keys |-> None]
  /\ runs = [r \in Requests |-> None]
  /\ client = [c \in Clients |-> ClientAt("idle", None)]

-----------------------------------------------------------------------------
Known(d) == companies[d] # NoCompany

(* The name statements: aliases first, the name column only if no alias    *)
(* matches, similarity only if nothing matched exactly.  A company that    *)
(* company-upsert made has no alias and no company_domains row.            *)
SameName(n) ==
  LET aliased == {d \in Domains : companies[d] = [name |-> n, by |-> "resolver"]} IN
  IF aliased # {} THEN aliased ELSE {d \in Domains : companies[d].name = n}
Alike(n) == {d \in Domains : <<companies[d].name, n>> \in Similar}
NamesFound(hits, n) ==
  IF hits \cup SameName(n) # {} THEN SameName(n) ELSE Alike(n)

(* decide_entity_resolution for company_creation.                          *)
Outcome(hits, names) ==
  IF hits # {} /\ names \subseteq hits THEN "existing"
  ELSE IF hits \cup names = {} THEN "created" ELSE "review"

(* Mutant: no advisory lock on the domain.                                 *)
DomainNeverLocked(d, c) == FALSE

RequestLocked(r, c) ==
  \E b \in Clients \ {c} : client[b].at \in Resolving /\ Request(client[b].ask) = r
DomainLocked(d, c) ==
  \E b \in Clients \ {c} :
    client[b].at \in Resolving \ {"locking"} /\ client[b].ask.domain = d

Finishes(c) == client' = [client EXCEPT ![c] = ClientAt("idle", None)]
Goes(c, place) == client' = [client EXCEPT ![c].at = place]
Ends(c, place) == client' = [client EXCEPT ![c] = ClientAt(place, client[c].ask)]

(* The resolving transaction is over and what it read is forgotten.        *)
Resolves(c, d) ==
  client' = [client EXCEPT ![c] = [ClientAt("lead", client[c].ask) EXCEPT !.company = d]]

-----------------------------------------------------------------------------
(* vcrun is started, perhaps again with the arguments of an earlier call.  *)
Launch(c, a) ==
  /\ client[c].at \in Over
  /\ client' = [client EXCEPT ![c] = ClientAt("probe", a)]
  /\ UNCHANGED tables

(* The replay probe: other arguments are refused; a run that is completed, *)
(* cancelled or lost is not executed again, any other one is.              *)
Probe(c) ==
  LET a == client[c].ask
      run == runs[Request(a)] IN
  /\ client[c].at = "probe"
  /\ \/ (run # None => run.ask = a) /\ Goes(c, "claim")
     \/ run # None /\ Finishes(c)
  /\ UNCHANGED tables

Claim(c) ==
  LET a == client[c].ask
      r == Request(a) IN
  /\ client[c].at = "claim"
  /\ \/ claims[r] = None
        /\ claims' = [claims EXCEPT ![r] = Claimed(a)] /\ Goes(c, "resolve")
     \/ claims[r] = Claimed(a) /\ Goes(c, "resolve") /\ UNCHANGED claims
     \/ claims[r] \notin {None, Claimed(a)} /\ Finishes(c) /\ UNCHANGED claims
  /\ UNCHANGED <<companies, resolved, leads, runs>>

(* The identity given to the resolver is the one the request claimed.      *)
Bound(r, a) == claims[r].name = a.name /\ claims[r].domain = a.domain

(* company-resolve-create: the request lock, the claim and a prior         *)
(* decision, whose consumption is returned.                                *)
ResolveBegin(c) ==
  LET a == client[c].ask
      r == Request(a)
      prior == resolved[r] IN
  /\ client[c].at = "resolve" /\ ~RequestLocked(r, c)
  /\ \/ ~Bound(r, a) /\ Finishes(c)
     \/ Bound(r, a) /\ prior.outcome = "none" /\ Goes(c, "locking")
     \/ Bound(r, a) /\ prior.outcome = "review" /\ Finishes(c)
     \/ /\ Bound(r, a) /\ prior.outcome \in {"existing", "created"}
        /\ Resolves(c, prior.company)
  /\ UNCHANGED tables

ResolveLock(c) ==
  LET d == client[c].ask.domain IN
  /\ client[c].at = "locking" /\ ~DomainLocked(d, c)
  /\ client' = [client EXCEPT ![c].at = "naming",
                              ![c].hits = IF Known(d) THEN {d} ELSE {}]
  /\ UNCHANGED tables

ResolveNames(c) ==
  /\ client[c].at = "naming"
  /\ client' = [client EXCEPT ![c].at = "deciding",
                              ![c].names = NamesFound(client[c].hits, client[c].ask.name)]
  /\ UNCHANGED tables

(* The decision is written with all its effects, or the whole transaction  *)
(* is rolled back by a unique index: of resolution runs or of domains.     *)
ResolveCommit(c) ==
  LET a == client[c].ask
      r == Request(a)
      outcome == Outcome(client[c].hits, client[c].names) IN
  /\ client[c].at = "deciding"
  /\ \/ /\ resolved[r].outcome # "none" \/ (outcome = "created" /\ Known(a.domain))
        /\ Ends(c, "collided") /\ UNCHANGED <<resolved, companies>>
     \/ /\ resolved[r].outcome = "none" /\ outcome = "review"
        /\ resolved' = [resolved EXCEPT ![r] = Decision("review", None)]
        /\ Finishes(c) /\ UNCHANGED companies
     \/ /\ resolved[r].outcome = "none" /\ outcome = "existing"
        /\ resolved' = [resolved EXCEPT ![r] = Decision("existing", a.domain)]
        /\ Resolves(c, a.domain) /\ UNCHANGED companies
     \/ /\ resolved[r].outcome = "none" /\ outcome = "created" /\ ~Known(a.domain)
        /\ resolved' = [resolved EXCEPT ![r] = Decision("created", a.domain)]
        /\ companies' = [companies EXCEPT ![a.domain] =
                           [name |-> a.name, by |-> "resolver"]]
        /\ Resolves(c, a.domain)
  /\ UNCHANGED <<claims, leads, runs>>

(* Keys are unique over all workflows, provider events too.                *)
Matches(a) ==
  {k \in Keys : /\ leads[k] # None
                /\ k = a.key \/ (a.event # None /\ leads[k].event = a.event)}

(* Mutant: a lead that is found is returned without comparing its hash.    *)
CreateLeadUnchecked(c) ==
  LET a == client[c].ask
      row == LeadRow(a, client[c].company) IN
  /\ client[c].at = "lead"
  /\ \/ /\ Matches(a) = {}
        /\ leads' = [leads EXCEPT ![a.key] = row]
        /\ client' = [client EXCEPT ![c].at = "start", ![c].lead = a.key]
     \/ \E k \in Keys :
          /\ Matches(a) = {k}
          /\ client' = [client EXCEPT ![c].at = "start", ![c].lead = k]
          /\ UNCHANGED leads
  /\ UNCHANGED <<claims, companies, resolved, runs>>

(* create-lead; its request hash leaves the key out.                       *)
CreateLead(c) ==
  LET a == client[c].ask
      row == LeadRow(a, client[c].company) IN
  /\ client[c].at = "lead"
  /\ \/ /\ Matches(a) = {}
        /\ leads' = [leads EXCEPT ![a.key] = row]
        /\ client' = [client EXCEPT ![c].at = "start", ![c].lead = a.key]
     \/ \E k \in Keys :
          /\ Matches(a) = {k} /\ leads[k] = row
          /\ client' = [client EXCEPT ![c].at = "start", ![c].lead = k]
          /\ UNCHANGED leads
     \/ /\ Matches(a) # {} /\ \A k \in Keys : Matches(a) = {k} => leads[k] # row
        /\ Ends(c, "lead_refused") /\ UNCHANGED leads
  /\ UNCHANGED <<claims, companies, resolved, runs>>

(* workflow-start refuses a lead of another company; its hashes bind       *)
(* arguments, company and lead.                                            *)
Start(c) ==
  LET a == client[c].ask
      r == Request(a)
      run == RunOf(a, client[c].company, client[c].lead)
      related == leads[run.lead].company = run.company IN
  /\ client[c].at = "start"
  /\ \/ /\ related /\ runs[r] = None
        /\ runs' = [runs EXCEPT ![r] = run] /\ Finishes(c)
     \/ related /\ runs[r] = run /\ Finishes(c) /\ UNCHANGED runs
     \/ /\ ~related \/ runs[r] \notin {None, run}
        /\ Ends(c, "start_refused") /\ UNCHANGED runs
  /\ UNCHANGED <<claims, companies, resolved, leads>>

(* A helper or its vcrun is killed or times out.  What was committed stays,*)
(* an open transaction is rolled back.                                     *)
Die(c) ==
  /\ client[c].at \notin Over
  /\ Finishes(c) /\ UNCHANGED tables

(* company-upsert takes no lock; an existing domain is left as it is.      *)
CompanyUpsert(d, n) ==
  /\ companies' = IF Known(d) THEN companies
                  ELSE [companies EXCEPT ![d] = [name |-> n, by |-> "operator"]]
  /\ UNCHANGED <<claims, resolved, leads, runs, client>>

Next ==
  \/ \E c \in Clients :
       \/ \E a \in Asks : Launch(c, a)
       \/ Probe(c) \/ Claim(c) \/ ResolveBegin(c) \/ ResolveLock(c)
       \/ ResolveNames(c) \/ ResolveCommit(c) \/ CreateLead(c) \/ Start(c) \/ Die(c)
  \/ \E d \in Domains, n \in Names : CompanyUpsert(d, n)

Spec == Init /\ [][Next]_vars

-----------------------------------------------------------------------------
(* However often, by whomever and in whatever order the helpers of a       *)
(* request run, they come to workflow-start with the same arguments,       *)
(* company and lead: neither its lineage check nor its hashes refuse what  *)
(* the earlier steps let through.                                          *)
StartNeverRefuses == \A c \in Clients : client[c].at # "start_refused"

(* A run is about the company its own request was resolved to, its lead    *)
(* says what the run was asked and belongs to that company, and both       *)
(* follow the arguments claimed before anything was written.               *)
RunsFollowDecisions ==
  \A r \in Requests : runs[r] # None =>
    /\ runs[r].company # None /\ runs[r].company = resolved[r].company
    /\ leads[runs[r].lead] = LeadRow(runs[r].ask, runs[r].company)
    /\ claims[r] = Claimed(runs[r].ask)

(* A lead comes from a request of its own workflow and key that was        *)
(* resolved, without review, to the lead's company, which exists.          *)
LeadsFollowDecisions ==
  \A k \in Keys : leads[k] # None =>
    LET r == <<leads[k].flow, k>> IN
    /\ r \in Requests /\ Known(leads[k].company)
    /\ resolved[r] \in {Decision(o, leads[k].company) : o \in {"existing", "created"}}

(* In a well-typed state every lead and every run follows the decision of  *)
(* its own request, whoever else created companies and leads meanwhile; a  *)
(* request that needs review has neither (vcops.py:2713-2931).             *)
RecordsFollowDecisions == TypeOK /\ LeadsFollowDecisions /\ RunsFollowDecisions

(* The two advisory locks are enough: the unique indexes of resolutions    *)
(* and domains never fail a resolution, except against company-upsert,     *)
(* which does not take them.                                               *)
OnlyUpsertCollides ==
  [][\A c \in Clients :
       client[c].at = "deciding" /\ client'[c].at = "collided" =>
         /\ resolved[Request(client[c].ask)].outcome = "none"
         /\ companies[client[c].ask.domain].by = "operator"]_vars

(* What the resolver answers is admissible on every database (vcops.py:    *)
(* 608-701, 2433-2692).  It writes nothing, hence the question is asked    *)
(* initially.                                                              *)
ResolverIsAdmissible == Init => AnswersAreAdmissible
=============================================================================
