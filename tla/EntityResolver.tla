--------------------------- MODULE EntityResolver ---------------------------
(***************************************************************************)
(* entity-resolve and memory-lookup: from an identity to at most one       *)
(* company, what is known of it below the ceiling of the caller, and       *)
(* whether it may be researched outside.  Both read one database and       *)
(* write nothing, so they are operators on it:                             *)
(*                                                                         *)
(*   companies  set of [id, name, plain, domain]                           *)
(*   aliases    set of [company, name, plain, kind, confidence, level]     *)
(*              (name is normalized; plain says that what is stored in     *)
(*              lower case is already that)                                *)
(*   hosts      set of [company, host, status, confidence, level]          *)
(*   externals  set of [company, external, confidence, level]              *)
(*   leads      set of [id, company, event, level, artifacts], where an    *)
(*              artifact is [sha, level]                                   *)
(*   facts      newest first, [company, lead, current, sources], where     *)
(*              sources are levels                                         *)
(*   evaluations, memos, runs   newest first, [company, lead]              *)
(*   near       for each text, the companies and aliases whose stored name *)
(*              passes the trigram filter and is among the most similar    *)
(*              ones (ORDER BY and LIMIT): nothing else is compared        *)
(*   alike      for each text, the scores of the other names that reach    *)
(*              the review threshold                                       *)
(*                                                                         *)
(* Aliases, hosts and external identifiers are those in force.             *)
(* Confidences and scores are percentages.                                 *)
(***************************************************************************)
EXTENDS Naturals, FiniteSets, FiniteSetsExt

CONSTANTS
  Databases,   \* what the two commands may find
  Identities,  \* what entity-resolve is asked
  Texts,       \* what memory-lookup is asked: [name, host], a host or None
  None

Levels == 0..3  \* CONFIDENTIALITY_RANK
Public == 0
Internal == 1
Percentages == 0..100

(* A database as the constraints of its tables keep it; names are the ones *)
(* that it may be asked for.                                               *)
WellFormed(db, names) ==
  /\ \A l \in db.leads : l.level \in Levels /\ \A a \in l.artifacts : a.level \in Levels
  /\ \A x \in db.aliases \cup db.hosts \cup db.externals :
       x.level \in Levels /\ x.confidence \in Percentages
  /\ \A n \in names : \A o \in DOMAIN db.alike[n] : db.alike[n][o] \in Percentages

CreationPurposes == {"company_creation"}

-----------------------------------------------------------------------------
(* An external or a channel identity of which a part is missing.           *)
Incomplete == "incomplete"

IdentityKeys == {"company", "lead", "domain", "name", "alias", "sha",
                 "external", "event"}

(* _entity_identity_from_args: at least one field, and none by halves.     *)
Identified(q) ==
  /\ \E x \in IdentityKeys : q[x] # None
  /\ Incomplete \notin {q.external, q.event}

-----------------------------------------------------------------------------
(* The exact searches, whatever their level.                               *)
Match(c, method, confidence, level) ==
  [company |-> c, method |-> method, confidence |-> confidence, level |-> level]

ById(db, q) ==
  {Match(c.id, "company_id", 100, Internal) :
     c \in {x \in db.companies : x.id = q.company}}
  \cup {Match(l.company, "lead_id", 100, l.level) :
          l \in {x \in db.leads : x.id = q.lead}}

(* An artifact is as confidential as the more confidential of it and its   *)
(* lead.                                                                   *)
ByArtifact(db, q) ==
  UNION {{Match(l.company, "artifact_sha256", 100, Max({l.level, a.level})) :
            a \in {x \in l.artifacts : x.sha = q.sha}} : l \in db.leads}

ByExternal(db, q) ==
  {Match(e.company, "external_id", e.confidence, e.level) :
     e \in {x \in db.externals : x.external = q.external}}

ByChannel(db, q) ==
  {Match(l.company, "channel_identity", 100, l.level) :
     l \in {x \in db.leads : q.event # None /\ x.event = q.event}}

(* The column of the company counts when no row has the domain ...         *)
ByDomain(db, q) ==
  LET rows == {x \in db.hosts : x.host = q.domain}
      column == {x \in db.companies : q.domain # None /\ x.domain = q.domain}
  IN  IF rows # {}
      THEN {Match(h.company,
                  IF h.status = "verified" THEN "verified_domain" ELSE "claimed_domain",
                  h.confidence, h.level) : h \in rows}
      ELSE {Match(c.id, "canonical_domain_legacy", 90, Internal) : c \in column}

(* ... and so does its name when no alias matches.                         *)
ByName(db, n) ==
  LET rows == {x \in db.aliases : x.plain /\ x.name = n}
      column == {x \in db.companies : x.plain /\ x.name = n}
  IN  IF rows # {}
      THEN {Match(a.company,
                  IF a.kind = "canonical_name" THEN "exact_name" ELSE "exact_alias",
                  a.confidence, a.level) : a \in rows}
      ELSE {Match(c.id, "exact_name_legacy", 95, Internal) : c \in column}

SearchedNames(q) == {q.name, q.alias} \ {None}

Exact(db, q) ==
  UNION {ById(db, q), ByArtifact(db, q), ByExternal(db, q), ByChannel(db, q),
         ByDomain(db, q), UNION {ByName(db, n) : n \in SearchedNames(q)}}

Below(q, matches) == {m \in matches : m.level <= q.ceiling}

NobodyDenied(q, matches) == {}                             \* mutant

(* denied_exact_count.                                                     *)
Denied(q, matches) == matches \ Below(q, matches)

-----------------------------------------------------------------------------
(* Similar names are looked for when nothing at all matched exactly.       *)
Target(q) == IF q.name # None THEN q.name ELSE q.alias

Fuzzy(db, q) == Exact(db, q) = {} /\ Target(q) # None /\ Internal <= q.ceiling

(* Of what the trigram index returns, what the caller may see.             *)
Bucket(db, q) ==
  LET near == db.near[Target(q)] IN
  {[company |-> c.id, name |-> c.name, of |-> "name", level |-> Internal] :
     c \in db.companies \cap near}
  \cup {[company |-> a.company, name |-> a.name, of |-> "alias", level |-> a.level] :
          a \in {x \in db.aliases \cap near : x.level <= q.ceiling}}

(* A name in it that is equal after normalization is an exact match.       *)
EqualNames(db, q) ==
  {IF x.of = "name"
   THEN Match(x.company, "normalized_unicode_name", 98, x.level)
   ELSE Match(x.company, "normalized_unicode_alias", 95, x.level) :
     x \in {y \in Bucket(db, q) : y.name = Target(q)}}

SimilarNames(db, q) ==
  {Match(x.company, IF x.of = "name" THEN "fuzzy_name" ELSE "fuzzy_alias",
         db.alike[Target(q)][x.name], x.level) :
     x \in {y \in Bucket(db, q) : y.name \in DOMAIN db.alike[Target(q)]}}

Strongest(matches) ==
  CHOOSE m \in matches : \A n \in matches : n.confidence <= m.confidence

(* One match of each company.                                              *)
OfEach(matches) ==
  {Strongest({m \in matches : m.company = c}) : c \in {m.company : m \in matches}}

Better(m, n) ==
  \/ m.confidence > n.confidence
  \/ m.confidence = n.confidence /\ m.company < n.company

(* ORDER BY and LIMIT.                                                     *)
Firsts(S, before(_, _), n) ==
  {x \in S : Cardinality({y \in S : before(y, x)}) < n}

Candidates(db, q) == Firsts(OfEach(SimilarNames(db, q)), Better, q.limit)

-----------------------------------------------------------------------------
(* decide_entity_resolution.                                               *)
StrongMethods == {"company_id", "lead_id", "artifact_sha256", "external_id",
                  "channel_identity", "verified_domain", "claimed_domain",
                  "canonical_domain_legacy"}

Decided(outcome, company, candidates) ==
  [outcome |-> outcome, company |-> company, candidates |-> candidates]

DecideResolution(exact, fuzzy, denied, q) ==
  LET found == {m.company : m \in exact}
      one == \E c \in found : found = {c}
      creates == q.purpose \in CreationPurposes
      nameOnly == /\ creates /\ q.domain # None
                  /\ {m.method : m \in exact} \cap StrongMethods = {}
  IN  CASE denied # {} -> Decided("denied", None, {})
        [] denied = {} /\ one /\ nameOnly ->
             Decided("human_review", None, OfEach(exact))
        [] denied = {} /\ one /\ ~nameOnly ->
             Decided("existing", CHOOSE c \in found : TRUE, {})
        [] denied = {} /\ found # {} /\ ~one ->
             Decided("human_review", None, OfEach(exact))
        [] denied = {} /\ found = {} /\ fuzzy # {} ->
             Decided("human_review", None, fuzzy)
        [] OTHER ->
             Decided(IF creates /\ q.name # None /\ q.domain # None
                     THEN "new_allowed" ELSE "no_match", None, {})

(* decide_external_research, at the level of the identity that matched.    *)
MayResearch(q, outcome, level) ==
  /\ outcome = "existing"
  /\ q.purpose \in {"research", "qualification", "memo"}
  /\ level \in {Public, Internal}

-----------------------------------------------------------------------------
LevelOf(db, lead) == (CHOOSE l \in db.leads : l.id = lead).level

(* What belongs to no lead is visible from some level on.                  *)
Visible(db, lead, q, unled) ==
  IF lead = None THEN q.ceiling >= unled ELSE LevelOf(db, lead) <= q.ceiling

(* _current_company_facts: the first rows of fact and source, of which     *)
(* come the first facts, each with the sources that are left.              *)
CurrentFacts(db, c, q) ==
  LET shows(i) == /\ db.facts[i].company = c /\ db.facts[i].current
                  /\ Visible(db, db.facts[i].lead, q, Public)
      rows == {r \in UNION {{i} \X DOMAIN db.facts[i].sources : i \in DOMAIN db.facts} :
                 shows(r[1]) /\ db.facts[r[1]].sources[r[2]] <= q.ceiling}
      before(r, s) == r[1] < s[1] \/ (r[1] = s[1] /\ r[2] < s[2])
      kept == Firsts(rows, before, 10 * q.limit)
  IN  [i \in Firsts({r[1] : r \in kept}, <, q.limit) |->
         {r[2] : r \in {s \in kept : s[1] = i}}]

(* _company_operational_history: runs may be of no lead.                   *)
History(db, c, q, rows) ==
  LET shown == {i \in DOMAIN rows : /\ rows[i].company = c
                                    /\ Visible(db, rows[i].lead, q, Internal)}
  IN  Firsts(shown, <, Min({10, q.limit}))

(* _resolve_entity.                                                        *)
Answer(db, q) ==
  LET all == Exact(db, q)
      exact == Below(q, all) \cup (IF Fuzzy(db, q) THEN EqualNames(db, q) ELSE {})
      fuzzy == IF Fuzzy(db, q) THEN Candidates(db, q) ELSE {}
      decision == DecideResolution(exact, fuzzy, Denied(q, all), q)
      c == decision.company
      found == decision.outcome = "existing"
      matched == IF found THEN Max({m.level : m \in {n \in exact : n.company = c}})
                 ELSE None
  IN  [outcome     |-> decision.outcome,
       company     |-> c,
       candidates  |-> decision.candidates,
       matched     |-> matched,
       facts       |-> IF found THEN CurrentFacts(db, c, q) ELSE <<>>,
       evaluations |-> IF found THEN History(db, c, q, db.evaluations) ELSE {},
       memos       |-> IF found THEN History(db, c, q, db.memos) ELSE {},
       runs        |-> IF found THEN History(db, c, q, db.runs) ELSE {},
       research    |-> MayResearch(q, decision.outcome, matched)]

(* cmd_entity_resolve: an identity that is no identity is refused.         *)
EntityResolve(db, q) == IF Identified(q) THEN Answer(db, q) ELSE None

(* cmd_memory_lookup: a text is a name when a domain goes with it, else a  *)
(* domain if it reads as one, else an alias; and it never allows research. *)
LookupIdentity(text, q) ==
  LET identity ==
        IF q.domain # None THEN [name |-> text.name, domain |-> q.domain]
        ELSE IF text.host # None THEN [domain |-> text.host]
        ELSE [alias |-> text.name]
  IN  [x \in DOMAIN q |->
         IF x \in DOMAIN identity THEN identity[x]
         ELSE IF x \in IdentityKeys THEN None
         ELSE IF x = "purpose" THEN "compatibility_lookup" ELSE q[x]]

MemoryLookup(db, text, q) ==
  [Answer(db, LookupIdentity(text, q)) EXCEPT !.research = FALSE]

-----------------------------------------------------------------------------
(* What an answer must be, read off the tables and not off the searches.   *)

(* Every company that a row in force, of any level, ties to a field of the *)
(* identity as the row spells it.                                          *)
Carriers(db, q) ==
  {c.id : c \in {x \in db.companies : x.id = q.company}}
  \cup {l.company : l \in {x \in db.leads :
          \/ x.id = q.lead
          \/ q.event # None /\ x.event = q.event
          \/ \E a \in x.artifacts : a.sha = q.sha}}
  \cup {e.company : e \in {x \in db.externals : x.external = q.external}}
  \cup {h.company : h \in {x \in db.hosts : x.host = q.domain}}
  \cup {a.company : a \in {x \in db.aliases : x.plain /\ x.name \in SearchedNames(q)}}

WithinCeiling(db, q, a) ==
  /\ \A m \in a.candidates : m.level <= q.ceiling
  /\ a.matched # None => a.matched <= q.ceiling
  /\ \A i \in DOMAIN a.facts :
       /\ db.facts[i].lead # None => LevelOf(db, db.facts[i].lead) <= q.ceiling
       /\ \A j \in a.facts[i] : db.facts[i].sources[j] <= q.ceiling
  /\ \A lead \in {db.evaluations[i].lead : i \in a.evaluations}
                 \cup {db.memos[i].lead : i \in a.memos}
                 \cup {db.runs[i].lead : i \in a.runs} :
       lead # None => LevelOf(db, lead) <= q.ceiling

Admissible(db, q, a) ==
  /\ WithinCeiling(db, q, a)
  /\ a.outcome = "existing" => Carriers(db, q) \subseteq {a.company}
  /\ a.outcome = "new_allowed" =>
       /\ Carriers(db, q) = {}
       /\ \A c \in db.companies : /\ c.domain # q.domain
                                  /\ c.plain => c.name \notin SearchedNames(q)
       /\ q.ceiling >= Internal => \A x \in Bucket(db, q) : x.name # q.name

(* Nothing above the ceiling is in an answer; a company that is found is   *)
(* the only one that any row ties to the identity, also a row the caller   *)
(* may not see; a company that may be created shares its domain with none, *)
(* no stored name as it is spelt, and its normalized name with none that   *)
(* the trigram index returns to a caller who may compare names             *)
(* (vcops.py:608-701, 2433-2692; memory_lookup.md:31-34).                  *)
AnswersAreAdmissible ==
  \A db \in Databases, q \in Identities :
    /\ Identified(q) => Admissible(db, q, EntityResolve(db, q))
    /\ \A text \in Texts :
         LET asked == LookupIdentity(text, q)
             a == MemoryLookup(db, text, q)
         IN  Admissible(db, asked, a) /\ ~a.research
=============================================================================
