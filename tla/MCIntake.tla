------------------------------ MODULE MCIntake ------------------------------
(***************************************************************************)
(* Intake with five argument sets and two companies whose names are        *)
(* similar, and the resolver on databases of two companies.                *)
(***************************************************************************)
EXTENDS Intake, TLC

CONSTANTS d1, d2, k1, k2, n1, n2, e1

Ask(f, k, n, d, e, o) ==
  [flow |-> f, key |-> k, name |-> n, domain |-> d, event |-> e, origin |-> o]

(* An origin that the claim does not bind, one provider event under two    *)
(* keys and for two companies, and a key used in two workflows.            *)
MCAsks == {
  Ask("inbound-text-intake", k1, n1, d1, None, "direct_contact"),
  Ask("inbound-text-intake", k1, n1, d1, None, "network_referral"),
  Ask("inbound-intake", k1, n1, d1, e1, "document_upload"),
  Ask("inbound-intake", k2, n1, d1, e1, "document_upload"),
  Ask("inbound-intake", k2, n2, d2, e1, "document_upload")}

MCSimilar == {<<n1, n2>>, <<n2, n1>>}

Symmetry == Permutations(Clients)

-----------------------------------------------------------------------------
(* The resolver.  Company 1 was created by the resolver, company 2, whose  *)
(* name is the same, similar or another, by company-upsert or by the resolver; a    *)
(* reviewer may have added rows of any level.  A name that is stored in    *)
(* another form shares its trigrams with the text, or none (full width).   *)
Company(i, name, plain, domain) ==
  [id |-> i, name |-> name, plain |-> plain, domain |-> domain]
Alias(c, name, plain, kind, level) ==
  [company |-> c, name |-> name, plain |-> plain, kind |-> kind, confidence |-> 98,
   level |-> level]
Host(c, host, level) ==
  [company |-> c, host |-> host, status |-> "claimed", confidence |-> 90, level |-> level]

Lead(i, c, event, level, artifacts) ==
  [id |-> i, company |-> c, event |-> event, level |-> level, artifacts |-> artifacts]

Spelt(rows, foreign) == {x \in rows : x.plain \/ foreign}

MCDatabases ==
  {[companies   |-> {Company(1, "n1", TRUE, "d1"), second},
    aliases     |-> aliases, hosts |-> hosts,
    near        |-> [n \in {"n1", "n2", "n3", "n4", "d2"} |->
                       Spelt({Company(1, "n1", TRUE, "d1"), second} \cup aliases, foreign)],
    externals   |-> {[company |-> 2, external |-> "x", confidence |-> 80, level |-> level]},
    leads       |-> {Lead(1, 1, "e1", 1, {[sha |-> "s1", level |-> 0], [sha |-> "s2", level |-> 2]}),
                     Lead(2, 1, None, level, {[sha |-> "s1", level |-> 1]}),
                     Lead(3, 2, "e1", level, {[sha |-> "s2", level |-> 0]})},
    facts       |-> << [company |-> 1, lead |-> 2, current |-> TRUE, sources |-> <<0, 2, 1>>],
                       [company |-> 1, lead |-> None, current |-> TRUE, sources |-> <<0, level>>],
                       [company |-> 1, lead |-> 1, current |-> FALSE, sources |-> <<0>>] >>,
    evaluations |-> << [company |-> 1, lead |-> 2], [company |-> 1, lead |-> 1] >>,
    memos       |-> << [company |-> 1, lead |-> 2] >>,
    runs        |-> << [company |-> 1, lead |-> None], [company |-> 1, lead |-> 2] >>,
    alike       |-> [n1 |-> [n2 |-> 90], n2 |-> [n1 |-> 90],
                     n3 |-> [n1 |-> 85, n2 |-> 86], n4 |-> <<>>, d2 |-> <<>>]] :
     second \in {Company(2, "n1", TRUE, "d2"), Company(2, "n2", TRUE, "d2"),
                 Company(2, "n4", FALSE, None)},
     aliases \in SUBSET {Alias(1, "n1", TRUE, "canonical_name", 1),
                         Alias(1, "n3", FALSE, "trade_name", 1),
                         Alias(2, "n1", TRUE, "former_name", 2),
                         Alias(2, "n2", TRUE, "canonical_name", 0)},
     foreign \in BOOLEAN,
     hosts \in {{}, {Host(1, "d1", 1)}, {Host(1, "d1", 1), Host(2, "d2", 3)},
                {Host(2, "d1", 2), Host(1, "d2", 0)}},
     level \in {1, 2}}

(* Identities of one field, and of a domain and another one.               *)
Values == [company  |-> {1, 3}, lead |-> {1, 3}, domain |-> {"d1", "d2", "d3"},
           name     |-> {"n1", "n2", "n3", "n4"}, alias |-> {"n1", "n3"},
           sha      |-> {"s1", "s2"}, external |-> {"x"}, event |-> {"e1"}]

Field(x, v) == x :> v
Anything == UNION {{Field(x, v) : v \in Values[x]} : x \in DOMAIN Values}

MCIdentities ==
  {(f @@ g) @@ ([x \in DOMAIN Values |-> None]
      @@ [purpose |-> purpose, ceiling |-> ceiling, limit |-> 1]) :
     f \in Anything, g \in {Field("domain", v) : v \in {None, "d1", "d3"}},
     purpose \in {"company_creation", "research"}, ceiling \in {0, 1, 2}}

MCTexts == {[name |-> "n1", host |-> None], [name |-> "d2", host |-> "d2"]}
=============================================================================
