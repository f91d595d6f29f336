------------------------ MODULE EvidenceLedgerProofs ------------------------
(***************************************************************************)
(* The properties of EvidenceLedger for every number of helpers, leads,    *)
(* facts, sources and approvals.                                           *)
(*                                                                         *)
(* The argument is about locks.  What a transaction read stays true while  *)
(* it holds the lock that covers it: a claim that is being promoted is     *)
(* live and keeps its sources (ClaimHeld), a lead that is being erased     *)
(* gains and loses no live fact (LeadHeld), an approval that is being      *)
(* spent stays approved (GrantHeld), and evidence-record alone adds live   *)
(* rows of a claim (RecordHeld).  Together with the bookkeeping of the     *)
(* fact table this is inductive, and each property follows from it.        *)
(*                                                                         *)
(* The second part is about DocumentIntake, which feeds the ledger, and    *)
(* the last one about the parsers of DocumentFormats.                      *)
(***************************************************************************)
EXTENDS EvidenceLedger, DocumentIntake, SequenceTheorems, FiniteSetTheorems,
        WellFoundedInduction, TLAPS

Promoting(p) == pc[p] \in {"insert", "promoted"}
Erasing(p)   == pc[p] \in {"lead", "retract", "verify", "retracted"}
HasLead(p)   == pc[p] \in {"retract", "verify", "retracted"}
Writing(p)   == pc[p] \in {"dedupe", "write", "recorded"}
WritesNew(p) == pc[p] \in {"write", "recorded"} /\ arg[p].fact = None

(* The fact table: unused identities are blank, and nothing refers to them.*)
FactsKept ==
  /\ fact \in [Facts -> FactRows]
  /\ tombs \subseteq Facts \X Approvals
  /\ \A f \in Facts :
       /\ fact[f].status = "none" => fact[f] = NoFact /\ f \notin Tombstoned
       /\ fact[f].status # "none" => fact[f].lead \in Leads
       /\ fact[f].claim # None => fact[f].status # "contradicted"
       /\ \A g \in Facts : fact[f].supersedes = g => fact[g].status # "none"

(* What fact-promote knows of its claim, and that nobody else has it.      *)
Looking(p) == pc[p] = "promote" \/ Promoting(p)
ClaimKnown(p) ==
  Looking(p) => /\ arg[p].fact \in Facts
                /\ fact[arg[p].fact].status = "submitted_claim"
                /\ fact[arg[p].fact].lead = arg[p].lead
ClaimLive(p) ==
  Promoting(p) => ~Superseded(arg[p].fact) /\ Corroborated(fact[arg[p].fact].srcs)
ClaimAlone(p, q) ==
  Promoting(p) => /\ Promoting(q) \/ pc[q] = "recorded" => arg[q].fact # arg[p].fact
                  /\ pc[q] = "retracted" => arg[p].fact \notin seen[q]
ClaimHeld ==
  \A p \in Workers : /\ ClaimKnown(p) /\ ClaimLive(p)
                     /\ \A q \in Workers \ {p} : ClaimAlone(p, q)

(* What data-erase-lead knows of its lead, and that nobody else touches it.*)
LeadRead(p) == pc[p] \in {"verify", "retracted"} => seen[p] = Live(arg[p].lead)
LeadAlone(p, q) ==
  HasLead(p) /\ arg[q].lead = arg[p].lead =>
    /\ ~HasLead(q) /\ pc[q] \notin {"promoted", "reading", "compiled"}
    /\ ~(pc[q] = "recorded" /\ arg[q].fact = None)
LeadHeld ==
  \A p \in Workers : LeadRead(p) /\ \A q \in Workers \ {p} : LeadAlone(p, q)

(* What it knows of its approval.                                          *)
GrantHeld ==
  \A p \in Workers : Erasing(p) =>
    /\ arg[p].appr \in Approvals /\ arg[p].lead \in Leads
    /\ approval[arg[p].appr] = [status |-> "approved", lead |-> arg[p].lead]
    /\ \A q \in Workers \ {p} : Erasing(q) => arg[q].appr # arg[p].appr

(* What evidence-record knows of the claim it writes.                      *)
RecordHeld ==
  \A p \in Workers : Writing(p) =>
    /\ arg[p].lead \in Leads /\ arg[p].claim \in Claims /\ arg[p].src \in Sources
    /\ arg[p].fact # None => /\ arg[p].fact \in Facts
                             /\ fact[arg[p].fact].status # "none"
    /\ WritesNew(p) => \A f \in Live(arg[p].lead) : fact[f].claim # arg[p].claim
    /\ \A q \in Workers \ {p} : ~Writing(q)

(* What compiled-truth froze is still what an erasure left.                *)
SnapshotHeld ==
  \A p \in Workers :
    /\ pc[p] \in {"reading", "compiled"} => arg[p].lead \in Leads
    /\ pc[p] = "compiled" =>
         /\ seen[p] \subseteq Facts \X {0, 1}
         /\ ErasedIn(seen[p]) = Rows(arg[p].lead) \cap Tombstoned

IInv ==
  /\ TypeOK /\ FactsKept
  /\ SupersededOnce /\ OneLiveRowPerClaim /\ PromotedIsCorroborated /\ ApprovalSpentOnce
  /\ ClaimHeld /\ LeadHeld /\ GrantHeld /\ RecordHeld /\ SnapshotHeld

-----------------------------------------------------------------------------
(* What a step can do to the fact table: add a row, attach a source to a   *)
(* row, or retract the live rows of a lead.                                *)
GoodRow(row) ==
  /\ row \in FactRows /\ row.status # "none" /\ row.lead \in Leads
  /\ row.claim # None => /\ row.status # "contradicted"
                         /\ \A h \in Live(row.lead) :
                              fact[h].claim = row.claim => h = row.supersedes
  /\ row.supersedes # None => /\ fact[row.supersedes].status # "none"
                              /\ fact[row.supersedes].lead = row.lead
                              /\ ~Superseded(row.supersedes)
                              /\ Corroborated(row.srcs)
Adds(g, row) ==
  g \in Free /\ GoodRow(row) /\ fact' = [fact EXCEPT ![g] = row] /\ tombs' = tombs
Links(f, s) ==
  /\ f \in Facts /\ fact[f].status # "none" /\ s \in Sources
  /\ fact' = [fact EXCEPT ![f].srcs = @ \cup {s}] /\ tombs' = tombs
Retracts(l, a) ==
  /\ l \in Leads /\ a \in Approvals
  /\ tombs' = tombs \cup {<<f, a>> : f \in Live(l)} /\ fact' = fact

(* More sources corroborate no less.                                       *)
LEMMA CorroboratedGrows ==
  ASSUME NEW S \in SUBSET Sources, NEW s \in Sources, Corroborated(S)
  PROVE  Corroborated(S \cup {s})
<1> DEFINE keys(T) == {ContentOf[x] : x \in T \ Excluded} \ {None}
<1>1. IsFiniteSet(keys(S)) /\ IsFiniteSet(keys(S \cup {s}))
  <2>1. ASSUME NEW T \in SUBSET Sources PROVE IsFiniteSet(keys(T))
    <3>1. IsFiniteSet(T \ Excluded)
      BY LedgerAssumption, FS_Subset
    <3> DEFINE image == {ContentOf[x] : x \in T \ Excluded}
               key == [x \in T \ Excluded |-> ContentOf[x]]
    <3>2. key \in Surjection(T \ Excluded, image)
      BY DEF Surjection
    <3>3. IsFiniteSet(image)
      <4> HIDE DEF image, key
      <4> QED
        BY <3>1, <3>2, FS_Surjection
    <3> QED
      BY <3>3, FS_Subset
  <2> QED
    BY <2>1
<1>2. keys(S) \subseteq keys(S \cup {s})
  OBVIOUS
<1>3. Cardinality(keys(S)) <= Cardinality(keys(S \cup {s}))
      /\ Cardinality(keys(S)) \in Nat /\ Cardinality(keys(S \cup {s})) \in Nat
  BY <1>1, <1>2, FS_Subset, FS_CardinalityType
<1>4. CASE Cardinality(keys(S)) >= MinIndependent
  BY <1>3, <1>4, LedgerAssumption DEF Corroborated
<1>5. CASE (S \ Excluded) \cap Official # {}
  BY <1>5 DEF Corroborated
<1> QED
  BY <1>4, <1>5 DEF Corroborated

(* A new row supersedes what it says, and nothing else changes.            *)
LEMMA AddEffect ==
  ASSUME TypeOK, FactsKept, NEW g, NEW row, Adds(g, row)
  PROVE  /\ g \in Facts /\ fact'[g] = row /\ \A h \in Facts \ {g} : fact'[h] = fact[h]
         /\ row.supersedes # g /\ ~Superseded(g) /\ g \notin Tombstoned
         /\ Tombstoned' = Tombstoned
         /\ \A h \in Facts : Superseded(h)' <=> Superseded(h) \/ row.supersedes = h
         /\ \A h \in Facts, l \in Leads :
              h \in Rows(l)' <=> h \in Rows(l) \/ (h = g /\ row.lead = l)
         /\ \A h \in Facts, l \in Leads :
              h \in Live(l)' <=> (h \in Live(l) /\ row.supersedes # h) \/ (h = g /\ row.lead = l)
<1>1. g \in Facts /\ fact[g] = NoFact /\ fact[g].status = "none"
  BY DEF Adds, Free, FactsKept
<1>2. fact'[g] = row /\ \A h \in Facts \ {g} : fact'[h] = fact[h]
  BY <1>1 DEF Adds, FactsKept
<1>3. g \notin Tombstoned /\ ~Superseded(g)
  BY <1>1 DEF FactsKept, Superseded
<1>4. row.supersedes # g
  BY <1>1, LedgerAssumption DEF Adds, GoodRow
<1>5. Tombstoned' = Tombstoned
  BY DEF Adds, Tombstoned
<1>6. fact[g].supersedes = None /\ None \notin Facts
  BY <1>1, LedgerAssumption DEF NoFact
<1>7. \A h \in Facts : Superseded(h)' <=> Superseded(h) \/ row.supersedes = h
  BY <1>1, <1>2, <1>5, <1>6 DEF Superseded
<1>8. \A h \in Facts, l \in Leads :
        h \in Rows(l)' <=> h \in Rows(l) \/ (h = g /\ row.lead = l)
  BY <1>1, <1>2 DEF Rows, Adds, GoodRow
<1>9. \A h \in Facts, l \in Leads :
        h \in Live(l)' <=> (h \in Live(l) /\ row.supersedes # h) \/ (h = g /\ row.lead = l)
  BY <1>3, <1>4, <1>7, <1>8 DEF Live, Rows
<1> QED
  BY <1>1, <1>2, <1>3, <1>4, <1>5, <1>7, <1>8, <1>9

(* A source more changes nothing but the sources of its fact.              *)
LEMMA LinkEffect ==
  ASSUME FactsKept, NEW f, NEW s, Links(f, s)
  PROVE  /\ \A h \in Facts : /\ fact'[h].status = fact[h].status
                             /\ fact'[h].lead = fact[h].lead
                             /\ fact'[h].claim = fact[h].claim
                             /\ fact'[h].supersedes = fact[h].supersedes
                             /\ h # f => fact'[h] = fact[h]
         /\ fact'[f].srcs = fact[f].srcs \cup {s}
         /\ fact' \in [Facts -> FactRows]
         /\ Tombstoned' = Tombstoned
         /\ \A h \in Facts : Superseded(h)' <=> Superseded(h)
         /\ \A l \in Leads : Rows(l)' = Rows(l) /\ Live(l)' = Live(l)
<1>1. \A h \in Facts : /\ fact'[h].status = fact[h].status
                       /\ fact'[h].lead = fact[h].lead
                       /\ fact'[h].claim = fact[h].claim
                       /\ fact'[h].supersedes = fact[h].supersedes
                       /\ h # f => fact'[h] = fact[h]
  BY DEF Links, FactsKept, FactRows
<1>2. fact'[f].srcs = fact[f].srcs \cup {s} /\ fact' \in [Facts -> FactRows]
  BY DEF Links, FactsKept, FactRows
<1>3. Tombstoned' = Tombstoned
  BY DEF Links, Tombstoned
<1>4. \A h \in Facts : Superseded(h)' <=> Superseded(h)
  BY <1>1, <1>3 DEF Superseded
<1>5. \A l \in Leads : Rows(l)' = Rows(l)
  BY <1>1 DEF Rows
<1>6. \A l \in Leads : Live(l)' = Live(l)
  BY <1>4, <1>5 DEF Live, Rows
<1> QED
  BY <1>1, <1>2, <1>3, <1>4, <1>5, <1>6

(* An erasure supersedes the live rows of its lead.                        *)
LEMMA RetractEffect ==
  ASSUME NEW l, NEW a, Retracts(l, a)
  PROVE  /\ \A h \in Facts : h \in Tombstoned' <=> h \in Tombstoned \/ h \in Live(l)
         /\ \A h \in Facts : Superseded(h)' <=> Superseded(h) \/ h \in Live(l)
         /\ \A k \in Leads : Rows(k)' = Rows(k)
         /\ \A h \in Facts, k \in Leads : h \in Live(k)' <=> h \in Live(k) /\ k # l
<1>1. \A h \in Facts : h \in Tombstoned' <=> h \in Tombstoned \/ h \in Live(l)
  BY DEF Retracts, Tombstoned
<1>2. \A h \in Facts : Superseded(h)' <=> Superseded(h) \/ h \in Live(l)
  BY <1>1 DEF Retracts, Superseded
<1>3. \A k \in Leads : Rows(k)' = Rows(k)
  BY DEF Retracts, Rows
<1>4. \A h \in Facts, k \in Leads : h \in Live(k)' <=> h \in Live(k) /\ k # l
  BY <1>2, <1>3 DEF Live, Rows, Retracts
<1> QED
  BY <1>1, <1>2, <1>3, <1>4

-----------------------------------------------------------------------------
(* What holds of the fact table alone.                                     *)
Table ==
  /\ TypeOK /\ FactsKept
  /\ SupersededOnce /\ OneLiveRowPerClaim /\ PromotedIsCorroborated
TypedTable ==
  /\ fact \in [Facts -> FactRows]
  /\ \A f \in Facts : fact[f].status = "none" \/ fact[f].lead \in Leads
  /\ tombs \subseteq (Facts \ Free) \X Approvals

(* A new row keeps the fact table in order.                                *)
LEMMA AddKeepsTable ==
  ASSUME Table, NEW g, NEW row, Adds(g, row)
  PROVE  /\ TypedTable' /\ FactsKept'
         /\ SupersededOnce' /\ OneLiveRowPerClaim' /\ PromotedIsCorroborated'
<1> USE DEF Table
<1>1. /\ g \in Facts /\ fact'[g] = row /\ \A h \in Facts \ {g} : fact'[h] = fact[h]
      /\ row.supersedes # g /\ ~Superseded(g) /\ g \notin Tombstoned
      /\ Tombstoned' = Tombstoned
      /\ \A h \in Facts : Superseded(h)' <=> Superseded(h) \/ row.supersedes = h
      /\ \A h \in Facts, l \in Leads :
           h \in Live(l)' <=> (h \in Live(l) /\ row.supersedes # h) \/ (h = g /\ row.lead = l)
  BY AddEffect
<1>2. fact' \in [Facts -> FactRows] /\ tombs' = tombs
  BY DEF Adds, GoodRow, FactsKept
<1>3. row \in FactRows /\ row.status # "none" /\ row.lead \in Leads /\ None \notin Facts
  BY LedgerAssumption DEF Adds, GoodRow
<1>4. Free' = Free \ {g}
  BY <1>1, <1>3 DEF Free
<1>5. TypedTable'
  BY <1>1, <1>2, <1>3, <1>4 DEF TypedTable, TypeOK
<1>6. FactsKept'
  <2>1. \A f \in Facts : /\ fact'[f].status = "none" => fact'[f] = NoFact /\ f \notin Tombstoned'
                         /\ fact'[f].status # "none" => fact'[f].lead \in Leads
                         /\ fact'[f].claim # None => fact'[f].status # "contradicted"
    BY <1>1, <1>3 DEF FactsKept, Adds, GoodRow
  <2>2. ASSUME NEW f \in Facts, NEW h \in Facts, fact'[f].supersedes = h
        PROVE  fact'[h].status # "none"
    BY <1>1, <1>3, <2>2 DEF FactsKept, Adds, GoodRow
  <2> QED
    BY <1>2, <2>1, <2>2 DEF FactsKept
<1>7. SupersededOnce'
  <2> SUFFICES ASSUME NEW f \in Facts
               PROVE  /\ \A h, k \in Facts :
                           fact'[h].supersedes = f /\ fact'[k].supersedes = f => h = k
                      /\ \A a, b \in Approvals : <<f, a>> \in tombs' /\ <<f, b>> \in tombs' => a = b
                      /\ f \in Tombstoned' => \A h \in Facts : fact'[h].supersedes # f
    BY DEF SupersededOnce
  <2>1. CASE row.supersedes = f
    <3>1. ~Superseded(f)
      BY <2>1, <1>3 DEF Adds, GoodRow
    <3>2. f \notin Tombstoned /\ \A h \in Facts : fact[h].supersedes # f
      BY <3>1 DEF Superseded
    <3> QED
      BY <1>1, <1>2, <3>2 DEF Tombstoned
  <2>2. CASE row.supersedes # f
    BY <1>1, <1>2, <2>2 DEF SupersededOnce
  <2> QED
    BY <2>1, <2>2
<1>8. OneLiveRowPerClaim'
  <2> SUFFICES ASSUME NEW l \in Leads, NEW f \in Live(l)', NEW h \in Live(l)',
                      fact'[f].claim # None, fact'[f].claim = fact'[h].claim
               PROVE  f = h
    BY DEF OneLiveRowPerClaim
  <2>1. f \in Facts /\ h \in Facts
    BY DEF Live, Rows
  <2>2. CASE f # g /\ h # g
    BY <1>1, <2>1, <2>2 DEF OneLiveRowPerClaim
  <2>3. ASSUME NEW k \in Live(l), row.lead = l, row.claim # None, fact[k].claim = row.claim
        PROVE  k = row.supersedes
    BY <2>3 DEF Adds, GoodRow
  <2>4. CASE f = g /\ h # g
    BY <1>1, <2>1, <2>3, <2>4, <1>3 DEF Live, Rows
  <2>5. CASE f # g /\ h = g
    BY <1>1, <2>1, <2>3, <2>5, <1>3 DEF Live, Rows
  <2> QED
    BY <2>2, <2>4, <2>5
<1>9. PromotedIsCorroborated'
  <2> SUFFICES ASSUME NEW f \in Facts, fact'[f].supersedes # None
               PROVE  Corroborated(fact'[f].srcs)
    BY DEF PromotedIsCorroborated, Corroborated
  <2>1. CASE f = g
    BY <1>1, <2>1 DEF Adds, GoodRow
  <2>2. CASE f # g
    BY <1>1, <2>2 DEF PromotedIsCorroborated
  <2> QED
    BY <2>1, <2>2
<1> QED
  BY <1>5, <1>6, <1>7, <1>8, <1>9

(* So does a source more.                                                  *)
LEMMA LinkKeepsTable ==
  ASSUME Table, NEW f, NEW s, Links(f, s)
  PROVE  /\ TypedTable' /\ FactsKept'
         /\ SupersededOnce' /\ OneLiveRowPerClaim' /\ PromotedIsCorroborated'
<1> USE DEF Table
<1>1. /\ \A h \in Facts : /\ fact'[h].status = fact[h].status
                          /\ fact'[h].lead = fact[h].lead
                          /\ fact'[h].claim = fact[h].claim
                          /\ fact'[h].supersedes = fact[h].supersedes
                          /\ h # f => fact'[h] = fact[h]
      /\ fact'[f].srcs = fact[f].srcs \cup {s}
      /\ fact' \in [Facts -> FactRows]
      /\ Tombstoned' = Tombstoned
      /\ \A l \in Leads : Live(l)' = Live(l)
  BY LinkEffect
<1>2. tombs' = tombs /\ f \in Facts /\ fact[f].status # "none" /\ s \in Sources
  BY DEF Links
<1>3. Free' = Free
  BY <1>1 DEF Free
<1>4. TypedTable'
  BY <1>1, <1>2, <1>3 DEF TypedTable, TypeOK
<1>5. FactsKept'
  BY <1>1, <1>2 DEF FactsKept
<1>6. SupersededOnce'
  BY <1>1, <1>2 DEF SupersededOnce
<1>7. OneLiveRowPerClaim'
  BY <1>1, <1>2 DEF OneLiveRowPerClaim, Live, Rows
<1>8. PromotedIsCorroborated'
  <2> SUFFICES ASSUME NEW h \in Facts, fact'[h].supersedes # None
               PROVE  Corroborated(fact'[h].srcs)
    BY DEF PromotedIsCorroborated, Corroborated
  <2>1. Corroborated(fact[h].srcs)
    BY <1>1 DEF PromotedIsCorroborated
  <2>2. fact[f].srcs \in SUBSET Sources
    BY <1>2 DEF FactsKept, FactRows
  <2>3. CASE h = f
    BY <1>1, <1>2, <2>1, <2>2, <2>3, CorroboratedGrows
  <2>4. CASE h # f
    BY <1>1, <2>1, <2>4
  <2> QED
    BY <2>3, <2>4
<1> QED
  BY <1>4, <1>5, <1>6, <1>7, <1>8

(* And so does an erasure.                                                 *)
LEMMA RetractKeepsTable ==
  ASSUME Table, NEW l, NEW a, Retracts(l, a)
  PROVE  /\ TypedTable' /\ FactsKept'
         /\ SupersededOnce' /\ OneLiveRowPerClaim' /\ PromotedIsCorroborated'
<1> USE DEF Table
<1>1. /\ \A h \in Facts : h \in Tombstoned' <=> h \in Tombstoned \/ h \in Live(l)
      /\ \A h \in Facts, k \in Leads : h \in Live(k)' <=> h \in Live(k) /\ k # l
  BY RetractEffect
<1>2. fact' = fact /\ Free' = Free /\ a \in Approvals
      /\ \A h \in Facts, b \in Approvals :
           <<h, b>> \in tombs' <=> <<h, b>> \in tombs \/ (h \in Live(l) /\ b = a)
  BY DEF Retracts, Free
<1>3. \A h \in Live(l) : /\ h \in Facts /\ fact[h].status # "none" /\ h \notin Tombstoned
                         /\ \A k \in Facts : fact[k].supersedes # h
  BY DEF Live, Rows, Superseded
<1>4. TypedTable'
  <2>1. \A h \in Live(l) : <<h, a>> \in (Facts \ Free) \X Approvals
    BY <1>2, <1>3 DEF Free
  <2> QED
    BY <1>2, <2>1 DEF TypedTable, TypeOK, Retracts
<1>5. FactsKept'
  <2>1. tombs' \subseteq Facts \X Approvals
    BY <1>2, <1>3 DEF FactsKept, Retracts
  <2> QED
    BY <1>1, <1>2, <1>3, <2>1 DEF FactsKept
<1>6. SupersededOnce'
  <2> SUFFICES ASSUME NEW f \in Facts
               PROVE  /\ \A h, k \in Facts :
                           fact[h].supersedes = f /\ fact[k].supersedes = f => h = k
                      /\ \A b, c \in Approvals : <<f, b>> \in tombs' /\ <<f, c>> \in tombs' => b = c
                      /\ f \in Tombstoned' => \A h \in Facts : fact[h].supersedes # f
    BY <1>2 DEF SupersededOnce
  <2>1. CASE f \in Live(l)
    BY <1>1, <1>2, <1>3, <2>1 DEF SupersededOnce, Tombstoned
  <2>2. CASE f \notin Live(l)
    BY <1>1, <1>2, <2>2 DEF SupersededOnce
  <2> QED
    BY <2>1, <2>2
<1>7. OneLiveRowPerClaim'
  <2>1. \A k \in Leads : Live(k)' \subseteq Live(k)
    BY <1>1 DEF Live, Rows
  <2> QED
    BY <1>2, <2>1 DEF OneLiveRowPerClaim
<1>8. PromotedIsCorroborated'
  BY <1>2 DEF PromotedIsCorroborated, Corroborated
<1> QED
  BY <1>4, <1>5, <1>6, <1>7, <1>8

-----------------------------------------------------------------------------
(* What a step does to the transactions: one of them moves, the others stay*)
(* where they are.                                                         *)
Quiet == fact' = fact /\ tombs' = tombs
Others(p) ==
  \A q \in Workers \ {p} : pc'[q] = pc[q] /\ arg'[q] = arg[q] /\ seen'[q] = seen[q]
Now(p, stage, a, rows) ==
  Others(p) /\ pc'[p] = stage /\ arg'[p] = a /\ seen'[p] = rows

(* While no table row is written, everything read from them stays.       *)
LEMMA QuietEffect ==
  ASSUME Quiet
  PROVE  /\ Tombstoned' = Tombstoned /\ Free' = Free
         /\ \A h : Superseded(h)' <=> Superseded(h)
         /\ \A l : Rows(l)' = Rows(l) /\ Live(l)' = Live(l)
BY DEF Quiet, Tombstoned, Free, Superseded, Rows, Live

(* What the ways of moving a transaction do to the others: nothing.      *)
LEMMA EnterEffect ==
  ASSUME TypeOK, NEW p \in Workers, NEW stage, NEW a, Enter(p, stage, a)
  PROVE  Now(p, stage, a, seen[p]) /\ Quiet /\ approval' = approval /\ spent' = spent
BY DEF Enter, TypeOK, Now, Others, Quiet, table

(* A transaction that goes on keeps what it was called with.             *)
LEMMA ReachEffect ==
  ASSUME TypeOK, NEW p \in Workers, NEW stage, Reach(p, stage)
  PROVE  Now(p, stage, arg[p], seen[p]) /\ Quiet /\ approval' = approval /\ spent' = spent
BY DEF Reach, TypeOK, Now, Others, Quiet, table

(* A transaction that ends gives up its locks.                           *)
LEMMA LeaveEffect ==
  ASSUME TypeOK, NEW p \in Workers, Leave(p)
  PROVE  Now(p, "idle", NoArg, {})
BY DEF Leave, TypeOK, Now, Others

(* A rollback writes nothing.                                            *)
LEMMA RollbackEffect ==
  ASSUME TypeOK, NEW p \in Workers, Rollback(p)
  PROVE  Now(p, "idle", NoArg, {}) /\ Quiet /\ approval' = approval /\ spent' = spent
BY LeaveEffect DEF Rollback, Quiet, table

(* A quiet step of p, as far as the invariants tell stages apart.          *)
Begins(p) ==
  \/ /\ Quiet /\ Now(p, "idle", NoArg, {})
  \/ /\ ~Recording /\ Quiet
     /\ \E l \in Leads, c \in Claims, s \in Sources :
          Now(p, "dedupe", Arg(l, None, c, s, None), seen[p])
  \/ /\ Quiet
     /\ \E f \in Facts : /\ fact[f].status = "submitted_claim"
                         /\ Now(p, "promote", Arg(fact[f].lead, f, None, None, None), seen[p])
  \/ /\ pc[p] = "idle" /\ Quiet
     /\ \E a \in Approvals, l \in Leads :
          /\ ~ApprovalLocked(a) /\ approval[a].status = "approved" /\ approval[a].lead = l
          /\ Now(p, "lead", Arg(l, None, None, None, a), seen[p])
  \/ /\ Quiet
     /\ \E l \in Leads : /\ ~LeadLocked(l, p)
                         /\ Now(p, "reading", Arg(l, None, None, None, None), seen[p])

Deduplicates(p) ==
  /\ pc[p] = "dedupe" /\ Quiet
  /\ \/ /\ \A f \in Live(arg[p].lead) : fact[f].claim = arg[p].claim
                                          => fact[f].status = "contradicted"
        /\ Now(p, "write", arg[p], seen[p])
     \/ \E f \in Live(arg[p].lead) :
          Now(p, "write", Arg(arg[p].lead, f, arg[p].claim, arg[p].src, None), seen[p])

Locks(p) ==
  \/ /\ pc[p] = "write" /\ MayWrite(p) /\ Quiet
     /\ Now(p, "recorded", arg[p], seen[p])
  \/ /\ pc[p] = "promote" /\ MayPromote(p) /\ Quiet
     /\ ~Superseded(arg[p].fact) /\ Corroborated(fact[arg[p].fact].srcs)
     /\ Now(p, "insert", arg[p], seen[p])
  \/ /\ pc[p] = "insert" /\ ~LeadLocked(arg[p].lead, p) /\ Quiet
     /\ Now(p, "promoted", arg[p], seen[p])
  \/ /\ pc[p] = "lead" /\ MayLockLead(p) /\ Quiet
     /\ Now(p, "retract", arg[p], seen[p])
  \/ /\ pc[p] = "verify" /\ MayRetract(p) /\ Quiet
     /\ Now(p, "retracted", arg[p], seen[p])

Reads(p) ==
  \/ /\ pc[p] = "retract" /\ Quiet
     /\ Now(p, "verify", arg[p], Live(arg[p].lead))
  \/ /\ pc[p] = "reading" /\ Quiet
     /\ Now(p, "compiled", arg[p], Frozen(arg[p].lead))

(* The steps that change the fact table.                                   *)
AddsFact ==
  /\ \E g, row : /\ Adds(g, row) /\ row.claim = None /\ row.supersedes = None
                 /\ ~LeadLocked(row.lead, None)
  /\ pc' = pc /\ arg' = arg /\ seen' = seen
Records(p) ==
  /\ pc[p] = "recorded" /\ Now(p, "idle", NoArg, {})
  /\ \/ /\ arg[p].fact = None
        /\ \E g : Adds(g, FactRow("submitted_claim", arg[p].lead, arg[p].claim, None, {arg[p].src}))
     \/ /\ arg[p].fact # None
        /\ Links(arg[p].fact, arg[p].src)
Promotes(p) ==
  /\ pc[p] = "promoted" /\ Now(p, "idle", NoArg, {})
  /\ LET f == arg[p].fact IN
     \E g : Adds(g, FactRow("verified_fact", fact[f].lead, fact[f].claim, f, fact[f].srcs))
Erases(p) ==
  /\ pc[p] = "retracted" /\ Now(p, "idle", NoArg, {})
  /\ Retracts(arg[p].lead, arg[p].appr)

Stays == Quiet /\ pc' = pc /\ arg' = arg /\ seen' = seen

(* fact-add adds a row to a lead that nobody erases.                     *)
LEMMA FactAddKind ==
  ASSUME IInv, FactAdd
  PROVE  AddsFact
<1>1. PICK l \in Leads, s \in Statuses, S \in SUBSET Sources, g \in Free :
        /\ ~LeadLocked(l, None)
        /\ fact' = [fact EXCEPT ![g] = FactRow(s, l, None, None, S)]
        /\ UNCHANGED <<tombs, pc, arg, seen>>
  BY DEF FactAdd
<1> DEFINE row == FactRow(s, l, None, None, S)
<1>2. /\ row \in FactRows /\ row.status # "none" /\ row.lead = l
      /\ row.claim = None /\ row.supersedes = None
  BY DEF FactRow, FactRows, Statuses
<1>3. GoodRow(row)
  BY <1>2 DEF GoodRow
<1> QED
  BY <1>1, <1>2, <1>3 DEF AddsFact, Adds

(* evidence-record adds a row of a new claim, or a source.               *)
LEMMA RecordKind ==
  ASSUME IInv, NEW p \in Workers, RecordCommit(p)
  PROVE  Records(p)
<1>1. pc[p] = "recorded" /\ Now(p, "idle", NoArg, {}) /\ tombs' = tombs
  BY LeaveEffect DEF RecordCommit, IInv
<1>2. /\ arg[p].lead \in Leads /\ arg[p].claim \in Claims /\ arg[p].src \in Sources
      /\ arg[p].fact # None => arg[p].fact \in Facts /\ fact[arg[p].fact].status # "none"
      /\ arg[p].fact = None => \A f \in Live(arg[p].lead) : fact[f].claim # arg[p].claim
  BY <1>1 DEF IInv, RecordHeld, Writing, WritesNew
<1>3. CASE arg[p].fact = None
  <2> DEFINE row == FactRow("submitted_claim", arg[p].lead, arg[p].claim, None, {arg[p].src})
  <2>1. PICK g \in Free : fact' = [fact EXCEPT ![g] = row]
    BY <1>3 DEF RecordCommit
  <2>2. GoodRow(row)
    BY <1>2, <1>3 DEF GoodRow, FactRow, FactRows, Statuses
  <2> QED
    BY <1>1, <1>3, <2>1, <2>2 DEF Records, Adds
<1>4. CASE arg[p].fact # None
  <2>1. fact' = [fact EXCEPT ![arg[p].fact].srcs = @ \cup {arg[p].src}]
    BY <1>4 DEF RecordCommit
  <2> QED
    BY <1>1, <1>2, <1>4, <2>1 DEF Records, Links
<1> QED
  BY <1>3, <1>4

(* fact-promote adds the verified row of the claim it locked.            *)
LEMMA PromoteKind ==
  ASSUME IInv, NEW p \in Workers, PromoteCommit(p)
  PROVE  Promotes(p)
<1> DEFINE f == arg[p].fact
           row == FactRow("verified_fact", fact[f].lead, fact[f].claim, f, fact[f].srcs)
<1>1. pc[p] = "promoted" /\ Now(p, "idle", NoArg, {}) /\ tombs' = tombs
  BY LeaveEffect DEF PromoteCommit, IInv
<1>2. PICK g \in Free : fact' = [fact EXCEPT ![g] = row]
  BY DEF PromoteCommit
<1>3. f \in Facts /\ fact[f].status = "submitted_claim" /\ ~Superseded(f) /\ Corroborated(fact[f].srcs)
  BY <1>1 DEF IInv, ClaimHeld, ClaimKnown, ClaimLive, Looking, Promoting
<1>4. fact[f] \in FactRows /\ fact[f].lead \in Leads
  BY <1>3 DEF IInv, FactsKept
<1>5. f \in Live(fact[f].lead)
  BY <1>3 DEF Live, Rows
<1>6. /\ row \in FactRows /\ row.status = "verified_fact" /\ row.lead = fact[f].lead
      /\ row.claim = fact[f].claim /\ row.supersedes = f /\ row.srcs = fact[f].srcs
  BY <1>3, <1>4 DEF FactRow, FactRows, Statuses
<1>7. \A h \in Live(row.lead) : row.claim # None /\ fact[h].claim = row.claim => h = f
  BY <1>4, <1>5, <1>6 DEF IInv, OneLiveRowPerClaim
<1>8. GoodRow(row)
  BY <1>3, <1>4, <1>6, <1>7 DEF GoodRow
<1> QED
  BY <1>1, <1>2, <1>8 DEF Promotes, Adds

(* data-erase-lead retracts what is live at its commit.                  *)
LEMMA EraseKind ==
  ASSUME IInv, NEW p \in Workers, EraseCommit(p)
  PROVE  /\ Erases(p)
         /\ approval' = [approval EXCEPT ![arg[p].appr].status = "consumed"]
         /\ spent' = [spent EXCEPT ![arg[p].appr] = Append(@, arg[p].lead)]
<1>1. pc[p] = "retracted" /\ Now(p, "idle", NoArg, {})
  BY LeaveEffect DEF EraseCommit, IInv
<1>2. seen[p] = Live(arg[p].lead)
  BY <1>1 DEF IInv, LeadHeld, LeadRead
<1>3. arg[p].appr \in Approvals /\ arg[p].lead \in Leads
  BY <1>1 DEF IInv, GrantHeld, Erasing
<1> QED
  BY <1>1, <1>2, <1>3 DEF EraseCommit, Erases, Retracts

(* Every step is of one of these kinds.                                    *)
LEMMA StepKinds ==
  ASSUME IInv, [Next]_vars
  PROVE  \/ Stays \/ AddsFact
         \/ \E p \in Workers : \/ Begins(p) \/ Deduplicates(p) \/ Locks(p) \/ Reads(p)
                               \/ Records(p) \/ Promotes(p) \/ Erases(p)
<1> USE DEF IInv
<1>1. CASE UNCHANGED vars
  BY <1>1 DEF vars, Stays, Quiet
<1>2. CASE Request \/ Decide \/ Lapse
  BY <1>2 DEF Request, Decide, Lapse, table, Stays, Quiet
<1>3. CASE FactAdd
  BY <1>3, FactAddKind
<1>4. ASSUME NEW p \in Workers,
             RecordBegin(p) \/ PromoteBegin(p) \/ EraseBegin(p) \/ CompileBegin(p)
      PROVE  Begins(p)
  <2>1. CASE RecordBegin(p)
    BY <2>1, EnterEffect DEF RecordBegin, Begins
  <2>2. CASE PromoteBegin(p)
    BY <2>2, EnterEffect DEF PromoteBegin, Begins
  <2>3. CASE EraseBegin(p)
    BY <2>3, EnterEffect DEF EraseBegin, Begins
  <2>4. CASE CompileBegin(p)
    BY <2>4, EnterEffect DEF CompileBegin, Begins
  <2> QED
    BY <1>4, <2>1, <2>2, <2>3, <2>4
<1>5. ASSUME NEW p \in Workers, Rollback(p)
      PROVE  Begins(p)
  BY <1>5, RollbackEffect DEF Begins
<1>6. ASSUME NEW p \in Workers, CompileCommit(p)
      PROVE  Begins(p)
  BY <1>6, LeaveEffect DEF CompileCommit, Begins, Quiet
<1>7. ASSUME NEW p \in Workers, Deduplicate(p)
      PROVE  Deduplicates(p)
  <2> DEFINE same == {f \in Live(arg[p].lead) : /\ fact[f].claim = arg[p].claim
                                                /\ fact[f].status # "contradicted"}
  <2>1. CASE same = {}
    BY <1>7, <2>1, ReachEffect DEF Deduplicate, Deduplicates
  <2>2. CASE same # {}
    BY <1>7, <2>2, EnterEffect DEF Deduplicate, Deduplicates
  <2> QED
    BY <2>1, <2>2
<1>8. ASSUME NEW p \in Workers, RecordWrite(p) \/ PromoteInsert(p) \/ EraseLock(p) \/ EraseVerify(p)
      PROVE  Locks(p)
  <2>1. CASE RecordWrite(p)
    BY <2>1, ReachEffect DEF RecordWrite, Locks
  <2>2. CASE PromoteInsert(p)
    BY <2>2, ReachEffect DEF PromoteInsert, Locks
  <2>3. CASE EraseLock(p)
    BY <2>3, ReachEffect DEF EraseLock, Locks
  <2>4. CASE EraseVerify(p)
    BY <2>4, ReachEffect DEF EraseVerify, Locks
  <2> QED
    BY <1>8, <2>1, <2>2, <2>3, <2>4
<1>9. ASSUME NEW p \in Workers, PromoteLock(p)
      PROVE  Locks(p) \/ Begins(p)
  BY <1>5, <1>9, ReachEffect DEF PromoteLock, Locks
<1>10. ASSUME NEW p \in Workers, EraseRetract(p)
       PROVE  Reads(p)
  BY <1>10 DEF EraseRetract, Reads, Now, Others, Quiet, TypeOK, table
<1>11. ASSUME NEW p \in Workers, CompileRead(p)
       PROVE  Reads(p) \/ Begins(p)
  <2>1. CASE Rollback(p)
    BY <1>5, <2>1
  <2>2. CASE ~Rollback(p)
    BY <1>11, <2>2 DEF CompileRead, Reads, Now, Others, Quiet, TypeOK, table
  <2> QED
    BY <2>1, <2>2
<1>12. ASSUME NEW p \in Workers, LockTimeout(p) \/ Killed(p)
       PROVE  Begins(p)
  BY <1>5, <1>12 DEF LockTimeout, Killed
<1> QED
  BY <1>1, <1>2, <1>3, <1>4, <1>6, <1>7, <1>8, <1>9, <1>10, <1>11, <1>12,
     RecordKind, PromoteKind, EraseKind DEF Next, Advance

-----------------------------------------------------------------------------
(* A row that exists keeps what it says, its sources aside.                *)
RowsStay ==
  \A f \in Facts : fact[f].status # "none" =>
    /\ fact'[f].status = fact[f].status /\ fact'[f].lead = fact[f].lead
    /\ fact'[f].claim = fact[f].claim

(* Every step keeps the fact table in order.                             *)
LEMMA TableStep ==
  ASSUME IInv, [Next]_vars
  PROVE  /\ TypedTable' /\ FactsKept' /\ RowsStay
         /\ SupersededOnce' /\ OneLiveRowPerClaim' /\ PromotedIsCorroborated'
<1> USE DEF IInv, Table
<1>1. CASE Quiet
  <2>1. Tombstoned' = Tombstoned /\ Free' = Free /\ \A l : Live(l)' = Live(l)
    BY <1>1, QuietEffect
  <2>2. TypedTable' /\ RowsStay
    BY <1>1, <2>1 DEF Quiet, TypedTable, TypeOK, RowsStay
  <2>3. FactsKept' /\ SupersededOnce'
    BY <1>1, <2>1 DEF Quiet, FactsKept, SupersededOnce
  <2>4. OneLiveRowPerClaim' /\ PromotedIsCorroborated'
    BY <1>1, <2>1 DEF Quiet, OneLiveRowPerClaim, PromotedIsCorroborated, Corroborated
  <2> QED
    BY <2>2, <2>3, <2>4
<1>2. ASSUME NEW g, NEW row, Adds(g, row)
      PROVE  RowsStay
  <2>1. \A h \in Facts \ {g} : fact'[h] = fact[h]
    BY <1>2, AddEffect
  <2>2. fact[g].status = "none"
    BY <1>2 DEF Adds, Free
  <2> QED
    BY <2>1, <2>2 DEF RowsStay
<1>3. ASSUME NEW f, NEW s, Links(f, s)
      PROVE  RowsStay
  BY <1>3, LinkEffect DEF RowsStay
<1>4. ASSUME NEW l, NEW a, Retracts(l, a)
      PROVE  RowsStay
  BY <1>4 DEF RowsStay, Retracts
<1>5. \/ Quiet \/ (\E g, row : Adds(g, row)) \/ (\E f, s : Links(f, s))
      \/ \E l, a : Retracts(l, a)
  BY StepKinds DEF Stays, AddsFact, Begins, Deduplicates, Locks, Reads, Records, Promotes, Erases
<1> QED
  BY <1>1, <1>2, <1>3, <1>4, <1>5, AddKeepsTable, LinkKeepsTable, RetractKeepsTable

-----------------------------------------------------------------------------
(* Every worker either stays where it is or makes one of the moves.        *)
Same(w) == pc'[w] = pc[w] /\ arg'[w] = arg[w] /\ seen'[w] = seen[w]
Moves(w) == \/ Begins(w) \/ Deduplicates(w) \/ Locks(w) \/ Reads(w)
            \/ Records(w) \/ Promotes(w) \/ Erases(w)

LEMMA WorkerStep ==
  ASSUME IInv, [Next]_vars, NEW w \in Workers
  PROVE  /\ Same(w) \/ Moves(w)
         /\ ~Same(w) => \A q \in Workers \ {w} : Same(q)
<1>1. CASE Stays \/ AddsFact
  BY <1>1 DEF Stays, AddsFact, Same
<1>2. ASSUME NEW p \in Workers, Moves(p)
      PROVE  Others(p)
  BY <1>2 DEF Moves, Begins, Deduplicates, Locks, Reads, Records, Promotes, Erases, Now
<1>3. ASSUME NEW p \in Workers, Moves(p)
      PROVE  /\ Same(w) \/ Moves(w)
             /\ ~Same(w) => \A q \in Workers \ {w} : Same(q)
  BY <1>2, <1>3 DEF Others, Same
<1> QED
  BY <1>1, <1>3, StepKinds DEF Moves

(* Who supersedes a row, and who attaches a source to it.                  *)
LEMMA WhoSupersedes ==
  ASSUME IInv, [Next]_vars, NEW h \in Facts, fact[h].status # "none",
         Superseded(h)', ~Superseded(h)
  PROVE  \E p \in Workers : /\ pc'[p] = "idle"
                            /\ \/ pc[p] = "promoted" /\ arg[p].fact = h
                               \/ pc[p] = "retracted" /\ h \in seen[p]
<1> USE DEF IInv
<1>1. CASE Quiet
  BY <1>1, QuietEffect
<1>2. ASSUME NEW g, NEW row, Adds(g, row), row.supersedes = None
      PROVE  FALSE
  BY <1>2, AddEffect, LedgerAssumption
<1>3. ASSUME NEW f, NEW s, Links(f, s)
      PROVE  FALSE
  BY <1>3, LinkEffect
<1>4. ASSUME NEW p \in Workers, Promotes(p)
      PROVE  pc'[p] = "idle" /\ pc[p] = "promoted" /\ arg[p].fact = h
  <2>1. PICK g, row : Adds(g, row) /\ row.supersedes = arg[p].fact
    BY <1>4 DEF Promotes, FactRow
  <2>2. arg[p].fact = h
    BY <2>1, AddEffect
  <2> QED
    BY <1>4, <2>2 DEF Promotes, Now
<1>5. ASSUME NEW p \in Workers, Erases(p)
      PROVE  pc'[p] = "idle" /\ pc[p] = "retracted" /\ h \in seen[p]
  <2>1. h \in Live(arg[p].lead)
    BY <1>5, RetractEffect DEF Erases
  <2> QED
    BY <1>5, <2>1 DEF Erases, Now, LeadHeld, LeadRead
<1>6. ASSUME NEW p \in Workers, Records(p)
      PROVE  \/ \E g, row : Adds(g, row) /\ row.supersedes = None
             \/ \E f, s : Links(f, s)
  BY <1>6 DEF Records, FactRow
<1>7. ASSUME NEW p \in Workers, Begins(p) \/ Deduplicates(p) \/ Locks(p) \/ Reads(p)
      PROVE  Quiet
  BY <1>7 DEF Begins, Deduplicates, Locks, Reads
<1> QED
  BY <1>1, <1>2, <1>3, <1>4, <1>5, <1>6, <1>7, StepKinds DEF Stays, AddsFact

(* A source is attached by the record of that row only.                  *)
LEMMA WhoAttaches ==
  ASSUME IInv, [Next]_vars, NEW h \in Facts, fact[h].status # "none",
         fact'[h].srcs # fact[h].srcs
  PROVE  \E p \in Workers : pc'[p] = "idle" /\ pc[p] = "recorded" /\ arg[p].fact = h
<1> USE DEF IInv
<1>1. CASE fact' = fact
  BY <1>1
<1>2. ASSUME NEW g, NEW row, Adds(g, row)
      PROVE  FALSE
  BY <1>2, AddEffect DEF Adds, Free
<1>3. ASSUME NEW p \in Workers, Records(p), Links(arg[p].fact, arg[p].src)
      PROVE  pc'[p] = "idle" /\ pc[p] = "recorded" /\ arg[p].fact = h
  BY <1>3, LinkEffect DEF Records, Now
<1>4. \/ fact' = fact \/ (\E g, row : Adds(g, row))
      \/ \E p \in Workers : Records(p) /\ Links(arg[p].fact, arg[p].src)
  BY StepKinds DEF Stays, AddsFact, Begins, Deduplicates, Locks, Reads, Records, Promotes,
     Erases, Retracts, Quiet
<1> QED
  BY <1>1, <1>2, <1>3, <1>4

-----------------------------------------------------------------------------
(* The claim that a promotion locked stays live and keeps its sources.     *)
LEMMA ClaimStep ==
  ASSUME IInv, [Next]_vars
  PROVE  ClaimHeld'
<1> USE DEF IInv
<1>1. RowsStay /\ None \notin Facts
  BY TableStep, LedgerAssumption
<1>2. ASSUME NEW w \in Workers
      PROVE  ClaimKnown(w)'
  <2>1. ClaimKnown(w)
    BY DEF ClaimHeld
  <2>2. CASE Same(w)
    BY <1>1, <2>1, <2>2 DEF Same, ClaimKnown, Looking, Promoting, RowsStay
  <2>3. CASE Locks(w)
    BY <1>1, <2>1, <2>3 DEF Locks, Now, ClaimKnown, Looking, Promoting, RowsStay
  <2>4. CASE pc'[w] \notin {"promote", "insert", "promoted"}
    BY <2>4 DEF ClaimKnown, Looking, Promoting
  <2>5. CASE Begins(w)
    <3>1. CASE \E f \in Facts : /\ fact[f].status = "submitted_claim"
                               /\ Now(w, "promote", Arg(fact[f].lead, f, None, None, None), seen[w])
      <4>1. PICK f \in Facts : /\ fact[f].status = "submitted_claim"
                              /\ Now(w, "promote", Arg(fact[f].lead, f, None, None, None), seen[w])
        BY <3>1
      <4> QED
        BY <1>1, <4>1 DEF Now, Arg, ClaimKnown, RowsStay
    <3>2. CASE pc'[w] \in {"idle", "dedupe", "lead", "reading"}
      BY <3>2 DEF ClaimKnown, Looking, Promoting
    <3> QED
      BY <2>5, <3>1, <3>2 DEF Begins, Now
  <2> QED
    BY <2>2, <2>3, <2>4, <2>5, WorkerStep
    DEF Moves, Deduplicates, Reads, Records, Promotes, Erases, Now
<1>3. ASSUME NEW w \in Workers
      PROVE  ClaimLive(w)'
  <2> SUFFICES ASSUME Promoting(w)'
               PROVE  ~Superseded(arg[w].fact)' /\ Corroborated(fact'[arg'[w].fact].srcs)
    BY DEF ClaimLive, Corroborated
  <2>1. arg'[w] = arg[w] /\ Looking(w) /\ ~Superseded(arg[w].fact)
        /\ Corroborated(fact[arg[w].fact].srcs)
        /\ \A q \in Workers \ {w} : /\ Promoting(q) \/ pc[q] = "recorded" => arg[q].fact # arg[w].fact
                                    /\ pc[q] = "retracted" => arg[w].fact \notin seen[q]
    <3>1. CASE Same(w)
      BY <3>1 DEF Same, ClaimHeld, ClaimLive, ClaimAlone, Promoting, Looking
    <3>2. CASE Locks(w) /\ pc[w] = "promote"
      BY <3>2 DEF Locks, Now, MayPromote, FactLocked, FactShared, Promoting, Looking
    <3>3. CASE Locks(w) /\ pc[w] # "promote"
      BY <3>3 DEF Locks, Now, ClaimHeld, ClaimLive, ClaimAlone, Promoting, Looking
    <3> QED
      BY <3>1, <3>2, <3>3, WorkerStep
      DEF Moves, Begins, Deduplicates, Reads, Records, Promotes, Erases, Now, Promoting
  <2>2. arg[w].fact \in Facts /\ fact[arg[w].fact].status # "none"
    BY <2>1 DEF ClaimHeld, ClaimKnown
  <2>3. ~Superseded(arg[w].fact)'
    <3>1. PICK h \in Facts : h = arg[w].fact
      BY <2>2
    <3>2. fact[h].status # "none" /\ ~Superseded(h)
      BY <2>1, <2>2, <3>1
    <3>3. ~\E p \in Workers : /\ pc'[p] = "idle"
                              /\ \/ pc[p] = "promoted" /\ arg[p].fact = h
                                 \/ pc[p] = "retracted" /\ h \in seen[p]
      BY <2>1, <3>1 DEF Promoting
    <3>4. ~Superseded(h)'
      BY <3>2, <3>3, WhoSupersedes
    <3> QED
      BY <2>1, <3>1, <3>4 DEF Superseded, Tombstoned
  <2>4. fact'[arg[w].fact].srcs = fact[arg[w].fact].srcs
    BY <2>1, <2>2, WhoAttaches DEF Promoting
  <2> QED
    BY <2>1, <2>3, <2>4
<1>4. ASSUME NEW w \in Workers, NEW q \in Workers \ {w}
      PROVE  ClaimAlone(w, q)'
  <2> SUFFICES ASSUME Promoting(w)'
               PROVE  /\ Promoting(q)' \/ pc'[q] = "recorded" => arg'[q].fact # arg'[w].fact
                      /\ pc'[q] = "retracted" => arg'[w].fact \notin seen'[q]
    BY DEF ClaimAlone
  <2>1. arg[w].fact # None => arg[w].fact \in Facts
    BY DEF TypeOK, Args
  <2>2. CASE Same(w) /\ Same(q)
    BY <2>2 DEF Same, ClaimHeld, ClaimAlone, Promoting
  <2>3. CASE Same(q) /\ Locks(w) /\ pc[w] = "promote"
    BY <2>3 DEF Same, Locks, Now, MayPromote, FactLocked, FactShared, Promoting
  <2>4. CASE Same(q) /\ Locks(w) /\ pc[w] # "promote"
    BY <2>4 DEF Same, Locks, Now, ClaimHeld, ClaimAlone, Promoting
  <2>5. CASE Same(w) /\ Locks(q) /\ pc[q] \in {"promote", "verify"}
    BY <2>5 DEF Same, Locks, Now, MayPromote, MayRetract, FactLocked, Promoting
  <2>6. CASE Same(w) /\ Locks(q) /\ pc[q] = "write"
    <3>1. arg[w].fact \in Facts
      BY <2>6 DEF Same, ClaimHeld, ClaimKnown, Looking, Promoting
    <3>2. arg[q].fact = None \/ ~FactLocked(arg[q].fact, q)
      BY <2>6 DEF Locks, MayWrite
    <3> QED
      BY <1>1, <2>6, <3>1, <3>2 DEF Same, Locks, Now, FactLocked, Promoting
  <2>7. CASE Same(w) /\ Locks(q) /\ pc[q] \notin {"promote", "verify", "write"}
    BY <2>7 DEF Same, Locks, Now, ClaimHeld, ClaimAlone, Promoting
  <2>8. CASE Moves(w) /\ ~Locks(w)
    BY <2>8 DEF Moves, Begins, Deduplicates, Reads, Records, Promotes, Erases, Now, Promoting
  <2>9. CASE Moves(q) /\ ~Locks(q)
    BY <2>9 DEF Moves, Begins, Deduplicates, Reads, Records, Promotes, Erases, Now, Promoting
  <2> QED
    BY <2>2, <2>3, <2>4, <2>5, <2>6, <2>7, <2>8, <2>9, WorkerStep
<1> QED
  BY <1>2, <1>3, <1>4 DEF ClaimHeld

-----------------------------------------------------------------------------
(* Nobody changes the live facts of a lead that an erasure holds.          *)
LEMMA LiveStep ==
  ASSUME IInv, [Next]_vars, NEW w \in Workers, HasLead(w), pc'[w] # "idle",
         NEW l \in Leads, l = arg[w].lead
  PROVE  Live(l)' = Live(l)
<1> USE DEF IInv
<1>1. None \notin Workers /\ None \notin Facts
  BY LedgerAssumption
<1>2. \A p \in Workers : pc'[p] = "idle" => p # w /\ LeadAlone(w, p)
  BY DEF LeadHeld
<1>3. (\A h \in Facts : h \in Live(l)' <=> h \in Live(l)) => Live(l)' = Live(l)
  BY DEF Live, Rows
<1>4. CASE Quiet
  BY <1>4, QuietEffect
<1>5. ASSUME NEW g, NEW row, Adds(g, row), row.lead # l,
             row.supersedes = None \/ fact[row.supersedes].lead # l
      PROVE  Live(l)' = Live(l)
  BY <1>1, <1>3, <1>5, AddEffect DEF Live, Rows
<1>6. CASE AddsFact
  <2>1. PICK g, row : Adds(g, row) /\ row.supersedes = None /\ ~LeadLocked(row.lead, None)
    BY <1>6 DEF AddsFact
  <2> QED
    BY <1>1, <1>5, <2>1 DEF LeadLocked, HasLead
<1>7. ASSUME NEW p \in Workers, Records(p)
      PROVE  Live(l)' = Live(l)
  <2>1. CASE arg[p].fact = None
    BY <1>2, <1>5, <1>7, <2>1 DEF Records, Now, FactRow, LeadAlone
  <2>2. CASE arg[p].fact # None
    BY <1>7, <2>2, LinkEffect DEF Records
  <2> QED
    BY <2>1, <2>2
<1>8. ASSUME NEW p \in Workers, Promotes(p)
      PROVE  Live(l)' = Live(l)
  <2>1. arg[p].lead # l
    BY <1>2, <1>8 DEF Promotes, Now, LeadAlone
  <2>2. fact[arg[p].fact].lead = arg[p].lead
    BY <1>8 DEF Promotes, ClaimHeld, ClaimKnown, Looking, Promoting
  <2> QED
    BY <1>5, <1>8, <2>1, <2>2 DEF Promotes, FactRow
<1>9. ASSUME NEW p \in Workers, Erases(p)
      PROVE  Live(l)' = Live(l)
  <2>1. arg[p].lead # l
    BY <1>2, <1>9 DEF Erases, Now, LeadAlone, HasLead
  <2> QED
    BY <1>3, <1>9, <2>1, RetractEffect DEF Erases
<1>10. ASSUME NEW p \in Workers, Begins(p) \/ Deduplicates(p) \/ Locks(p) \/ Reads(p)
       PROVE  Quiet
  BY <1>10 DEF Begins, Deduplicates, Locks, Reads
<1> QED
  BY <1>4, <1>6, <1>7, <1>8, <1>9, <1>10, StepKinds DEF Stays

(* A lead that is being erased is touched by nobody else.                *)
LEMMA LeadStep ==
  ASSUME IInv, [Next]_vars
  PROVE  LeadHeld'
<1> USE DEF IInv
<1>1. ASSUME NEW w \in Workers
      PROVE  LeadRead(w)'
  <2> SUFFICES ASSUME pc'[w] \in {"verify", "retracted"}
               PROVE  seen'[w] = Live(arg[w].lead)'
    BY DEF LeadRead
  <2>1. CASE Same(w)
    <3>1. PICK l \in Leads : l = arg[w].lead
      BY <2>1 DEF Same, GrantHeld, Erasing
    <3>2. seen[w] = Live(l)
      BY <2>1, <3>1 DEF Same, LeadHeld, LeadRead
    <3>3. Live(l)' = Live(l)
      BY <2>1, <3>1, LiveStep DEF Same, HasLead
    <3> QED
      BY <2>1, <3>1, <3>2, <3>3 DEF Same, Live, Rows
  <2>2. CASE Reads(w)
    <3>1. Quiet /\ seen'[w] = Live(arg[w].lead) /\ arg'[w] = arg[w]
      BY <2>2 DEF Reads, Now
    <3> QED
      BY <3>1 DEF Quiet, Live, Rows, Superseded, Tombstoned
  <2>3. CASE Locks(w)
    <3>1. Quiet /\ seen'[w] = seen[w] /\ arg'[w] = arg[w] /\ pc[w] = "verify"
      BY <2>3 DEF Locks, Now
    <3>2. seen[w] = Live(arg[w].lead)
      BY <3>1 DEF LeadHeld, LeadRead
    <3> QED
      BY <3>1, <3>2 DEF Quiet, Live, Rows, Superseded, Tombstoned
  <2> QED
    BY <2>1, <2>2, <2>3, WorkerStep
    DEF Moves, Begins, Deduplicates, Records, Promotes, Erases, Now
<1>2. ASSUME NEW w \in Workers, NEW q \in Workers \ {w}
      PROVE  LeadAlone(w, q)'
  <2> SUFFICES ASSUME HasLead(w)', arg'[q].lead = arg'[w].lead
               PROVE  /\ pc'[q] \notin {"retract", "verify", "retracted"}
                      /\ pc'[q] \notin {"promoted", "reading", "compiled"}
                      /\ ~(pc'[q] = "recorded" /\ arg'[q].fact = None)
    BY DEF LeadAlone, HasLead
  <2>1. LeadAlone(w, q)
    BY DEF LeadHeld
  <2>2. CASE Same(w) /\ Same(q)
    BY <2>1, <2>2 DEF Same, LeadAlone, HasLead
  <2>3. CASE Same(q) /\ Locks(w) /\ pc[w] = "lead"
    BY <2>3 DEF Same, Locks, Now, MayLockLead, LeadLocked, LeadShared
  <2>4. CASE Same(q) /\ (Reads(w) \/ (Locks(w) /\ pc[w] # "lead"))
    BY <2>1, <2>4 DEF Same, Locks, Reads, Now, LeadAlone, HasLead
  <2>5. CASE Same(w) /\ Locks(q) /\ pc[q] \in {"write", "insert", "lead"}
    <3>1. ~LeadLocked(arg[q].lead, q) \/ (pc[q] = "write" /\ arg[q].fact # None)
      BY <2>5 DEF Locks, MayWrite, MayLockLead
    <3> QED
      BY <2>5, <3>1 DEF Same, Locks, Now, LeadLocked, HasLead
  <2>6. CASE Same(w) /\ (Reads(q) \/ (Locks(q) /\ pc[q] \notin {"write", "insert", "lead"}))
    BY <2>1, <2>6 DEF Same, Locks, Reads, Now, LeadAlone, HasLead
  <2>7. CASE Same(w) /\ Begins(q)
    <3>1. CASE \E l \in Leads : /\ ~LeadLocked(l, q)
                                /\ Now(q, "reading", Arg(l, None, None, None, None), seen[q])
      BY <2>7, <3>1 DEF Same, Now, Arg, LeadLocked, HasLead
    <3>2. CASE pc'[q] \in {"idle", "dedupe", "promote", "lead"}
      BY <3>2
    <3> QED
      BY <2>7, <3>1, <3>2 DEF Begins, Now
  <2>8. CASE Moves(w) /\ ~Locks(w) /\ ~Reads(w)
    BY <2>8 DEF Moves, Begins, Deduplicates, Records, Promotes, Erases, Now, HasLead
  <2>9. CASE Moves(q) /\ ~Locks(q) /\ ~Reads(q) /\ ~Begins(q)
    BY <2>9 DEF Moves, Deduplicates, Records, Promotes, Erases, Now
  <2> QED
    BY <2>2, <2>3, <2>4, <2>5, <2>6, <2>7, <2>8, <2>9, WorkerStep
<1> QED
  BY <1>1, <1>2 DEF LeadHeld

-----------------------------------------------------------------------------
(* Only an erasure spends an approval, and only its own.                   *)
LEMMA ApprovalKinds ==
  ASSUME [Next]_vars
  PROVE  \/ approval' = approval /\ spent' = spent
         \/ Request \/ Decide \/ \E p \in Workers : EraseCommit(p)
<1>1. CASE \E p \in Workers : RecordBegin(p) \/ PromoteBegin(p) \/ EraseBegin(p) \/ CompileBegin(p)
  BY <1>1 DEF RecordBegin, PromoteBegin, EraseBegin, CompileBegin, Enter, Reach, table
<1>2. ASSUME NEW p \in Workers, Advance(p), ~EraseCommit(p)
      PROVE  approval' = approval /\ spent' = spent
  BY <1>2 DEF Advance, Deduplicate, RecordWrite, RecordCommit, PromoteLock, PromoteInsert,
     PromoteCommit, EraseLock, EraseRetract, EraseVerify, CompileRead, CompileCommit, Rollback,
     Enter, Reach, table
<1>3. CASE \E p \in Workers : LockTimeout(p) \/ Killed(p)
  BY <1>3 DEF LockTimeout, Killed, Rollback, Enter, Reach, table
<1>4. CASE FactAdd \/ Lapse \/ UNCHANGED vars
  BY <1>4 DEF FactAdd, Lapse, vars, table
<1> QED
  BY <1>1, <1>2, <1>3, <1>4 DEF Next

(* An approval that is being spent stays approved.                       *)
LEMMA GrantStep ==
  ASSUME IInv, [Next]_vars
  PROVE  GrantHeld'
<1> USE DEF IInv
<1>1. ASSUME NEW w \in Workers, Erasing(w), pc'[w] # "idle"
      PROVE  approval'[arg[w].appr] = approval[arg[w].appr]
  <2>1. /\ arg[w].appr \in Approvals
        /\ approval[arg[w].appr] = [status |-> "approved", lead |-> arg[w].lead]
    BY <1>1 DEF GrantHeld
  <2>2. CASE Request
    BY <2>1, <2>2 DEF Request, TypeOK
  <2>3. CASE Decide
    BY <2>1, <2>3 DEF Decide, TypeOK
  <2>4. ASSUME NEW p \in Workers, EraseCommit(p)
        PROVE  approval'[arg[w].appr] = approval[arg[w].appr]
    <3>1. p # w /\ Erasing(p)
      BY <1>1, <2>4, EraseKind DEF Erases, Now, Erasing
    <3>2. arg[p].appr # arg[w].appr
      BY <1>1, <3>1 DEF GrantHeld
    <3> QED
      BY <2>1, <2>4, <3>2 DEF EraseCommit, TypeOK
  <2> QED
    BY <2>2, <2>3, <2>4, ApprovalKinds
<1>2. ASSUME NEW w \in Workers, Erasing(w)'
      PROVE  /\ arg'[w].appr \in Approvals /\ arg'[w].lead \in Leads
             /\ approval'[arg'[w].appr] = [status |-> "approved", lead |-> arg'[w].lead]
             /\ \A q \in Workers \ {w} : Erasing(q)' => arg'[q].appr # arg'[w].appr
  <2>1. CASE Erasing(w) /\ arg'[w] = arg[w]
    <3>1. \A q \in Workers \ {w} : Erasing(q) => arg[q].appr # arg[w].appr
      BY <2>1 DEF GrantHeld
    <3>2. ASSUME NEW q \in Workers \ {w}, Erasing(q)'
          PROVE  arg'[q].appr # arg[w].appr
      <4>1. CASE Same(q) \/ Locks(q) \/ Reads(q)
        BY <3>1, <3>2, <4>1 DEF Same, Locks, Reads, Now, Erasing
      <4>2. CASE Begins(q)
        <5>1. PICK a \in Approvals, l \in Leads :
                ~ApprovalLocked(a) /\ Now(q, "lead", Arg(l, None, None, None, a), seen[q])
          BY <3>2, <4>2 DEF Begins, Now, Erasing
        <5> QED
          BY <2>1, <5>1 DEF ApprovalLocked, Erasing, Now, Arg
      <4> QED
        BY <3>2, <4>1, <4>2, WorkerStep
        DEF Moves, Deduplicates, Records, Promotes, Erases, Now, Erasing
    <3> QED
      BY <1>1, <1>2, <2>1, <3>2 DEF GrantHeld, Erasing
  <2>2. CASE Begins(w)
    <3>1. PICK a \in Approvals, l \in Leads :
            /\ pc[w] = "idle" /\ ~ApprovalLocked(a) /\ approval[a].status = "approved" /\ approval[a].lead = l
            /\ Now(w, "lead", Arg(l, None, None, None, a), seen[w])
      BY <1>2, <2>2 DEF Begins, Now, Erasing
    <3>2. approval' = approval
      <4>1. pc' # pc /\ ~\E p \in Workers : EraseCommit(p)
        <5>1. pc'[w] = "lead" /\ Others(w)
          BY <3>1 DEF Now
        <5>2. pc[w] # "lead"
          BY <3>1
        <5> QED
          BY <5>1, <5>2, EraseKind DEF Erases, Now, Others
      <4> QED
        BY <4>1, ApprovalKinds DEF Request, Decide
    <3>3. approval[a] = [status |-> "approved", lead |-> l]
      BY <3>1 DEF TypeOK, Grants
    <3>4. \A q \in Workers \ {w} : Erasing(q)' => arg'[q].appr # a
      BY <3>1 DEF Now, Others, Erasing, ApprovalLocked
    <3> QED
      BY <3>1, <3>2, <3>3, <3>4 DEF Now, Arg
  <2>3. CASE Same(w) \/ Locks(w) \/ Reads(w)
    BY <1>2, <2>1, <2>3 DEF Same, Locks, Reads, Now, Erasing
  <2> QED
    BY <1>2, <2>2, <2>3, WorkerStep DEF Moves, Deduplicates, Records, Promotes, Erases, Now, Erasing
<1> QED
  BY <1>2 DEF GrantHeld, Erasing

-----------------------------------------------------------------------------
(* Only evidence-record adds a live row of a claim.                        *)
LEMMA ClaimStaysNew ==
  ASSUME IInv, [Next]_vars, NEW w \in Workers, WritesNew(w), pc'[w] # "idle",
         NEW l \in Leads, l = arg[w].lead, NEW c \in Claims, c = arg[w].claim
  PROVE  \A f \in Live(l)' : fact'[f].claim # c
<1> USE DEF IInv
<1>1. None # c /\ None \notin Facts
  BY LedgerAssumption
<1>2. /\ \A f \in Live(l) : fact[f].claim # c
      /\ \A p \in Workers : p # w => ~Writing(p)
  BY DEF RecordHeld, Writing, WritesNew
<1>3. CASE Quiet
  BY <1>2, <1>3, QuietEffect DEF Quiet
<1>4. ASSUME NEW g, NEW row, Adds(g, row), row.lead = l => row.claim # c
      PROVE  \A f \in Live(l)' : fact'[f].claim # c
  <2>1. \A f \in Live(l)' : f \in Facts
    BY DEF Live, Rows
  <2>2. /\ \A f \in Facts : f \in Live(l)' <=> (f \in Live(l) /\ row.supersedes # f)
                                              \/ (f = g /\ row.lead = l)
        /\ fact'[g] = row /\ \A f \in Facts \ {g} : fact'[f] = fact[f]
    BY <1>4, AddEffect
  <2>3. g \notin Live(l)
    BY <1>4 DEF Adds, Free, Live, Rows
  <2> QED
    BY <1>2, <1>4, <2>1, <2>2, <2>3
<1>5. ASSUME NEW p \in Workers, Records(p)
      PROVE  FALSE
  BY <1>2, <1>5 DEF Records, Now, Writing
<1>6. ASSUME NEW p \in Workers, Promotes(p)
      PROVE  \A f \in Live(l)' : fact'[f].claim # c
  <2> DEFINE h == arg[p].fact
  <2>1. h \in Facts /\ fact[h].status = "submitted_claim" /\ ~Superseded(h)
    BY <1>6 DEF Promotes, ClaimHeld, ClaimKnown, ClaimLive, Looking, Promoting
  <2>2. fact[h].lead = l => fact[h].claim # c
    BY <1>2, <2>1 DEF Live, Rows
  <2> QED
    BY <1>4, <1>6, <2>2 DEF Promotes, FactRow
<1>7. ASSUME NEW p \in Workers, Erases(p)
      PROVE  \A f \in Live(l)' : fact'[f].claim # c
  <2>1. \A f \in Live(l)' : f \in Facts
    BY DEF Live, Rows
  <2> QED
    BY <1>2, <1>7, <2>1, RetractEffect DEF Erases, Retracts
<1>8. ASSUME NEW p \in Workers, Begins(p) \/ Deduplicates(p) \/ Locks(p) \/ Reads(p)
      PROVE  Quiet
  BY <1>8 DEF Begins, Deduplicates, Locks, Reads
<1> QED
  BY <1>1, <1>3, <1>4, <1>5, <1>6, <1>7, <1>8, StepKinds DEF Stays, AddsFact

(* What evidence-record found stays true until it commits.               *)
LEMMA RecordStep ==
  ASSUME IInv, [Next]_vars
  PROVE  RecordHeld'
<1> USE DEF IInv
<1>1. RowsStay /\ None \notin Facts /\ None \notin Claims
  BY TableStep, LedgerAssumption
<1> SUFFICES ASSUME NEW w \in Workers, Writing(w)'
             PROVE  /\ arg'[w].lead \in Leads /\ arg'[w].claim \in Claims /\ arg'[w].src \in Sources
                    /\ arg'[w].fact # None => /\ arg'[w].fact \in Facts
                                              /\ fact'[arg'[w].fact].status # "none"
                    /\ WritesNew(w)' => \A f \in Live(arg[w].lead)' : fact'[f].claim # arg'[w].claim
                    /\ \A q \in Workers \ {w} : ~Writing(q)'
  BY DEF RecordHeld
<1>2. CASE Writing(w) /\ arg'[w] = arg[w]
  <2>1. /\ arg[w].lead \in Leads /\ arg[w].claim \in Claims /\ arg[w].src \in Sources
        /\ arg[w].fact # None => arg[w].fact \in Facts /\ fact[arg[w].fact].status # "none"
        /\ \A q \in Workers \ {w} : ~Writing(q)
    BY <1>2 DEF RecordHeld
  <2>2. \A q \in Workers \ {w} : ~Writing(q)'
    <3> SUFFICES ASSUME NEW q \in Workers \ {w}, Writing(q)'
                 PROVE  FALSE
      OBVIOUS
    <3>1. CASE Same(q)
      BY <2>1, <3>1 DEF Same, Writing
    <3>2. CASE Begins(q)
      BY <1>2, <3>2 DEF Begins, Now, Writing, Recording
    <3>3. CASE Deduplicates(q) \/ Locks(q)
      BY <2>1, <3>3 DEF Deduplicates, Locks, Now, Writing
    <3> QED
      BY <3>1, <3>2, <3>3, WorkerStep DEF Moves, Reads, Records, Promotes, Erases, Now, Writing
  <2>3. ASSUME WritesNew(w)'
        PROVE  \A f \in Live(arg[w].lead)' : fact'[f].claim # arg'[w].claim
    <3>1. PICK l \in Leads, c \in Claims : l = arg[w].lead /\ c = arg[w].claim
      BY <2>1
    <3>2. CASE WritesNew(w)
      <4>1. \A f \in Live(l)' : fact'[f].claim # c
        BY <2>3, <3>1, <3>2, ClaimStaysNew DEF WritesNew
      <4> QED
        BY <1>2, <3>1, <4>1 DEF Live, Rows
    <3>3. CASE ~WritesNew(w)
      <4>1. Deduplicates(w)
        BY <1>2, <2>3, <3>3, WorkerStep
        DEF WritesNew, Same, Moves, Begins, Locks, Reads, Records, Promotes, Erases, Now, Writing
      <4>2. /\ Quiet /\ arg[w].fact = None
            /\ \A f \in Live(arg[w].lead) : fact[f].claim = arg[w].claim
                                              => fact[f].status = "contradicted"
        <5>1. arg[w].fact = None
          BY <1>2, <2>3 DEF WritesNew
        <5>2. ASSUME NEW f \in Live(arg[w].lead),
                     Now(w, "write", Arg(arg[w].lead, f, arg[w].claim, arg[w].src, None), seen[w])
              PROVE  FALSE
          BY <1>1, <1>2, <5>1, <5>2 DEF Now, Arg, Live, Rows
        <5> QED
          BY <4>1, <5>1, <5>2 DEF Deduplicates
      <4>3. \A f \in Live(l) : fact[f].claim # c
        BY <1>1, <3>1, <4>2 DEF FactsKept, Live, Rows
      <4> QED
        BY <1>2, <3>1, <4>2, <4>3 DEF Quiet, Live, Rows, Superseded, Tombstoned
    <3> QED
      BY <3>2, <3>3
  <2> QED
    BY <1>1, <1>2, <2>1, <2>2, <2>3 DEF RowsStay
<1>3. CASE Begins(w)
  <2>1. PICK l \in Leads, c \in Claims, s \in Sources :
          ~Recording /\ Now(w, "dedupe", Arg(l, None, c, s, None), seen[w])
    BY <1>3 DEF Begins, Now, Writing
  <2> QED
    BY <2>1 DEF Now, Others, Arg, Writing, WritesNew, Recording
<1>4. CASE Deduplicates(w) /\ arg'[w] # arg[w]
  <2>1. PICK f \in Live(arg[w].lead) :
          Now(w, "write", Arg(arg[w].lead, f, arg[w].claim, arg[w].src, None), seen[w])
    BY <1>4 DEF Deduplicates, Now
  <2>2. f \in Facts /\ fact[f].status # "none" /\ Quiet /\ pc[w] = "dedupe"
    BY <1>4 DEF Live, Rows, Deduplicates
  <2> QED
    BY <1>1, <2>1, <2>2 DEF Now, Others, Arg, Writing, WritesNew, RecordHeld, Quiet
<1>5. CASE Same(w) \/ Locks(w) \/ (Deduplicates(w) /\ arg'[w] = arg[w])
  BY <1>2, <1>5 DEF Same, Locks, Deduplicates, Now, Writing
<1> QED
  BY <1>3, <1>4, <1>5, WorkerStep DEF Moves, Reads, Records, Promotes, Erases, Now, Writing

-----------------------------------------------------------------------------
(* Nobody erases a fact of a lead that a snapshot holds.                   *)
LEMMA ErasedStay ==
  ASSUME IInv, [Next]_vars, NEW w \in Workers, pc[w] \in {"reading", "compiled"}, pc'[w] # "idle",
         NEW l \in Leads, l = arg[w].lead
  PROVE  Rows(l)' \cap Tombstoned' = Rows(l) \cap Tombstoned
<1> USE DEF IInv
<1>1. Rows(l) \subseteq Facts /\ Rows(l)' \subseteq Facts
  BY DEF Rows
<1>2. CASE Quiet
  BY <1>2, QuietEffect
<1>3. ASSUME NEW g, NEW row, Adds(g, row)
      PROVE  Rows(l)' \cap Tombstoned' = Rows(l) \cap Tombstoned
  <2>1. /\ g \notin Tombstoned /\ Tombstoned' = Tombstoned
        /\ \A h \in Facts : h \in Rows(l)' <=> h \in Rows(l) \/ (h = g /\ row.lead = l)
    BY <1>3, AddEffect
  <2> QED
    BY <1>1, <2>1
<1>4. ASSUME NEW f, NEW s, Links(f, s)
      PROVE  Rows(l)' \cap Tombstoned' = Rows(l) \cap Tombstoned
  BY <1>4, LinkEffect
<1>5. ASSUME NEW p \in Workers, Erases(p)
      PROVE  Rows(l)' \cap Tombstoned' = Rows(l) \cap Tombstoned
  <2>1. arg[p].lead # l
    BY <1>5 DEF Erases, Now, LeadHeld, LeadAlone, HasLead
  <2>2. \A h \in Live(arg[p].lead) : h \notin Rows(l)
    BY <2>1 DEF Live, Rows
  <2>3. Rows(l)' = Rows(l) /\ \A h \in Facts :
          h \in Tombstoned' <=> h \in Tombstoned \/ h \in Live(arg[p].lead)
    BY <1>5, RetractEffect DEF Erases
  <2> QED
    BY <1>1, <2>2, <2>3
<1>6. ASSUME NEW p \in Workers, Begins(p) \/ Deduplicates(p) \/ Locks(p) \/ Reads(p)
      PROVE  Quiet
  BY <1>6 DEF Begins, Deduplicates, Locks, Reads
<1> QED
  BY <1>2, <1>3, <1>4, <1>5, <1>6, StepKinds DEF Stays, AddsFact, Records, Promotes

(* What compiled-truth froze is what the erasures left.                  *)
LEMMA SnapshotStep ==
  ASSUME IInv, [Next]_vars
  PROVE  SnapshotHeld'
<1> USE DEF IInv
<1> SUFFICES ASSUME NEW w \in Workers, pc'[w] \in {"reading", "compiled"}
             PROVE  /\ arg'[w].lead \in Leads
                    /\ pc'[w] = "compiled" =>
                         /\ seen'[w] \subseteq Facts \X {0, 1}
                         /\ ErasedIn(seen'[w]) = Rows(arg[w].lead)' \cap Tombstoned'
  BY DEF SnapshotHeld, ErasedIn
<1>1. CASE Same(w)
  <2>1. PICK l \in Leads : l = arg[w].lead
    BY <1>1 DEF Same, SnapshotHeld
  <2>2. Rows(l)' \cap Tombstoned' = Rows(l) \cap Tombstoned
    BY <1>1, <2>1, ErasedStay DEF Same
  <2>3. Rows(arg[w].lead)' = Rows(l)'
    BY <1>1, <2>1 DEF Same, Rows
  <2> QED
    BY <1>1, <2>1, <2>2, <2>3 DEF Same, SnapshotHeld
<1>2. CASE Reads(w)
  <2>1. /\ pc[w] = "reading" /\ Quiet /\ arg'[w] = arg[w] /\ seen'[w] = Frozen(arg[w].lead)
    BY <1>2 DEF Reads, Now
  <2>2. arg[w].lead \in Leads
    BY <2>1 DEF SnapshotHeld
  <2>3. /\ Frozen(arg[w].lead) \subseteq Facts \X {0, 1}
        /\ ErasedIn(Frozen(arg[w].lead)) = Rows(arg[w].lead) \cap Tombstoned
    BY DEF Frozen, ErasedIn, Rows
  <2>4. Rows(arg[w].lead)' \cap Tombstoned' = Rows(arg[w].lead) \cap Tombstoned
    BY <2>1 DEF Quiet, Rows, Tombstoned
  <2> QED
    BY <2>1, <2>2, <2>3, <2>4
<1>3. CASE Begins(w)
  <2>1. PICK l \in Leads : Now(w, "reading", Arg(l, None, None, None, None), seen[w])
    BY <1>3 DEF Begins, Now
  <2> QED
    BY <2>1 DEF Now, Arg
<1> QED
  BY <1>1, <1>2, <1>3, WorkerStep DEF Moves, Deduplicates, Locks, Records, Promotes, Erases, Now

-----------------------------------------------------------------------------
(* A token is consumed with the erasure it pays for.                     *)
LEMMA SpentStep ==
  ASSUME IInv, [Next]_vars
  PROVE  ApprovalSpentOnce'
<1> USE DEF IInv
<1>1. CASE approval' = approval /\ spent' = spent
  BY <1>1 DEF ApprovalSpentOnce
<1>2. CASE Request
  <2>1. PICK b \in Approvals, l \in Leads :
          /\ approval[b].status = "absent" /\ spent' = spent
          /\ approval' = [approval EXCEPT ![b] = [status |-> "pending", lead |-> l]]
    BY <1>2 DEF Request
  <2>2. spent[b] = <<>>
    BY <2>1 DEF ApprovalSpentOnce
  <2> QED
    BY <2>1, <2>2 DEF ApprovalSpentOnce, TypeOK
<1>3. CASE Decide
  <2>1. PICK b \in Approvals, s \in {"approved", "rejected"} :
          /\ approval[b].status = "pending" /\ spent' = spent
          /\ approval' = [approval EXCEPT ![b].status = s]
    BY <1>3 DEF Decide
  <2>2. spent[b] = <<>>
    BY <2>1 DEF ApprovalSpentOnce
  <2>3. approval'[b].lead = approval[b].lead /\ approval'[b].status = s
    BY <2>1 DEF TypeOK, Grants
  <2> QED
    BY <2>1, <2>2, <2>3 DEF ApprovalSpentOnce, TypeOK
<1>4. ASSUME NEW p \in Workers, EraseCommit(p)
      PROVE  ApprovalSpentOnce'
  <2>1. PICK b \in Approvals : b = arg[p].appr
    BY <1>4, EraseKind DEF Erases, Retracts
  <2>2. /\ approval' = [approval EXCEPT ![b].status = "consumed"]
        /\ spent' = [spent EXCEPT ![b] = Append(@, arg[p].lead)]
        /\ pc[p] = "retracted"
    BY <1>4, <2>1, EraseKind DEF Erases
  <2>3. approval[b] = [status |-> "approved", lead |-> arg[p].lead] /\ arg[p].lead \in Leads
    BY <2>1, <2>2 DEF GrantHeld, Erasing
  <2>4. spent[b] = <<>>
    BY <2>3 DEF ApprovalSpentOnce
  <2>5. spent'[b] = <<arg[p].lead>>
    BY <2>2, <2>3, <2>4 DEF TypeOK
  <2>6. approval'[b].lead = arg[p].lead /\ approval'[b].status = "consumed"
    BY <2>2, <2>3 DEF TypeOK, Grants
  <2>7. \A a \in Approvals \ {b} : approval'[a] = approval[a] /\ spent'[a] = spent[a]
    BY <2>2 DEF TypeOK
  <2>8. spent'[b] # <<>>
    BY <2>5
  <2>9. ASSUME NEW a \in Approvals
        PROVE  /\ spent'[a] \in {<<>>, <<approval'[a].lead>>}
               /\ (approval'[a].status = "consumed") <=> (spent'[a] # <<>>)
    <3>1. CASE a = b
      BY <2>5, <2>6, <2>8, <3>1
    <3>2. CASE a # b
      BY <2>7, <3>2 DEF ApprovalSpentOnce
    <3> QED
      BY <3>1, <3>2
  <2> QED
    BY <2>9 DEF ApprovalSpentOnce
<1> QED
  BY <1>1, <1>2, <1>3, <1>4, ApprovalKinds

-----------------------------------------------------------------------------
(* Where transactions stand is well typed.                                 *)
TypedWorkers ==
  /\ pc \in [Workers -> Stages] /\ arg \in [Workers -> Args]
  /\ seen \in [Workers -> SUBSET (Facts \cup Facts \X {0, 1})]
TypedGrants ==
  /\ archived \subseteq Leads /\ lapsed \subseteq Approvals
  /\ approval \in [Approvals -> Grants]
  /\ \A a \in Approvals : approval[a].status = "absent" \/ approval[a].lead \in Leads
  /\ spent \in [Approvals -> Seq(Leads)]
  /\ truth \in [Leads -> SUBSET (Facts \X {0, 1})]

(* The arguments of a transaction are well typed.                        *)
LEMMA ArgTyped ==
  ASSUME NEW l \in Leads \cup {None}, NEW f \in Facts \cup {None},
         NEW c \in Claims \cup {None}, NEW s \in Sources \cup {None},
         NEW a \in Approvals \cup {None}
  PROVE  Arg(l, f, c, s, a) \in Args
BY DEF Arg, Args

(* So is where every transaction stands.                                 *)
LEMMA WorkersTyped ==
  ASSUME IInv, [Next]_vars
  PROVE  TypedWorkers'
<1> USE DEF IInv
<1>1. TypedWorkers
  BY DEF TypeOK, TypedWorkers
<1>2. ASSUME NEW p \in Workers, NEW stage \in Stages, NEW a \in Args, Enter(p, stage, a)
      PROVE  TypedWorkers'
  BY <1>1, <1>2 DEF Enter, TypedWorkers
<1>3. ASSUME NEW p \in Workers, NEW stage \in Stages, Reach(p, stage)
      PROVE  TypedWorkers'
  BY <1>1, <1>3 DEF Reach, TypedWorkers
<1>4. ASSUME NEW p \in Workers, Leave(p)
      PROVE  TypedWorkers'
  BY <1>1, <1>4, ArgTyped DEF Leave, TypedWorkers, NoArg, Stages
<1>5. CASE UNCHANGED vars \/ FactAdd \/ Request \/ Decide \/ Lapse
  BY <1>1, <1>5 DEF vars, FactAdd, Request, Decide, Lapse, TypedWorkers
<1>6. ASSUME NEW p \in Workers,
             RecordBegin(p) \/ PromoteBegin(p) \/ EraseBegin(p) \/ CompileBegin(p)
      PROVE  TypedWorkers'
  <2>1. CASE RecordBegin(p)
    BY <1>2, <2>1, ArgTyped DEF RecordBegin, Stages
  <2>2. CASE PromoteBegin(p)
    <3>1. PICK f \in Facts : fact[f].status = "submitted_claim"
                             /\ Enter(p, "promote", Arg(fact[f].lead, f, None, None, None))
      BY <2>2 DEF PromoteBegin
    <3>2. fact[f].lead \in Leads
      BY <3>1 DEF FactsKept
    <3> QED
      BY <1>2, <3>1, <3>2, ArgTyped DEF Stages
  <2>3. CASE EraseBegin(p)
    BY <1>2, <2>3, ArgTyped DEF EraseBegin, Stages
  <2>4. CASE CompileBegin(p)
    BY <1>2, <2>4, ArgTyped DEF CompileBegin, Stages
  <2> QED
    BY <1>6, <2>1, <2>2, <2>3, <2>4
<1>7. ASSUME NEW p \in Workers, Deduplicate(p)
      PROVE  TypedWorkers'
  <2>1. /\ arg[p].lead \in Leads \cup {None} /\ arg[p].claim \in Claims \cup {None}
        /\ arg[p].src \in Sources \cup {None}
    BY <1>1 DEF TypedWorkers, Args
  <2>2. CASE Reach(p, "write")
    BY <1>3, <2>2 DEF Stages
  <2>3. ASSUME NEW f \in Live(arg[p].lead),
               Enter(p, "write", Arg(arg[p].lead, f, arg[p].claim, arg[p].src, None))
        PROVE  TypedWorkers'
    <3>1. f \in Facts
      BY DEF Live, Rows
    <3> QED
      BY <1>2, <2>1, <2>3, <3>1, ArgTyped DEF Stages
  <2> QED
    BY <1>7, <2>2, <2>3 DEF Deduplicate
<1>8. ASSUME NEW p \in Workers,
             \/ RecordWrite(p) \/ PromoteLock(p) \/ PromoteInsert(p) \/ EraseLock(p) \/ EraseVerify(p)
             \/ RecordCommit(p) \/ PromoteCommit(p) \/ EraseCommit(p) \/ CompileCommit(p)
             \/ LockTimeout(p) \/ Killed(p)
      PROVE  TypedWorkers'
  BY <1>3, <1>4, <1>8 DEF RecordWrite, PromoteLock, PromoteInsert, EraseLock, EraseVerify,
     RecordCommit, PromoteCommit, EraseCommit, CompileCommit, LockTimeout, Killed, Rollback, Stages
<1>9. ASSUME NEW p \in Workers, EraseRetract(p)
      PROVE  TypedWorkers'
  <2>1. Live(arg[p].lead) \subseteq Facts
    BY DEF Live, Rows
  <2> QED
    BY <1>1, <1>9, <2>1 DEF EraseRetract, TypedWorkers, Stages
<1>10. ASSUME NEW p \in Workers, CompileRead(p)
       PROVE  TypedWorkers'
  <2>1. Frozen(arg[p].lead) \subseteq Facts \X {0, 1}
    BY DEF Frozen, Rows
  <2>2. CASE Rollback(p)
    BY <1>4, <2>2 DEF Rollback
  <2>3. CASE ~Rollback(p)
    BY <1>1, <1>10, <2>1, <2>3 DEF CompileRead, TypedWorkers, Stages
  <2> QED
    BY <2>2, <2>3
<1> QED
  BY <1>5, <1>6, <1>7, <1>8, <1>9, <1>10 DEF Next, Advance

(* And so are approvals and snapshots.                                   *)
LEMMA GrantsTyped ==
  ASSUME IInv, [Next]_vars
  PROVE  TypedGrants'
<1> USE DEF IInv
<1>1. TypedGrants
  BY DEF TypeOK, TypedGrants
<1>2. CASE UNCHANGED table /\ UNCHANGED lapsed
  BY <1>1, <1>2 DEF table, TypedGrants
<1>3. CASE UNCHANGED <<archived, approval, lapsed, spent, truth>>
  BY <1>1, <1>3 DEF TypedGrants
<1>4. CASE Request
  BY <1>1, <1>4 DEF Request, TypedGrants, Grants
<1>5. CASE Decide
  <2>1. PICK b \in Approvals, s \in {"approved", "rejected"} :
          /\ approval[b].status = "pending"
          /\ approval' = [approval EXCEPT ![b].status = s]
    BY <1>5 DEF Decide
  <2>2. approval'[b] = [status |-> s, lead |-> approval[b].lead]
    BY <1>1, <2>1 DEF TypedGrants, Grants
  <2> QED
    BY <1>1, <1>5, <2>1, <2>2 DEF Decide, TypedGrants, Grants
<1>6. CASE Lapse
  BY <1>1, <1>6 DEF Lapse, table, TypedGrants
<1>7. ASSUME NEW p \in Workers, EraseCommit(p)
      PROVE  TypedGrants'
  <2>1. PICK b \in Approvals : b = arg[p].appr /\ arg[p].lead \in Leads
    BY <1>7, EraseKind DEF Erases, Retracts
  <2>2. /\ approval' = [approval EXCEPT ![b].status = "consumed"]
        /\ spent' = [spent EXCEPT ![b] = Append(@, arg[p].lead)]
        /\ archived' = archived \cup {arg[p].lead} /\ lapsed' = lapsed /\ truth' = truth
    BY <1>7, <2>1 DEF EraseCommit
  <2>3. approval'[b] = [status |-> "consumed", lead |-> approval[b].lead]
    BY <1>1, <2>2 DEF TypedGrants, Grants
  <2>4. approval[b].lead \in Leads
    <3>1. pc[p] = "retracted"
      BY <1>7 DEF EraseCommit
    <3>2. approval[b] = [status |-> "approved", lead |-> arg[p].lead]
      BY <2>1, <3>1 DEF GrantHeld, Erasing
    <3> QED
      BY <2>1, <3>2
  <2>5. spent' \in [Approvals -> Seq(Leads)]
    BY <1>1, <2>1, <2>2 DEF TypedGrants
  <2> QED
    BY <1>1, <2>1, <2>2, <2>3, <2>4, <2>5 DEF TypedGrants, Grants
<1>8. ASSUME NEW p \in Workers, CompileCommit(p)
      PROVE  TypedGrants'
  <2>1. pc[p] = "compiled" /\ seen[p] \subseteq Facts \X {0, 1} /\ arg[p].lead \in Leads
    BY <1>8 DEF CompileCommit, SnapshotHeld
  <2> QED
    BY <1>1, <1>8, <2>1 DEF CompileCommit, TypedGrants
<1>9. CASE FactAdd
  BY <1>3, <1>9 DEF FactAdd
<1>10. ASSUME NEW p \in Workers, RecordCommit(p) \/ PromoteCommit(p)
       PROVE  TypedGrants'
  BY <1>3, <1>10 DEF RecordCommit, PromoteCommit
<1>11. ASSUME NEW p \in Workers,
              \/ RecordBegin(p) \/ PromoteBegin(p) \/ EraseBegin(p) \/ CompileBegin(p)
              \/ Deduplicate(p) \/ RecordWrite(p) \/ PromoteLock(p) \/ PromoteInsert(p)
              \/ EraseLock(p) \/ EraseRetract(p) \/ EraseVerify(p) \/ CompileRead(p)
              \/ LockTimeout(p) \/ Killed(p)
       PROVE  TypedGrants'
  BY <1>2, <1>11 DEF RecordBegin, PromoteBegin, EraseBegin, CompileBegin, Deduplicate, RecordWrite,
     PromoteLock, PromoteInsert, EraseLock, EraseRetract, EraseVerify, CompileRead, LockTimeout,
     Killed, Rollback, Enter, Reach
<1> QED
  BY <1>3, <1>4, <1>5, <1>6, <1>7, <1>8, <1>9, <1>10, <1>11 DEF Next, Advance, vars

-----------------------------------------------------------------------------
(* The invariant holds at the start ...                                  *)
LEMMA InvariantInit == Init => IInv
<1> SUFFICES ASSUME Init PROVE IInv
  OBVIOUS
<1>1. /\ \A f \in Facts : fact[f] = NoFact /\ fact[f].status = "none" /\ fact[f].supersedes = None
                          /\ fact[f].claim = None
      /\ tombs = {} /\ None \notin Facts
      /\ \A p \in Workers : pc[p] = "idle"
  BY LedgerAssumption DEF Init, NoFact
<1>2. Tombstoned = {} /\ Free = Facts /\ \A l : Rows(l) = {} /\ Live(l) = {}
  BY <1>1 DEF Tombstoned, Free, Rows, Live
<1>3. TypeOK
  <2>1. fact \in [Facts -> FactRows] /\ NoArg \in Args
    BY DEF Init, NoFact, FactRows, NoArg, Arg, Args
  <2> QED
    BY <1>1, <1>2, <2>1 DEF Init, TypeOK, Grants, Stages
<1>4. FactsKept
  BY <1>1, <1>2, <1>3 DEF FactsKept, TypeOK
<1>5. SupersededOnce /\ OneLiveRowPerClaim /\ PromotedIsCorroborated
  BY <1>1, <1>2 DEF SupersededOnce, OneLiveRowPerClaim, PromotedIsCorroborated
<1>6. ApprovalSpentOnce
  BY DEF Init, ApprovalSpentOnce
<1>7. ClaimHeld /\ LeadHeld
  BY <1>1 DEF ClaimHeld, ClaimKnown, ClaimLive, ClaimAlone, Looking, Promoting,
     LeadHeld, LeadRead, LeadAlone, HasLead
<1>8. GrantHeld /\ RecordHeld /\ SnapshotHeld
  BY <1>1 DEF GrantHeld, Erasing, RecordHeld, Writing, SnapshotHeld
<1> QED
  BY <1>3, <1>4, <1>5, <1>6, <1>7, <1>8 DEF IInv

(* ... and every step keeps it.                                          *)
LEMMA InvariantStep == IInv /\ [Next]_vars => IInv'
<1> SUFFICES ASSUME IInv, [Next]_vars PROVE IInv'
  OBVIOUS
<1>1. TypeOK'
  BY TableStep, WorkersTyped, GrantsTyped DEF TypeOK, TypedTable, TypedWorkers, TypedGrants
<1> QED
  BY <1>1, TableStep, SpentStep, ClaimStep, LeadStep, GrantStep, RecordStep, SnapshotStep DEF IInv

(* The inductive invariant holds of every behaviour.                       *)
THEOREM LedgerInvariant == Spec => []IInv
BY InvariantInit, InvariantStep, PTL DEF Spec

(* Facts, approvals, snapshots and transactions are well typed.            *)
THEOREM LedgerTyped == Spec => []TypeOK
<1>1. IInv => TypeOK
  BY DEF IInv
<1> QED
  BY <1>1, LedgerInvariant, PTL

(* A fact is superseded at most once, whoever promotes and erases.         *)
THEOREM FactsAreSupersededOnce == Spec => []SupersededOnce
<1>1. IInv => SupersededOnce
  BY DEF IInv
<1> QED
  BY <1>1, LedgerInvariant, PTL

(* No two live rows of a lead state the same claim.                        *)
THEOREM ClaimsHaveOneLiveRow == Spec => []OneLiveRowPerClaim
<1>1. IInv => OneLiveRowPerClaim
  BY DEF IInv
<1> QED
  BY <1>1, LedgerInvariant, PTL

(* Every promoted fact carries the sources that corroborate it.            *)
THEOREM PromotionIsCorroborated == Spec => []PromotedIsCorroborated
<1>1. IInv => PromotedIsCorroborated
  BY DEF IInv
<1> QED
  BY <1>1, LedgerInvariant, PTL

(* An approval pays for at most one erasure, of the lead in its scope.     *)
THEOREM ApprovalsAreSpentOnce == Spec => []ApprovalSpentOnce
<1>1. IInv => ApprovalSpentOnce
  BY DEF IInv
<1> QED
  BY <1>1, LedgerInvariant, PTL

(* A committed erasure leaves no live fact of its lead.                    *)
THEOREM ErasuresAreComplete == Spec => ErasureIsComplete
<1>1. IInv /\ [Next]_vars =>
        [\A a \in Approvals : spent'[a] # spent[a] => Live(approval[a].lead)' = {}]_vars
  <2> SUFFICES ASSUME IInv, [Next]_vars, NEW a \in Approvals, spent'[a] # spent[a]
               PROVE  Live(approval[a].lead)' = {}
    OBVIOUS
  <2> USE DEF IInv
  <2>1. PICK p \in Workers : EraseCommit(p)
    BY ApprovalKinds DEF Request, Decide
  <2>2. /\ Retracts(arg[p].lead, arg[p].appr) /\ pc[p] = "retracted"
        /\ approval' = [approval EXCEPT ![arg[p].appr].status = "consumed"]
        /\ spent' = [spent EXCEPT ![arg[p].appr] = Append(@, arg[p].lead)]
    BY <2>1, EraseKind DEF Erases
  <2>3. a = arg[p].appr
    BY <2>2 DEF TypeOK
  <2>4. approval[a] = [status |-> "approved", lead |-> arg[p].lead]
    BY <2>2, <2>3 DEF GrantHeld, Erasing
  <2>5. approval'[a].lead = arg[p].lead
    BY <2>2, <2>3, <2>4 DEF TypeOK, Grants
  <2>6. PICK l \in Leads : l = arg[p].lead
    BY <2>2 DEF Retracts
  <2>7. \A h \in Facts : h \notin Live(l)'
    BY <2>2, <2>6, RetractEffect
  <2>8. Live(l)' = {}
    BY <2>7 DEF Live, Rows
  <2> QED
    BY <2>5, <2>6, <2>8 DEF Live, Rows
<1> QED
  BY <1>1, LedgerInvariant, PTL DEF Spec, ErasureIsComplete

(* A snapshot is committed with every retraction on record.                *)
THEOREM SnapshotsSeeErasures == Spec => SnapshotSeesErasure
<1>1. IInv /\ [Next]_vars =>
        [\A l \in Leads :
           truth'[l] # truth[l] => ErasedIn(truth'[l]) = Rows(l) \cap Tombstoned']_vars
  <2> SUFFICES ASSUME IInv, [Next]_vars, NEW l \in Leads, truth'[l] # truth[l]
               PROVE  ErasedIn(truth'[l]) = Rows(l) \cap Tombstoned'
    OBVIOUS
  <2> USE DEF IInv
  <2>1. PICK p \in Workers : CompileCommit(p)
    BY DEF Next, vars, FactAdd, Request, Decide, Lapse, Advance, RecordBegin, PromoteBegin,
       EraseBegin, CompileBegin, Deduplicate, RecordWrite, RecordCommit, PromoteLock,
       PromoteInsert, PromoteCommit, EraseLock, EraseRetract, EraseVerify, EraseCommit,
       CompileRead, LockTimeout, Killed, Rollback, Enter, Reach, table
  <2>2. /\ pc[p] = "compiled" /\ tombs' = tombs
        /\ truth' = [truth EXCEPT ![arg[p].lead] = seen[p]]
    BY <2>1 DEF CompileCommit
  <2>3. l = arg[p].lead /\ truth'[l] = seen[p]
    BY <2>2 DEF TypeOK
  <2>4. ErasedIn(seen[p]) = Rows(l) \cap Tombstoned
    BY <2>2, <2>3 DEF SnapshotHeld
  <2> QED
    BY <2>2, <2>3, <2>4 DEF Tombstoned
<1> QED
  BY <1>1, LedgerInvariant, PTL DEF Spec, SnapshotSeesErasure

-----------------------------------------------------------------------------
(***************************************************************************)
(* DocumentIntake, for every number of helpers, files, digests,            *)
(* invocations and leads.                                                  *)
(*                                                                         *)
(* The argument is that nothing a helper relies on is ever taken back: a   *)
(* claim, a classification and the stores only grow.  So what a helper     *)
(* established at one step (Carries) still holds when a later one writes   *)
(* the row, whatever was replaced or persisted in between.                 *)
(***************************************************************************)
Truths == {TRUE, FALSE}

Process == [at : Steps, req : Requests \cup {None},
            sha : Bytes \cup {None}, fresh : Truths]

(* What a helper carries from step to step.                                *)
Carries(p) ==
  /\ p.at # "idle" => p.req \in Requests
  /\ p.at \in {"previewed", "hashed", "published", "marking"} => p.sha \in Bytes
  /\ p.at \in {"hashed", "published"} => claims[p.req] = p.sha
  /\ p.at = "published" =>
       p.sha \in snapshots /\ <<p.sha, p.req.path>> \in outputs

(* What a row of document_extractions rests on.                            *)
Grounded(r) ==
  extractions[r] # None =>
    /\ extractions[r] = RequestHash(r, claims[r])
    /\ claims[r] \in Bytes
    /\ claims[r] \in snapshots /\ <<claims[r], r.path>> \in outputs
    /\ artifacts[claims[r]] = LaneConfidentiality(r)

DocumentInv ==
  /\ DocumentTypeOK
  /\ extractions = [r \in Requests |-> extractions[r]]
  /\ proc \in [Clients -> Process]
  /\ \A c \in Clients : Carries(proc[c])
  /\ \A r \in Requests : Grounded(r)
  /\ \A b \in bound : extractions[b.of] # None
  /\ \A a \in attached : a.sha \in Bytes
  /\ \A b \in shown : b \in Bytes /\ artifacts[b] = "internal"

DocumentAssumptions ==
  ContentsAssumption /\ InvocationsAssumption

(* What no step takes back.                                                *)
Keeps ==
  /\ \A r \in Requests : claims[r] # None => claims'[r] = claims[r]
  /\ snapshots \subseteq snapshots' /\ outputs \subseteq outputs'
  /\ \A b \in Bytes : artifacts[b] # "absent" => artifacts'[b] = artifacts[b]
  /\ \A r \in Requests : extractions[r] # None => extractions'[r] = extractions[r]

(* A helper that moves leaves the others where they are.                   *)
HelperMoves(c) ==
  /\ proc' \in [Clients -> Process]
  /\ \A d \in Clients : d # c => proc'[d] = proc[d]

LEMMA Replaced ==
  ASSUME proc \in [Clients -> Process], NEW c \in Clients, NEW p \in Process,
         proc' = [proc EXCEPT ![c] = p]
  PROVE  HelperMoves(c) /\ proc'[c] = p
  BY DEF HelperMoves

LEMMA Going ==
  ASSUME proc \in [Clients -> Process], NEW c \in Clients,
         NEW step \in Steps, Goes(c, step)
  PROVE  /\ HelperMoves(c) /\ proc'[c].at = step
         /\ proc'[c].req = proc[c].req /\ proc'[c].sha = proc[c].sha
<1> DEFINE p == [proc[c] EXCEPT !.at = step]
<1>1. /\ p \in Process /\ p.at = step
      /\ p.req = proc[c].req /\ p.sha = proc[c].sha
  BY DEF Process
<1>2. proc' = [proc EXCEPT ![c] = p]
  BY DEF Goes
<1> HIDE DEF p
<1> QED BY <1>1, <1>2, Replaced

LEMMA Taking ==
  ASSUME proc \in [Clients -> Process], NEW c \in Clients,
         NEW step \in Steps, NEW b \in Bytes \cup {None},
         Takes(c, step, b)
  PROVE  /\ HelperMoves(c) /\ proc'[c].at = step
         /\ proc'[c].req = proc[c].req /\ proc'[c].sha = b
<1> DEFINE p == [proc[c] EXCEPT !.at = step, !.sha = b]
<1>1. /\ p \in Process /\ p.at = step
      /\ p.req = proc[c].req /\ p.sha = b
  BY DEF Process
<1>2. proc' = [proc EXCEPT ![c] = p]
  BY DEF Takes
<1> HIDE DEF p
<1> QED BY <1>1, <1>2, Replaced

LEMMA Asking ==
  ASSUME proc \in [Clients -> Process], NEW c \in Clients, NEW r \in Requests,
         NEW from, NEW to \in Steps, Parses(c, r, from, to)
  PROVE  /\ HelperMoves(c) /\ proc'[c].at = to /\ proc'[c].req = r
         /\ proc[c].at = from
<1> DEFINE p == [proc[c] EXCEPT !.at = to, !.req = r]
<1>1. p \in Process /\ p.at = to /\ p.req = r
  BY DEF Process
<1>2. proc' = [proc EXCEPT ![c] = p] /\ proc[c].at = from
  BY DEF Parses
<1> HIDE DEF p
<1> QED BY <1>1, <1>2, Replaced

LEMMA Leaving ==
  ASSUME proc \in [Clients -> Process], NEW c \in Clients, Leaves(c)
  PROVE  HelperMoves(c) /\ proc'[c].at = "idle"
<1>1. Idle \in Process /\ Idle.at = "idle"
  BY DEF Idle, Process, Truths, Steps
<1> QED BY <1>1, Replaced DEF Leaves

LEMMA Lane ==
  ASSUME DocumentAssumptions, NEW r \in Requests
  PROVE  /\ r.path \in Paths /\ r.token \in Tokens \cup {None}
         /\ r.lead \in LeadIds \cup {None}
         /\ LaneConfidentiality(r) \in {"internal", "confidential"}
  BY DEF DocumentAssumptions, InvocationsAssumption, LaneRequest,
         LaneConfidentiality

LEMMA BytesAreSome == DocumentAssumptions => None \notin Bytes
  BY DEF DocumentAssumptions, ContentsAssumption

LEMMA DocumentTypes ==
  ASSUME DocumentAssumptions, DocumentInv
  PROVE  /\ proc \in [Clients -> Process]
         /\ file \in [Paths -> Bytes]
         /\ claims \in [Requests -> Bytes \cup {None}]
         /\ artifacts \in [Bytes -> {"internal", "confidential", "absent"}]
         /\ snapshots \subseteq Bytes /\ outputs \subseteq Bytes \X Paths
         /\ extractions = [r \in Requests |-> extractions[r]]
         /\ \A c \in Clients : proc[c].at # "idle" =>
              proc[c].req \in Requests /\ file[proc[c].req.path] \in Bytes
         /\ \A c \in Clients : Carries(proc[c])
         /\ \A r \in Requests : Grounded(r)
  BY Lane DEF DocumentInv, DocumentTypeOK, Carries

(* A claim is made once, on the digest that the preview answered with.     *)
LEMMA ClaimDocumentStep ==
  ASSUME DocumentAssumptions, DocumentInv, NEW c \in Clients, Claim(c)
  PROVE  /\ HelperMoves(c) /\ Carries(proc[c])'
         /\ claims' \in [Requests -> Bytes \cup {None}]
         /\ \A r \in Requests : claims[r] # None => claims'[r] = claims[r]
<1>1. /\ proc[c].at = "previewed" /\ proc[c].req \in Requests
      /\ proc[c].sha \in Bytes
  BY DocumentTypes DEF Claim, Carries
<1>2. CASE Takes(c, "claimed", None)
  <2>1. HelperMoves(c) /\ proc'[c].at = "claimed" /\ proc'[c].req = proc[c].req
    BY <1>2, DocumentTypes, Taking DEF Steps
  <2>2. Carries(proc[c])'
    BY <1>1, <2>1 DEF Carries
  <2> QED BY <1>1, <2>1, <2>2, DocumentTypes DEF Claim
<1>3. CASE Leaves(c) /\ UNCHANGED claims
  BY <1>1, <1>3, DocumentTypes, Leaving DEF Carries
<1> QED BY <1>2, <1>3 DEF Claim

(* The steps that read the file.                                           *)
LEMMA ReadSteps ==
  ASSUME DocumentAssumptions, DocumentInv, NEW c \in Clients,
         \/ \E r \in Requests : Preview(c, r)
         \/ PreviewHash(c) \/ ExtractParse(c)
         \/ ExtractHash(c)
  PROVE  /\ HelperMoves(c) /\ Carries(proc[c])'
         /\ UNCHANGED <<file, db, store, jail, shown>>
<1>1. CASE \E r \in Requests : Preview(c, r)
  <2>1. PICK r \in Requests : Parses(c, r, "idle", "parsed")
    BY <1>1 DEF Preview
  <2>2. HelperMoves(c) /\ proc'[c].at = "parsed" /\ proc'[c].req = r
    BY <2>1, DocumentTypes, Asking DEF Steps
  <2> QED BY <2>1, <2>2 DEF Carries, Parses
<1>2. CASE PreviewHash(c)
  <2> DEFINE b == file[proc[c].req.path]
  <2>1. proc[c].req \in Requests /\ b \in Bytes
    BY <1>2, DocumentTypes DEF PreviewHash
  <2>2. /\ HelperMoves(c) /\ proc'[c].at = "previewed" /\ proc'[c].sha \in Bytes
        /\ proc'[c].req = proc[c].req
    BY <1>2, <2>1, DocumentTypes, Taking DEF PreviewHash, Steps
  <2> QED BY <1>2, <2>1, <2>2 DEF Carries, PreviewHash
<1>3. CASE ExtractParse(c)
  <2>1. proc[c].req \in Requests
    BY <1>3, DocumentTypes DEF ExtractParse, Parses
  <2>2. CASE Parses(c, proc[c].req, "claimed", "reparsed")
    <3>1. HelperMoves(c) /\ proc'[c].at = "reparsed" /\ proc'[c].req = proc[c].req
      BY <2>1, <2>2, DocumentTypes, Asking DEF Steps
    <3> QED BY <2>1, <2>2, <3>1 DEF Carries, Parses
  <2>3. CASE ~Parses(c, proc[c].req, "claimed", "reparsed")
    <3>1. HelperMoves(c) /\ proc'[c].at = "rejected" /\ proc'[c].req = proc[c].req
      BY <1>3, <2>3, DocumentTypes, Taking
      DEF ExtractParse, Steps
    <3> QED BY <1>3, <2>1, <2>3, <3>1 DEF Carries, ExtractParse
  <2> QED BY <2>2, <2>3
<1>4. CASE ExtractHash(c)
  <2> DEFINE b == file[proc[c].req.path]
  <2>1. proc[c].req \in Requests /\ b \in Bytes
    BY <1>4, DocumentTypes DEF ExtractHash
  <2>2. CASE claims[proc[c].req] = b
    <3>1. Takes(c, "hashed", b)
      BY <1>4, <2>2 DEF ExtractHash, ClaimedDigest
    <3>2. /\ HelperMoves(c) /\ proc'[c].at = "hashed" /\ proc'[c].sha = b
          /\ proc'[c].req = proc[c].req
      BY <2>1, <3>1, DocumentTypes, Taking DEF Steps
    <3>3. UNCHANGED <<file, db, store, jail, shown>>
      BY <1>4 DEF ExtractHash
    <3>4. claims' = claims
      BY <3>3 DEF db
    <3> QED BY <2>1, <2>2, <3>2, <3>3, <3>4 DEF Carries
  <2>3. CASE claims[proc[c].req] # b
    <3>1. Takes(c, "rejected", None)
      BY <1>4, <2>3 DEF ExtractHash, ClaimedDigest
    <3>2. HelperMoves(c) /\ proc'[c].at = "rejected" /\ proc'[c].req = proc[c].req
      BY <3>1, DocumentTypes, Taking DEF Steps
    <3> QED BY <1>4, <2>1, <3>2 DEF Carries, ExtractHash
  <2> QED BY <2>2, <2>3
<1> QED BY <1>1, <1>2, <1>3, <1>4

(* The stores only grow, and a published output is of the claimed bytes.   *)
LEMMA PublishStep ==
  ASSUME DocumentAssumptions, DocumentInv, NEW c \in Clients,
         Publish(c)
  PROVE  /\ HelperMoves(c) /\ Carries(proc[c])'
         /\ snapshots \subseteq snapshots' /\ snapshots' \subseteq Bytes
         /\ outputs \subseteq outputs' /\ outputs' \subseteq Bytes \X Paths
<1> DEFINE r == proc[c].req
           b == proc[c].sha
<1>1. proc[c].at = "hashed" /\ r \in Requests /\ b \in Bytes /\ claims[r] = b
  BY DocumentTypes DEF Publish, Carries
<1>2. claims' = claims /\ r.path \in Paths
  BY <1>1, Lane DEF Publish, db
<1>3. CASE Takes(c, "rejected", None) /\ outputs' = outputs
           /\ (snapshots' = snapshots \/ snapshots' = snapshots \cup {b})
  <2>1. HelperMoves(c) /\ proc'[c].at = "rejected" /\ proc'[c].req = r
    BY <1>3, DocumentTypes, Taking DEF Steps
  <2>2. Carries(proc[c])'
    BY <1>1, <2>1 DEF Carries
  <2> QED BY <1>1, <1>3, <2>1, <2>2, DocumentTypes
<1>4. CASE Goes(c, "published") /\ snapshots' = snapshots \cup {b}
           /\ outputs' = outputs \cup {<<b, r.path>>}
  <2>1. HelperMoves(c) /\ proc'[c].at = "published" /\ proc'[c].req = r
        /\ proc'[c].sha = b
    BY <1>4, DocumentTypes, Going DEF Steps
  <2>2. Carries(proc[c])'
    BY <1>1, <1>2, <1>4, <2>1 DEF Carries
  <2> QED BY <1>1, <1>2, <1>4, <2>1, <2>2, DocumentTypes
<1> QED BY <1>3, <1>4 DEF Publish, store

LEMMA PersistStep ==
  ASSUME DocumentAssumptions, DocumentInv, NEW c \in Clients,
         Persist(c)
  PROVE  /\ HelperMoves(c) /\ Carries(proc[c])'
         /\ claims' = claims /\ snapshots' = snapshots /\ outputs' = outputs
         /\ shown' = shown /\ bound' = bound /\ file' = file
         /\ artifacts' \in [Bytes -> {"internal", "confidential", "absent"}]
         /\ \A b \in Bytes : artifacts[b] # "absent" => artifacts'[b] = artifacts[b]
         /\ extractions' = [r \in Requests |-> extractions'[r]]
         /\ \A r \in Requests : extractions[r] # None => extractions'[r] = extractions[r]
         /\ \A r \in Requests : Grounded(r)'
         /\ \A a \in attached' : a \in attached
              \/ /\ a.lead \in LeadIds /\ a.sha \in Bytes
                 /\ artifacts'[a.sha] # "absent"
<1> DEFINE r == proc[c].req
           b == proc[c].sha
<1>1. /\ proc[c].at = "published" /\ r \in Requests /\ b \in Bytes /\ claims[r] = b
      /\ b \in snapshots /\ <<b, r.path>> \in outputs
  BY DocumentTypes DEF Persist, Carries
<1>2. /\ claims' = claims /\ snapshots' = snapshots /\ outputs' = outputs
      /\ shown' = shown /\ bound' = bound /\ file' = file
  BY DEF Persist, store
<1>3. HelperMoves(c) /\ Carries(proc[c])'
  BY DocumentTypes, Leaving DEF Persist, Carries
<1>4. CASE UNCHANGED <<artifacts, extractions, attached>>
  <2>1. \A x \in Requests : Grounded(x)'
    BY <1>2, <1>4, DocumentTypes DEF Grounded
  <2> QED BY <1>2, <1>3, <1>4, <2>1, DocumentTypes
<1>5. CASE Persistable(r, b) /\ Persists(r, b)
  <2> DEFINE lane == LaneConfidentiality(r)
  <2>1. lane \in {"internal", "confidential"}
    BY <1>1, Lane
  <2>2. artifacts[b] \in {"absent", lane}
    BY <1>5 DEF Persistable, Classified
  <2>3. artifacts' = [artifacts EXCEPT ![b] = IF @ = "absent" THEN lane ELSE @]
    BY <1>5 DEF Persists
  <2> HIDE DEF lane
  <2>4. /\ artifacts' \in [Bytes -> {"internal", "confidential", "absent"}]
        /\ artifacts'[b] = lane
        /\ \A x \in Bytes : artifacts[x] # "absent" => artifacts'[x] = artifacts[x]
    BY <1>1, <2>1, <2>2, <2>3, DocumentTypes
  <2>5. extractions' = [extractions EXCEPT ![r] = RequestHash(r, b)]
    BY <1>5 DEF Persists
  <2>6. /\ extractions' = [x \in Requests |-> extractions'[x]]
        /\ extractions'[r] = RequestHash(r, b)
        /\ \A x \in Requests : x # r => extractions'[x] = extractions[x]
    BY <1>1, <2>5, DocumentTypes
  <2>7. \A x \in Requests : extractions[x] # None => extractions'[x] = extractions[x]
    BY <1>5, <2>6 DEF Persistable
  <2>8. ASSUME NEW x \in Requests PROVE Grounded(x)'
    <3>1. CASE x = r
      <4>1. artifacts'[b] = LaneConfidentiality(r)
        BY <2>4 DEF lane
      <4> QED BY <1>1, <1>2, <2>6, <3>1, <4>1
              DEF Grounded, RequestHash, LaneConfidentiality
    <3>2. CASE x # r
      <4>1. extractions'[x] = extractions[x] /\ Grounded(x)
        BY <2>6, <3>2, DocumentTypes
      <4>2. LaneConfidentiality(x) # "absent"
        BY Lane
      <4> QED BY <1>2, <2>4, <4>1, <4>2
              DEF Grounded, RequestHash, LaneConfidentiality
    <3> QED BY <3>1, <3>2
  <2>9. \A a \in attached' : a \in attached
          \/ /\ a.lead \in LeadIds /\ a.sha \in Bytes
             /\ artifacts'[a.sha] # "absent"
    BY <1>1, <1>5, <2>1, <2>4, Lane DEF Persists
  <2> QED BY <1>2, <1>3, <2>4, <2>6, <2>7, <2>8, <2>9
<1> QED BY <1>4, <1>5 DEF Persist

(* A rejection touches the quarantine volume alone.                        *)
LEMMA QuarantineSteps ==
  ASSUME DocumentAssumptions, DocumentInv, NEW c \in Clients,
         \/ QuarantineCopy(c) \/ QuarantineMark(c)
         \/ Die(c)
  PROVE  /\ HelperMoves(c) /\ Carries(proc[c])'
         /\ UNCHANGED <<file, db, store, shown>>
         /\ copies \subseteq Bytes /\ markers \subseteq Bytes
              => copies' \subseteq Bytes /\ markers' \subseteq Bytes
<1> SUFFICES /\ HelperMoves(c) /\ Carries(proc[c])'
             /\ copies \subseteq Bytes /\ markers \subseteq Bytes
                  => copies' \subseteq Bytes /\ markers' \subseteq Bytes
  BY DEF QuarantineCopy, QuarantineMark, Die
<1>1. CASE Leaves(c)
  <2>1. HelperMoves(c) /\ Carries(proc[c])'
    BY <1>1, DocumentTypes, Leaving DEF Carries
  <2>2. CASE QuarantineCopy(c)
    BY <2>1, <2>2, DocumentTypes DEF QuarantineCopy
  <2>3. CASE QuarantineMark(c)
    BY <2>1, <2>3, DocumentTypes DEF QuarantineMark, Carries
  <2>4. CASE Die(c)
    BY <2>1, <2>4 DEF Die, jail
  <2> QED BY <2>2, <2>3, <2>4
<1>2. CASE ~Leaves(c)
  <2> DEFINE b == file[proc[c].req.path]
             f == b \notin copies
             p == [proc[c] EXCEPT !.at = "marking", !.sha = b, !.fresh = f]
  <2>1. /\ proc[c].at = "rejected" /\ copies' = copies \cup {b} /\ markers' = markers
        /\ proc' = [proc EXCEPT ![c].at = "marking", ![c].sha = b, ![c].fresh = f]
    BY <1>2 DEF QuarantineCopy, QuarantineMark, Die
  <2>2. proc[c].req \in Requests /\ b \in Bytes
    BY <2>1, DocumentTypes
  <2>3. f \in Truths
    BY DEF Truths
  <2>4. proc' = [proc EXCEPT ![c] = p]
    BY <2>1
  <2> HIDE DEF b, f
  <2>5. /\ p \in Process /\ p.at = "marking" /\ p.req = proc[c].req
        /\ p.sha = b
    BY <2>2, <2>3, DocumentTypes DEF Process, Steps
  <2> HIDE DEF p
  <2>6. HelperMoves(c) /\ proc'[c] = p
    BY <2>4, <2>5, DocumentTypes, Replaced
  <2>7. Carries(proc[c])'
    BY <2>2, <2>5, <2>6 DEF Carries
  <2> QED BY <2>1, <2>2, <2>6, <2>7
<1> QED BY <1>1, <1>2

LEMMA GroundedRow ==
  ASSUME DocumentAssumptions, DocumentInv, NEW r \in Requests,
         extractions[r] # None
  PROVE  /\ extractions[r].sha = claims[r] /\ claims[r] \in Bytes
         /\ claims[r] \in snapshots /\ <<claims[r], r.path>> \in outputs
         /\ artifacts[claims[r]] = LaneConfidentiality(r)
         /\ artifacts[claims[r]] # "absent"
<1>1. Grounded(r)
  BY DocumentTypes
<1>2. LaneConfidentiality(r) # "absent"
  BY Lane
<1>3. extractions[r] = RequestHash(r, claims[r])
  BY <1>1 DEF Grounded
<1>4. extractions[r].sha = claims[r]
  BY <1>3 DEF RequestHash
<1> QED BY <1>1, <1>2, <1>4 DEF Grounded

(* A model reads without a capability only what is classified internal.    *)
LEMMA ShowStep ==
  ASSUME DocumentAssumptions, DocumentInv, NEW r \in Requests,
         NEW t \in Tokens \cup {None}, Show(r, t)
  PROVE  /\ UNCHANGED <<file, claims, artifacts, extractions, bound, attached,
                        store, jail, proc>>
         /\ \A b \in shown' : b \in Bytes /\ artifacts[b] = "internal"
<1>1. extractions[r].sha \in Bytes
  BY GroundedRow DEF Show
<1> QED BY <1>1 DEF Show, DocumentInv

LEMMA BindingSteps ==
  ASSUME DocumentAssumptions, DocumentInv, NEW b \in Bindings,
         Bind(b) \/ Associate(b)
  PROVE  /\ UNCHANGED <<file, claims, artifacts, extractions, store,
                        jail, shown, proc>>
         /\ bound' \subseteq Bindings
         /\ \A x \in bound' : extractions[x.of] # None
         /\ \A a \in attached' : /\ a.lead \in LeadIds /\ a.sha \in Bytes
                                 /\ artifacts[a.sha] # "absent"
<1>1. CASE Bind(b)
  BY <1>1 DEF Bind, DocumentInv, DocumentTypeOK
<1>2. CASE Associate(b)
  <2> DEFINE sha == extractions[b.of].sha
  <2>1. b.of \in Requests /\ b.lead \in LeadIds /\ extractions[b.of] # None
    BY <1>2 DEF Associate, DocumentInv, DocumentAssumptions,
                InvocationsAssumption, Binding
  <2>2. sha \in Bytes /\ artifacts[sha] # "absent"
    BY <2>1, GroundedRow
  <2>3. attached' = {a \in attached : a.lead # b.lead \/ a.sha # sha}
                     \cup {[lead |-> b.lead, sha |-> sha, who |-> b.token.who]}
    BY <1>2 DEF Associate
  <2> HIDE DEF sha
  <2>4. \A a \in attached' : /\ a.lead \in LeadIds /\ a.sha \in Bytes
                             /\ artifacts[a.sha] # "absent"
    BY <2>1, <2>2, <2>3 DEF DocumentInv, DocumentTypeOK
  <2> QED BY <1>2, <2>4 DEF Associate, DocumentInv, DocumentTypeOK
<1> QED BY <1>1, <1>2

-----------------------------------------------------------------------------
DocumentTables ==
  /\ file' \in [Paths -> Bytes]
  /\ claims' \in [Requests -> Bytes \cup {None}]
  /\ artifacts' \in [Bytes -> {"internal", "confidential", "absent"}]
  /\ snapshots' \subseteq Bytes /\ outputs' \subseteq Bytes \X Paths
  /\ copies' \subseteq Bytes /\ markers' \subseteq Bytes
  /\ extractions' = [r \in Requests |-> extractions'[r]]

(* The other helpers keep what they carry.                                 *)
LEMMA CarriesOn ==
  ASSUME DocumentAssumptions, DocumentInv, Keeps, NEW d \in Clients,
         proc'[d] = proc[d]
  PROVE  Carries(proc[d])'
  BY DocumentTypes, BytesAreSome DEF Keeps, Carries

(* So do the rows of document_extractions.                                 *)
LEMMA GroundedOn ==
  ASSUME DocumentAssumptions, DocumentInv, Keeps, NEW r \in Requests,
         extractions'[r] = extractions[r]
  PROVE  Grounded(r)'
<1> SUFFICES ASSUME extractions[r] # None
             PROVE  Grounded(r)'
  BY DEF Grounded
<1>1. claims'[r] = claims[r] /\ Grounded(r)
  BY DocumentTypes, BytesAreSome DEF Grounded, Keeps
<1>2. artifacts[claims[r]] # "absent" /\ claims[r] \in Bytes
  BY <1>1, Lane DEF Grounded
<1>3. artifacts'[claims[r]] = artifacts[claims[r]]
  BY <1>2 DEF Keeps
<1> QED BY <1>1, <1>3 DEF Grounded, Keeps, RequestHash,
                          LaneConfidentiality

(* What each step does to the tables.                                      *)
LEMMA HelperTables ==
  ASSUME DocumentAssumptions, DocumentInv, NEW c \in Clients,
         Helper(c)
  PROVE  /\ HelperMoves(c) /\ Carries(proc[c])'
         /\ DocumentTables /\ Keeps
         /\ UNCHANGED <<bound, shown>>
         /\ \A r \in Requests : extractions'[r] = extractions[r] \/ Grounded(r)'
         /\ \A a \in attached' : a \in attached
              \/ /\ a.lead \in LeadIds /\ a.sha \in Bytes
                 /\ artifacts'[a.sha] # "absent"
<1> USE DEF DocumentTables, Keeps, db, store, jail
<1>0. copies \subseteq Bytes /\ markers \subseteq Bytes
  BY DEF DocumentInv, DocumentTypeOK
<1>1. CASE \/ \E r \in Requests : Preview(c, r)
           \/ PreviewHash(c) \/ ExtractParse(c)
           \/ ExtractHash(c)
  BY <1>0, <1>1, ReadSteps, DocumentTypes
<1>2. CASE Claim(c)
  BY <1>0, <1>2, ClaimDocumentStep, DocumentTypes DEF Claim
<1>3. CASE Publish(c)
  BY <1>0, <1>3, PublishStep, DocumentTypes DEF Publish
<1>4. CASE Persist(c)
  <2>1. copies' = copies /\ markers' = markers
    BY <1>4 DEF Persist
  <2> QED BY <1>0, <1>4, <2>1, PersistStep, DocumentTypes
<1>5. CASE \/ QuarantineCopy(c) \/ QuarantineMark(c)
           \/ Die(c)
  BY <1>0, <1>5, QuarantineSteps, DocumentTypes
<1> QED BY <1>1, <1>2, <1>3, <1>4, <1>5 DEF Helper

LEMMA OtherTables ==
  ASSUME DocumentAssumptions, DocumentInv, DocumentNext,
         ~\E c \in Clients : Helper(c)
  PROVE  /\ proc' = proc /\ extractions' = extractions
         /\ artifacts' = artifacts
         /\ DocumentTables /\ Keeps
         /\ bound' \subseteq Bindings
         /\ \A b \in bound' : extractions[b.of] # None
         /\ \A a \in attached' : /\ a.lead \in LeadIds /\ a.sha \in Bytes
                                 /\ artifacts[a.sha] # "absent"
         /\ \A b \in shown' : b \in Bytes /\ artifacts[b] = "internal"
<1> USE DEF DocumentTables, Keeps, store, jail
<1>0. copies \subseteq Bytes /\ markers \subseteq Bytes
  BY DEF DocumentInv, DocumentTypeOK
<1>1. CASE \E p \in Paths, b \in Bytes : Replace(p, b)
  BY <1>0, <1>1, DocumentTypes
  DEF Replace, db, DocumentInv, DocumentTypeOK
<1>2. CASE \E r \in Requests, t \in Tokens \cup {None} : Show(r, t)
  BY <1>0, <1>2, ShowStep, DocumentTypes DEF DocumentInv, DocumentTypeOK
<1>3. CASE \E b \in Bindings : Bind(b) \/ Associate(b)
  BY <1>0, <1>3, BindingSteps, DocumentTypes DEF DocumentInv, DocumentTypeOK
<1> QED BY <1>1, <1>2, <1>3 DEF DocumentNext

LEMMA DocumentStep ==
  DocumentAssumptions /\ DocumentInv /\ [DocumentNext]_documentVars
    => DocumentInv'
<1> SUFFICES ASSUME DocumentAssumptions, DocumentInv,
                    [DocumentNext]_documentVars
             PROVE  DocumentInv'
  OBVIOUS
<1>1. CASE \E c \in Clients : Helper(c)
  <2>1. PICK c \in Clients : Helper(c)
    BY <1>1
  <2>2. /\ HelperMoves(c) /\ Carries(proc[c])' /\ DocumentTables /\ Keeps
        /\ bound' = bound /\ shown' = shown
        /\ \A r \in Requests : extractions'[r] = extractions[r] \/ Grounded(r)'
        /\ \A a \in attached' : a \in attached
              \/ /\ a.lead \in LeadIds /\ a.sha \in Bytes
                 /\ artifacts'[a.sha] # "absent"
    BY <2>1, HelperTables
  <2>3. proc' \in [Clients -> Process] /\ \A d \in Clients : Carries(proc[d])'
    BY <2>2, CarriesOn DEF HelperMoves
  <2>4. \A r \in Requests : Grounded(r)'
    BY <2>2, GroundedOn
  <2>5. \A b \in bound' : b.of \in Requests /\ extractions'[b.of] # None
    BY <2>2 DEF Keeps, DocumentInv, DocumentTypeOK, DocumentAssumptions,
                InvocationsAssumption, Binding
  <2>6. \A a \in attached' : /\ a.lead \in LeadIds /\ a.sha \in Bytes
                             /\ artifacts'[a.sha] # "absent"
    BY <2>2 DEF Keeps, DocumentInv, DocumentTypeOK
  <2>7. \A b \in shown' : b \in Bytes /\ artifacts'[b] = "internal"
    BY <2>2 DEF Keeps, DocumentInv
  <2>8. DocumentTypeOK'
    <3>1. \A r \in Requests : extractions'[r] # None => claims'[r] # None
      BY <2>4, BytesAreSome DEF Grounded
    <3>2. \A d \in Clients : proc'[d].at \in Steps
      BY <2>3 DEF Process
    <3>3. bound' \subseteq Bindings
      BY <2>2 DEF DocumentInv, DocumentTypeOK
    <3> QED BY <2>2, <2>6, <3>1, <3>2, <3>3
            DEF DocumentTables, DocumentTypeOK, Steps
  <2> QED BY <2>2, <2>3, <2>4, <2>5, <2>6, <2>7, <2>8
          DEF DocumentInv, DocumentTables
<1>2. CASE DocumentNext /\ ~\E c \in Clients : Helper(c)
  <2>1. /\ proc' = proc /\ extractions' = extractions
        /\ artifacts' = artifacts /\ DocumentTables /\ Keeps
        /\ bound' \subseteq Bindings
        /\ \A b \in bound' : extractions[b.of] # None
        /\ \A a \in attached' : /\ a.lead \in LeadIds /\ a.sha \in Bytes
                                /\ artifacts[a.sha] # "absent"
        /\ \A b \in shown' : b \in Bytes /\ artifacts[b] = "internal"
    BY <1>2, OtherTables
  <2>2. proc' \in [Clients -> Process] /\ \A d \in Clients : Carries(proc[d])'
    BY <2>1, DocumentTypes, CarriesOn
  <2>3. \A r \in Requests : Grounded(r)'
    BY <2>1, GroundedOn
  <2>4. DocumentTypeOK'
    <3>1. \A r \in Requests : extractions'[r] # None => claims'[r] # None
      BY <2>3, BytesAreSome DEF Grounded
    <3>2. \A d \in Clients : proc'[d].at \in Steps
      BY <2>2 DEF Process
    <3> QED BY <2>1, <3>1, <3>2
            DEF DocumentTables, DocumentTypeOK, Steps
  <2> QED BY <2>1, <2>2, <2>3, <2>4 DEF DocumentInv, DocumentTables
<1>3. CASE UNCHANGED documentVars
  BY <1>3 DEF documentVars, db, store, jail,
     DocumentInv, DocumentTypeOK, Carries, Grounded, RequestHash,
     LaneConfidentiality, Steps
<1> QED BY <1>1, <1>2, <1>3

LEMMA DocumentStarts ==
  DocumentAssumptions /\ DocumentInit => DocumentInv
<1> SUFFICES ASSUME DocumentAssumptions, DocumentInit
             PROVE  DocumentInv
  OBVIOUS
<1>1. Idle \in Process /\ Idle.at = "idle"
  BY DEF Idle, Process, Truths, Steps
<1>2. proc \in [Clients -> Process] /\ \A c \in Clients : proc[c].at = "idle"
  BY <1>1 DEF DocumentInit
<1>3. \A c \in Clients : Carries(proc[c])
  BY <1>2 DEF Carries
<1>4. DocumentTypeOK
  BY <1>2 DEF DocumentInit, DocumentTypeOK, Steps
<1> QED BY <1>2, <1>3, <1>4 DEF DocumentInit, DocumentInv, Grounded

LEMMA DocumentInductive ==
  ASSUME DocumentAssumptions
  PROVE  DocumentSpec => []DocumentInv
BY DocumentStarts, DocumentStep, PTL DEF DocumentSpec

(* Every recorded extraction is of the bytes its request claimed, and what *)
(* it refers to is in the stores, whatever is replaced, killed or retried. *)
THEOREM ExtractionsStayGrounded ==
  ASSUME DocumentAssumptions
  PROVE  DocumentSpec => []ExtractionsAreGrounded
<1>1. DocumentInv => ExtractionsAreGrounded
  <2> SUFFICES ASSUME DocumentInv, NEW r \in Requests,
                      extractions[r] # None
               PROVE  /\ extractions[r].sha = claims[r]
                      /\ claims[r] \in snapshots
                      /\ <<claims[r], r.path>> \in outputs
                      /\ artifacts[claims[r]] # "absent"
    BY DEF ExtractionsAreGrounded, DocumentInv
  <2> QED BY GroundedRow
<1> QED BY <1>1, DocumentInductive, PTL

(* Bytes of a channel attachment are never shown without a capability,     *)
(* whichever lane extracted them first.                                    *)
THEOREM ChannelBytesStayGuarded ==
  ASSUME DocumentAssumptions
  PROVE  DocumentSpec => []ChannelBytesNeedCapability
<1>1. DocumentInv => ChannelBytesNeedCapability
  <2> SUFFICES ASSUME DocumentInv, NEW r \in Requests,
                      r.token # None, extractions[r] # None
               PROVE  extractions[r].sha \notin shown
    BY DEF ChannelBytesNeedCapability
  <2>1. artifacts[extractions[r].sha] = "confidential"
    BY GroundedRow DEF LaneConfidentiality
  <2> QED BY <2>1 DEF DocumentInv
<1> QED BY <1>1, DocumentInductive, PTL

-----------------------------------------------------------------------------
(***************************************************************************)
(* What the parsers of DocumentFormats return, for every document and      *)
(* every limit.                                                            *)
(*                                                                         *)
(* They are folds: recursions over the subsets of the indices of a         *)
(* sequence.  Such a recursion has a solution (FoldsExist), built up by    *)
(* the size of the sets, and what it is on 0..k follows from what it is on *)
(* 0..k-1, so an invariant of one step holds of the result (Induct).       *)
(***************************************************************************)
LEMMA LeastNumber ==
  ASSUME NEW T \in SUBSET Nat, T # {}
  PROVE  \E x \in T : \A y \in T : x <= y
<1> DEFINE less == {p \in Nat \X Nat : p[1] < p[2]}
<1>1. IsWellFoundedOn(less, Nat)
  BY NatLessThanWellFounded, Zenon DEF OpToRel
<1>2. \A x, y \in T : <<y, x>> \notin less => x <= y
  OBVIOUS
<1> HIDE DEF less
<1> QED BY <1>1, <1>2, WFMin

LEMMA Induct ==
  ASSUME NEW n \in Nat, NEW G, 0 \in G, \A k \in 1..n : k - 1 \in G => k \in G
  PROVE  n \in G
<1> DEFINE Bad == {k \in 0..n : k \notin G}
<1>1. SUFFICES ASSUME Bad # {}
               PROVE  FALSE
  OBVIOUS
<1>2. Bad \in SUBSET Nat
  OBVIOUS
<1>3. \E k \in Bad : \A m \in Bad : k <= m
  <2> HIDE DEF Bad
  <2> QED BY <1>1, <1>2, LeastNumber
<1>4. PICK k \in Bad : \A m \in Bad : k <= m
  BY <1>3
<1>5. k \in 1..n /\ k - 1 \in 0..n
  BY <1>4
<1> QED BY <1>4, <1>5

(* A fold of g over s, when it has the folds over the smaller sets.        *)
FoldOf(g, b, pick, it, s) ==
  IF s = {} THEN b ELSE g[<<it[s \ {pick[s]}], pick[s]>>]

Picks(pick, S) == \A s \in SUBSET S : s # {} => pick[s] \in s

Within(S, n) == {s \in SUBSET S : Cardinality(s) <= n}

Folds(g, b, pick, T, A, it) ==
  /\ it \in [T -> A]
  /\ \A s \in T : it[s] = FoldOf(g, b, pick, it, s)

LEMMA OneLess ==
  ASSUME NEW S, IsFiniteSet(S), NEW s \in SUBSET S, NEW x \in s
  PROVE  /\ s \ {x} \in SUBSET S /\ Cardinality(s) \in Nat
         /\ Cardinality(s \ {x}) = Cardinality(s) - 1
  BY FS_Subset, FS_CardinalityType, FS_RemoveElement

LEMMA FoldGrows ==
  ASSUME NEW S, IsFiniteSet(S), NEW A, NEW b \in A, NEW g \in [A \X S -> A],
         NEW pick, Picks(pick, S), NEW n \in Nat,
         NEW f, Folds(g, b, pick, Within(S, n), A, f)
  PROVE  \E h : Folds(g, b, pick, Within(S, n + 1), A, h)
<1> DEFINE h == [s \in Within(S, n + 1) |-> FoldOf(g, b, pick, f, s)]
<1>1. \A s \in Within(S, n) : s \in Within(S, n + 1)
  <2> SUFFICES ASSUME NEW s \in Within(S, n)
               PROVE  Cardinality(s) <= n + 1
    BY DEF Within
  <2>1. Cardinality(s) <= n /\ Cardinality(s) \in Nat
    BY FS_Subset, FS_CardinalityType DEF Within
  <2> QED BY <2>1
<1>2. \A s \in Within(S, n) : h[s] = f[s]
  BY <1>1 DEF Folds
<1>3. ASSUME NEW s \in Within(S, n + 1), s # {}
      PROVE  /\ pick[s] \in S /\ s \ {pick[s]} \in Within(S, n)
             /\ f[s \ {pick[s]}] \in A
  <2>1. s \in SUBSET S /\ Cardinality(s) <= n + 1
    BY DEF Within
  <2>2. pick[s] \in s
    BY <1>3, <2>1 DEF Picks
  <2>3. /\ s \ {pick[s]} \in SUBSET S /\ Cardinality(s) \in Nat
        /\ Cardinality(s \ {pick[s]}) = Cardinality(s) - 1
    BY <2>1, <2>2, OneLess
  <2>4. s \ {pick[s]} \in Within(S, n)
    BY <2>1, <2>3 DEF Within
  <2> QED BY <2>1, <2>2, <2>4 DEF Folds
<1>4. ASSUME NEW s \in Within(S, n + 1)
      PROVE  h[s] \in A /\ h[s] = FoldOf(g, b, pick, h, s)
  <2>1. CASE s = {}
    BY <2>1 DEF FoldOf
  <2>2. CASE s # {}
    <3> DEFINE t == s \ {pick[s]}
    <3>1. t \in Within(S, n) /\ pick[s] \in S /\ f[t] \in A
      BY <1>3, <2>2
    <3>2. h[t] = f[t]
      BY <1>2, <3>1
    <3>3. h[s] = g[<<f[t], pick[s]>>]
      BY <2>2 DEF FoldOf
    <3> HIDE DEF h, t
    <3>4. h[s] = g[<<h[t], pick[s]>>] /\ h[s] \in A
      BY <3>1, <3>2, <3>3
    <3> QED BY <2>2, <3>4 DEF FoldOf, t
  <2> QED BY <2>1, <2>2
<1>5. h = [s \in Within(S, n + 1) |-> h[s]]
  OBVIOUS
<1> HIDE DEF h
<1>6. h \in [Within(S, n + 1) -> A]
  BY <1>4, <1>5
<1> QED BY <1>4, <1>6 DEF Folds

LEMMA FoldsExist ==
  ASSUME NEW S, IsFiniteSet(S), NEW A, NEW b \in A, NEW g \in [A \X S -> A],
         NEW pick, Picks(pick, S)
  PROVE  \E it : Folds(g, b, pick, SUBSET S, A, it)
<1> DEFINE G == {n \in Nat : \E it : Folds(g, b, pick, Within(S, n), A, it)}
<1>1. 0 \in G
  <2> DEFINE it == [s \in Within(S, 0) |-> b]
  <2>1. \A s \in Within(S, 0) : s = {}
    <3> SUFFICES ASSUME NEW s \in Within(S, 0)
                 PROVE  s = {}
      OBVIOUS
    <3>1. IsFiniteSet(s) /\ Cardinality(s) <= 0
      BY FS_Subset DEF Within
    <3>2. Cardinality(s) = 0
      BY <3>1, FS_CardinalityType
    <3> QED BY <3>1, <3>2, FS_EmptySet
  <2>2. Folds(g, b, pick, Within(S, 0), A, it)
    BY <2>1 DEF Folds, FoldOf
  <2> QED BY <2>2
<1>2. ASSUME NEW n \in Nat \ {0}, n - 1 \in G
      PROVE  n \in G
  <2>1. PICK f : Folds(g, b, pick, Within(S, n - 1), A, f)
    BY <1>2
  <2>2. \E h : Folds(g, b, pick, Within(S, (n - 1) + 1), A, h)
    BY <2>1, FoldGrows
  <2>3. (n - 1) + 1 = n
    OBVIOUS
  <2> QED BY <2>2, <2>3
<1>3. Cardinality(S) \in Nat
  BY FS_CardinalityType
<1>4. Cardinality(S) \in G
  <2> HIDE DEF G
  <2>1. \A k \in 1..Cardinality(S) : k - 1 \in G => k \in G
    BY <1>2, <1>3
  <2> QED BY <1>1, <1>3, <2>1, Induct
<1>5. Within(S, Cardinality(S)) = SUBSET S
  BY FS_Subset DEF Within
<1> QED BY <1>4, <1>5

(* The last index of a set of indices.                                     *)
LEMMA LastIndex ==
  ASSUME NEW n \in Nat, NEW s \in SUBSET (1..n), s # {}
  PROVE  Max(s) \in s /\ \A y \in s : Max(s) >= y
<1> DEFINE bounds == {m \in Nat : \A y \in s : m >= y}
<1>1. n \in bounds
  OBVIOUS
<1>2. PICK m \in bounds : \A x \in bounds : m <= x
  BY <1>1, LeastNumber
<1>3. m \in s
  <2> SUFFICES ASSUME m \notin s
               PROVE  FALSE
    OBVIOUS
  <2>1. \A y \in s : y \in Nat \ {0} /\ y <= m /\ y # m
    BY <1>2
  <2>2. PICK z \in s : TRUE
    OBVIOUS
  <2>3. m \in Nat /\ z \in Nat \ {0} /\ z <= m
    BY <1>2, <2>1
  <2>4. m - 1 \in Nat /\ m - 1 < m
    BY <2>3
  <2>5. \A y \in s : m - 1 >= y
    BY <2>1, <2>3
  <2>6. m - 1 \in bounds
    BY <2>4, <2>5
  <2> QED BY <1>2, <2>4, <2>6
<1>4. \A y \in s : m >= y
  BY <1>2
<1> HIDE DEF bounds
<1> QED BY <1>3, <1>4 DEF Max

LEMMA Positions ==
  ASSUME NEW n \in Nat
  PROVE  \A k \in 1..n : k \in Nat \ {0} /\ k \in Nat /\ k - 1 \in Nat
  OBVIOUS

LEMMA SequenceParts ==
  ASSUME NEW K, NEW s \in Seq(K)
  PROVE  DOMAIN s = 1..Len(s) /\ Len(s) \in Nat /\ \A k \in 1..Len(s) : s[k] \in K
  OBVIOUS

LEMMA IsSequence ==
  ASSUME NEW K, NEW n \in Nat, NEW f \in [1..n -> K]
  PROVE  f \in Seq(K) /\ Len(f) = n
  OBVIOUS

LEMMA Prefix ==
  ASSUME NEW n \in Nat, NEW k \in 1..n
  PROVE  /\ 1..k \in SUBSET (1..n) /\ 1..k # {}
         /\ Max(1..k) = k /\ (1..k) \ {k} = 1..(k - 1)
<1>1. 1..k \in SUBSET (1..n) /\ k \in 1..k
  OBVIOUS
<1>2. Max(1..k) \in 1..k /\ Max(1..k) >= k
  BY <1>1, LastIndex
<1> QED BY <1>1, <1>2

(* A fold from the left: the last index is the one that is taken.          *)
LeftFolds(n, A, b, g, it) ==
  /\ it \in [SUBSET (1..n) -> A]
  /\ \A s \in SUBSET (1..n) :
       /\ s = {} => it[s] = b
       /\ s # {} => /\ Max(s) \in 1..n /\ it[s \ {Max(s)}] \in A
                    /\ it[s] = g[<<it[s \ {Max(s)}], Max(s)>>]

LEMMA LeftFold ==
  ASSUME NEW n \in Nat, NEW A, NEW b \in A, NEW g \in [A \X (1..n) -> A]
  PROVE  \E it : LeftFolds(n, A, b, g, it)
<1> DEFINE pick == [s \in SUBSET (1..n) |-> Max(s)]
<1>1. \A s \in SUBSET (1..n) : s # {} => Max(s) \in s
  BY LastIndex
<1>2. Picks(pick, 1..n)
  BY <1>1 DEF Picks
<1>3. IsFiniteSet(1..n)
  BY FS_Interval
<1>4. \E it : Folds(g, b, pick, SUBSET (1..n), A, it)
  <2> HIDE DEF pick
  <2> QED BY <1>2, <1>3, FoldsExist
<1>5. PICK it : Folds(g, b, pick, SUBSET (1..n), A, it)
  BY <1>4
<1>6. it \in [SUBSET (1..n) -> A]
  BY <1>5 DEF Folds
<1>7. ASSUME NEW s \in SUBSET (1..n)
      PROVE  /\ s = {} => it[s] = b
             /\ s # {} => /\ Max(s) \in 1..n /\ it[s \ {Max(s)}] \in A
                          /\ it[s] = g[<<it[s \ {Max(s)}], Max(s)>>]
  <2>1. it[s] = FoldOf(g, b, pick, it, s)
    BY <1>5 DEF Folds
  <2>2. s \ {Max(s)} \in SUBSET (1..n)
    OBVIOUS
  <2> QED BY <1>1, <1>6, <2>1, <2>2 DEF FoldOf
<1> HIDE DEF pick
<1>8. LeftFolds(n, A, b, g, it)
  BY <1>6, <1>7 DEF LeftFolds
<1> QED BY <1>8

(* An invariant of the step of a solution holds of the whole sequence.     *)
FoldedBy(n, A, g, c) ==
  \A s \in SUBSET (1..n) :
    s # {} /\ c[s \ {Max(s)}] \in A => c[s] = g[<<c[s \ {Max(s)}], Max(s)>>]

StepKeeps(n, A, g, G) ==
  \A a \in A, k \in 1..n : <<a, k - 1>> \in G => <<g[<<a, k>>], k>> \in G

LEMMA FoldInvariant ==
  ASSUME NEW n \in Nat, NEW A, NEW g \in [A \X (1..n) -> A],
         NEW c, c[{}] \in A, FoldedBy(n, A, g, c),
         NEW G, <<c[{}], 0>> \in G, StepKeeps(n, A, g, G)
  PROVE  c[1..n] \in A /\ <<c[1..n], n>> \in G
<1> DEFINE H == {k \in 0..n : c[1..k] \in A /\ <<c[1..k], k>> \in G}
<1>1. 0 \in H
  <2>1. 1..0 = {}
    OBVIOUS
  <2> QED BY <2>1
<1>2. ASSUME NEW k \in 1..n, k - 1 \in H
      PROVE  k \in H
  <2>1. /\ 1..k \in SUBSET (1..n) /\ 1..k # {}
        /\ Max(1..k) = k /\ (1..k) \ {k} = 1..(k - 1)
    BY Prefix
  <2>2. c[1..(k - 1)] \in A /\ <<c[1..(k - 1)], k - 1>> \in G
    BY <1>2
  <2>3. c[1..k] = g[<<c[1..(k - 1)], k>>]
    BY <2>1, <2>2 DEF FoldedBy
  <2>4. g[<<c[1..(k - 1)], k>>] \in A
    BY <2>2
  <2>5. <<g[<<c[1..(k - 1)], k>>], k>> \in G
    BY <2>2 DEF StepKeeps
  <2> QED BY <2>3, <2>4, <2>5
<1>3. n \in H
  <2> HIDE DEF H
  <2> QED BY <1>1, <1>2, Induct
<1> QED BY <1>3

Reading(K) == [kept : Seq(K), total : Nat, truncated : Truths, done : Truths,
               cells : Nat, failed : Truths, row : Seq(Nat), sheet : Seq(Seq(Nat))]

LEMMA NothingIsReading == \A K : Nothing \in Reading(K)
  BY DEF Nothing, Reading, Truths

-----------------------------------------------------------------------------
(* The characters of a row.                                                *)
Member(s) == CHOOSE x \in s : TRUE

Summing(fun, S, it) ==
  it = [s \in SUBSET S |-> IF s = {} THEN 0 ELSE fun[Member(s)] + it[s \ {Member(s)}]]

LEMMA SumIsFold ==
  ASSUME NEW fun
  PROVE  SumFunction(fun) = (CHOOSE it : Summing(fun, DOMAIN fun, it))[DOMAIN fun]
  BY DEF SumFunction, SumFunctionOnSet, FoldFunctionOnSet, MapThenFoldSet, Summing, Member

LEMMA SumIsNat ==
  ASSUME NEW S, IsFiniteSet(S), NEW fun \in [S -> Nat]
  PROVE  SumFunction(fun) \in Nat
<1> DEFINE pick == [s \in SUBSET S |-> Member(s)]
           g == [p \in Nat \X S |-> fun[p[2]] + p[1]]
           c == CHOOSE it : Summing(fun, S, it)
<1>1. \A s \in SUBSET S : s # {} => Member(s) \in s
  BY DEF Member
<1>2. Picks(pick, S) /\ g \in [Nat \X S -> Nat]
  BY <1>1 DEF Picks
<1>3. \E it : Folds(g, 0, pick, SUBSET S, Nat, it)
  <2> HIDE DEF pick, g
  <2> QED BY <1>2, FoldsExist
<1>4. PICK it : Folds(g, 0, pick, SUBSET S, Nat, it)
  BY <1>3
<1>5. ASSUME NEW s \in SUBSET S
      PROVE  it[s] = IF s = {} THEN 0 ELSE fun[Member(s)] + it[s \ {Member(s)}]
  <2>1. CASE s = {}
    BY <1>4, <2>1 DEF Folds, FoldOf
  <2>2. CASE s # {}
    <3>1. Member(s) \in S /\ it[s \ {Member(s)}] \in Nat
      BY <1>1, <1>4, <2>2 DEF Folds
    <3>2. it[s] = g[<<it[s \ {Member(s)}], Member(s)>>]
      BY <1>4, <2>2 DEF Folds, FoldOf
    <3> QED BY <2>2, <3>1, <3>2
  <2> QED BY <2>1, <2>2
<1>6. it = [s \in SUBSET S |-> it[s]]
  BY <1>4 DEF Folds
<1>7. Summing(fun, S, it)
  BY <1>5, <1>6 DEF Summing
<1>8. Summing(fun, S, c)
  BY <1>7
<1> HIDE DEF c
<1>9. /\ c[{}] = 0
      /\ \A s \in SUBSET S : s # {} => c[s] = fun[Member(s)] + c[s \ {Member(s)}]
  BY <1>8 DEF Summing
<1> DEFINE G == {n \in Nat : \A s \in Within(S, n) : c[s] \in Nat}
<1>10. 0 \in G
  <2>1. ASSUME NEW s \in Within(S, 0)
        PROVE  s = {}
    <3>1. IsFiniteSet(s) /\ Cardinality(s) <= 0
      BY FS_Subset DEF Within
    <3> QED BY <3>1, FS_CardinalityType, FS_EmptySet
  <2>2. c[{}] \in Nat
    BY <1>9
  <2>3. \A s \in Within(S, 0) : c[s] \in Nat
    BY <2>1, <2>2
  <2> QED BY <2>3
<1>11. ASSUME NEW n \in Nat \ {0}, n - 1 \in G
       PROVE  n \in G
  <2>0. ASSUME NEW s \in Within(S, n), s # {}
        PROVE  c[s] \in Nat
    <3>1. s \in SUBSET S /\ Member(s) \in s /\ Cardinality(s) <= n
      BY <1>1, <2>0 DEF Within
    <3>2. s \ {Member(s)} \in SUBSET S /\ Cardinality(s) \in Nat
          /\ Cardinality(s \ {Member(s)}) = Cardinality(s) - 1
      BY <3>1, OneLess
    <3>3. s \ {Member(s)} \in Within(S, n - 1)
      BY <3>1, <3>2 DEF Within
    <3>4. c[s \ {Member(s)}] \in Nat
      BY <1>11, <3>3
    <3>5. c[s] = fun[Member(s)] + c[s \ {Member(s)}] /\ fun[Member(s)] \in Nat
      BY <1>9, <2>0, <3>1
    <3> QED BY <3>4, <3>5
  <2>1. c[{}] \in Nat
    BY <1>9
  <2>2. \A s \in Within(S, n) : c[s] \in Nat
    BY <2>0, <2>1
  <2> QED BY <2>2
<1>12. Cardinality(S) \in Nat
  BY FS_CardinalityType
<1>13. Cardinality(S) \in G
  <2> HIDE DEF G
  <2>1. \A k \in 1..Cardinality(S) : k - 1 \in G => k \in G
    BY <1>11, <1>12
  <2> QED BY <1>10, <1>12, <2>1, Induct
<1>14. S \in Within(S, Cardinality(S))
  BY <1>12 DEF Within
<1>15. c[S] \in Nat
  BY <1>13, <1>14
<1>16. DOMAIN fun = S
  OBVIOUS
<1> QED BY <1>15, <1>16, SumIsFold DEF c

-----------------------------------------------------------------------------
(* CSV.                                                                    *)
CsvSolves(rows, it) ==
  it = [s \in SUBSET DOMAIN rows |->
          IF s = {} THEN Nothing ELSE CsvRow(it[s \ {Max(s)}], rows[Max(s)])]

LEMMA CsvIsFold ==
  ASSUME NEW d
  PROVE  ExtractCsv(d) = (CHOOSE it : CsvSolves(d.rows, it))[DOMAIN d.rows]
  BY DEF ExtractCsv, FoldLeft, MapThenFoldSet, CsvSolves

LEMMA CsvRowTyped ==
  ASSUME NEW acc \in Reading(Seq(Nat)), NEW row \in Seq(Nat)
  PROVE  CsvRow(acc, row) \in Reading(Seq(Nat))
<1> DEFINE total == acc.total + SumFunction(row)
<1>1. DOMAIN row = 1..Len(row) /\ row \in [1..Len(row) -> Nat] /\ Len(row) \in Nat
  OBVIOUS
<1>2. IsFiniteSet(1..Len(row))
  BY <1>1, FS_Interval
<1>3. SumFunction(row) \in Nat
  BY <1>1, <1>2, SumIsNat
<1>4. total \in Nat
  BY <1>3 DEF Reading
<1> HIDE DEF total
<1>5. CsvRow(acc, row) \in
        {acc, [acc EXCEPT !.truncated = TRUE], [acc EXCEPT !.failed = TRUE],
         [acc EXCEPT !.truncated = TRUE, !.total = total],
         [acc EXCEPT !.kept = Append(@, row), !.total = total]}
  BY DEF CsvRow, total
<1>6. Append(acc.kept, row) \in Seq(Seq(Nat))
  BY DEF Reading
<1> QED BY <1>4, <1>5, <1>6 DEF Reading, Truths

(* The first m parts of a document, as they are.                           *)
Copied(kept, whole, m) == Len(kept) = m /\ \A i \in 1..m : kept[i] = whole[i]

LEMMA CopiedNext ==
  ASSUME NEW K, NEW kept \in Seq(K), NEW whole, NEW k \in Nat \ {0},
         NEW x \in K, x = whole[k], Copied(kept, whole, k - 1)
  PROVE  Copied(Append(kept, x), whole, k)
  BY DEF Copied

LEMMA CopiedNextNat ==
  ASSUME NEW kept \in Seq(Nat), NEW whole, NEW k \in Nat \ {0},
         NEW x, x \in Nat, x = whole[k], Copied(kept, whole, k - 1)
  PROVE  Copied(Append(kept, x), whole, k)
  BY DEF Copied

LEMMA CopiedAll ==
  ASSUME NEW K, NEW kept \in Seq(K), NEW whole \in Seq(K),
         Copied(kept, whole, Len(whole))
  PROVE  kept = whole
  BY SeqEqual DEF Copied

(* What holds of a table after k of its parts.                             *)
TableRead(acc, whole, k) ==
  acc.truncated \/ acc.failed \/ Copied(acc.kept, whole, k)

LEMMA CsvRowKeeps ==
  ASSUME NEW acc \in Reading(Seq(Nat)), NEW row \in Seq(Nat),
         NEW whole, NEW k \in Nat \ {0}, row = whole[k],
         TableRead(acc, whole, k - 1)
  PROVE  TableRead(CsvRow(acc, row), whole, k)
<1> DEFINE total == acc.total + SumFunction(row)
           new   == CsvRow(acc, row)
<1>1. CASE acc.truncated \/ acc.failed
  BY <1>1 DEF CsvRow, TableRead
<1>2. CASE ~acc.truncated /\ ~acc.failed
  <2>1. Copied(Append(acc.kept, row), whole, k)
    BY <1>2, CopiedNext DEF Reading, TableRead
  <2>2. \/ new = [acc EXCEPT !.truncated = TRUE]
        \/ new = [acc EXCEPT !.failed = TRUE]
        \/ new = [acc EXCEPT !.truncated = TRUE, !.total = total]
        \/ new = [acc EXCEPT !.kept = Append(@, row), !.total = total]
    BY <1>2 DEF CsvRow
  <2>3. new.truncated \/ new.failed \/ new.kept = Append(acc.kept, row)
    <3> HIDE DEF new, total
    <3> QED BY <2>2 DEF Reading
  <2> QED BY <2>1, <2>3 DEF TableRead
<1> QED BY <1>1, <1>2

LEMMA CsvRead ==
  ASSUME NEW rows \in Seq(Seq(Nat)), NEW c, c = CHOOSE it : CsvSolves(rows, it)
  PROVE  /\ c[DOMAIN rows] \in Reading(Seq(Nat))
         /\ TableRead(c[DOMAIN rows], rows, Len(rows))
<1> DEFINE n == Len(rows)
           A == Reading(Seq(Nat))
           g == [p \in A \X (1..n) |-> CsvRow(p[1], rows[p[2]])]
<1>1. n \in Nat /\ DOMAIN rows = 1..n /\ \A k \in 1..n : rows[k] \in Seq(Nat)
  BY SequenceParts
<1>2. g \in [A \X (1..n) -> A] /\ Nothing \in A
  BY <1>1, CsvRowTyped, NothingIsReading
<1>3. \A a \in A, k \in 1..n : g[<<a, k>>] = CsvRow(a, rows[k])
  OBVIOUS
<1> HIDE DEF n, A, g
<1>4. \E it : LeftFolds(n, A, Nothing, g, it)
  BY <1>1, <1>2, LeftFold
<1>5. PICK it : LeftFolds(n, A, Nothing, g, it)
  BY <1>4
<1>6. CsvSolves(rows, it)
  <2>1. \A s \in SUBSET (1..n) :
          it[s] = IF s = {} THEN Nothing ELSE CsvRow(it[s \ {Max(s)}], rows[Max(s)])
    BY <1>3, <1>5 DEF LeftFolds
  <2>2. it = [s \in SUBSET (1..n) |-> it[s]]
    BY <1>5 DEF LeftFolds
  <2> QED BY <1>1, <2>1, <2>2 DEF CsvSolves
<1>7. CsvSolves(rows, c)
  BY <1>6
<1>8. \A s \in SUBSET (1..n) :
        c[s] = IF s = {} THEN Nothing ELSE CsvRow(c[s \ {Max(s)}], rows[Max(s)])
  BY <1>1, <1>7 DEF CsvSolves
<1>9. c[{}] = Nothing
  BY <1>8
<1>10. ASSUME NEW s \in SUBSET (1..n), s # {}, c[s \ {Max(s)}] \in A
       PROVE  c[s] = g[<<c[s \ {Max(s)}], Max(s)>>]
  BY <1>1, <1>3, <1>8, <1>10, LastIndex
<1> DEFINE G == {p \in A \X Nat : TableRead(p[1], rows, p[2])}
<1>11. <<c[{}], 0>> \in G
  BY <1>2, <1>9 DEF TableRead, Copied, Nothing
<1>12. ASSUME NEW a \in A, NEW k \in 1..n, <<a, k - 1>> \in G
       PROVE  <<g[<<a, k>>], k>> \in G
  <2>1. TableRead(a, rows, k - 1)
    BY <1>12
  <2>2. k \in Nat \ {0} /\ rows[k] \in Seq(Nat)
    BY <1>1, Positions
  <2>3. TableRead(CsvRow(a, rows[k]), rows, k)
    BY <2>1, <2>2, CsvRowKeeps DEF A
  <2>4. CsvRow(a, rows[k]) \in A
    BY <2>2, CsvRowTyped DEF A
  <2> QED BY <1>3, <2>2, <2>3, <2>4
<1>13. c[1..n] \in A /\ <<c[1..n], n>> \in G
  <2> HIDE DEF G
  <2>1. FoldedBy(n, A, g, c) /\ StepKeeps(n, A, g, G)
    BY <1>10, <1>12 DEF FoldedBy, StepKeeps
  <2> QED BY <1>1, <1>2, <1>9, <1>11, <2>1, FoldInvariant
<1> QED BY <1>1, <1>13 DEF A, n

LEMMA CsvKeepsAll ==
  ASSUME NEW d, d.rows \in Seq(Seq(Nat)),
         ~ExtractCsv(d).truncated, ~ExtractCsv(d).failed
  PROVE  ExtractCsv(d).kept = d.rows
<1> DEFINE c == CHOOSE it : CsvSolves(d.rows, it)
<1>1. ExtractCsv(d) = c[DOMAIN d.rows]
  BY CsvIsFold
<1> HIDE DEF c
<1>2. /\ c[DOMAIN d.rows] \in Reading(Seq(Nat))
      /\ TableRead(c[DOMAIN d.rows], d.rows, Len(d.rows))
  BY CsvRead DEF c
<1>3. c[DOMAIN d.rows].kept \in Seq(Seq(Nat))
  BY <1>2 DEF Reading
<1> QED BY <1>1, <1>2, <1>3, CopiedAll DEF TableRead

-----------------------------------------------------------------------------
(* Pages: PDF and PPTX.                                                    *)
LEMMA SmallerOfTwo ==
  ASSUME NEW a \in Int, NEW b \in Int
  PROVE  /\ Min({a, b}) \in {a, b} /\ Min({a, b}) <= a /\ Min({a, b}) <= b
         /\ Max({a, b}) \in {a, b} /\ Max({a, b}) >= a /\ Max({a, b}) >= b
<1>1. \E x \in {a, b} : \A y \in {a, b} : x <= y
  OBVIOUS
<1>2. \E x \in {a, b} : \A y \in {a, b} : x >= y
  OBVIOUS
<1> QED BY <1>1, <1>2 DEF Min, Max

LEMMA FitIsNat ==
  ASSUME LimitAssumption, NEW n \in Nat, NEW used \in Nat
  PROVE  Fit(n, used) \in Nat /\ Fit(n, used) <= n
<1>1. Limit.text \in Nat
  BY DEF LimitAssumption
<1> DEFINE left == Max({Limit.text - used, 0})
<1>2. left \in Nat
  <2> DEFINE rest == Limit.text - used
  <2>1. rest \in Int
    BY <1>1
  <2> HIDE DEF rest
  <2>2. Max({rest, 0}) \in {rest, 0} /\ Max({rest, 0}) >= 0
    <3>1. 0 \in Int
      OBVIOUS
    <3> QED BY <2>1, <3>1, SmallerOfTwo
  <2>3. Max({rest, 0}) \in Nat
    BY <2>1, <2>2
  <2> QED BY <2>3 DEF rest
<1> HIDE DEF left
<1>3. Min({n, left}) \in {n, left} /\ Min({n, left}) <= n
  <2>1. n \in Int /\ left \in Int
    BY <1>2
  <2> QED BY <2>1, SmallerOfTwo
<1> QED BY <1>2, <1>3 DEF Fit, left

(* What holds after k pages: once done, either something is missing or     *)
(* nothing is.                                                             *)
PagesRead(acc, whole, k) ==
  /\ acc.done => acc.truncated \/ Copied(acc.kept, whole, Len(whole))
  /\ ~acc.done => Copied(acc.kept, whole, k)

LEMMA EndingKeeps ==
  ASSUME LimitAssumption, NEW K, NEW acc \in Reading(K), NEW whole, NEW k,
         NEW cut \in Truths, NEW more \in Truths
  PROVE  /\ Ending(acc, cut, more) \in Reading(K)
         /\ (~cut => Copied(acc.kept, whole, k)) /\ (~more => k = Len(whole))
              => PagesRead(Ending(acc, cut, more), whole, k)
<1> DEFINE end == acc.total >= Limit.text
           lost == cut \/ (end /\ more)
<1>0. acc.total \in Nat /\ Limit.text \in Nat
  BY DEF Reading, LimitAssumption
<1>1. end \in Truths /\ lost \in Truths /\ (cut \/ end) \in Truths
  <2>1. end \in BOOLEAN
    BY <1>0
  <2> HIDE DEF end
  <2> QED BY <2>1 DEF Truths
<1>2. Ending(acc, cut, more) = [acc EXCEPT !.truncated = lost, !.done = cut \/ end]
  BY DEF Ending, Lost
<1> HIDE DEF end, lost
<1>3. /\ Ending(acc, cut, more) \in Reading(K)
      /\ Ending(acc, cut, more).kept = acc.kept
      /\ Ending(acc, cut, more).truncated = lost
      /\ Ending(acc, cut, more).done = (cut \/ end)
  BY <1>1, <1>2 DEF Reading
<1>4. ~lost /\ end => ~cut /\ ~more
  BY DEF lost
<1>5. ~lost => ~cut
  BY DEF lost
<1> QED BY <1>3, <1>4, <1>5 DEF PagesRead

LEMMA SumOfTwo == \A a, b \in Nat : a + b \in Nat
  OBVIOUS

WithPage(acc, x, total) == [acc EXCEPT !.kept = Append(@, x), !.total = total]

LEMMA NextPage ==
  ASSUME NEW K, NEW acc \in Reading(K), NEW x, Append(acc.kept, x) \in Seq(K),
         NEW total, total \in Nat
  PROVE  /\ WithPage(acc, x, total) \in Reading(K)
         /\ WithPage(acc, x, total).kept = Append(acc.kept, x)
  BY DEF Reading, WithPage

LEMMA PdfPageKeeps ==
  ASSUME LimitAssumption, NEW acc \in Reading(Nat), NEW n \in Nat,
         NEW whole \in Seq(Nat), NEW k \in 1..Len(whole), n = whole[k]
  PROVE  /\ PdfPage(acc, n, Len(whole)) \in Reading(Nat)
         /\ PagesRead(acc, whole, k - 1)
              => PagesRead(PdfPage(acc, n, Len(whole)), whole, k)
<1>0. Len(whole) \in Nat
  OBVIOUS
<1>1. CASE acc.done
  BY <1>1 DEF PdfPage, PagesRead
<1>2. CASE ~acc.done
  <2> DEFINE fit  == Fit(n, acc.total)
             sum  == acc.total + fit
             page == WithPage(acc, fit, sum)
             cut  == n > fit
             more == Len(page.kept) < Len(whole)
  <2>1. acc.total \in Nat /\ acc.kept \in Seq(Nat)
    BY DEF Reading
  <2>2. fit \in Nat /\ fit <= n
    BY <2>1, FitIsNat
  <2>3. PdfPage(acc, n, Len(whole)) = Ending(page, cut, more)
    BY <1>2 DEF PdfPage, WithPage
  <2> HIDE DEF fit
  <2>4. sum \in Nat
    BY <2>1, <2>2, SumOfTwo
  <2> HIDE DEF sum
  <2>6. page \in Reading(Nat) /\ page.kept = Append(acc.kept, fit)
    <3>1. Append(acc.kept, fit) \in Seq(Nat)
      BY <2>1, <2>2
    <3> QED BY <2>4, <3>1, NextPage
  <2>9. Len(page.kept) \in Nat
    BY <2>1, <2>2, <2>6
  <2>7. cut \in Truths /\ more \in Truths
    <3>1. cut \in BOOLEAN /\ more \in BOOLEAN
      BY <1>0, <2>2, <2>9
    <3> HIDE DEF cut, more
    <3> QED BY <3>1 DEF Truths
  <2>8. ASSUME PagesRead(acc, whole, k - 1)
        PROVE  /\ ~cut => Copied(page.kept, whole, k)
               /\ ~more => k = Len(whole)
    <3>1. Copied(acc.kept, whole, k - 1)
      BY <1>2, <2>8 DEF PagesRead
    <3>2. Len(page.kept) = k
      BY <2>1, <2>2, <2>6, <3>1 DEF Copied
    <3>3. ASSUME ~cut
          PROVE  Copied(page.kept, whole, k)
      <4>1. fit = whole[k] /\ k \in Nat \ {0}
        BY <2>2, <3>3
      <4>2. Copied(Append(acc.kept, fit), whole, k)
        BY <2>1, <2>2, <3>1, <4>1, CopiedNext
      <4> QED BY <2>6, <4>2
    <3>4. ~more => k = Len(whole)
      BY <1>0, <3>2
    <3> QED BY <3>3, <3>4
  <2> HIDE DEF page, cut, more
  <2> QED BY <2>3, <2>6, <2>7, <2>8, EndingKeeps
<1> QED BY <1>1, <1>2

PdfSolves(pages, it) ==
  it = [s \in SUBSET DOMAIN pages |->
          IF s = {} THEN Nothing
          ELSE PdfPage(it[s \ {Max(s)}], pages[Max(s)].text, Len(pages))]

LEMMA PdfIsFold ==
  ASSUME NEW d, d.readable
  PROVE  ExtractPdf(d) = (CHOOSE it : PdfSolves(d.pages, it))[DOMAIN d.pages]
  BY DEF ExtractPdf, FoldLeft, MapThenFoldSet, PdfSolves

LEMMA PdfRead ==
  ASSUME LimitAssumption, NEW pages, NEW whole \in Seq(Nat),
         DOMAIN pages = 1..Len(whole), Len(pages) = Len(whole),
         \A k \in 1..Len(whole) : pages[k].text = whole[k],
         NEW c, c = CHOOSE it : PdfSolves(pages, it)
  PROVE  /\ c[DOMAIN pages] \in Reading(Nat)
         /\ PagesRead(c[DOMAIN pages], whole, Len(whole))
<1> DEFINE n == Len(whole)
           A == Reading(Nat)
           g == [p \in A \X (1..n) |-> PdfPage(p[1], whole[p[2]], n)]
<1>0. n \in Nat
  OBVIOUS
<1>1. n \in Nat /\ \A k \in 1..n : whole[k] \in Nat
  BY <1>0, ElementOfSeq
<1>2. \A a \in A, k \in 1..n :
        /\ PdfPage(a, whole[k], n) \in A
        /\ PagesRead(a, whole, k - 1) => PagesRead(PdfPage(a, whole[k], n), whole, k)
  BY <1>1, PdfPageKeeps
<1>3. g \in [A \X (1..n) -> A] /\ Nothing \in A
  BY <1>2, NothingIsReading
<1>4. \A a \in A, k \in 1..n : g[<<a, k>>] = PdfPage(a, pages[k].text, Len(pages))
  OBVIOUS
<1>5. DOMAIN pages = 1..n
  OBVIOUS
<1> DEFINE G == {p \in A \X Nat : PagesRead(p[1], whole, p[2])}
<1>6. StepKeeps(n, A, g, G)
  <2>1. \A k \in 1..n : k \in Nat /\ k - 1 \in Nat
    BY <1>1, Positions
  <2>2. ASSUME NEW a \in A, NEW k \in 1..n, <<a, k - 1>> \in G
        PROVE  <<g[<<a, k>>], k>> \in G
    BY <1>2, <2>1, <2>2
  <2> HIDE DEF A, g, G
  <2> QED BY <2>2 DEF StepKeeps
<1>7. <<Nothing, 0>> \in G
  <2>1. PagesRead(Nothing, whole, 0)
    BY DEF PagesRead, Copied, Nothing
  <2> HIDE DEF A
  <2> QED BY <1>3, <2>1
<1> HIDE DEF n, A, g, G
<1>8. \E it : LeftFolds(n, A, Nothing, g, it)
  BY <1>1, <1>3, LeftFold
<1>9. PICK it : LeftFolds(n, A, Nothing, g, it)
  BY <1>8
<1>10. PdfSolves(pages, it)
  <2>1. \A s \in SUBSET (1..n) :
          it[s] = IF s = {} THEN Nothing
                  ELSE PdfPage(it[s \ {Max(s)}], pages[Max(s)].text, Len(pages))
    BY <1>4, <1>9 DEF LeftFolds
  <2>2. it = [s \in SUBSET (1..n) |-> it[s]]
    BY <1>9 DEF LeftFolds
  <2> QED BY <1>5, <2>1, <2>2 DEF PdfSolves
<1>11. PdfSolves(pages, c)
  BY <1>10
<1>12. \A s \in SUBSET (1..n) :
         c[s] = IF s = {} THEN Nothing
                ELSE PdfPage(c[s \ {Max(s)}], pages[Max(s)].text, Len(pages))
  BY <1>5, <1>11 DEF PdfSolves
<1>13. c[{}] = Nothing
  BY <1>12
<1>14. FoldedBy(n, A, g, c)
  BY <1>1, <1>4, <1>12, LastIndex DEF FoldedBy
<1>15. c[1..n] \in A /\ <<c[1..n], n>> \in G
  BY <1>1, <1>3, <1>6, <1>7, <1>13, <1>14, FoldInvariant
<1> QED BY <1>5, <1>15 DEF A, G, n

LEMMA PdfKeepsAll ==
  ASSUME LimitAssumption, NEW d, d.kind = "pdf", Parsed(d),
         ~ExtractPdf(d).truncated, ~ExtractPdf(d).failed
  PROVE  ExtractPdf(d).kept = [i \in DOMAIN d.pages |-> d.pages[i].text]
<1>1. d.readable
  BY DEF ExtractPdf, Nothing
<1> DEFINE c     == CHOOSE it : PdfSolves(d.pages, it)
           whole == [i \in DOMAIN d.pages |-> d.pages[i].text]
           page  == [text : Nat, streams : Seq([flate : BOOLEAN, encoded : Nat,
                                                decoded : Nat, intact : BOOLEAN])]
<1>2. d.pages \in Seq(page)
  BY DEF Parsed
<1>3. ExtractPdf(d) = c[DOMAIN d.pages]
  BY <1>1, PdfIsFold
<1>4. \A x \in page : x.text \in Nat
  OBVIOUS
<1> HIDE DEF page
<1>5. DOMAIN d.pages = 1..Len(d.pages) /\ Len(d.pages) \in Nat
  BY <1>2, SequenceParts
<1>6. \A k \in 1..Len(d.pages) : d.pages[k].text \in Nat
  BY <1>2, <1>4
<1>7. /\ whole \in Seq(Nat) /\ Len(whole) = Len(d.pages)
      /\ \A k \in 1..Len(whole) : d.pages[k].text = whole[k]
  <2>1. whole = [k \in 1..Len(d.pages) |-> d.pages[k].text]
    BY <1>5
  <2>2. \A k \in 1..Len(d.pages) : whole[k] = d.pages[k].text
    BY <2>1
  <2> HIDE DEF whole
  <2>3. whole \in [1..Len(d.pages) -> Nat]
    BY <1>6, <2>1
  <2>4. whole \in Seq(Nat) /\ Len(whole) = Len(d.pages)
    BY <1>5, <2>3, IsSequence
  <2> QED BY <2>2, <2>4
<1> HIDE DEF c, whole
<1>8. /\ c[DOMAIN d.pages] \in Reading(Nat)
      /\ PagesRead(c[DOMAIN d.pages], whole, Len(whole))
  BY <1>5, <1>7, PdfRead DEF c
<1>9. c[DOMAIN d.pages].kept \in Seq(Nat)
  BY <1>8 DEF Reading
<1>10. ExtractPdf(d).kept = whole
  BY <1>3, <1>7, <1>8, <1>9, CopiedAll DEF PagesRead
<1> QED BY <1>10 DEF whole

(* The slides, in the order of their numbers.                              *)
Sorted(S, n, ss) ==
  /\ ss \in [1..n -> S]
  /\ \A i, j \in 1..n : i < j => ss[i] # ss[j] /\ ss[i].number <= ss[j].number

LEMMA SortedGrows ==
  ASSUME NEW S, IsFiniteSet(S), \A s \in S : s.number \in Nat,
         NEW n \in Nat, Cardinality(S) = n + 1,
         \A T \in SUBSET S : Cardinality(T) = n => \E ss : Sorted(T, n, ss)
  PROVE  \E ss : Sorted(S, n + 1, ss)
<1>1. S # {}
  BY FS_EmptySet
<1>2. \E x \in S : \A y \in S : x.number <= y.number
  <2> DEFINE numbers == {s.number : s \in S}
  <2>1. numbers \in SUBSET Nat /\ numbers # {}
    BY <1>1
  <2>2. \E x \in numbers : \A y \in numbers : x <= y
    <3> HIDE DEF numbers
    <3> QED BY <2>1, LeastNumber
  <2>3. PICK m \in numbers : \A y \in numbers : m <= y
    BY <2>2
  <2>4. PICK x \in S : m = x.number
    BY <2>3
  <2> QED BY <2>3, <2>4
<1>3. PICK x \in S : \A y \in S : x.number <= y.number
  BY <1>2
<1> DEFINE T == S \ {x}
<1>4. Cardinality(T) = n
  BY FS_RemoveElement, FS_CardinalityType
<1>5. PICK ss : Sorted(T, n, ss)
  BY <1>4
<1> DEFINE tt == [i \in 1..(n + 1) |-> IF i = 1 THEN x ELSE ss[i - 1]]
<1>6. \A i \in 2..(n + 1) : i - 1 \in 1..n /\ tt[i] = ss[i - 1] /\ tt[i] \in T
  BY <1>5 DEF Sorted
<1>7. tt[1] = x
  OBVIOUS
<1>8. \A i \in 1..(n + 1) : i = 1 \/ i \in 2..(n + 1)
  OBVIOUS
<1>9. tt = [i \in 1..(n + 1) |-> tt[i]]
  OBVIOUS
<1> HIDE DEF tt
<1>10. tt \in [1..(n + 1) -> S]
  <2>1. \A i \in 1..(n + 1) : tt[i] \in S
    BY <1>6, <1>7, <1>8
  <2> QED BY <2>1, <1>9
<1>11. ASSUME NEW i \in 1..(n + 1), NEW j \in 1..(n + 1), i < j
       PROVE  tt[i] # tt[j] /\ tt[i].number <= tt[j].number
  <2>1. j \in 2..(n + 1)
    BY <1>11
  <2>2. CASE i = 1
    BY <1>3, <1>6, <1>7, <2>1, <2>2
  <2>3. CASE i # 1
    <3>1. i \in 2..(n + 1) /\ i - 1 < j - 1
      BY <1>11, <2>3
    <3>2. ss[i - 1] # ss[j - 1] /\ ss[i - 1].number <= ss[j - 1].number
      BY <1>5, <1>6, <2>1, <3>1 DEF Sorted
    <3> QED BY <1>6, <2>1, <3>1, <3>2
  <2> QED BY <2>2, <2>3
<1>12. Sorted(S, n + 1, tt)
  BY <1>10, <1>11 DEF Sorted
<1> QED BY <1>12

LEMMA SortedExists ==
  ASSUME NEW S, IsFiniteSet(S), \A s \in S : s.number \in Nat
  PROVE  Cardinality(S) \in Nat /\ \E ss : Sorted(S, Cardinality(S), ss)
<1> DEFINE G == {n \in Nat : \A T \in SUBSET S :
                   Cardinality(T) = n => \E ss : Sorted(T, n, ss)}
<1>1. Cardinality(S) \in Nat
  BY FS_CardinalityType
<1>2. 0 \in G
  <2> SUFFICES ASSUME NEW T \in SUBSET S
               PROVE  \E ss : Sorted(T, 0, ss)
    OBVIOUS
  <2>1. Sorted(T, 0, [i \in 1..0 |-> 0])
    BY DEF Sorted
  <2> QED BY <2>1
<1>3. ASSUME NEW k \in 1..Cardinality(S), k - 1 \in G
      PROVE  k \in G
  <2>1. k \in Nat /\ k - 1 \in Nat /\ (k - 1) + 1 = k
    BY <1>1
  <2>2. ASSUME NEW T \in SUBSET S, Cardinality(T) = k
        PROVE  \E ss : Sorted(T, k, ss)
    <3>1. IsFiniteSet(T) /\ \A s \in T : s.number \in Nat
      BY FS_Subset
    <3>2. \A U \in SUBSET T : Cardinality(U) = k - 1 => \E ss : Sorted(U, k - 1, ss)
      BY <1>3
    <3>3. Cardinality(T) = (k - 1) + 1
      BY <2>1, <2>2
    <3>4. \E ss : Sorted(T, (k - 1) + 1, ss)
      BY <2>1, <3>1, <3>2, <3>3, SortedGrows
    <3> QED BY <2>1, <3>4
  <2> QED BY <2>1, <2>2
<1>4. Cardinality(S) \in G
  <2> HIDE DEF G
  <2> QED BY <1>1, <1>2, <1>3, Induct
<1> QED BY <1>1, <1>4

LEMMA SlidesAreSorted ==
  ASSUME NEW d, NEW K, d.slides \in Seq(K), \A s \in K : s.number \in Nat
  PROVE  /\ SlidesOf(d) \in Seq(ToSet(d.slides))
         /\ Len(SlidesOf(d)) <= Len(d.slides)
<1> DEFINE S == ToSet(d.slides)
           N == Cardinality(S)
<1>1. d.slides \in [1..Len(d.slides) -> S] /\ Len(d.slides) \in Nat
      /\ \A s \in S : s \in K /\ \E i \in 1..Len(d.slides) : d.slides[i] = s
  BY DEF ToSet
<1>2. d.slides \in Surjection(1..Len(d.slides), S)
  BY <1>1 DEF Surjection
<1>3. IsFiniteSet(1..Len(d.slides)) /\ Cardinality(1..Len(d.slides)) = Len(d.slides)
  <2> DEFINE n == Len(d.slides)
  <2>1. n \in Nat
    BY <1>1
  <2> HIDE DEF n
  <2>2. IsFiniteSet(1..n) /\ Cardinality(1..n) = IF 1 > n THEN 0 ELSE n - 1 + 1
    BY <2>1, FS_Interval
  <2> QED BY <2>1, <2>2 DEF n
<1>4. IsFiniteSet(S) /\ N <= Len(d.slides)
  BY <1>2, <1>3, FS_Surjection
<1>5. N \in Nat /\ \E ss : Sorted(S, N, ss)
  <2> HIDE DEF S
  <2> QED BY <1>1, <1>4, SortedExists
<1>6. SlidesOf(d) = CHOOSE ss \in [1..N -> S] :
        \A i, j \in DOMAIN ss :
          i < j => ss[i] # ss[j] /\ ss[i].number <= ss[j].number
  BY DEF SlidesOf
<1> HIDE DEF S, N
<1>7. \E ss \in [1..N -> S] : \A i, j \in DOMAIN ss :
          i < j => ss[i] # ss[j] /\ ss[i].number <= ss[j].number
  <2>1. PICK ss : Sorted(S, N, ss)
    BY <1>5
  <2> QED BY <2>1 DEF Sorted
<1>8. SlidesOf(d) \in [1..N -> S]
  BY <1>6, <1>7
<1>9. SlidesOf(d) \in Seq(S) /\ Len(SlidesOf(d)) = N
  BY <1>5, <1>8
<1> QED BY <1>4, <1>9 DEF S, N

(* The notes that are found are those the relationships name.              *)
Notable(d, slide) ==
  /\ DOMAIN slide.relations \subseteq Nat
  /\ \A n \in DOMAIN d.notes : d.notes[n] \in Nat
  /\ \A r, q \in ToSet(slide.relations) :
       Bound(d, r) /\ Bound(d, q) => r.target = q.target

LEMMA NotesAreOwn ==
  ASSUME NEW d, NEW slide, Notable(d, slide)
  PROVE  \/ Notes(d, slide) = None /\ OwnNotes(d, slide) = 0
         \/ Notes(d, slide) = OwnNotes(d, slide) /\ Notes(d, slide) \in Nat
<1> DEFINE rel   == slide.relations
           found == {i \in DOMAIN rel : Bound(d, rel[i])}
           targets == NotesTargets(d, slide)
<1>1. Notes(d, slide) = IF found = {} THEN None ELSE d.notes[rel[Min(found)].target]
  BY DEF Notes
<1>2. \A r \in ToSet(rel) : \E i \in DOMAIN rel : rel[i] = r
  BY DEF ToSet
<1>3. \A i \in DOMAIN rel : rel[i] \in ToSet(rel)
  BY DEF ToSet
<1>4. targets = {r.target : r \in {x \in ToSet(rel) : Bound(d, x)}}
  BY DEF NotesTargets
<1> HIDE DEF targets
<1>5. CASE found = {}
  <2>1. targets = {}
    BY <1>2, <1>4, <1>5 DEF Notable
  <2> QED BY <1>1, <1>5, <2>1 DEF OwnNotes, targets
<1>6. CASE found # {}
  <2>1. found \in SUBSET Nat
    BY DEF Notable
  <2>2. \E i \in found : \A j \in found : i <= j
    <3> HIDE DEF found
    <3> QED BY <1>6, <2>1, LeastNumber
  <2>3. Min(found) \in found
    <3> HIDE DEF found
    <3> QED BY <2>2 DEF Min
  <2> DEFINE r == rel[Min(found)]
  <2>4. r \in ToSet(rel) /\ Bound(d, r)
    BY <1>3, <2>3
  <2> HIDE DEF found, rel, r
  <2>5. targets = {r.target}
    BY <1>4, <2>4 DEF Notable, rel
  <2>6. (CHOOSE t \in targets : TRUE) = r.target
    BY <2>5
  <2>7. OwnNotes(d, slide) = d.notes[r.target]
    BY <2>5, <2>6 DEF OwnNotes, targets
  <2> QED BY <1>1, <1>6, <2>4, <2>7 DEF r, Notable, Bound
<1> QED BY <1>5, <1>6

-----------------------------------------------------------------------------
Pair == Nat \X Nat

LEMMA PptxSlideKeeps ==
  ASSUME LimitAssumption, None \notin Nat,
         NEW acc \in Reading(Pair), NEW d, NEW slide, slide.text \in Nat,
         Notable(d, slide), NEW whole \in Seq(Pair), NEW k \in 1..Len(whole),
         whole[k] = <<slide.text, OwnNotes(d, slide)>>,
         Len(d.slides) \in Nat, Len(whole) <= Len(d.slides)
  PROVE  /\ PptxSlide(acc, d, slide) \in Reading(Pair)
         /\ PagesRead(acc, whole, k - 1) => PagesRead(PptxSlide(acc, d, slide), whole, k)
<1>0. Len(whole) \in Nat
  OBVIOUS
<1>1. CASE acc.done
  BY <1>1 DEF PptxSlide, PagesRead
<1>2. CASE ~acc.done
  <2> DEFINE text  == Fit(slide.text, acc.total)
             cut   == slide.text > text
             given == Notes(d, slide)
             notes == NotesFit(given, acc.total + text, cut)
             sum   == acc.total + text + notes
             page  == WithPage(acc, <<text, notes>>, sum)
             short == cut \/ (given # None /\ given > notes)
             more  == Len(page.kept) < Len(d.slides)
  <2>1. PptxSlide(acc, d, slide) = Ending(page, short, more)
    BY <1>2 DEF PptxSlide, WithPage
  <2>2. acc.total \in Nat /\ acc.kept \in Seq(Pair)
    BY DEF Reading
  <2>3. text \in Nat /\ text <= slide.text
    BY <2>2, FitIsNat
  <2>4. given = None \/ given \in Nat
    BY NotesAreOwn
  <2>5. acc.total + text \in Nat
    BY <2>2, <2>3, SumOfTwo
  <2>6. /\ notes \in Nat /\ (given # None => notes <= given)
        /\ given = None => notes = 0
    <3> HIDE DEF text, cut, given
    <3>1. given \in Nat => Fit(given, acc.total + text) \in Nat
                           /\ Fit(given, acc.total + text) <= given
      BY <2>5, FitIsNat
    <3> QED BY <2>4, <3>1 DEF NotesFit
  <2>7. cut \in BOOLEAN
    BY <2>3
  <2> HIDE DEF text, cut, given, notes
  <2>8. short \in Truths
    <3>1. given \in Nat => (given > notes) \in BOOLEAN
      BY <2>6
    <3> QED BY <2>4, <2>7, <3>1 DEF Truths
  <2>9. <<text, notes>> \in Pair
    BY <2>3, <2>6 DEF Pair
  <2>10. Append(acc.kept, <<text, notes>>) \in Seq(Pair)
    BY <2>2, <2>9
  <2>11. sum \in Nat
    BY <2>5, <2>6, SumOfTwo
  <2>12. page \in Reading(Pair) /\ page.kept = Append(acc.kept, <<text, notes>>)
    <3> HIDE DEF sum
    <3> QED BY <2>10, <2>11, NextPage
  <2>13. Len(page.kept) \in Nat
    BY <2>2, <2>9, <2>12
  <2>14. more \in Truths
    <3>1. more \in BOOLEAN
      BY <2>13
    <3> HIDE DEF more
    <3> QED BY <3>1 DEF Truths
  <2>15. ASSUME PagesRead(acc, whole, k - 1)
         PROVE  /\ ~short => Copied(page.kept, whole, k)
                /\ ~more => k = Len(whole)
    <3>1. Copied(acc.kept, whole, k - 1)
      BY <1>2, <2>15 DEF PagesRead
    <3>2. Len(page.kept) = k
      BY <2>2, <2>9, <2>12, <3>1 DEF Copied
    <3>3. ASSUME ~short
          PROVE  Copied(page.kept, whole, k)
      <4>1. text = slide.text
        BY <2>3, <3>3 DEF cut
      <4>2. notes = OwnNotes(d, slide)
        BY <2>4, <2>6, <3>3, NotesAreOwn DEF given
      <4>3. <<text, notes>> = whole[k] /\ k \in Nat \ {0}
        BY <4>1, <4>2
      <4>4. Copied(Append(acc.kept, <<text, notes>>), whole, k)
        BY <2>2, <2>9, <3>1, <4>3, CopiedNext
      <4> QED BY <2>12, <4>4
    <3>4. ~more => k = Len(whole)
      BY <1>0, <3>2
    <3> QED BY <3>3, <3>4
  <2> HIDE DEF page, short, more
  <2> QED BY <2>1, <2>8, <2>12, <2>14, <2>15, EndingKeeps
<1> QED BY <1>1, <1>2

PptxSolves(d, ss, it) ==
  it = [s \in SUBSET DOMAIN ss |->
          IF s = {} THEN Nothing ELSE PptxSlide(it[s \ {Max(s)}], d, ss[Max(s)])]

LEMMA PptxIsFold ==
  ASSUME NEW d
  PROVE  ExtractPptx(d)
           = (CHOOSE it : PptxSolves(d, SlidesOf(d), it))[DOMAIN SlidesOf(d)]
  BY DEF ExtractPptx, FoldLeft, MapThenFoldSet, PptxSolves

LEMMA PptxRead ==
  ASSUME LimitAssumption, None \notin Nat, NEW d, Len(d.slides) \in Nat,
         NEW ss, NEW whole \in Seq(Pair), DOMAIN ss = 1..Len(whole),
         Len(whole) <= Len(d.slides),
         \A k \in 1..Len(whole) :
           /\ ss[k].text \in Nat /\ Notable(d, ss[k])
           /\ whole[k] = <<ss[k].text, OwnNotes(d, ss[k])>>,
         NEW c, c = CHOOSE it : PptxSolves(d, ss, it)
  PROVE  /\ c[DOMAIN ss] \in Reading(Pair)
         /\ PagesRead(c[DOMAIN ss], whole, Len(whole))
<1> DEFINE n == Len(whole)
           A == Reading(Pair)
           g == [p \in A \X (1..n) |-> PptxSlide(p[1], d, ss[p[2]])]
<1>1. n \in Nat
  OBVIOUS
<1>2. \A a \in A, k \in 1..n :
        /\ PptxSlide(a, d, ss[k]) \in A
        /\ PagesRead(a, whole, k - 1) => PagesRead(PptxSlide(a, d, ss[k]), whole, k)
  BY PptxSlideKeeps
<1>3. g \in [A \X (1..n) -> A] /\ Nothing \in A
  BY <1>2, NothingIsReading
<1>4. \A a \in A, k \in 1..n : g[<<a, k>>] = PptxSlide(a, d, ss[k])
  OBVIOUS
<1>5. DOMAIN ss = 1..n
  OBVIOUS
<1> DEFINE G == {p \in A \X Nat : PagesRead(p[1], whole, p[2])}
<1>6. StepKeeps(n, A, g, G)
  <2>1. \A k \in 1..n : k \in Nat /\ k - 1 \in Nat
    BY <1>1, Positions
  <2>2. ASSUME NEW a \in A, NEW k \in 1..n, <<a, k - 1>> \in G
        PROVE  <<g[<<a, k>>], k>> \in G
    BY <1>2, <2>1, <2>2
  <2> HIDE DEF A, g, G
  <2> QED BY <2>2 DEF StepKeeps
<1>7. <<Nothing, 0>> \in G
  <2>1. PagesRead(Nothing, whole, 0)
    BY DEF PagesRead, Copied, Nothing
  <2> HIDE DEF A
  <2> QED BY <1>3, <2>1
<1> HIDE DEF n, A, g, G
<1>8. \E it : LeftFolds(n, A, Nothing, g, it)
  BY <1>1, <1>3, LeftFold
<1>9. PICK it : LeftFolds(n, A, Nothing, g, it)
  BY <1>8
<1>10. PptxSolves(d, ss, it)
  <2>1. \A s \in SUBSET (1..n) :
          it[s] = IF s = {} THEN Nothing
                  ELSE PptxSlide(it[s \ {Max(s)}], d, ss[Max(s)])
    BY <1>4, <1>9 DEF LeftFolds
  <2>2. it = [s \in SUBSET (1..n) |-> it[s]]
    BY <1>9 DEF LeftFolds
  <2> QED BY <1>5, <2>1, <2>2 DEF PptxSolves
<1>11. PptxSolves(d, ss, c)
  BY <1>10
<1>12. \A s \in SUBSET (1..n) :
         c[s] = IF s = {} THEN Nothing ELSE PptxSlide(c[s \ {Max(s)}], d, ss[Max(s)])
  BY <1>5, <1>11 DEF PptxSolves
<1>13. c[{}] = Nothing
  BY <1>12
<1>14. FoldedBy(n, A, g, c)
  BY <1>1, <1>4, <1>12, LastIndex DEF FoldedBy
<1>15. c[1..n] \in A /\ <<c[1..n], n>> \in G
  BY <1>1, <1>3, <1>6, <1>7, <1>13, <1>14, FoldInvariant
<1> QED BY <1>5, <1>15 DEF A, G, n

LEMMA PptxKeepsAll ==
  ASSUME LimitAssumption, None \notin Nat, NEW d, d.kind = "pptx", Parsed(d),
         ~ExtractPptx(d).truncated
  PROVE  ExtractPptx(d).kept
           = LET ss == SlidesOf(d)
             IN  [i \in DOMAIN ss |-> <<ss[i].text, OwnNotes(d, ss[i])>>]
<1> DEFINE ss    == SlidesOf(d)
           c     == CHOOSE it : PptxSolves(d, ss, it)
           whole == [i \in DOMAIN ss |-> <<ss[i].text, OwnNotes(d, ss[i])>>]
           rel   == [type : STRING, target : Nat]
           slide == [number : Nat, text : Nat, relations : Seq(rel)]
<1>1. /\ d.slides \in Seq(slide)
      /\ \A m \in DOMAIN d.notes : d.notes[m] \in Nat
      /\ \A s \in ToSet(d.slides) : \A r, q \in ToSet(s.relations) :
           Bound(d, r) /\ Bound(d, q) => r.target = q.target
  BY DEF Parsed
<1>2. \A s \in slide : /\ s.number \in Nat /\ s.text \in Nat
                       /\ DOMAIN s.relations \subseteq Nat
  <2> HIDE DEF rel
  <2>1. \A r \in Seq(rel) : DOMAIN r = 1..Len(r) /\ Len(r) \in Nat
    BY SequenceParts
  <2>2. \A m \in Nat : 1..m \subseteq Nat
    OBVIOUS
  <2> QED BY <2>1, <2>2
<1> HIDE DEF slide
<1>3. /\ ss \in Seq(ToSet(d.slides)) /\ Len(ss) <= Len(d.slides)
      /\ Len(d.slides) \in Nat
  <2>1. \A s \in slide : s.number \in Nat
    BY <1>2
  <2> HIDE DEF ss
  <2>2. ss \in Seq(ToSet(d.slides)) /\ Len(ss) <= Len(d.slides)
    BY <1>1, <2>1, SlidesAreSorted DEF ss
  <2> QED BY <1>1, <2>2
<1>4. \A s \in ToSet(d.slides) : s \in slide
  BY <1>1 DEF ToSet
<1>5. \A s \in ToSet(d.slides) : s.text \in Nat /\ Notable(d, s)
  BY <1>1, <1>2, <1>4 DEF Notable
<1>6. ExtractPptx(d) = c[DOMAIN ss]
  BY PptxIsFold
<1> HIDE DEF ss
<1>7. /\ DOMAIN ss = 1..Len(ss) /\ Len(ss) \in Nat
      /\ \A k \in 1..Len(ss) : ss[k] \in ToSet(d.slides)
  <2> DEFINE S == ToSet(d.slides)
  <2> HIDE DEF S
  <2>1. ss \in Seq(S)
    BY <1>3 DEF S
  <2>2. DOMAIN ss = 1..Len(ss) /\ Len(ss) \in Nat /\ \A k \in 1..Len(ss) : ss[k] \in S
    BY <2>1, SequenceParts
  <2> QED BY <2>2 DEF S
<1>8. \A s \in ToSet(d.slides) : <<s.text, OwnNotes(d, s)>> \in Pair
  BY <1>5, NotesAreOwn DEF Pair
<1>9. /\ whole \in Seq(Pair) /\ Len(whole) = Len(ss)
      /\ \A k \in 1..Len(ss) : whole[k] = <<ss[k].text, OwnNotes(d, ss[k])>>
  <2> DEFINE at(k) == <<ss[k].text, OwnNotes(d, ss[k])>>
  <2>1. \A k \in 1..Len(ss) : at(k) \in Pair
    BY <1>7, <1>8
  <2>2. whole = [k \in 1..Len(ss) |-> at(k)]
    BY <1>7
  <2>3. \A k \in 1..Len(ss) : whole[k] = at(k)
    BY <2>2
  <2> HIDE DEF at, whole
  <2>4. whole \in [1..Len(ss) -> Pair]
    BY <2>1, <2>2
  <2>5. whole \in Seq(Pair) /\ Len(whole) = Len(ss)
    BY <1>7, <2>4, IsSequence
  <2> QED BY <2>3, <2>5 DEF at
<1>10. \A k \in 1..Len(whole) :
         /\ ss[k].text \in Nat /\ Notable(d, ss[k])
         /\ whole[k] = <<ss[k].text, OwnNotes(d, ss[k])>>
  BY <1>5, <1>7, <1>9
<1> HIDE DEF c, whole
<1>11. /\ c[DOMAIN ss] \in Reading(Pair)
       /\ PagesRead(c[DOMAIN ss], whole, Len(whole))
  BY <1>3, <1>7, <1>9, <1>10, PptxRead DEF c
<1>12. c[DOMAIN ss].kept \in Seq(Pair)
  BY <1>11 DEF Reading
<1>13. ExtractPptx(d).kept = whole
  BY <1>6, <1>9, <1>11, <1>12, CopiedAll DEF PagesRead
<1> QED BY <1>13 DEF whole, ss

-----------------------------------------------------------------------------
(* XLSX: cells in rows in sheets.                                          *)
Cell == [chars : {None} \cup Nat, formula : BOOLEAN]

Book == Reading(Seq(Seq(Nat)))

Chars(row) == [k \in DOMAIN row |-> SafeCell(row[k])]

SheetChars(rows) == [j \in DOMAIN rows |-> Chars(rows[j])]

LEMMA SafeCellIsNat ==
  ASSUME LimitAssumption, NEW cell \in Cell
  PROVE  SafeCell(cell) \in Nat
<1>1. Limit.cell \in Nat /\ Limit.wrapping \in Nat
  BY DEF LimitAssumption
<1>2. cell.chars = None \/ cell.chars \in Nat
  BY DEF Cell
<1>3. cell.chars \in Nat => Min({cell.chars, Limit.cell}) \in Nat
  <2> DEFINE a == cell.chars
             b == Limit.cell
  <2> HIDE DEF a, b
  <2>1. ASSUME a \in Nat, b \in Nat
        PROVE  Min({a, b}) \in {a, b}
    <3>1. a \in Int /\ b \in Int
      BY <2>1
    <3> QED BY <3>1, SmallerOfTwo
  <2> QED BY <1>1, <2>1 DEF a, b
<1> QED BY <1>1, <1>2, <1>3 DEF SafeCell

LEMMA CharsAreRead ==
  ASSUME LimitAssumption, NEW row \in Seq(Cell)
  PROVE  /\ Chars(row) \in Seq(Nat) /\ Len(Chars(row)) = Len(row)
         /\ \A k \in 1..Len(row) : Chars(row)[k] = SafeCell(row[k])
<1>1. DOMAIN row = 1..Len(row) /\ Len(row) \in Nat /\ \A k \in 1..Len(row) : row[k] \in Cell
  BY SequenceParts
<1>2. \A k \in 1..Len(row) : Chars(row)[k] = SafeCell(row[k])
  BY <1>1 DEF Chars
<1>3. Chars(row) \in [1..Len(row) -> Nat]
  BY <1>1, SafeCellIsNat DEF Chars
<1> QED BY <1>1, <1>2, <1>3, IsSequence

LEMMA SheetIsRead ==
  ASSUME LimitAssumption, NEW rows \in Seq(Seq(Cell))
  PROVE  /\ SheetChars(rows) \in Seq(Seq(Nat)) /\ Len(SheetChars(rows)) = Len(rows)
         /\ \A k \in 1..Len(rows) : SheetChars(rows)[k] = Chars(rows[k])
<1>1. /\ DOMAIN rows = 1..Len(rows) /\ Len(rows) \in Nat
      /\ \A k \in 1..Len(rows) : rows[k] \in Seq(Cell)
  BY SequenceParts
<1>2. \A k \in 1..Len(rows) : SheetChars(rows)[k] = Chars(rows[k])
  BY <1>1 DEF SheetChars
<1>3. \A k \in 1..Len(rows) : Chars(rows[k]) \in Seq(Nat)
  BY <1>1, CharsAreRead
<1>4. SheetChars(rows) \in [1..Len(rows) -> Seq(Nat)]
  BY <1>1, <1>3 DEF SheetChars
<1> QED BY <1>1, <1>2, <1>4, IsSequence

(* The cells of a row.                                                     *)
CellsRead(acc, b, whole, k) ==
  /\ acc.sheet = b.sheet /\ acc.kept = b.kept
  /\ acc.truncated \/ Copied(acc.row, whole, k)

LEMMA XlsxCellKeeps ==
  ASSUME LimitAssumption, NEW acc \in Book, NEW b, NEW cell \in Cell,
         NEW whole, NEW k \in Nat \ {0}, whole[k] = SafeCell(cell)
  PROVE  /\ XlsxCell(acc, cell) \in Book
         /\ CellsRead(acc, b, whole, k - 1) => CellsRead(XlsxCell(acc, cell), b, whole, k)
<1>1. CASE acc.truncated
  BY <1>1 DEF XlsxCell, CellsRead
<1>2. CASE ~acc.truncated
  <2> DEFINE safe == SafeCell(cell)
             sum  == acc.total + safe
             more == acc.cells + 1
             line == Append(acc.row, safe)
             next == [acc EXCEPT !.row = line, !.cells = more, !.total = sum]
             over == next.cells > Limit.cells \/ next.total > Limit.text
             new  == XlsxCell(acc, cell)
  <2>1. /\ acc.total \in Nat /\ acc.cells \in Nat /\ acc.row \in Seq(Nat)
        /\ Limit.cells \in Nat /\ Limit.text \in Nat /\ safe \in Nat
    BY SafeCellIsNat DEF Book, Reading, LimitAssumption
  <2>2. new = [next EXCEPT !.truncated = over]
    BY <1>2 DEF XlsxCell
  <2> HIDE DEF safe
  <2>3. sum \in Nat /\ more \in Nat
    BY <2>1, SumOfTwo
  <2>4. line \in Seq(Nat)
    BY <2>1
  <2> HIDE DEF sum, more, line, new
  <2>5. /\ next \in Book /\ next.row = line /\ next.cells = more /\ next.total = sum
        /\ next.sheet = acc.sheet /\ next.kept = acc.kept
    BY <2>3, <2>4 DEF Book, Reading
  <2>6. over \in Truths
    <3>1. over \in BOOLEAN
      BY <2>1, <2>3, <2>5
    <3> HIDE DEF over
    <3> QED BY <3>1 DEF Truths
  <2> HIDE DEF next, over
  <2>7. /\ new \in Book /\ new.row = line
        /\ new.sheet = acc.sheet /\ new.kept = acc.kept
    BY <2>2, <2>5, <2>6 DEF Book, Reading
  <2>8. ASSUME CellsRead(acc, b, whole, k - 1)
        PROVE  CellsRead(new, b, whole, k)
    <3>1. Copied(acc.row, whole, k - 1)
      BY <1>2, <2>8 DEF CellsRead
    <3>2. whole[k] = safe
      BY DEF safe
    <3>3. Copied(line, whole, k)
      BY <2>1, <3>1, <3>2, CopiedNextNat DEF line
    <3> QED BY <2>7, <2>8, <3>3 DEF CellsRead
  <2> QED BY <2>7, <2>8 DEF new
<1> QED BY <1>1, <1>2

CellsSolve(b, row, it) ==
  it = [s \in SUBSET DOMAIN row |->
          IF s = {} THEN b ELSE XlsxCell(it[s \ {Max(s)}], row[Max(s)])]

LEMMA CellsAreFold ==
  ASSUME NEW b, NEW row
  PROVE  FoldLeft(XlsxCell, b, row) = (CHOOSE it : CellsSolve(b, row, it))[DOMAIN row]
  BY DEF FoldLeft, MapThenFoldSet, CellsSolve

LEMMA RowRead ==
  ASSUME LimitAssumption, NEW b \in Book, NEW row \in Seq(Cell),
         NEW whole, \A k \in 1..Len(row) : whole[k] = SafeCell(row[k]),
         b.row = <<>>,
         NEW c, c = CHOOSE it : CellsSolve(b, row, it)
  PROVE  c[DOMAIN row] \in Book /\ CellsRead(c[DOMAIN row], b, whole, Len(row))
<1> DEFINE n == Len(row)
           g == [p \in Book \X (1..n) |-> XlsxCell(p[1], row[p[2]])]
<1>1. n \in Nat /\ DOMAIN row = 1..n /\ \A k \in 1..n : row[k] \in Cell
  BY SequenceParts
<1>2. \A a \in Book, k \in 1..n :
        /\ XlsxCell(a, row[k]) \in Book
        /\ CellsRead(a, b, whole, k - 1) => CellsRead(XlsxCell(a, row[k]), b, whole, k)
  <2>1. \A k \in 1..n : whole[k] = SafeCell(row[k])
    OBVIOUS
  <2> HIDE DEF n
  <2>2. \A k \in 1..n : k \in Nat \ {0}
    BY <1>1, Positions
  <2> QED BY <1>1, <2>1, <2>2, XlsxCellKeeps
<1>3. g \in [Book \X (1..n) -> Book]
  BY <1>2
<1>4. \A a \in Book, k \in 1..n : g[<<a, k>>] = XlsxCell(a, row[k])
  OBVIOUS
<1> DEFINE G == {p \in Book \X Nat : CellsRead(p[1], b, whole, p[2])}
<1> HIDE DEF n, g
<1>5. StepKeeps(n, Book, g, G)
  <2>1. \A k \in 1..n : k \in Nat /\ k - 1 \in Nat
    BY <1>1, Positions
  <2>2. ASSUME NEW a \in Book, NEW k \in 1..n, <<a, k - 1>> \in G
        PROVE  <<g[<<a, k>>], k>> \in G
    BY <1>2, <1>4, <2>1, <2>2
  <2> HIDE DEF G
  <2> QED BY <2>2 DEF StepKeeps
<1>6. <<b, 0>> \in G
  <2>1. CellsRead(b, b, whole, 0)
    BY DEF CellsRead, Copied
  <2> QED BY <2>1
<1> HIDE DEF G
<1>7. \E it : LeftFolds(n, Book, b, g, it)
  BY <1>1, <1>3, LeftFold
<1>8. PICK it : LeftFolds(n, Book, b, g, it)
  BY <1>7
<1>9. CellsSolve(b, row, it)
  <2>1. \A s \in SUBSET (1..n) :
          it[s] = IF s = {} THEN b ELSE XlsxCell(it[s \ {Max(s)}], row[Max(s)])
    BY <1>4, <1>8 DEF LeftFolds
  <2>2. it = [s \in SUBSET (1..n) |-> it[s]]
    BY <1>8 DEF LeftFolds
  <2> QED BY <1>1, <2>1, <2>2 DEF CellsSolve
<1>10. CellsSolve(b, row, c)
  BY <1>9
<1>11. \A s \in SUBSET (1..n) :
         c[s] = IF s = {} THEN b ELSE XlsxCell(c[s \ {Max(s)}], row[Max(s)])
  BY <1>1, <1>10 DEF CellsSolve
<1>12. c[{}] = b
  BY <1>11
<1>13. FoldedBy(n, Book, g, c)
  BY <1>1, <1>4, <1>11, LastIndex DEF FoldedBy
<1>14. c[1..n] \in Book /\ <<c[1..n], n>> \in G
  BY <1>1, <1>3, <1>5, <1>6, <1>12, <1>13, FoldInvariant
<1> QED BY <1>1, <1>14 DEF G, n

LEMMA RowKeepsAll ==
  ASSUME LimitAssumption, NEW acc \in Book, NEW row \in Seq(Cell), NEW next,
         next = FoldLeft(XlsxCell, [acc EXCEPT !.row = <<>>], row)
  PROVE  /\ next \in Book /\ next.sheet = acc.sheet /\ next.kept = acc.kept
         /\ next.truncated \/ next.row = Chars(row)
<1> DEFINE b == [acc EXCEPT !.row = <<>>]
           c == CHOOSE it : CellsSolve(b, row, it)
<1>1. b \in Book /\ b.row = <<>> /\ b.sheet = acc.sheet /\ b.kept = acc.kept
  <2>1. <<>> \in Seq(Nat)
    OBVIOUS
  <2> QED BY <2>1 DEF Book, Reading
<1> HIDE DEF b
<1>2. next = c[DOMAIN row]
  BY CellsAreFold DEF b
<1>3. /\ Chars(row) \in Seq(Nat) /\ Len(Chars(row)) = Len(row)
      /\ \A k \in 1..Len(row) : Chars(row)[k] = SafeCell(row[k])
  BY CharsAreRead
<1> HIDE DEF c
<1>4. next \in Book /\ CellsRead(next, b, Chars(row), Len(row))
  <2>1. c = CHOOSE it : CellsSolve(b, row, it)
    BY DEF c
  <2> DEFINE whole == Chars(row)
  <2>2. \A k \in 1..Len(row) : whole[k] = SafeCell(row[k])
    BY <1>3
  <2> HIDE DEF whole
  <2>3. c[DOMAIN row] \in Book /\ CellsRead(c[DOMAIN row], b, whole, Len(row))
    BY <1>1, <2>1, <2>2, RowRead
  <2> QED
    BY <1>2, <2>3 DEF whole
<1>5. next.row \in Seq(Nat)
  BY <1>4 DEF Book, Reading
<1>6. Copied(next.row, Chars(row), Len(row)) => next.row = Chars(row)
  BY <1>3, <1>5, CopiedAll
<1> QED BY <1>1, <1>4, <1>6 DEF CellsRead

-----------------------------------------------------------------------------
(* The rows of a sheet.                                                    *)
RowsRead(acc, b, whole, k) ==
  /\ acc.kept = b.kept
  /\ acc.truncated \/ acc.failed \/ Copied(acc.sheet, whole, k)

LEMMA XlsxRowKeeps ==
  ASSUME LimitAssumption, NEW acc \in Book, NEW b, NEW row \in Seq(Cell),
         NEW whole, NEW k \in Nat \ {0}, whole[k] = Chars(row)
  PROVE  /\ XlsxRow(acc, row) \in Book
         /\ RowsRead(acc, b, whole, k - 1) => RowsRead(XlsxRow(acc, row), b, whole, k)
<1> DEFINE next == FoldLeft(XlsxCell, [acc EXCEPT !.row = <<>>], row)
           new  == XlsxRow(acc, row)
           line == Append(next.sheet, next.row)
<1>1. /\ next \in Book /\ next.sheet = acc.sheet /\ next.kept = acc.kept
      /\ next.truncated \/ next.row = Chars(row)
  <2> HIDE DEF next
  <2> QED BY RowKeepsAll DEF next
<1>2. \/ new = acc /\ (acc.truncated \/ acc.failed)
      \/ new = [acc EXCEPT !.truncated = TRUE]
      \/ new = [acc EXCEPT !.failed = TRUE]
      \/ new = [next EXCEPT !.sheet = line] /\ ~acc.truncated /\ ~acc.failed
  BY DEF XlsxRow
<1> HIDE DEF next, new
<1>3. line \in Seq(Seq(Nat))
  BY <1>1 DEF Book, Reading
<1> HIDE DEF line
<1>4. CASE new = acc /\ (acc.truncated \/ acc.failed)
  BY <1>4 DEF RowsRead, new
<1>5. CASE new = [acc EXCEPT !.truncated = TRUE]
  <2>1. new \in Book /\ new.truncated /\ new.kept = acc.kept
    BY <1>5 DEF Book, Reading, Truths
  <2> QED BY <2>1 DEF RowsRead, new
<1>6. CASE new = [acc EXCEPT !.failed = TRUE]
  <2>1. new \in Book /\ new.failed /\ new.kept = acc.kept
    BY <1>6 DEF Book, Reading, Truths
  <2> QED BY <2>1 DEF RowsRead, new
<1>7. CASE new = [next EXCEPT !.sheet = line] /\ ~acc.truncated /\ ~acc.failed
  <2>1. /\ new \in Book /\ new.sheet = line /\ new.kept = acc.kept
        /\ new.truncated = next.truncated
    BY <1>1, <1>3, <1>7 DEF Book, Reading
  <2>2. ASSUME RowsRead(acc, b, whole, k - 1), ~next.truncated
        PROVE  Copied(line, whole, k)
    <3>1. Copied(acc.sheet, whole, k - 1)
      BY <1>7, <2>2 DEF RowsRead
    <3>2. /\ next.row \in Seq(Nat) /\ next.row = whole[k]
          /\ acc.sheet \in Seq(Seq(Nat)) /\ next.sheet = acc.sheet
      BY <1>1, <2>2 DEF Book, Reading
    <3> QED BY <3>1, <3>2, CopiedNext DEF line
  <2> QED BY <2>1, <2>2 DEF RowsRead, new
<1> QED BY <1>2, <1>4, <1>5, <1>6, <1>7

RowsSolve(b, rows, it) ==
  it = [s \in SUBSET DOMAIN rows |->
          IF s = {} THEN b ELSE XlsxRow(it[s \ {Max(s)}], rows[Max(s)])]

LEMMA RowsAreFold ==
  ASSUME NEW b, NEW rows
  PROVE  FoldLeft(XlsxRow, b, rows) = (CHOOSE it : RowsSolve(b, rows, it))[DOMAIN rows]
  BY DEF FoldLeft, MapThenFoldSet, RowsSolve

LEMMA SheetRead ==
  ASSUME LimitAssumption, NEW b \in Book, NEW rows \in Seq(Seq(Cell)),
         NEW whole, \A k \in 1..Len(rows) : whole[k] = Chars(rows[k]),
         b.sheet = <<>>,
         NEW c, c = CHOOSE it : RowsSolve(b, rows, it)
  PROVE  c[DOMAIN rows] \in Book /\ RowsRead(c[DOMAIN rows], b, whole, Len(rows))
<1> DEFINE n == Len(rows)
           g == [p \in Book \X (1..n) |-> XlsxRow(p[1], rows[p[2]])]
<1>1. n \in Nat /\ DOMAIN rows = 1..n /\ \A k \in 1..n : rows[k] \in Seq(Cell)
  BY SequenceParts
<1>2. \A a \in Book, k \in 1..n :
        /\ XlsxRow(a, rows[k]) \in Book
        /\ RowsRead(a, b, whole, k - 1) => RowsRead(XlsxRow(a, rows[k]), b, whole, k)
  <2>1. \A k \in 1..n : whole[k] = Chars(rows[k])
    OBVIOUS
  <2> HIDE DEF n
  <2>2. \A k \in 1..n : k \in Nat \ {0}
    BY <1>1, Positions
  <2> QED BY <1>1, <2>1, <2>2, XlsxRowKeeps
<1>3. g \in [Book \X (1..n) -> Book]
  BY <1>2
<1>4. \A a \in Book, k \in 1..n : g[<<a, k>>] = XlsxRow(a, rows[k])
  OBVIOUS
<1> DEFINE G == {p \in Book \X Nat : RowsRead(p[1], b, whole, p[2])}
<1> HIDE DEF n, g
<1>5. StepKeeps(n, Book, g, G)
  <2>1. \A k \in 1..n : k \in Nat /\ k - 1 \in Nat
    BY <1>1, Positions
  <2>2. ASSUME NEW a \in Book, NEW k \in 1..n, <<a, k - 1>> \in G
        PROVE  <<g[<<a, k>>], k>> \in G
    BY <1>2, <1>4, <2>1, <2>2
  <2> HIDE DEF G
  <2> QED BY <2>2 DEF StepKeeps
<1>6. <<b, 0>> \in G
  <2>1. RowsRead(b, b, whole, 0)
    BY DEF RowsRead, Copied
  <2> QED BY <2>1
<1> HIDE DEF G
<1>7. \E it : LeftFolds(n, Book, b, g, it)
  BY <1>1, <1>3, LeftFold
<1>8. PICK it : LeftFolds(n, Book, b, g, it)
  BY <1>7
<1>9. RowsSolve(b, rows, it)
  <2>1. \A s \in SUBSET (1..n) :
          it[s] = IF s = {} THEN b ELSE XlsxRow(it[s \ {Max(s)}], rows[Max(s)])
    BY <1>4, <1>8 DEF LeftFolds
  <2>2. it = [s \in SUBSET (1..n) |-> it[s]]
    BY <1>8 DEF LeftFolds
  <2> QED BY <1>1, <2>1, <2>2 DEF RowsSolve
<1>10. RowsSolve(b, rows, c)
  BY <1>9
<1>11. \A s \in SUBSET (1..n) :
         c[s] = IF s = {} THEN b ELSE XlsxRow(c[s \ {Max(s)}], rows[Max(s)])
  BY <1>1, <1>10 DEF RowsSolve
<1>12. c[{}] = b
  BY <1>11
<1>13. FoldedBy(n, Book, g, c)
  BY <1>1, <1>4, <1>11, LastIndex DEF FoldedBy
<1>14. c[1..n] \in Book /\ <<c[1..n], n>> \in G
  BY <1>1, <1>3, <1>5, <1>6, <1>12, <1>13, FoldInvariant
<1> QED BY <1>1, <1>14 DEF G, n

LEMMA SheetKeepsAll ==
  ASSUME LimitAssumption, NEW acc \in Book, NEW rows \in Seq(Seq(Cell)), NEW next,
         next = FoldLeft(XlsxRow, [acc EXCEPT !.sheet = <<>>], rows)
  PROVE  /\ next \in Book /\ next.kept = acc.kept
         /\ next.truncated \/ next.failed \/ next.sheet = SheetChars(rows)
<1> DEFINE b == [acc EXCEPT !.sheet = <<>>]
           c == CHOOSE it : RowsSolve(b, rows, it)
<1>1. b \in Book /\ b.sheet = <<>> /\ b.kept = acc.kept
  <2>1. <<>> \in Seq(Seq(Nat))
    OBVIOUS
  <2> QED BY <2>1 DEF Book, Reading
<1> HIDE DEF b
<1>2. next = c[DOMAIN rows]
  BY RowsAreFold DEF b
<1>3. /\ SheetChars(rows) \in Seq(Seq(Nat)) /\ Len(SheetChars(rows)) = Len(rows)
      /\ \A k \in 1..Len(rows) : SheetChars(rows)[k] = Chars(rows[k])
  BY SheetIsRead
<1> HIDE DEF c
<1>4. next \in Book /\ RowsRead(next, b, SheetChars(rows), Len(rows))
  BY <1>1, <1>2, <1>3, SheetRead DEF c
<1>5. next.sheet \in Seq(Seq(Nat))
  BY <1>4 DEF Book, Reading
<1>6. Copied(next.sheet, SheetChars(rows), Len(rows)) => next.sheet = SheetChars(rows)
  BY <1>3, <1>5, CopiedAll
<1> QED BY <1>1, <1>4, <1>6 DEF RowsRead

-----------------------------------------------------------------------------
(* The sheets of a workbook.                                               *)
LEMMA XlsxSheetKeeps ==
  ASSUME LimitAssumption, NEW acc \in Book, NEW rows \in Seq(Seq(Cell)),
         NEW whole, NEW k \in Nat \ {0}, whole[k] = SheetChars(rows)
  PROVE  /\ XlsxSheet(acc, rows) \in Book
         /\ TableRead(acc, whole, k - 1) => TableRead(XlsxSheet(acc, rows), whole, k)
<1> DEFINE next == FoldLeft(XlsxRow, [acc EXCEPT !.sheet = <<>>], rows)
           new  == XlsxSheet(acc, rows)
           all  == Append(next.kept, next.sheet)
<1>1. /\ next \in Book /\ next.kept = acc.kept
      /\ next.truncated \/ next.failed \/ next.sheet = SheetChars(rows)
  <2> HIDE DEF next
  <2> QED BY SheetKeepsAll DEF next
<1>2. \/ new = acc /\ (acc.truncated \/ acc.failed)
      \/ new = [next EXCEPT !.kept = all] /\ ~acc.truncated /\ ~acc.failed
  BY DEF XlsxSheet
<1> HIDE DEF next, new
<1>3. all \in Seq(Seq(Seq(Nat)))
  BY <1>1 DEF Book, Reading
<1> HIDE DEF all
<1>4. CASE new = acc /\ (acc.truncated \/ acc.failed)
  BY <1>4 DEF TableRead, new
<1>5. CASE new = [next EXCEPT !.kept = all] /\ ~acc.truncated /\ ~acc.failed
  <2>1. /\ new \in Book /\ new.kept = all
        /\ new.truncated = next.truncated /\ new.failed = next.failed
    BY <1>1, <1>3, <1>5 DEF Book, Reading
  <2>2. ASSUME TableRead(acc, whole, k - 1), ~next.truncated, ~next.failed
        PROVE  Copied(all, whole, k)
    <3>1. Copied(acc.kept, whole, k - 1)
      BY <1>5, <2>2 DEF TableRead
    <3>2. /\ next.sheet \in Seq(Seq(Nat)) /\ next.sheet = whole[k]
          /\ acc.kept \in Seq(Seq(Seq(Nat))) /\ next.kept = acc.kept
      BY <1>1, <2>2 DEF Book, Reading
    <3> QED BY <3>1, <3>2, CopiedNext DEF all
  <2> QED BY <2>1, <2>2 DEF TableRead, new
<1> QED BY <1>2, <1>4, <1>5

SheetsSolve(b, sheets, it) ==
  it = [s \in SUBSET DOMAIN sheets |->
          IF s = {} THEN b ELSE XlsxSheet(it[s \ {Max(s)}], sheets[Max(s)])]

LEMMA XlsxIsFold ==
  ASSUME NEW d, ~ExtractXlsx(d).failed
  PROVE  ExtractXlsx(d)
           = (CHOOSE it : SheetsSolve(Nothing, d.sheets, it))[DOMAIN d.sheets]
<1>1. ExtractXlsx(d) = FoldLeft(XlsxSheet, Nothing, d.sheets)
  BY DEF ExtractXlsx, Nothing
<1> QED BY <1>1 DEF FoldLeft, MapThenFoldSet, SheetsSolve

LEMMA BookRead ==
  ASSUME LimitAssumption, NEW b \in Book, NEW sheets \in Seq(Seq(Seq(Cell))),
         NEW whole, \A k \in 1..Len(sheets) : whole[k] = SheetChars(sheets[k]),
         b.kept = <<>>,
         NEW c, c = CHOOSE it : SheetsSolve(b, sheets, it)
  PROVE  c[DOMAIN sheets] \in Book /\ TableRead(c[DOMAIN sheets], whole, Len(sheets))
<1> DEFINE n == Len(sheets)
           g == [p \in Book \X (1..n) |-> XlsxSheet(p[1], sheets[p[2]])]
<1>1. n \in Nat /\ DOMAIN sheets = 1..n /\ \A k \in 1..n : sheets[k] \in Seq(Seq(Cell))
  BY SequenceParts
<1>2. \A a \in Book, k \in 1..n :
        /\ XlsxSheet(a, sheets[k]) \in Book
        /\ TableRead(a, whole, k - 1) => TableRead(XlsxSheet(a, sheets[k]), whole, k)
  <2>1. \A k \in 1..n : whole[k] = SheetChars(sheets[k])
    OBVIOUS
  <2> HIDE DEF n
  <2>2. \A k \in 1..n : k \in Nat \ {0}
    BY <1>1, Positions
  <2> QED BY <1>1, <2>1, <2>2, XlsxSheetKeeps
<1>3. g \in [Book \X (1..n) -> Book]
  BY <1>2
<1>4. \A a \in Book, k \in 1..n : g[<<a, k>>] = XlsxSheet(a, sheets[k])
  OBVIOUS
<1> DEFINE G == {p \in Book \X Nat : TableRead(p[1], whole, p[2])}
<1> HIDE DEF n, g
<1>5. StepKeeps(n, Book, g, G)
  <2>1. \A k \in 1..n : k \in Nat /\ k - 1 \in Nat
    BY <1>1, Positions
  <2>2. ASSUME NEW a \in Book, NEW k \in 1..n, <<a, k - 1>> \in G
        PROVE  <<g[<<a, k>>], k>> \in G
    BY <1>2, <1>4, <2>1, <2>2
  <2> HIDE DEF G
  <2> QED BY <2>2 DEF StepKeeps
<1>6. <<b, 0>> \in G
  <2>1. TableRead(b, whole, 0)
    BY DEF TableRead, Copied
  <2> QED BY <2>1
<1> HIDE DEF G
<1>7. \E it : LeftFolds(n, Book, b, g, it)
  BY <1>1, <1>3, LeftFold
<1>8. PICK it : LeftFolds(n, Book, b, g, it)
  BY <1>7
<1>9. SheetsSolve(b, sheets, it)
  <2>1. \A s \in SUBSET (1..n) :
          it[s] = IF s = {} THEN b ELSE XlsxSheet(it[s \ {Max(s)}], sheets[Max(s)])
    BY <1>4, <1>8 DEF LeftFolds
  <2>2. it = [s \in SUBSET (1..n) |-> it[s]]
    BY <1>8 DEF LeftFolds
  <2> QED BY <1>1, <2>1, <2>2 DEF SheetsSolve
<1>10. SheetsSolve(b, sheets, c)
  BY <1>9
<1>11. \A s \in SUBSET (1..n) :
         c[s] = IF s = {} THEN b ELSE XlsxSheet(c[s \ {Max(s)}], sheets[Max(s)])
  BY <1>1, <1>10 DEF SheetsSolve
<1>12. c[{}] = b
  BY <1>11
<1>13. FoldedBy(n, Book, g, c)
  BY <1>1, <1>4, <1>11, LastIndex DEF FoldedBy
<1>14. c[1..n] \in Book /\ <<c[1..n], n>> \in G
  BY <1>1, <1>3, <1>5, <1>6, <1>12, <1>13, FoldInvariant
<1> QED BY <1>1, <1>14 DEF G, n

LEMMA XlsxKeepsAll ==
  ASSUME LimitAssumption, NEW d, d.kind = "xlsx", Parsed(d),
         ~ExtractXlsx(d).truncated, ~ExtractXlsx(d).failed
  PROVE  ExtractXlsx(d).kept = [i \in DOMAIN d.sheets |-> SheetChars(d.sheets[i])]
<1> DEFINE c     == CHOOSE it : SheetsSolve(Nothing, d.sheets, it)
           whole == [i \in DOMAIN d.sheets |-> SheetChars(d.sheets[i])]
<1>1. d.sheets \in Seq(Seq(Seq(Cell)))
  BY DEF Parsed, Cell
<1>2. ExtractXlsx(d) = c[DOMAIN d.sheets]
  BY XlsxIsFold
<1>3. /\ DOMAIN d.sheets = 1..Len(d.sheets) /\ Len(d.sheets) \in Nat
      /\ \A k \in 1..Len(d.sheets) : d.sheets[k] \in Seq(Seq(Cell))
  <2> DEFINE K == Seq(Seq(Cell))
  <2> HIDE DEF K
  <2>1. d.sheets \in Seq(K)
    BY <1>1 DEF K
  <2>2. /\ DOMAIN d.sheets = 1..Len(d.sheets) /\ Len(d.sheets) \in Nat
        /\ \A k \in 1..Len(d.sheets) : d.sheets[k] \in K
    BY <2>1, SequenceParts
  <2> QED BY <2>2 DEF K
<1>4. /\ whole \in [1..Len(d.sheets) -> Seq(Seq(Nat))]
      /\ \A k \in 1..Len(d.sheets) : whole[k] = SheetChars(d.sheets[k])
  BY <1>3, SheetIsRead
<1> HIDE DEF c, whole
<1>5. whole \in Seq(Seq(Seq(Nat))) /\ Len(whole) = Len(d.sheets)
  BY <1>3, <1>4, IsSequence
<1>6. Nothing \in Book /\ Nothing.kept = <<>>
  BY NothingIsReading DEF Book, Nothing
<1>7. /\ c[DOMAIN d.sheets] \in Book
      /\ TableRead(c[DOMAIN d.sheets], whole, Len(d.sheets))
  BY <1>1, <1>4, <1>6, BookRead DEF c
<1>8. c[DOMAIN d.sheets].kept \in Seq(Seq(Seq(Nat)))
  BY <1>7 DEF Book, Reading
<1>9. ExtractXlsx(d).kept = whole
  BY <1>2, <1>5, <1>7, <1>8, CopiedAll DEF TableRead
<1> QED BY <1>9 DEF whole

-----------------------------------------------------------------------------
LEMMA NothingIsLost ==
  ASSUME LimitAssumption, None \notin Nat, NEW d, d.kind \in Kinds, Parsed(d),
         ~Extract(d).failed, ~Extract(d).truncated
  PROVE  Extract(d).kept = Whole(d)
<1>1. CASE d.kind = "pdf"
  <2>1. Extract(d) = ExtractPdf(d)
    BY <1>1 DEF Extract
  <2>2. Whole(d) = [i \in DOMAIN d.pages |-> d.pages[i].text]
    BY <1>1 DEF Whole
  <2> QED BY <1>1, <2>1, <2>2, PdfKeepsAll
<1>2. CASE d.kind = "pptx"
  <2>1. Extract(d) = ExtractPptx(d)
    BY <1>2 DEF Extract
  <2>2. Whole(d) = LET ss == SlidesOf(d)
                   IN  [i \in DOMAIN ss |-> <<ss[i].text, OwnNotes(d, ss[i])>>]
    BY <1>2 DEF Whole
  <2> QED BY <1>2, <2>1, <2>2, PptxKeepsAll
<1>3. CASE d.kind = "xlsx"
  <2>1. Extract(d) = ExtractXlsx(d)
    BY <1>3 DEF Extract
  <2>2. Whole(d) = [i \in DOMAIN d.sheets |-> SheetChars(d.sheets[i])]
    BY <1>3 DEF Whole, SheetChars, Chars
  <2> QED BY <1>3, <2>1, <2>2, XlsxKeepsAll
<1>4. CASE d.kind = "csv"
  <2>1. Extract(d) = ExtractCsv(d) /\ Whole(d) = d.rows
    BY <1>4 DEF Extract, Whole
  <2>2. d.rows \in Seq(Seq(Nat))
    BY <1>4 DEF Parsed
  <2> QED BY <2>1, <2>2, CsvKeepsAll
<1> QED BY <1>1, <1>2, <1>3, <1>4 DEF Kinds

(* Of every document, with any limits: an extraction that is not marked as *)
(* truncated has every page, row, cell and slide of it, in order, and each *)
(* slide with its own notes (vcops.py:1222-1420).                          *)
THEOREM NothingIsLostSilently == DocumentSpec => []NothingLostSilently
<1>1. NothingLostSilently
  BY NothingIsLost, LimitAssumption, DocumentsAssumption DEF NothingLostSilently
<1> QED BY <1>1, PTL
=============================================================================
