--------------------------- MODULE EvidenceLedger ---------------------------
(***************************************************************************)
(* The append-only facts of a company's leads, the approvals that govern   *)
(* their erasure, and the transactions that work on them side by side:     *)
(* evidence-record, fact-add, fact-promote, data-erase-lead and            *)
(* compiled-truth of vcops.py over migrations 001, 004, 012 and 017.       *)
(*                                                                         *)
(* Every helper is one READ COMMITTED transaction.  A step is a statement  *)
(* that waits for a lock or reads what another transaction may change      *)
(* before the next one; what a transaction writes is seen by the others    *)
(* when it commits.  The row locks are those PostgreSQL takes: FOR UPDATE, *)
(* FOR SHARE and the FOR KEY SHARE of a foreign key.  A superseding        *)
(* retraction is a pair <<fact, approval>>, since one erasure writes at    *)
(* most one for a fact.  All facts belong to leads of one company, are     *)
(* above the confidence floor and free of contradictions.                  *)
(***************************************************************************)
EXTENDS Naturals, Sequences, FiniteSets, Absence

CONSTANTS
  Workers,        \* helper processes
  Leads,
  Facts,          \* identities of fact rows
  Claims,         \* claim hashes
  Sources,
  Approvals,
  ContentOf,      \* the independence key of a source, None if it has none
  Official,       \* sources whose kind promotes alone
  Excluded,       \* sources of an excluded trust level
  MinIndependent

ASSUME LedgerAssumption ==
  /\ None \notin Workers \cup Leads \cup Facts \cup Claims \cup Sources \cup Approvals
  /\ IsFiniteSet(Sources) /\ DOMAIN ContentOf = Sources
  /\ Official \subseteq Sources /\ Excluded \subseteq Sources
  /\ MinIndependent \in Nat \ {0}

VARIABLES
  fact,       \* the committed fact rows
  tombs,      \* the committed retractions: <<superseded fact, approval>>
  archived,   \* leads with status archived
  approval,   \* the approval rows
  lapsed,     \* approvals whose expires_at has passed
  spent,      \* audit: the leads erased under each approval, in order
  truth,      \* the current snapshot of each lead, as the rows it froze
  pc, arg,    \* where each transaction stands and what it was called with
  seen        \* the rows it read without locking them

vars == <<fact, tombs, archived, approval, lapsed, spent, truth, pc, arg, seen>>
table == <<fact, tombs, archived, approval, spent, truth>>

NoFact == [status |-> "none", lead |-> None, claim |-> None,
           supersedes |-> None, srcs |-> {}]
FactRow(s, l, c, f, S) == [status |-> s, lead |-> l, claim |-> c,
                           supersedes |-> f, srcs |-> S]
Arg(l, f, c, s, a) == [lead |-> l, fact |-> f, claim |-> c, src |-> s, appr |-> a]
NoArg == Arg(None, None, None, None, None)

Statuses == {"submitted_claim", "verified_fact", "contradicted"}
FactRows == [status : Statuses \cup {"none"}, lead : Leads \cup {None},
             claim : Claims \cup {None}, supersedes : Facts \cup {None},
             srcs : SUBSET Sources]
Args == [lead : Leads \cup {None}, fact : Facts \cup {None}, claim : Claims \cup {None},
         src : Sources \cup {None}, appr : Approvals \cup {None}]
Grants == [status : {"absent", "pending", "approved", "rejected", "consumed"},
           lead : Leads \cup {None}]
Stages == {"idle", "dedupe", "write", "recorded",       \* evidence-record
           "promote", "insert", "promoted",             \* fact-promote
           "lead", "retract", "verify", "retracted",    \* data-erase-lead
           "reading", "compiled"}                       \* compiled-truth

Init ==
  /\ fact = [f \in Facts |-> NoFact] /\ tombs = {} /\ archived = {}
  /\ approval = [a \in Approvals |-> [status |-> "absent", lead |-> None]]
  /\ lapsed = {} /\ spent = [a \in Approvals |-> <<>>]
  /\ truth = [l \in Leads |-> {}]
  /\ pc = [p \in Workers |-> "idle"] /\ arg = [p \in Workers |-> NoArg]
  /\ seen = [p \in Workers |-> {}]

-----------------------------------------------------------------------------
Rows(l) == {f \in Facts : fact[f].status # "none" /\ fact[f].lead = l}
Tombstoned == {f \in Facts : \E a \in Approvals : <<f, a>> \in tombs}
Superseded(f) == f \in Tombstoned \/ \E g \in Facts : fact[g].supersedes = f
Live(l) == {f \in Rows(l) : ~Superseded(f)}
Free == {f \in Facts : fact[f].status = "none"}

(* Bound: there is a row identity left for everybody who may insert one.   *)
Room == Cardinality(Free) > Cardinality({p \in Workers : pc[p] # "idle"})

(* The corroboration predicate of promote_submitted_claim.                 *)
Corroborated(S) ==
  LET admitted == S \ Excluded IN
  \/ Cardinality({ContentOf[s] : s \in admitted} \ {None}) >= MinIndependent
  \/ admitted \cap Official # {}

(* Who else holds which lock.                                              *)
LeadLocked(l, p) ==
  \E q \in Workers \ {p} : arg[q].lead = l /\ pc[q] \in {"retract", "verify", "retracted"}

(* Mutant: compiled-truth reads the lead without FOR SHARE.                *)
LeadSharedByInserts(l, p) ==
  \E q \in Workers \ {p} :
    /\ arg[q].lead = l
    /\ pc[q] = "promoted" \/ (pc[q] = "recorded" /\ arg[q].fact = None)

LeadShared(l, p) ==
  \E q \in Workers \ {p} :
    /\ arg[q].lead = l
    /\ \/ pc[q] \in {"promoted", "reading", "compiled"}
       \/ pc[q] = "recorded" /\ arg[q].fact = None

(* Mutant: promotion reads its claim without FOR UPDATE.                   *)
ClaimNeverLocked(f, p) == FALSE

FactLocked(f, p) ==
  \E q \in Workers \ {p} : arg[q].fact = f /\ pc[q] \in {"insert", "promoted"}
FactShared(f, p) ==
  \E q \in Workers \ {p} :
    \/ pc[q] = "recorded" /\ arg[q].fact = f
    \/ pc[q] = "retracted" /\ f \in seen[q]

(* Mutant: the token row is read without FOR UPDATE.                       *)
TokenNeverLocked(a) == FALSE

ApprovalLocked(a) ==
  \E q \in Workers : arg[q].appr = a /\ pc[q] \in {"lead", "retract", "verify", "retracted"}

(* Mutant: no advisory lock on the company.                                *)
NobodyRecording == FALSE

Recording == \E q \in Workers : pc[q] \in {"dedupe", "write", "recorded"}
Compiling(l) == \E q \in Workers : arg[q].lead = l /\ pc[q] \in {"reading", "compiled"}

Enter(p, stage, a) ==
  /\ pc' = [pc EXCEPT ![p] = stage] /\ arg' = [arg EXCEPT ![p] = a]
  /\ UNCHANGED <<table, lapsed, seen>>
Reach(p, stage) ==
  pc' = [pc EXCEPT ![p] = stage] /\ UNCHANGED <<table, lapsed, arg, seen>>
Leave(p) ==
  /\ pc' = [pc EXCEPT ![p] = "idle"] /\ arg' = [arg EXCEPT ![p] = NoArg]
  /\ seen' = [seen EXCEPT ![p] = {}]
Rollback(p) == Leave(p) /\ UNCHANGED <<table, lapsed>>

-----------------------------------------------------------------------------
(* fact-add: the operator states a fact; only a sourced one is verified.   *)
FactAdd ==
  \E l \in Leads, s \in Statuses, S \in SUBSET Sources :
    /\ Room /\ ~LeadLocked(l, None)
    /\ s = "verified_fact" => S # {}
    /\ \E f \in Free : fact' = [fact EXCEPT ![f] = FactRow(s, l, None, None, S)]
    /\ UNCHANGED <<tombs, archived, approval, lapsed, spent, truth, pc, arg, seen>>

(* evidence-record, under the advisory lock of the company.                *)
RecordBegin(p) ==
  /\ pc[p] = "idle" /\ Room /\ ~Recording
  /\ \E l \in Leads, c \in Claims, s \in Sources :
       Enter(p, "dedupe", Arg(l, None, c, s, None))

Deduplicate(p) ==
  LET same == {f \in Live(arg[p].lead) : /\ fact[f].claim = arg[p].claim
                                         /\ fact[f].status # "contradicted"} IN
  /\ pc[p] = "dedupe"
  /\ IF same = {} THEN Reach(p, "write")
     ELSE \E f \in same :
            Enter(p, "write", Arg(arg[p].lead, f, arg[p].claim, arg[p].src, None))

MayWrite(p) == IF arg[p].fact = None THEN ~LeadLocked(arg[p].lead, p)
               ELSE ~FactLocked(arg[p].fact, p)
RecordWrite(p) == pc[p] = "write" /\ MayWrite(p) /\ Reach(p, "recorded")

RecordCommit(p) ==
  LET a == arg[p] IN
  /\ pc[p] = "recorded" /\ Leave(p)
  /\ \/ /\ a.fact = None
        /\ \E f \in Free :
             fact' = [fact EXCEPT ![f] = FactRow("submitted_claim", a.lead, a.claim,
                                                 None, {a.src})]
     \/ /\ a.fact # None
        /\ fact' = [fact EXCEPT ![a.fact].srcs = @ \cup {a.src}]
  /\ UNCHANGED <<tombs, archived, approval, lapsed, spent, truth>>

(* fact-promote looks without a lock and then calls                        *)
(* promote_submitted_claim, which looks again under FOR UPDATE.            *)
PromoteBegin(p) ==
  /\ pc[p] = "idle" /\ Room
  /\ \E f \in Facts :
       /\ fact[f].status = "submitted_claim" /\ ~Superseded(f)
       /\ Enter(p, "promote", Arg(fact[f].lead, f, None, None, None))

MayPromote(p) == ~FactLocked(arg[p].fact, p) /\ ~FactShared(arg[p].fact, p)

(* Mutant: any source corroborates.                                        *)
PromoteOnAnySource(p) ==
  LET f == arg[p].fact IN
  /\ pc[p] = "promote" /\ MayPromote(p)
  /\ \/ Superseded(f) /\ Rollback(p)
     \/ ~Superseded(f) /\ Reach(p, "insert")

PromoteLock(p) ==
  LET f == arg[p].fact IN
  /\ pc[p] = "promote" /\ MayPromote(p)
  /\ \/ Superseded(f) /\ Rollback(p)
     \/ ~Superseded(f) /\ ~Corroborated(fact[f].srcs) /\ Rollback(p)
     \/ ~Superseded(f) /\ Corroborated(fact[f].srcs) /\ Reach(p, "insert")

PromoteInsert(p) == pc[p] = "insert" /\ ~LeadLocked(arg[p].lead, p) /\ Reach(p, "promoted")

PromoteCommit(p) ==
  LET f == arg[p].fact IN
  /\ pc[p] = "promoted" /\ Leave(p)
  /\ \E g \in Free :
       fact' = [fact EXCEPT ![g] = FactRow("verified_fact", fact[f].lead, fact[f].claim,
                                           f, fact[f].srcs)]
  /\ UNCHANGED <<tombs, archived, approval, lapsed, spent, truth>>

-----------------------------------------------------------------------------
(* approval-request and approval-decide are single statements.             *)
Request ==
  \E a \in Approvals, l \in Leads :
    /\ approval[a].status = "absent"
    /\ approval' = [approval EXCEPT ![a] = [status |-> "pending", lead |-> l]]
    /\ UNCHANGED <<fact, tombs, archived, lapsed, spent, truth, pc, arg, seen>>

Decide ==
  \E a \in Approvals, s \in {"approved", "rejected"} :
    /\ approval[a].status = "pending" /\ a \notin lapsed
    /\ approval' = [approval EXCEPT ![a].status = s]
    /\ UNCHANGED <<fact, tombs, archived, lapsed, spent, truth, pc, arg, seen>>

Lapse ==
  \E a \in Approvals \ lapsed :
    /\ approval[a].status # "absent"
    /\ lapsed' = lapsed \cup {a} /\ UNCHANGED <<table, pc, arg, seen>>

(* data-erase-lead: consume_approval, then the lead, then its facts.       *)
EraseBegin(p) ==
  /\ pc[p] = "idle"
  /\ \E a \in Approvals, l \in Leads :
       /\ ~ApprovalLocked(a)
       /\ approval[a].status = "approved" /\ a \notin lapsed
       /\ approval[a].lead = l
       /\ Enter(p, "lead", Arg(l, None, None, None, a))

MayLockLead(p) == ~LeadLocked(arg[p].lead, p) /\ ~LeadShared(arg[p].lead, p)

(* Mutant: the lead is read without FOR UPDATE.                            *)
EraseUnlocked(p) == pc[p] = "lead" /\ Reach(p, "retract")

EraseLock(p) == pc[p] = "lead" /\ MayLockLead(p) /\ Reach(p, "retract")

EraseRetract(p) ==
  /\ pc[p] = "retract"
  /\ pc' = [pc EXCEPT ![p] = "verify"]
  /\ seen' = [seen EXCEPT ![p] = Live(arg[p].lead)]
  /\ UNCHANGED <<table, lapsed, arg>>

MayRetract(p) == \A f \in seen[p] : ~FactLocked(f, p)
EraseVerify(p) == pc[p] = "verify" /\ MayRetract(p) /\ Reach(p, "retracted")

EraseCommit(p) ==
  LET a == arg[p].appr IN
  /\ pc[p] = "retracted" /\ Leave(p)
  /\ tombs' = tombs \cup {<<f, a>> : f \in seen[p]}
  /\ archived' = archived \cup {arg[p].lead}
  /\ approval' = [approval EXCEPT ![a].status = "consumed"]
  /\ spent' = [spent EXCEPT ![a] = Append(@, arg[p].lead)]
  /\ UNCHANGED <<fact, lapsed, truth>>

-----------------------------------------------------------------------------
(* compiled-truth holds the lead FOR SHARE and the advisory lock of the    *)
(* lead.  It freezes every row: <<f, 0>> is the fact, <<f, 1>> the         *)
(* retraction that supersedes it.                                          *)
Frozen(l) == Rows(l) \X {0} \cup (Rows(l) \cap Tombstoned) \X {1}
CurrentIn(rows) == {f \in Facts : /\ <<f, 0>> \in rows
                                  /\ fact[f].status = "verified_fact"
                                  /\ fact[f].srcs # {}}
ErasedIn(rows) == {f \in Facts : <<f, 1>> \in rows}

CompileBegin(p) ==
  /\ pc[p] = "idle"
  /\ \E l \in Leads : /\ ~LeadLocked(l, p) /\ ~Compiling(l)
                      /\ Enter(p, "reading", Arg(l, None, None, None, None))

CompileRead(p) ==
  LET rows == Frozen(arg[p].lead) IN
  /\ pc[p] = "reading"
  /\ \/ CurrentIn(rows) = {} /\ Rollback(p)
     \/ /\ CurrentIn(rows) # {}
        /\ pc' = [pc EXCEPT ![p] = "compiled"]
        /\ seen' = [seen EXCEPT ![p] = rows]
        /\ UNCHANGED <<table, lapsed, arg>>

MayFreeze(p) == \A f \in Facts : <<f, 0>> \in seen[p] => ~FactLocked(f, p)
CompileCommit(p) ==
  /\ pc[p] = "compiled" /\ MayFreeze(p) /\ Leave(p)
  /\ truth' = [truth EXCEPT ![arg[p].lead] = seen[p]]
  /\ UNCHANGED <<fact, tombs, archived, approval, lapsed, spent>>

-----------------------------------------------------------------------------
Waiting(p) ==
  \/ pc[p] = "write" /\ ~MayWrite(p)
  \/ pc[p] = "promote" /\ ~MayPromote(p)
  \/ pc[p] = "insert" /\ LeadLocked(arg[p].lead, p)
  \/ pc[p] = "lead" /\ ~MayLockLead(p)
  \/ pc[p] = "verify" /\ ~MayRetract(p)
  \/ pc[p] = "compiled" /\ ~MayFreeze(p)

(* Mutant: lock waits have no bound.                                       *)
WaitForever(p) == FALSE /\ Waiting(p) /\ Rollback(p)

(* lock_timeout, or the deadlock detector before it, ends a wait.          *)
LockTimeout(p) == Waiting(p) /\ Rollback(p)

(* A helper that is killed takes its transaction with it.                  *)
Killed(p) == pc[p] # "idle" /\ Rollback(p)

Advance(p) ==
  \/ Deduplicate(p) \/ RecordWrite(p) \/ RecordCommit(p)
  \/ PromoteLock(p) \/ PromoteInsert(p) \/ PromoteCommit(p)
  \/ EraseLock(p) \/ EraseRetract(p) \/ EraseVerify(p) \/ EraseCommit(p)
  \/ CompileRead(p) \/ CompileCommit(p)

Next ==
  \/ FactAdd \/ Request \/ Decide \/ Lapse
  \/ \E p \in Workers :
       \/ RecordBegin(p) \/ PromoteBegin(p) \/ EraseBegin(p) \/ CompileBegin(p)
       \/ Advance(p) \/ LockTimeout(p) \/ Killed(p)

Spec == Init /\ [][Next]_vars

(* PostgreSQL executes the statements of an open transaction, and bounds   *)
(* every lock wait of the runtime role by ten seconds.                     *)
FairSpec == Spec /\ \A p \in Workers : WF_vars(Advance(p) \/ LockTimeout(p))

-----------------------------------------------------------------------------
(* Type invariant.  A retraction names a fact that exists, and an approval *)
(* is bound to its lead from the start.                                    *)
TypeOK ==
  /\ fact \in [Facts -> FactRows]
  /\ \A f \in Facts : fact[f].status = "none" \/ fact[f].lead \in Leads
  /\ tombs \subseteq (Facts \ Free) \X Approvals
  /\ archived \subseteq Leads /\ lapsed \subseteq Approvals
  /\ approval \in [Approvals -> Grants]
  /\ \A a \in Approvals : approval[a].status = "absent" \/ approval[a].lead \in Leads
  /\ spent \in [Approvals -> Seq(Leads)]
  /\ truth \in [Leads -> SUBSET (Facts \X {0, 1})]
  /\ pc \in [Workers -> Stages] /\ arg \in [Workers -> Args]
  /\ seen \in [Workers -> SUBSET (Facts \cup Facts \X {0, 1})]

(* A fact is superseded at most once, although no unique index says so and *)
(* promotion and erasure lock different rows first: the foreign keys of    *)
(* their inserts make them meet.                                           *)
SupersededOnce ==
  \A f \in Facts :
    /\ \A g, h \in Facts : fact[g].supersedes = f /\ fact[h].supersedes = f => g = h
    /\ \A a, b \in Approvals : <<f, a>> \in tombs /\ <<f, b>> \in tombs => a = b
    /\ f \in Tombstoned => \A g \in Facts : fact[g].supersedes # f

(* Concurrent evidence-record calls never leave two live rows of a claim,  *)
(* also while one of them is being promoted.                               *)
OneLiveRowPerClaim ==
  \A l \in Leads : \A f, g \in Live(l) :
    fact[f].claim # None /\ fact[f].claim = fact[g].claim => f = g

(* A claim becomes a verified fact only on independent sources, and the    *)
(* verified row carries them itself.                                       *)
PromotedIsCorroborated ==
  \A f \in Facts : fact[f].supersedes # None => Corroborated(fact[f].srcs)

(* One approval pays for one erasure, of the lead in its scope, and is     *)
(* consumed with it.                                                       *)
ApprovalSpentOnce ==
  \A a \in Approvals :
    /\ spent[a] \in {<<>>, <<approval[a].lead>>}
    /\ (approval[a].status = "consumed") <=> (spent[a] # <<>>)

(* When an erasure commits, no live fact of the lead is left: neither one  *)
(* that was being recorded nor one that was being promoted meanwhile.      *)
ErasureIsComplete ==
  [][\A a \in Approvals : spent'[a] # spent[a] => Live(approval[a].lead)' = {}]_vars

(* A snapshot is not torn by an erasure: it is committed with every        *)
(* retraction that is then on record.                                      *)
SnapshotSeesErasure ==
  [][\A l \in Leads :
       truth'[l] # truth[l] => ErasedIn(truth'[l]) = Rows(l) \cap Tombstoned']_vars

(* docs/WORKFLOWS.md 377-380: in a snapshot the superseded predecessor is  *)
(* present as historical.  compiled-truth looks at the status alone.       *)
SupersededIsNotCurrent ==
  \A l \in Leads : CurrentIn(truth[l]) \cap ErasedIn(truth[l]) = {}

(* Every transaction ends: the lock cycles of promotion and erasure break. *)
TransactionsEnd == \A p \in Workers : pc[p] # "idle" ~> pc[p] = "idle"
=============================================================================
