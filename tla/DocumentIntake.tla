--------------------------- MODULE DocumentIntake ---------------------------
(***************************************************************************)
(* What happens to a document: the inbound-intake lane of the host         *)
(* operator and the document-ingest lane of a channel attachment, from the *)
(* preview to the extraction record, the quarantine of what is rejected,   *)
(* the reading of an extraction, and document-lead-intake, which binds a   *)
(* channel extraction to a lead.  Companies, leads and runs are Intake's.  *)
(*                                                                         *)
(* The file at a path can be replaced between any two reads.  A digest     *)
(* stands for the bytes that have it.  inspect_document parses the file    *)
(* and hashes it in two reads.  Each database transaction is one step: it  *)
(* waits on the unique index or row of the artifact, request or principal  *)
(* that another one is writing, and sees what that one committed.          *)
(* The names differ from those of EvidenceLedger, which takes extractions  *)
(* as evidence, so that both modules can be extended together.             *)
(***************************************************************************)
EXTENDS DocumentFormats

CONSTANTS Clients,   \* concurrent helper processes
          Paths,
          Bytes,     \* possible contents of a file, and their digests
          Documents, \* documents, see DocumentFormats
          Contents,  \* the document that some bytes are
          Requests,  \* invocations of the two lanes, see LaneRequest
          Tokens,    \* capabilities of channel messages, see Token
          Bindings,  \* invocations of document-lead-intake, see Binding
          LeadIds    \* ids of leads

VARIABLES file,        \* contents of each path
          claims,      \* workflow_requests: digest claimed by each request
          artifacts,   \* evidence_artifacts: confidentiality of each digest
          snapshots, outputs,  \* the content-addressed stores
          extractions, \* document_extractions, by request
          uses,        \* trusted_context_uses
          bound,       \* claimed document-lead-intake requests
          attached,    \* lead_artifacts
          copies, markers,     \* the quarantine volume
          shown,       \* history: bytes shown without a capability
          proc         \* per client: the step it is at, and what it holds

db    == <<claims, artifacts, extractions, uses, bound, attached>>
store == <<snapshots, outputs>>
jail  == <<copies, markers>>
documentVars  == <<file, db, store, jail, shown, proc>>

ASSUME ContentsAssumption ==
  /\ None \notin Bytes
  /\ Contents \in [Bytes -> Documents]

ASSUME DocumentsAssumption ==
  /\ None \notin Nat
  /\ \A d \in Documents : d.kind \in Kinds /\ Parsed(d)

(* Bytes that inspect_document refuses, and that make the extractor raise. *)
Rejected == {b \in Bytes : ~Accepted(Contents[b])}
Corrupt  == {b \in Bytes : Extract(Contents[b]).failed}

(* A capability names one principal, one event and the path it staged.     *)
Token == [who : STRING, nonce : STRING, path : Paths]

(* token = None: the lane of the host operator, with the lead its graph    *)
(* created.  Otherwise document-ingest, which has no lead.                 *)
LaneRequest == [key : STRING, path : Paths, token : Tokens \cup {None},
                lead : LeadIds \cup {None}]

(* The lead is the one that the graph of the key creates.                  *)
Binding == [key : STRING, token : Tokens, of : Requests, lead : LeadIds]

ASSUME InvocationsAssumption ==
  /\ Tokens \subseteq Token
  /\ Requests \subseteq LaneRequest
  /\ Bindings \subseteq Binding

Idle == [at |-> "idle", req |-> None, sha |-> None, fresh |-> FALSE]

Steps == {"idle", "parsed", "previewed", "claimed", "reparsed", "hashed",
          "published", "rejected", "marking"}

DocumentTypeOK ==
  /\ file \in [Paths -> Bytes]
  /\ claims \in [Requests -> Bytes \cup {None}]
  /\ artifacts \in [Bytes -> {"internal", "confidential", "absent"}]
  /\ snapshots \subseteq Bytes /\ outputs \subseteq Bytes \X Paths
  /\ \A r \in Requests : extractions[r] # None => claims[r] # None
  /\ bound \subseteq Bindings
  /\ \A a \in attached : a.lead \in LeadIds /\ artifacts[a.sha] # "absent"
  /\ copies \subseteq Bytes /\ markers \subseteq Bytes
  /\ \A c \in Clients : proc[c].at \in Steps

DocumentInit ==
  /\ file \in [Paths -> Bytes]
  /\ claims = [r \in Requests |-> None]
  /\ artifacts = [b \in Bytes |-> "absent"]
  /\ extractions = [r \in Requests |-> None]
  /\ snapshots = {} /\ outputs = {} /\ uses = {} /\ bound = {}
  /\ attached = {} /\ copies = {} /\ markers = {} /\ shown = {}
  /\ proc = [c \in Clients |-> Idle]

Goes(c, step) == proc' = [proc EXCEPT ![c].at = step]
Takes(c, step, sha) ==
  proc' = [proc EXCEPT ![c].at = step, ![c].sha = sha]
Leaves(c) == proc' = [proc EXCEPT ![c] = Idle]

-----------------------------------------------------------------------------
(* The operator replaces the file, or the channel's staging does.          *)
Replace(p, b) ==
  /\ file' = [file EXCEPT ![p] = b]
  /\ UNCHANGED <<db, store, jail, shown, proc>>

(* inspect_document, first read: path, type and archive checks.            *)
Parses(c, r, from, to) ==
  /\ proc[c].at = from
  /\ file[r.path] \notin Rejected
  /\ proc' = [proc EXCEPT ![c].at = to, ![c].req = r]
  /\ UNCHANGED <<file, db, store, jail, shown>>

(* document-preview.  A capability must name the path; a refusal and a     *)
(* rejected document leave nothing behind.                                 *)
Preview(c, r) ==
  /\ r.token # None => r.token.path = r.path
  /\ Parses(c, r, "idle", "parsed")

(* ... its second read is the digest it answers with.                      *)
PreviewHash(c) ==
  /\ proc[c].at = "parsed"
  /\ Takes(c, "previewed", file[proc[c].req.path])
  /\ UNCHANGED <<file, db, store, jail, shown>>

(* document-request-claim and, for the host lane, workflow-request-claim.  *)
Claim(c) ==
  LET r == proc[c].req
  IN  /\ proc[c].at = "previewed"
      /\ \/ /\ claims[r] = None
            /\ claims' = [claims EXCEPT ![r] = proc[c].sha]
            /\ Takes(c, "claimed", None)
         \/ /\ claims[r] = proc[c].sha
            /\ Takes(c, "claimed", None) /\ UNCHANGED claims
         \/ /\ claims[r] \notin {None, proc[c].sha}
            /\ Leaves(c) /\ UNCHANGED claims
      /\ UNCHANGED <<file, artifacts, extractions, uses, bound, attached,
                     store, jail, shown>>

-----------------------------------------------------------------------------
(* document-extract inspects again; a failure goes to quarantine.          *)
ExtractParse(c) ==
  \/ Parses(c, proc[c].req, "claimed", "reparsed")
  \/ /\ proc[c].at = "claimed" /\ file[proc[c].req.path] \in Rejected
     /\ Takes(c, "rejected", None)
     /\ UNCHANGED <<file, db, store, jail, shown>>

AnyDigest(r, b) == TRUE                                    \* mutant

ClaimedDigest(r, b) == claims[r] = b

ExtractHash(c) ==
  LET r == proc[c].req
  IN  /\ proc[c].at = "reparsed"
      /\ IF ClaimedDigest(r, file[r.path])
         THEN Takes(c, "hashed", file[r.path])
         ELSE Takes(c, "rejected", None)
      /\ UNCHANGED <<file, db, store, jail, shown>>

(* The snapshot must have the digest of the inspection.  The extractor     *)
(* reads the snapshot, and its output is published under its own digest,   *)
(* which covers the bytes and their path.                                  *)
Publish(c) ==
  LET r == proc[c].req
      b == proc[c].sha
  IN  /\ proc[c].at = "hashed"
      /\ IF file[r.path] # b
         THEN /\ Takes(c, "rejected", None)
              /\ UNCHANGED store
         ELSE /\ snapshots' = snapshots \cup {b}
              /\ \/ /\ b \in Corrupt
                    /\ Takes(c, "rejected", None) /\ UNCHANGED outputs
                 \/ /\ b \notin Corrupt
                    /\ outputs' = outputs \cup {<<b, r.path>>}
                    /\ Goes(c, "published")
      /\ UNCHANGED <<file, db, jail, shown>>

-----------------------------------------------------------------------------
(* Consuming a scope of a capability, as in Preferences.                   *)
Use(t, scope, op) == [token |-> t, scope |-> scope, op |-> op]

MayUse(t, scope, op) ==
  \A u \in uses : u.token = t /\ u.scope = scope => u.op = op

LaneConfidentiality(r) == IF r.token = None THEN "internal" ELSE "confidential"

FirstOneWins(r, b) == TRUE                                 \* mutant

(* The artifact is new, or was recorded under the same classification.     *)
Classified(r, b) == artifacts[b] \in {"absent", LaneConfidentiality(r)}

(* request_hash of the extraction: everything it binds.                    *)
RequestHash(r, b) == [sha |-> b, path |-> r.path, lead |-> r.lead]

IsAttached(r, b) == \E a \in attached : a.lead = r.lead /\ a.sha = b

(* The transaction of document-extract consumes the capability, compares   *)
(* the classification, and accepts a repetition with equal request_hash.   *)
Persistable(r, b) ==
  /\ r.token # None => MayUse(r.token, "ingest", r.key)
  /\ Classified(r, b)
  /\ extractions[r] # None
       => /\ extractions[r] = RequestHash(r, b)
          /\ r.lead # None => IsAttached(r, b)

Persists(r, b) ==
  /\ artifacts' = [artifacts EXCEPT ![b] =
                     IF @ = "absent" THEN LaneConfidentiality(r) ELSE @]
  /\ uses' = IF r.token = None THEN uses
             ELSE uses \cup {Use(r.token, "ingest", r.key)}
  /\ attached' = IF r.lead = None \/ IsAttached(r, b) THEN attached
                 ELSE attached \cup {[lead |-> r.lead, sha |-> b, who |-> None]}
  /\ extractions' = [extractions EXCEPT ![r] = RequestHash(r, b)]

(* A refused transaction is rolled back and the helper fails: its          *)
(* rejection comes after the try block and quarantines nothing.            *)
Persist(c) ==
  LET r == proc[c].req
      b == proc[c].sha
  IN  /\ proc[c].at = "published"
      /\ Leaves(c)
      /\ \/ Persistable(r, b) /\ Persists(r, b)
         \/ /\ ~Persistable(r, b)
            /\ UNCHANGED <<artifacts, uses, attached, extractions>>
      /\ UNCHANGED <<file, claims, bound, store, jail, shown>>

-----------------------------------------------------------------------------
(* quarantine_document reads the file again, looks whether a copy of those *)
(* bytes is there, and writes one; a file it cannot read safely, and a     *)
(* failed write, leave nothing.                                            *)
QuarantineCopy(c) ==
  LET b == file[proc[c].req.path]
  IN  /\ proc[c].at = "rejected"
      /\ \/ /\ copies' = copies \cup {b}
            /\ proc' = [proc EXCEPT ![c].at = "marking", ![c].sha = b,
                                    ![c].fresh = b \notin copies]
         \/ UNCHANGED copies /\ Leaves(c)
      /\ UNCHANGED <<file, db, store, markers, shown>>

(* The metadata marker; when it cannot be written, the copy is removed if  *)
(* it was not there before.                                                *)
QuarantineMark(c) ==
  /\ proc[c].at = "marking"
  /\ \/ markers' = markers \cup {proc[c].sha} /\ UNCHANGED copies
     \/ /\ copies' = IF proc[c].fresh THEN copies \ {proc[c].sha} ELSE copies
        /\ UNCHANGED markers
  /\ Leaves(c)
  /\ UNCHANGED <<file, db, store, shown>>

(* A helper is killed between two of its steps.                            *)
Die(c) ==
  /\ proc[c].at # "idle"
  /\ Leaves(c)
  /\ UNCHANGED <<file, db, store, jail, shown>>

-----------------------------------------------------------------------------
(* The capability of a channel extraction: same path, same principal, and  *)
(* a scope that no other operation consumed.                               *)
Capable(t, r, scope, op) ==
  /\ t # None /\ t.path = r.path
  /\ MayUse(t, scope, op)
  /\ t.who = r.token.who

(* document-extraction-show.  A channel extraction takes its capability; a *)
(* host extraction refuses one, and a model reads it up to the ceiling.    *)
Show(r, t) ==
  /\ extractions[r] # None
  /\ <<extractions[r].sha, r.path>> \in outputs
  /\ \/ /\ r.token # None
        /\ Capable(t, r, "read", r.key)
        /\ uses' = uses \cup {Use(t, "read", r.key)}
        /\ UNCHANGED shown
     \/ /\ r.token = None /\ t = None
        /\ artifacts[extractions[r].sha] = "internal"
        /\ shown' = shown \cup {extractions[r].sha}
        /\ UNCHANGED uses
  /\ UNCHANGED <<file, claims, artifacts, extractions, bound, attached, store,
                 jail, proc>>

(* document-association-request-claim: one claim per key, bound to the     *)
(* extraction and to the principal both come from.                         *)
Bind(b) ==
  /\ b.of.token # None /\ extractions[b.of] # None
  /\ Capable(b.token, b.of, "associate", b.key)
  /\ \A x \in bound : x.key = b.key => x = b
  /\ bound' = bound \cup {b}
  /\ uses' = uses \cup {Use(b.token, "associate", b.key)}
  /\ UNCHANGED <<file, claims, artifacts, extractions, attached, store, jail,
                 shown, proc>>

(* document-associate-lead, for the lead its graph created: one row per    *)
(* lead and artifact, whose provenance the last request overwrites.        *)
Associate(b) ==
  LET sha == extractions[b.of].sha
  IN  /\ b \in bound
      /\ attached' = {a \in attached : a.lead # b.lead \/ a.sha # sha}
                     \cup {[lead |-> b.lead, sha |-> sha, who |-> b.token.who]}
      /\ UNCHANGED <<file, claims, artifacts, extractions, uses, bound, store,
                     jail, shown, proc>>

Helper(c) ==
  \/ \E r \in Requests : Preview(c, r)
  \/ PreviewHash(c) \/ Claim(c) \/ ExtractParse(c) \/ ExtractHash(c)
  \/ Publish(c) \/ Persist(c)
  \/ QuarantineCopy(c) \/ QuarantineMark(c)
  \/ Die(c)

DocumentNext ==
  \/ \E c \in Clients : Helper(c)
  \/ \E p \in Paths, b \in Bytes : Replace(p, b)
  \/ \E r \in Requests, t \in Tokens \cup {None} : Show(r, t)
  \/ \E b \in Bindings : Bind(b) \/ Associate(b)

DocumentSpec == DocumentInit /\ [][DocumentNext]_documentVars

-----------------------------------------------------------------------------
(* In a well-typed state every recorded extraction is of the bytes its     *)
(* request claimed, and its snapshot and output are in the stores:         *)
(* whatever was replaced, killed or retried in between, no row points at a *)
(* file that is not there (vcops.py:5633-5652).                            *)
ExtractionsAreGrounded ==
  DocumentTypeOK /\ \A r \in Requests :
    extractions[r] # None =>
      /\ extractions[r].sha = claims[r]
      /\ claims[r] \in snapshots
      /\ <<claims[r], r.path>> \in outputs
      /\ artifacts[claims[r]] # "absent"

(* Bytes that a channel attachment brought are never shown to a model that *)
(* presents no capability, also when the operator's lane extracted the     *)
(* same bytes, before or after (vcops.py:5720-5748, 5875).                 *)
ChannelBytesNeedCapability ==
  \A r \in Requests :
    r.token # None /\ extractions[r] # None => extractions[r].sha \notin shown

(* The content of a document, where the notes of a slide are those that    *)
(* its relationships name, if they are there.                              *)
NotesTargets(d, slide) ==
  {r.target : r \in {x \in ToSet(slide.relations) : Bound(d, x)}}

OwnNotes(d, slide) ==
  IF NotesTargets(d, slide) = {} THEN 0
  ELSE d.notes[CHOOSE t \in NotesTargets(d, slide) : TRUE]

Whole(d) ==
  CASE d.kind = "pdf"  -> [i \in DOMAIN d.pages |-> d.pages[i].text]
    [] d.kind = "pptx" -> LET ss == SlidesOf(d)
                          IN  [i \in DOMAIN ss |-> <<ss[i].text, OwnNotes(d, ss[i])>>]
    [] d.kind = "csv"  -> d.rows
    [] d.kind = "xlsx" -> [i \in DOMAIN d.sheets |-> [j \in DOMAIN d.sheets[i] |->
                            [k \in DOMAIN d.sheets[i][j] |->
                               SafeCell(d.sheets[i][j][k])]]]

(* An extraction that does not say that it was truncated has everything:   *)
(* each page, row and cell, and each slide in its place with its own       *)
(* notes, however the limits fall on the boundaries of the parts           *)
(* (vcops.py:1239, 1310-1324).  A cell of more than 100 000 characters,    *)
(* which no spreadsheet program writes, is cut without a mark.  It is      *)
(* about the parsers alone, hence asked in the initial states only.        *)
NothingLostSilently ==
  DocumentInit => \A d \in Documents :
    Accepted(d) /\ ~Extract(d).failed /\ ~Extract(d).truncated
      => Extract(d).kept = Whole(d)
=============================================================================
