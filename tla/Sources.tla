------------------------------- MODULE Sources -------------------------------
(***************************************************************************)
(* The two tables of sources.  sources holds what evidence may cite, with  *)
(* a trust level and a confidentiality: source-add of the operator, and    *)
(* the web and document evidence of evidence-record.  signal_sources is    *)
(* the watchlist: source-watch, source-unwatch, source-list and            *)
(* source-scan, of the operator and of the model lanes.                    *)
(*                                                                         *)
(* A transaction that reads and then writes is two steps, Begin and        *)
(* Commit, and holds the locks its SELECT took between them; a statement   *)
(* that locks and writes at once is one step.  Levels are their ranks.     *)
(* Times are kept as what is compared: due has the sources whose cadence   *)
(* elapsed or that were never scanned, ahead the order of the worklist.    *)
(***************************************************************************)
EXTENDS Naturals, FiniteSets

CONSTANTS Clients, Scheduler,  \* helper processes; one runs scheduled scans
          Keys,                \* (provider, account, stable id)
          Uris,
          Adds,                \* source-add invocations, see Add
          Cites,               \* evidence that cites a source, see Cite
          Watches,             \* source-watch, -unwatch and operator scans
          Limit,               \* --limit of source-scan
          None

VARIABLES sources, watched,
          due, fresh,  \* watched uris: due for a scan, never scanned
          ahead,       \* pairs, ORDER BY last_scanned_at NULLS FIRST, id
          left,        \* invocations that were not made yet
          tx           \* per client: the open transaction

registry == <<sources>>
watchlist == <<watched, due, fresh, ahead>>
vars == <<registry, watchlist, left, tx>>

Trusts == 0..6            \* SOURCE_TRUST_RANK
Confidentialities == 0..3 \* CONFIDENTIALITY_RANK
Internal == 1             \* the ceiling of the model lanes
Lanes == {"operator", "model"}

Add  == [key : Keys, trust : Trusts, conf : Confidentialities,
         allow : BOOLEAN]

(* Web evidence asserts a kind and at most a paid connector's trust; a     *)
(* document gives its own levels, and may be bound to other leads.         *)
Cite == [key : Keys, kind : {"web", "filing", "document"}, trust : Trusts,
         conf : Confidentialities, official : BOOLEAN, elsewhere : BOOLEAN]

Watch == [op : {"watch", "unwatch", "scan"}, lane : Lanes, uri : Uris,
          conf : Confidentialities, owner : STRING]

ASSUME InvocationsAssumption ==
  /\ Adds \subseteq Add /\ Cites \subseteq Cite /\ Watches \subseteq Watch
  /\ Scheduler \in Clients /\ Limit \in Nat \ {0}
  /\ \A e \in Cites : e.kind # "document" => e.trust \in {2, 4}

Entry == [enabled : BOOLEAN, conf : Confidentialities, owner : STRING]

ASSUME NoneAssumption == None \notin Entry

(* locks: the rows a transaction holds; saw: its SELECT found the row.     *)
Idle == [op |-> "none", req |-> None, saw |-> FALSE, locks |-> {}]

Listed == {u \in Uris : watched[u] # None}

(* The strict total orders of a set, as sets of pairs.                     *)
Orders(S) ==
  {r \in SUBSET (S \X S) :
     /\ \A x, y \in S : <<x, y>> \in r => <<y, x>> \notin r
     /\ \A x, y \in S : x = y \/ <<x, y>> \in r \/ <<y, x>> \in r
     /\ \A x, y, z \in S : <<x, y>> \in r /\ <<y, z>> \in r => <<x, z>> \in r}

TypeOK ==
  /\ \A k \in Keys : sources[k] = None \/
       (sources[k].trust \in Trusts /\ sources[k].conf \in Confidentialities)
  /\ \A u \in Uris : watched[u] = None \/ watched[u] \in Entry
  /\ fresh \subseteq due /\ due \subseteq Listed
  /\ ahead \in Orders(Listed) /\ fresh \X (Listed \ fresh) \subseteq ahead
  /\ \A c \in Clients : tx[c].locks \subseteq Keys \cup Uris

Init ==
  /\ sources = [k \in Keys |-> None]
  /\ watched = [u \in Uris |-> None]
  /\ due = {} /\ fresh = {} /\ ahead = {}
  /\ left \in {Adds \cup Cites, Watches}  \* no operation reaches both tables
  /\ tx = [c \in Clients |-> Idle]

NobodyLocks(c, x) == TRUE                                  \* mutant

(* FOR UPDATE and a write wait for the transaction that holds the row.     *)
Free(c, x) == \A d \in Clients \ {c} : x \notin tx[d].locks

-----------------------------------------------------------------------------
(* source-add: SELECT ... FOR UPDATE, and the comparison with what is      *)
(* there.  A row that is not there cannot be locked.                       *)
Lowers(new, old) == new.trust < old.trust \/ new.conf < old.conf

BeginAdd(c, a) ==
  LET row == sources[a.key]
  IN  /\ tx[c] = Idle /\ a \in left /\ Free(c, a.key)
      /\ left' = left \ {a}
      /\ IF row = None
         THEN tx' = [tx EXCEPT ![c] = [Idle EXCEPT !.op = "add", !.req = a]]
         ELSE IF Lowers(a, row) /\ ~a.allow
         THEN UNCHANGED tx
         ELSE tx' = [tx EXCEPT ![c] = [op |-> "add", req |-> a, saw |-> TRUE,
                                       locks |-> {a.key}]]
      /\ UNCHANGED <<registry, watchlist>>

(* INSERT ... ON CONFLICT DO UPDATE: the kind stays, the levels do not.    *)
CommitAdd(c) ==
  LET a == tx[c].req
  IN  /\ tx[c].op = "add" /\ Free(c, a.key)
      /\ sources' = [sources EXCEPT ![a.key] =
           [kind |-> IF @ = None THEN "reviewed" ELSE @.kind,
            trust |-> a.trust, conf |-> a.conf]]
      /\ tx' = [tx EXCEPT ![c] = Idle]
      /\ UNCHANGED <<watchlist, left>>

(* A filing is one only on an official domain; a document that is bound to *)
(* leads only supports those.                                              *)
CitedRow(e) ==
  [kind |-> IF e.kind = "filing" /\ ~e.official THEN "web" ELSE e.kind,
   trust |-> e.trust,
   conf |-> IF e.kind = "document" THEN e.conf ELSE Internal]

(* INSERT ... DO NOTHING and the SELECT that follows it: evidence never    *)
(* rewrites the levels of a source.                                        *)
CiteSource(e) ==
  /\ e \in left /\ left' = left \ {e}
  /\ ~e.elsewhere
  /\ sources' = [sources EXCEPT ![e.key] = IF @ = None THEN CitedRow(e) ELSE @]
  /\ UNCHANGED <<watchlist, tx>>

-----------------------------------------------------------------------------
(* source-watch.  A model lane does not re-enable what is disabled.        *)
BeginWatch(c, w) ==
  LET e == watched[w.uri]
  IN  /\ tx[c] = Idle /\ w \in left /\ w.op = "watch" /\ Free(c, w.uri)
      /\ left' = left \ {w}
      /\ IF e = None
         THEN tx' = [tx EXCEPT ![c] = [Idle EXCEPT !.op = "watch", !.req = w]]
         ELSE IF ~e.enabled /\ w.lane = "model"
         THEN UNCHANGED tx
         ELSE tx' = [tx EXCEPT ![c] = [op |-> "watch", req |-> w, saw |-> TRUE,
                                       locks |-> {w.uri}]]
      /\ UNCHANGED <<registry, watchlist>>

(* INSERT ... DO NOTHING, which fails when another registration came first.*)
InsertWatch(w) ==
  /\ watched[w.uri] = None
  /\ watched' = [watched EXCEPT ![w.uri] =
                   [enabled |-> TRUE, conf |-> w.conf, owner |-> w.owner]]
  /\ due' = due \cup {w.uri} /\ fresh' = fresh \cup {w.uri}
  /\ ahead' = ahead \cup (fresh \X {w.uri}) \cup ({w.uri} \X (Listed \ fresh))

UpdateAsAsked(w) ==                                        \* mutant
  /\ watched' = [watched EXCEPT ![w.uri] =
       [enabled |-> TRUE, conf |-> w.conf, owner |-> @.owner]]
  /\ UNCHANGED <<due, fresh, ahead>>

(* The operator's values replace the entry's; a model lane keeps its owner *)
(* and can only raise its confidentiality.                                 *)
UpdateWatch(w) ==
  /\ watched' = [watched EXCEPT ![w.uri] =
       IF w.lane = "operator"
       THEN [enabled |-> TRUE, conf |-> w.conf, owner |-> w.owner]
       ELSE [enabled |-> TRUE, owner |-> @.owner,
             conf |-> IF w.conf >= @.conf THEN w.conf ELSE @.conf]]
  /\ UNCHANGED <<due, fresh, ahead>>

CommitWatch(c) ==
  LET w == tx[c].req
  IN  /\ tx[c].op = "watch"
      /\ \/ ~tx[c].saw /\ InsertWatch(w)
         \/ tx[c].saw /\ UpdateWatch(w)
         \/ ~tx[c].saw /\ watched[w.uri] # None /\ UNCHANGED watchlist
      /\ tx' = [tx EXCEPT ![c] = Idle]
      /\ UNCHANGED <<registry, left>>

InCeiling(u, lane) == lane = "operator" \/ watched[u].conf <= Internal

(* source-unwatch is one UPDATE; an entry over the ceiling is not found.   *)
Unwatch(c, w) ==
  /\ tx[c] = Idle /\ w \in left /\ w.op = "unwatch" /\ Free(c, w.uri)
  /\ left' = left \ {w}
  /\ IF watched[w.uri] # None /\ InCeiling(w.uri, w.lane)
     THEN watched' = [watched EXCEPT ![w.uri].enabled = FALSE]
     ELSE UNCHANGED watched
  /\ UNCHANGED <<registry, due, fresh, ahead, tx>>

-----------------------------------------------------------------------------
(* source-list --due, and the WHERE clause of source-scan.                 *)
Claimable(u, lane) ==
  /\ u \in due
  /\ watched[u].enabled
  /\ InCeiling(u, lane)

Unlocked(c, lane) ==
  {u \in Listed : Claimable(u, lane) /\ Free(c, u)}

(* Those that come before u in the order of the worklist.                  *)
Before(u) == {v \in Listed : <<v, u>> \in ahead}

FirstById(c, lane) ==                                      \* mutant
  IF Unlocked(c, lane) = {} THEN {}
  ELSE {CHOOSE u \in Unlocked(c, lane) : TRUE}

(* The worklist: the first Limit rows that nobody has locked.              *)
Worklist(c, lane) ==
  {u \in Unlocked(c, lane) : Cardinality(Unlocked(c, lane) \cap Before(u)) < Limit}

(* source-scan: FOR UPDATE SKIP LOCKED, and ...                            *)
BeginScan(c, lane) ==
  /\ tx[c] = Idle
  /\ Worklist(c, lane) # {}
  /\ tx' = [tx EXCEPT ![c] = [op |-> "scan", req |-> lane, saw |-> TRUE,
                              locks |-> Worklist(c, lane)]]
  /\ UNCHANGED <<registry, watchlist>>

(* The schedule scans without end, in the model lane; the operator scans   *)
(* at times.                                                               *)
ScheduledScan == BeginScan(Scheduler, "model") /\ UNCHANGED left

OperatorScan(c, w) ==
  /\ w \in left /\ w.op = "scan" /\ c # Scheduler
  /\ left' = left \ {w}
  /\ BeginScan(c, w.lane)

(* ... the UPDATE that stamps what it locked, each row with the clock when *)
(* the join reaches it, whether or not its caller ever reads the worklist. *)
CommitScan(c) ==
  LET claimed == tx[c].locks
      kept == Listed \ claimed
  IN  /\ tx[c].op = "scan"
      /\ due' = due \ claimed /\ fresh' = fresh \ claimed
      /\ \E stamped \in Orders(claimed) :
           ahead' = (ahead \cap (kept \X kept)) \cup (kept \X claimed) \cup stamped
      /\ tx' = [tx EXCEPT ![c] = Idle]
      /\ UNCHANGED <<registry, watched, left>>

(* The cadence of a source elapses.                                        *)
BecomesDue(u) ==
  /\ watched[u] # None /\ u \notin due
  /\ due' = due \cup {u}
  /\ UNCHANGED <<registry, watched, fresh, ahead, left, tx>>

(* The helper dies and its transaction is rolled back.                     *)
Abort(c) ==
  /\ tx[c] # Idle
  /\ tx' = [tx EXCEPT ![c] = Idle]
  /\ UNCHANGED <<registry, watchlist, left>>

Helper(c) ==
  \/ \E a \in Adds : BeginAdd(c, a)
  \/ \E w \in Watches : BeginWatch(c, w) \/ Unwatch(c, w) \/ OperatorScan(c, w)
  \/ CommitAdd(c) \/ CommitWatch(c) \/ CommitScan(c) \/ Abort(c)

Next ==
  \/ \E c \in Clients : Helper(c)
  \/ ScheduledScan
  \/ \E e \in Cites : CiteSource(e)
  \/ \E u \in Uris : BecomesDue(u)

(* A transaction that is not aborted ends; the schedule goes on scanning,  *)
(* and not every one of its scans dies.                                    *)
Fairness ==
  /\ \A c \in Clients :
       WF_vars(CommitAdd(c) \/ CommitWatch(c) \/ CommitScan(c) \/ Abort(c))
  /\ WF_vars(ScheduledScan)
  /\ SF_vars(CommitScan(Scheduler))

Spec == Init /\ [][Next]_vars /\ Fairness

-----------------------------------------------------------------------------
LoweredAsAsked ==
  \A k \in Keys :
    sources[k] # None /\ Lowers(sources'[k], sources[k])
      => \E c \in Clients :
           /\ tx[c].op = "add" /\ tx'[c] = Idle
           /\ tx[c].req.allow \/ ~tx[c].saw

LoosenedByOperator ==
  \A u \in Uris :
    watched[u] # None =>
      \/ \E c \in Clients : /\ tx[c].op = "watch" /\ tx'[c] = Idle
                            /\ tx[c].req.lane = "operator"
      \/ /\ watched'[u].enabled => watched[u].enabled
         /\ watched'[u].conf >= watched[u].conf
         /\ watched'[u].owner = watched[u].owner

(* Whatever runs concurrently, nothing is loosened by accident: the levels *)
(* of a source only go down under --allow-downgrade, or by an addition     *)
(* that looked before the source was there (vcops.py:2996-3017), and only  *)
(* the operator enables a watched source that was disabled, lowers its     *)
(* classification or takes it over (vcops.py:3997-4030).                   *)
LooseningIsDeliberate == [][LoweredAsAsked /\ LoosenedByOperator]_vars

(* In a well-typed state what a scan is about to return is due, enabled    *)
(* and under the ceiling of its lane to the end, and no other scan returns *)
(* it: an unwatch or a reclassification does not slip in between           *)
(* (vcops.py:4111-4144).                                                   *)
ClaimsStayValid ==
  TypeOK /\ \A c \in Clients :
    tx[c].op = "scan" =>
      /\ \A u \in tx[c].locks : Claimable(u, tx[c].req)
      /\ \A d \in Clients \ {c} :
           tx[d].op = "scan" => tx[c].locks \cap tx[d].locks = {}

(* Nothing starves behind the limit: what is due and within the ceiling is *)
(* claimed, or disabled, or classified above it (vcops.py:4134).           *)
DueIsClaimed ==
  \A u \in Uris :
    (u \in due /\ watched[u].enabled /\ watched[u].conf <= Internal)
      ~> ~(u \in due /\ watched[u].enabled /\ watched[u].conf <= Internal)
=============================================================================
