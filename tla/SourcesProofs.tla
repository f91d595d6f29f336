---------------------------- MODULE SourcesProofs ----------------------------
(***************************************************************************)
(* Who lowers what in the two tables of sources, for every number of       *)
(* helpers, sources and invocations.                                       *)
(*                                                                         *)
(* A transaction that found its row holds the lock of the row until it     *)
(* writes (Exclusive), so the comparison it made is still true then        *)
(* (Adding, Watching).                                                     *)
(*                                                                         *)
(* On top of that, no step takes away what a scan claimed: what makes a    *)
(* row claimable only changes under its lock, or for the better (Claims).  *)
(* The order of the worklist stays a strict total order of the watchlist   *)
(* with the rows that were never scanned in front (Ordered).               *)
(***************************************************************************)
EXTENDS Sources, TLAPS

Levelled(row) == row.trust \in Trusts /\ row.conf \in Confidentialities

Typed ==
  /\ sources = [k \in Keys |-> sources[k]]
  /\ \A k \in Keys : sources[k] # None => Levelled(sources[k])
  /\ watched = [u \in Uris |-> watched[u]]
  /\ \A u \in Uris : watched[u] # None => watched[u] \in Entry
  /\ tx = [c \in Clients |-> tx[c]]

Exclusive == \A c, d \in Clients : c # d => tx[c].locks \cap tx[d].locks = {}

(* What source-add and source-watch read of a row they locked.             *)
Adding(t) ==
  t.op = "add" =>
    /\ t.req \in Adds
    /\ t.saw => /\ t.req.key \in t.locks
                /\ sources[t.req.key] # None
                /\ Lowers(t.req, sources[t.req.key]) => t.req.allow

Watching(t) ==
  t.op = "watch" =>
    /\ t.req \in Watches
    /\ t.saw => /\ t.req.uri \in t.locks
                /\ watched[t.req.uri] # None
                /\ t.req.lane = "model" => watched[t.req.uri].enabled

Held == \A c \in Clients : Adding(tx[c]) /\ Watching(tx[c])

IInv == Typed /\ Exclusive /\ Held

-----------------------------------------------------------------------------
LEMMA AddFields ==
  ASSUME NEW a \in Adds
  PROVE  a.key \in Keys /\ a.trust \in Trusts /\ a.conf \in Confidentialities
BY InvocationsAssumption DEF Add

LEMMA CiteFields ==
  ASSUME NEW e \in Cites
  PROVE  e.key \in Keys /\ Levelled(CitedRow(e))
BY InvocationsAssumption DEF Cite, Trusts, Confidentialities, CitedRow, Levelled, Internal

LEMMA WatchFields ==
  ASSUME NEW w \in Watches
  PROVE  /\ w.uri \in Uris /\ w.conf \in Confidentialities /\ w.owner \in STRING
         /\ w.lane \in {"operator", "model"}
BY InvocationsAssumption DEF Watch, Lanes

LEMMA InitIInv == Init => IInv
BY DEF Init, IInv, Typed, Exclusive, Held, Adding, Watching, Idle

(* A transaction that is idle holds nothing, and neither does one that     *)
(* ends.                                                                   *)
LEMMA EndsHeld ==
  ASSUME IInv, NEW c \in Clients, tx' = [tx EXCEPT ![c] = Idle],
         UNCHANGED registry, UNCHANGED watchlist
  PROVE  IInv'
<1>1. \A d \in Clients : tx'[d] = IF d = c THEN Idle ELSE tx[d]
  BY DEF IInv, Typed
<1>2. Typed'
  BY <1>1 DEF IInv, Typed, registry, watchlist, Levelled
<1>3. Exclusive'
  BY <1>1 DEF IInv, Exclusive, Idle
<1>4. Held'
  BY <1>1 DEF IInv, Held, Adding, Watching, Idle, registry, watchlist
<1> QED BY <1>2, <1>3, <1>4 DEF IInv

-----------------------------------------------------------------------------
LEMMA BeginAddStep ==
  ASSUME IInv, NEW c \in Clients, NEW a \in Adds, BeginAdd(c, a)
  PROVE  IInv'
<1> DEFINE row == sources[a.key]
<1>1. /\ UNCHANGED registry /\ UNCHANGED watchlist
      /\ UNCHANGED <<sources, watched>>
      /\ tx[c] = Idle /\ Free(c, a.key) /\ Typed
  BY DEF BeginAdd, IInv, registry, watchlist
<1>2. CASE tx' = tx
  BY <1>1, <1>2 DEF IInv, Typed, Exclusive, Held, Adding, Watching, Levelled
<1>3. CASE tx' # tx
  <2>1. PICK u :
          /\ tx' = [tx EXCEPT ![c] = u]
          /\ u.op = "add" /\ u.req = a
          /\ \/ ~u.saw /\ u.locks = {}
             \/ /\ u.saw /\ u.locks = {a.key} /\ row # None
                /\ ~(Lowers(a, row) /\ ~a.allow)
    <3> DEFINE blind == [op |-> "add", req |-> a, saw |-> FALSE, locks |-> {}]
               found == [op |-> "add", req |-> a, saw |-> TRUE, locks |-> {a.key}]
    <3>1. /\ blind.op = "add" /\ blind.req = a /\ ~blind.saw /\ blind.locks = {}
          /\ found.op = "add" /\ found.req = a /\ found.saw
          /\ found.locks = {a.key}
      OBVIOUS
    <3>2. CASE row = None
      <4>1. tx' = [tx EXCEPT ![c] = blind]
        BY <3>2 DEF BeginAdd, Idle
      <4> HIDE DEF blind
      <4> QED BY <3>1, <4>1
    <3>3. CASE row # None
      <4>1. tx' = [tx EXCEPT ![c] = found] /\ ~(Lowers(a, row) /\ ~a.allow)
        BY <1>3, <3>3 DEF BeginAdd
      <4> HIDE DEF found
      <4> QED BY <3>1, <3>3, <4>1
    <3> QED BY <3>2, <3>3
  <2>2. \A d \in Clients : tx'[d] = IF d = c THEN u ELSE tx[d]
    BY <1>1, <2>1 DEF Typed
  <2>3. Typed'
    BY <1>1, <2>1, <2>2 DEF Typed, Levelled
  <2>4. Exclusive'
    BY <1>1, <2>1, <2>2 DEF IInv, Exclusive, Free
  <2>5. Adding(tx[c])' /\ Watching(tx[c])'
    BY <1>1, <2>1, <2>2 DEF Adding, Watching
  <2>6. \A d \in Clients \ {c} : Adding(tx[d])' /\ Watching(tx[d])'
    BY <1>1, <2>2 DEF IInv, Held, Adding, Watching
  <2> QED BY <2>3, <2>4, <2>5, <2>6 DEF IInv, Held
<1> QED BY <1>2, <1>3

LEMMA BeginWatchStep ==
  ASSUME IInv, NEW c \in Clients, NEW w \in Watches, BeginWatch(c, w)
  PROVE  IInv'
<1> DEFINE e == watched[w.uri]
<1>1. /\ UNCHANGED registry /\ UNCHANGED watchlist
      /\ UNCHANGED <<sources, watched>>
      /\ tx[c] = Idle /\ Free(c, w.uri) /\ Typed
  BY DEF BeginWatch, IInv, registry, watchlist
<1>2. CASE tx' = tx
  BY <1>1, <1>2 DEF IInv, Typed, Exclusive, Held, Adding, Watching, Levelled
<1>3. CASE tx' # tx
  <2>1. PICK u :
          /\ tx' = [tx EXCEPT ![c] = u]
          /\ u.op = "watch" /\ u.req = w
          /\ \/ ~u.saw /\ u.locks = {}
             \/ /\ u.saw /\ u.locks = {w.uri} /\ e # None
                /\ ~(~e.enabled /\ w.lane = "model")
    <3> DEFINE blind == [op |-> "watch", req |-> w, saw |-> FALSE, locks |-> {}]
               found == [op |-> "watch", req |-> w, saw |-> TRUE, locks |-> {w.uri}]
    <3>1. /\ blind.op = "watch" /\ blind.req = w /\ ~blind.saw /\ blind.locks = {}
          /\ found.op = "watch" /\ found.req = w /\ found.saw
          /\ found.locks = {w.uri}
      OBVIOUS
    <3>2. CASE e = None
      <4>1. tx' = [tx EXCEPT ![c] = blind]
        BY <3>2 DEF BeginWatch, Idle
      <4> HIDE DEF blind
      <4> QED BY <3>1, <4>1
    <3>3. CASE e # None
      <4>1. tx' = [tx EXCEPT ![c] = found] /\ ~(~e.enabled /\ w.lane = "model")
        BY <1>3, <3>3 DEF BeginWatch
      <4> HIDE DEF found
      <4> QED BY <3>1, <3>3, <4>1
    <3> QED BY <3>2, <3>3
  <2>2. \A d \in Clients : tx'[d] = IF d = c THEN u ELSE tx[d]
    BY <1>1, <2>1 DEF Typed
  <2>3. Typed'
    BY <1>1, <2>1, <2>2 DEF Typed, Levelled
  <2>4. Exclusive'
    BY <1>1, <2>1, <2>2 DEF IInv, Exclusive, Free
  <2>5. Adding(tx[c])' /\ Watching(tx[c])'
    BY <1>1, <2>1, <2>2 DEF Adding, Watching
  <2>6. \A d \in Clients \ {c} : Adding(tx[d])' /\ Watching(tx[d])'
    BY <1>1, <2>2 DEF IInv, Held, Adding, Watching
  <2> QED BY <2>3, <2>4, <2>5, <2>6 DEF IInv, Held
<1> QED BY <1>2, <1>3

-----------------------------------------------------------------------------
(* source-add writes its levels, over a row that it compared or that was   *)
(* not there when it looked.                                               *)
LEMMA CommitAddStep ==
  ASSUME IInv, NEW c \in Clients, CommitAdd(c)
  PROVE  IInv'
<1> DEFINE a == tx[c].req
           row == [kind |-> IF sources[a.key] = None THEN "reviewed"
                            ELSE sources[a.key].kind,
                   trust |-> a.trust, conf |-> a.conf]
<1>1. /\ tx[c].op = "add" /\ Free(c, a.key) /\ Typed
      /\ sources' = [sources EXCEPT ![a.key] = row]
      /\ tx' = [tx EXCEPT ![c] = Idle]
      /\ UNCHANGED watched
  BY DEF CommitAdd, watchlist, IInv
<1>2. a \in Adds
  BY <1>1 DEF IInv, Held, Adding
<1>3. a.key \in Keys /\ Levelled(row)
  BY <1>2, AddFields DEF Levelled
<1> HIDE DEF row
<1>4. \A k \in Keys : sources'[k] = IF k = a.key THEN row ELSE sources[k]
  BY <1>1 DEF Typed
<1>5. \A d \in Clients : tx'[d] = IF d = c THEN Idle ELSE tx[d]
  BY <1>1 DEF Typed
<1>6. Typed'
  BY <1>1, <1>3, <1>4, <1>5 DEF Typed
<1>7. Exclusive'
  BY <1>5 DEF IInv, Exclusive, Idle
<1>8. ASSUME NEW d \in Clients PROVE Adding(tx[d])' /\ Watching(tx[d])'
  <2>1. CASE d = c
    BY <1>5, <2>1 DEF Idle, Adding, Watching
  <2>2. CASE d # c
    <3>1. /\ tx'[d] = tx[d] /\ a.key \notin tx[d].locks
          /\ Adding(tx[d]) /\ Watching(tx[d])
      BY <1>1, <1>5, <2>2 DEF Free, IInv, Held
    <3>2. Watching(tx[d])'
      BY <1>1, <3>1 DEF Watching
    <3>3. ASSUME tx[d].op = "add", tx[d].saw
          PROVE  sources'[tx[d].req.key] = sources[tx[d].req.key]
      BY <1>4, <3>1, <3>3, AddFields DEF Adding
    <3>4. Adding(tx[d])'
      BY <3>1, <3>3 DEF Adding
    <3> QED BY <3>2, <3>4
  <2> QED BY <2>1, <2>2
<1> QED BY <1>6, <1>7, <1>8 DEF IInv, Held

(* Evidence only adds a source.                                            *)
LEMMA CiteStep ==
  ASSUME IInv, NEW e \in Cites, CiteSource(e)
  PROVE  IInv'
<1>1. /\ sources' = [sources EXCEPT ![e.key] = IF @ = None THEN CitedRow(e) ELSE @]
      /\ UNCHANGED <<watched, tx>> /\ Typed
      /\ e.key \in Keys /\ Levelled(CitedRow(e))
  BY CiteFields DEF CiteSource, watchlist, IInv
<1>2. \A k \in Keys :
        /\ sources[k] # None => sources'[k] = sources[k]
        /\ sources'[k] = sources[k] \/ sources'[k] = CitedRow(e)
  BY <1>1 DEF Typed
<1>3. Typed'
  BY <1>1, <1>2 DEF Typed, Levelled
<1>4. Exclusive'
  BY <1>1 DEF IInv, Exclusive
<1>5. Held'
  BY <1>1, <1>2, AddFields DEF IInv, Held, Adding, Watching
<1> QED BY <1>3, <1>4, <1>5 DEF IInv

-----------------------------------------------------------------------------
(* An entry that a step of c writes is locked by no other transaction, or  *)
(* was not there.                                                          *)
LEMMA WatchedStep ==
  ASSUME IInv, NEW c \in Clients, NEW u \in Uris, NEW e,
         watched' = [watched EXCEPT ![u] = e],
         e \in Entry,
         Free(c, u) \/ watched[u] = None,
         tx' = tx \/ tx' = [tx EXCEPT ![c] = Idle],
         tx[c] = Idle \/ tx' = [tx EXCEPT ![c] = Idle],
         UNCHANGED registry
  PROVE  IInv'
<1>1. \A x \in Uris : watched'[x] = IF x = u THEN e ELSE watched[x]
  BY DEF IInv, Typed
<1>2. /\ \A d \in Clients : d # c => tx'[d] = tx[d]
      /\ tx'[c] = Idle
      /\ tx' = [d \in Clients |-> tx'[d]]
  BY DEF IInv, Typed
<1>3. Typed'
  BY <1>1, <1>2 DEF IInv, Typed, registry, Levelled
<1>4. Exclusive'
  BY <1>2 DEF IInv, Exclusive, Idle
<1>5. ASSUME NEW d \in Clients PROVE Adding(tx[d])' /\ Watching(tx[d])'
  <2>1. CASE d = c
    BY <1>2, <2>1 DEF Idle, Adding, Watching
  <2>2. CASE d # c
    <3>1. /\ tx'[d] = tx[d] /\ Adding(tx[d]) /\ Watching(tx[d])
      BY <1>2, <2>2 DEF IInv, Held
    <3>2. Adding(tx[d])'
      BY <3>1 DEF Adding, registry
    <3>3. ASSUME tx[d].op = "watch", tx[d].saw
          PROVE  watched'[tx[d].req.uri] = watched[tx[d].req.uri]
      <4>1. /\ tx[d].req.uri \in Uris /\ tx[d].req.uri \in tx[d].locks
            /\ watched[tx[d].req.uri] # None
        BY <3>1, <3>3, WatchFields DEF Watching
      <4>2. tx[d].req.uri # u
        BY <2>2, <4>1 DEF Free
      <4> QED BY <1>1, <4>1, <4>2
    <3>4. Watching(tx[d])'
      BY <3>1, <3>3 DEF Watching
    <3> QED BY <3>2, <3>4
  <2> QED BY <2>1, <2>2
<1> QED BY <1>3, <1>4, <1>5 DEF IInv, Held

(* What a registration makes of an entry: what it may loosen.              *)
LEMMA WatchOutcome ==
  ASSUME IInv, NEW c \in Clients, CommitWatch(c)
  PROVE  LET w == tx[c].req
         IN  /\ w \in Watches /\ w.uri \in Uris
             /\ tx' = [tx EXCEPT ![c] = Idle] /\ UNCHANGED registry
             /\ \/ UNCHANGED watchlist
                \/ \E e :
                     /\ watched' = [watched EXCEPT ![w.uri] = e]
                     /\ e \in Entry
                     /\ Free(c, w.uri) \/ watched[w.uri] = None
                     /\ watched[w.uri] # None /\ w.lane # "operator" =>
                          /\ watched[w.uri].enabled
                          /\ e.conf >= watched[w.uri].conf
                          /\ e.owner = watched[w.uri].owner
<1> DEFINE w == tx[c].req
           old == watched[w.uri]
<1>1. /\ tx[c].op = "watch" /\ tx' = [tx EXCEPT ![c] = Idle] /\ UNCHANGED registry
      /\ \/ ~tx[c].saw /\ InsertWatch(w)
         \/ tx[c].saw /\ UpdateWatch(w)
         \/ UNCHANGED watchlist
      /\ Watching(tx[c]) /\ Typed
  BY DEF CommitWatch, IInv, Held
<1>2. w \in Watches /\ w.uri \in Uris /\ w.lane \in {"operator", "model"}
      /\ w.conf \in Confidentialities /\ w.owner \in STRING
  BY <1>1, WatchFields DEF Watching
<1>3. CASE InsertWatch(w)
  <2> DEFINE e == [enabled |-> TRUE, conf |-> w.conf, owner |-> w.owner]
  <2>1. watched' = [watched EXCEPT ![w.uri] = e] /\ old = None
    BY <1>3 DEF InsertWatch
  <2>2. e \in Entry
    BY <1>2 DEF Entry
  <2> HIDE DEF e
  <2> QED BY <1>1, <1>2, <2>1, <2>2
<1>4. CASE tx[c].saw /\ UpdateWatch(w)
  <2>1. /\ old # None /\ old \in Entry /\ w.uri \in tx[c].locks
        /\ w.lane = "model" => old.enabled
    BY <1>1, <1>2, <1>4 DEF Watching, Typed
  <2>2. Free(c, w.uri)
    BY <2>1 DEF IInv, Exclusive, Free
  <2> DEFINE e == IF w.lane = "operator"
                  THEN [enabled |-> TRUE, conf |-> w.conf, owner |-> w.owner]
                  ELSE [enabled |-> TRUE, owner |-> old.owner,
                        conf |-> IF w.conf >= old.conf THEN w.conf ELSE old.conf]
  <2>3. watched' = [watched EXCEPT ![w.uri] = e]
    BY <1>4 DEF UpdateWatch
  <2>4. e \in Entry
    BY <1>2, <2>1 DEF Entry
  <2>5. w.lane # "operator" => e.conf >= old.conf /\ e.owner = old.owner
    BY <1>2, <2>1 DEF Entry, Confidentialities
  <2> HIDE DEF e
  <2> QED BY <1>1, <1>2, <2>1, <2>2, <2>3, <2>4, <2>5
<1> QED BY <1>1, <1>2, <1>3, <1>4

LEMMA CommitWatchStep ==
  ASSUME IInv, NEW c \in Clients, CommitWatch(c)
  PROVE  IInv'
<1>1. CASE UNCHANGED watchlist
  BY <1>1, WatchOutcome, EndsHeld
<1>2. CASE ~UNCHANGED watchlist
  <2> DEFINE u == tx[c].req.uri
  <2>1. PICK e :
          /\ watched' = [watched EXCEPT ![u] = e] /\ u \in Uris
          /\ e \in Entry
          /\ Free(c, u) \/ watched[u] = None
          /\ tx' = [tx EXCEPT ![c] = Idle] /\ UNCHANGED registry
    BY <1>2, WatchOutcome
  <2>2. PICK x \in Uris : x = u
    BY <2>1
  <2> QED BY <2>1, <2>2, WatchedStep
<1> QED BY <1>1, <1>2

(* An entry that is disabled.                                              *)
LEMMA Disabled ==
  ASSUME NEW e \in Entry, NEW b \in BOOLEAN
  PROVE  /\ [e EXCEPT !.enabled = b] \in Entry
         /\ [e EXCEPT !.enabled = b].enabled = b
         /\ [e EXCEPT !.enabled = b].conf = e.conf
         /\ [e EXCEPT !.enabled = b].owner = e.owner
BY DEF Entry

(* source-unwatch waits for the lock of its row.                           *)
LEMMA UnwatchOutcome ==
  ASSUME IInv, NEW c \in Clients, NEW w \in Watches, Unwatch(c, w)
  PROVE  /\ w.uri \in Uris /\ tx' = tx /\ tx[c] = Idle /\ UNCHANGED registry
         /\ \/ UNCHANGED watched
            \/ \E e : /\ watched' = [watched EXCEPT ![w.uri] = e]
                      /\ Free(c, w.uri) /\ e \in Entry
                      /\ e.enabled = FALSE /\ e.conf = watched[w.uri].conf
                      /\ e.owner = watched[w.uri].owner
<1> DEFINE old == watched[w.uri]
           no == FALSE
           e == [old EXCEPT !.enabled = no]
<1>1. w.uri \in Uris /\ tx' = tx /\ tx[c] = Idle /\ UNCHANGED registry /\ Free(c, w.uri)
  BY WatchFields DEF Unwatch
<1>2. CASE watched' # watched
  <2>1. old # None /\ watched' = [watched EXCEPT ![w.uri] = e]
    BY <1>2 DEF Unwatch
  <2> HIDE DEF no
  <2>2. old \in Entry /\ no \in BOOLEAN
    BY <1>1, <2>1 DEF IInv, Typed, no
  <2>3. e \in Entry /\ e.enabled = no /\ e.conf = old.conf /\ e.owner = old.owner
    BY <2>2, Disabled
  <2> HIDE DEF e
  <2>4. e.enabled = FALSE
    BY <2>3 DEF no
  <2> QED BY <1>1, <2>1, <2>3, <2>4
<1> QED BY <1>1, <1>2

LEMMA UnwatchStep ==
  ASSUME IInv, NEW c \in Clients, NEW w \in Watches, Unwatch(c, w)
  PROVE  IInv'
<1>1. CASE UNCHANGED watched
  BY <1>1, UnwatchOutcome
  DEF IInv, Typed, Exclusive, Held, Adding, Watching, registry, Levelled
<1>2. CASE ~UNCHANGED watched
  <2>1. PICK e : /\ watched' = [watched EXCEPT ![w.uri] = e]
                 /\ Free(c, w.uri) /\ e \in Entry
    BY <1>2, UnwatchOutcome
  <2>2. w.uri \in Uris /\ tx' = tx /\ tx[c] = Idle /\ UNCHANGED registry
    BY UnwatchOutcome
  <2> QED BY <2>1, <2>2, WatchedStep
<1> QED BY <1>1, <1>2

(* A scan locks what is free, and writes no entry.                         *)
LEMMA BeginScanStep ==
  ASSUME IInv, NEW c \in Clients, NEW lane, BeginScan(c, lane)
  PROVE  IInv'
<1> DEFINE u == [op |-> "scan", req |-> lane, saw |-> TRUE,
                 locks |-> Worklist(c, lane)]
<1>1. /\ tx' = [tx EXCEPT ![c] = u] /\ tx[c] = Idle
      /\ UNCHANGED <<sources, watched>> /\ Typed
  BY DEF BeginScan, registry, watchlist, IInv
<1>2. \A x \in Worklist(c, lane) : Free(c, x)
  BY DEF Worklist, Unlocked
<1>3. u.op = "scan" /\ u.locks = Worklist(c, lane)
  OBVIOUS
<1> HIDE DEF u
<1>4. \A d \in Clients : tx'[d] = IF d = c THEN u ELSE tx[d]
  BY <1>1 DEF Typed
<1>5. Typed'
  BY <1>1, <1>4 DEF Typed, Levelled
<1>6. Exclusive'
  BY <1>1, <1>2, <1>3, <1>4 DEF IInv, Exclusive, Free
<1>7. Held'
  BY <1>1, <1>3, <1>4 DEF IInv, Held, Adding, Watching
<1> QED BY <1>5, <1>6, <1>7 DEF IInv

(* The other steps leave both tables, and end or open nothing.             *)
LEMMA QuietStep ==
  ASSUME IInv, UNCHANGED <<sources, watched, tx>>
  PROVE  IInv'
BY DEF IInv, Typed, Exclusive, Held, Adding, Watching, Levelled

LEMMA CommitScanStep ==
  ASSUME IInv, NEW c \in Clients, CommitScan(c)
  PROVE  IInv'
<1>1. /\ tx' = [tx EXCEPT ![c] = Idle] /\ UNCHANGED <<sources, watched>>
      /\ tx = [d \in Clients |-> tx[d]]
  BY DEF CommitScan, registry, IInv, Typed
<1>2. \A d \in Clients : tx'[d] = IF d = c THEN Idle ELSE tx[d]
  BY <1>1
<1>3. Typed'
  BY <1>1, <1>2 DEF IInv, Typed, Levelled
<1>4. Exclusive' /\ Held'
  BY <1>1, <1>2 DEF IInv, Exclusive, Held, Adding, Watching, Idle
<1> QED BY <1>3, <1>4 DEF IInv

LEMMA StepIInv == IInv /\ [Next]_vars => IInv'
<1> SUFFICES ASSUME IInv, [Next]_vars PROVE IInv'
  OBVIOUS
<1>1. CASE UNCHANGED vars
  BY <1>1, QuietStep DEF vars, registry, watchlist
<1>2. ASSUME NEW c \in Clients, Helper(c) PROVE IInv'
  <2>1. CASE \E a \in Adds : BeginAdd(c, a)
    BY <2>1, BeginAddStep
  <2>2. ASSUME NEW w \in Watches, BeginWatch(c, w) \/ Unwatch(c, w) \/ OperatorScan(c, w)
        PROVE  IInv'
    BY <2>2, BeginWatchStep, UnwatchStep, BeginScanStep DEF OperatorScan
  <2>3. CASE CommitAdd(c) \/ CommitWatch(c) \/ CommitScan(c)
    BY <2>3, CommitAddStep, CommitWatchStep, CommitScanStep
  <2>4. CASE Abort(c)
    BY <2>4, EndsHeld DEF Abort
  <2> QED BY <1>2, <2>1, <2>2, <2>3, <2>4 DEF Helper
<1>3. CASE ScheduledScan
  BY <1>3, BeginScanStep, InvocationsAssumption DEF ScheduledScan
<1>4. CASE \E e \in Cites : CiteSource(e)
  BY <1>4, CiteStep
<1>5. CASE \E u \in Uris : BecomesDue(u)
  BY <1>5, QuietStep DEF BecomesDue, registry
<1> QED BY <1>1, <1>2, <1>3, <1>4, <1>5 DEF Next

LEMMA Inductive == Spec => []IInv
BY InitIInv, StepIInv, PTL DEF Spec

-----------------------------------------------------------------------------
(* The steps that write sources, and those that write watched.             *)
LEMMA SourcesWritten ==
  ASSUME Next
  PROVE  \/ \E c \in Clients : CommitAdd(c)
         \/ \E e \in Cites : CiteSource(e)
         \/ sources' = sources
<1> USE DEF registry
<1>1. ASSUME NEW c \in Clients, Helper(c)
      PROVE  CommitAdd(c) \/ sources' = sources
  <2>1. /\ \A a \in Adds : BeginAdd(c, a) => sources' = sources
        /\ CommitWatch(c) \/ CommitScan(c) \/ Abort(c) => sources' = sources
    BY DEF BeginAdd, CommitWatch, CommitScan, Abort
  <2>2. \A w \in Watches : BeginWatch(c, w) \/ Unwatch(c, w) \/ OperatorScan(c, w)
                             => sources' = sources
    BY DEF BeginWatch, Unwatch, OperatorScan, BeginScan
  <2> QED BY <1>1, <2>1, <2>2 DEF Helper
<1>2. /\ ScheduledScan => sources' = sources
      /\ \A u \in Uris : BecomesDue(u) => sources' = sources
  BY DEF ScheduledScan, BeginScan, BecomesDue
<1> QED BY <1>1, <1>2 DEF Next

LEMMA WatchedWritten ==
  ASSUME Next
  PROVE  \/ \E c \in Clients : CommitWatch(c)
         \/ \E c \in Clients, w \in Watches : Unwatch(c, w)
         \/ watched' = watched
<1> USE DEF watchlist
<1>1. ASSUME NEW c \in Clients, Helper(c)
      PROVE  \/ CommitWatch(c) \/ \E w \in Watches : Unwatch(c, w)
             \/ watched' = watched
  <2>1. /\ \A a \in Adds : BeginAdd(c, a) => watched' = watched
        /\ CommitAdd(c) \/ CommitScan(c) \/ Abort(c) => watched' = watched
    BY DEF BeginAdd, CommitAdd, CommitScan, Abort
  <2>2. \A w \in Watches : BeginWatch(c, w) \/ OperatorScan(c, w) => watched' = watched
    BY DEF BeginWatch, OperatorScan, BeginScan
  <2> QED BY <1>1, <2>1, <2>2 DEF Helper
<1>2. /\ ScheduledScan => watched' = watched
      /\ \A u \in Uris : BecomesDue(u) => watched' = watched
      /\ \A e \in Cites : CiteSource(e) => watched' = watched
  BY DEF ScheduledScan, BeginScan, BecomesDue, CiteSource
<1> QED BY <1>1, <1>2 DEF Next

(* The levels of a source go down only under --allow-downgrade, or by an   *)
(* addition that looked before the source was there (vcops.py:2996-3017).  *)
LEMMA LevelsGoDownDeliberately ==
  ASSUME IInv, [Next]_vars
  PROVE  [LoweredAsAsked]_vars
<1>1. ASSUME Next
      PROVE  LoweredAsAsked
  <2> SUFFICES ASSUME IInv, Next, NEW k \in Keys, sources[k] # None,
                      Lowers(sources'[k], sources[k])
               PROVE  \E c \in Clients : /\ tx[c].op = "add" /\ tx'[c] = Idle
                                         /\ tx[c].req.allow \/ ~tx[c].saw
    BY <1>1 DEF LoweredAsAsked
  <2>1. Levelled(sources[k])
    BY DEF IInv, Typed
  <2>2. sources'[k] # sources[k]
    BY <2>1 DEF Levelled, Lowers, Trusts, Confidentialities
  <2>3. PICK c \in Clients : CommitAdd(c)
    <3>1. \A e \in Cites : CiteSource(e) => sources'[k] = sources[k]
      BY CiteFields DEF CiteSource, IInv, Typed
    <3> QED BY <2>2, <3>1, SourcesWritten
  <2> DEFINE a == tx[c].req
  <2>4. /\ tx[c].op = "add" /\ tx'[c] = Idle /\ a.key = k
        /\ sources'[k].trust = a.trust /\ sources'[k].conf = a.conf
    <3>1. a \in Adds /\ a.key \in Keys
      BY <2>3, AddFields DEF CommitAdd, IInv, Held, Adding
    <3>2. a.key = k
      BY <2>2, <2>3, <3>1 DEF CommitAdd, IInv, Typed
    <3> QED BY <2>3, <3>1, <3>2 DEF CommitAdd, IInv, Typed
  <2>5. tx[c].saw => a.allow
    <3>1. Lowers(a, sources[k])
      BY <2>4 DEF Lowers
    <3> QED BY <2>4, <3>1 DEF IInv, Held, Adding
  <2> QED BY <2>4, <2>5
<1> QED BY <1>1

(* Only the operator enables what was disabled, lowers a classification or *)
(* takes an entry of the watchlist over (vcops.py:3997-4030).              *)
LEMMA OperatorAloneLoosens ==
  ASSUME IInv, [Next]_vars
  PROVE  [LoosenedByOperator]_vars
<1>1. ASSUME Next
      PROVE  LoosenedByOperator
  <2> SUFFICES ASSUME IInv, Next, NEW u \in Uris, watched[u] # None,
                      ~\E c \in Clients : /\ tx[c].op = "watch" /\ tx'[c] = Idle
                                          /\ tx[c].req.lane = "operator"
               PROVE  /\ watched'[u].enabled => watched[u].enabled
                      /\ watched'[u].conf >= watched[u].conf
                      /\ watched'[u].owner = watched[u].owner
    BY <1>1 DEF LoosenedByOperator
  <2>1. watched[u].conf \in Nat /\ watched = [x \in Uris |-> watched[x]]
        /\ tx = [d \in Clients |-> tx[d]]
    BY DEF IInv, Typed, Entry, Confidentialities
  <2>2. CASE watched' = watched
    BY <2>1, <2>2
  <2>3. ASSUME NEW c \in Clients, CommitWatch(c), watched' # watched
        PROVE  /\ watched'[u].enabled => watched[u].enabled
               /\ watched'[u].conf >= watched[u].conf
               /\ watched'[u].owner = watched[u].owner
    <3> DEFINE w == tx[c].req
    <3>1. /\ tx[c].op = "watch" /\ tx' = [tx EXCEPT ![c] = Idle]
      BY <2>3 DEF CommitWatch
    <3>2. w.lane # "operator"
      BY <2>1, <3>1
    <3>3. ~UNCHANGED watchlist
      BY <2>3 DEF watchlist
    <3>4. PICK e :
            /\ watched' = [watched EXCEPT ![w.uri] = e] /\ w.uri \in Uris
            /\ watched[w.uri] # None =>
                 /\ watched[w.uri].enabled
                 /\ e.conf >= watched[w.uri].conf
                 /\ e.owner = watched[w.uri].owner
      BY <2>3, <3>2, <3>3, WatchOutcome
    <3> QED BY <2>1, <3>4
  <2>4. ASSUME NEW c \in Clients, NEW w \in Watches, Unwatch(c, w), watched' # watched
        PROVE  /\ watched'[u].enabled => watched[u].enabled
               /\ watched'[u].conf >= watched[u].conf
               /\ watched'[u].owner = watched[u].owner
    <3>1. PICK e : /\ watched' = [watched EXCEPT ![w.uri] = e] /\ w.uri \in Uris
                   /\ e.enabled = FALSE /\ e.conf = watched[w.uri].conf
                   /\ e.owner = watched[w.uri].owner
      BY <2>4, UnwatchOutcome
    <3> QED BY <2>1, <3>1
  <2> QED BY <2>2, <2>3, <2>4, WatchedWritten
<1> QED BY <1>1

(* Sources and watched sources are loosened only deliberately, for any     *)
(* number of helpers and any requests.                                     *)
THEOREM LooseningStaysDeliberate == Spec => LooseningIsDeliberate
<1>1. IInv /\ [Next]_vars => [LoweredAsAsked /\ LoosenedByOperator]_vars
  BY LevelsGoDownDeliberately, OperatorAloneLoosens
<1> QED
  BY <1>1, Inductive, PTL DEF Spec, LooseningIsDeliberate

-----------------------------------------------------------------------------
(* The order of the worklist.                                              *)
Ordered ==
  /\ fresh \subseteq due /\ due \subseteq Listed
  /\ ahead \in Orders(Listed) /\ fresh \X (Listed \ fresh) \subseteq ahead

Scanning(t) ==
  t.op = "scan" => \A u \in t.locks : u \in Uris /\ Claimable(u, t.req)

Claims ==
  \A c \in Clients : Scanning(tx[c]) /\ tx[c].locks \subseteq Keys \cup Uris

ScanInv == IInv /\ Ordered /\ Claims

(* A row that joins the worklist goes behind those that were never scanned *)
(* and before those that were.                                             *)
LEMMA OrderWithNew ==
  ASSUME NEW S, NEW r \in Orders(S), NEW F \in SUBSET S, NEW u, u \notin S,
         F \X (S \ F) \subseteq r
  PROVE  LET q == r \cup (F \X {u}) \cup ({u} \X (S \ F))
         IN  /\ q \in Orders(S \cup {u})
             /\ (F \cup {u}) \X ((S \cup {u}) \ (F \cup {u})) \subseteq q
<1> DEFINE q == r \cup (F \X {u}) \cup ({u} \X (S \ F))
           T == S \cup {u}
<1>1. /\ r \subseteq S \X S
      /\ \A x, y \in S : <<x, y>> \in r => <<y, x>> \notin r
      /\ \A x, y \in S : x = y \/ <<x, y>> \in r \/ <<y, x>> \in r
      /\ \A x, y, z \in S : <<x, y>> \in r /\ <<y, z>> \in r => <<x, z>> \in r
  BY DEF Orders
<1>2. \A x, y : <<x, y>> \in q <=> \/ x \in S /\ y \in S /\ <<x, y>> \in r
                                   \/ x \in F /\ y = u
                                   \/ x = u /\ y \in S /\ y \notin F
  <2>1. \A x, y : <<x, y>> \in F \X {u} <=> x \in F /\ y = u
    OBVIOUS
  <2>2. \A x, y : <<x, y>> \in {u} \X (S \ F) <=> x = u /\ y \in S /\ y \notin F
    OBVIOUS
  <2>3. \A x, y : <<x, y>> \in r => x \in S /\ y \in S
    BY <1>1
  <2> QED BY <2>1, <2>2, <2>3
<1>3. q \subseteq T \X T
  BY <1>1
<1>4. (F \cup {u}) \X (T \ (F \cup {u})) \subseteq q
  OBVIOUS
<1>5. \A x \in F, y \in S : y \notin F => <<x, y>> \in r
  OBVIOUS
<1> HIDE DEF q
<1>6. \A x, y \in T : <<x, y>> \in q => <<y, x>> \notin q
  BY <1>1, <1>2
<1>7. \A x, y \in T : x = y \/ <<x, y>> \in q \/ <<y, x>> \in q
  <2> TAKE x, y \in T
  <2>1. CASE x \in S /\ y \in S
    BY <1>1, <1>2, <2>1
  <2>2. CASE x = u \/ y = u
    BY <1>2, <2>2
  <2> QED BY <2>1, <2>2
<1>8. \A x, y, z \in T : <<x, y>> \in q /\ <<y, z>> \in q => <<x, z>> \in q
  <2> TAKE x, y, z \in T
  <2> HAVE <<x, y>> \in q /\ <<y, z>> \in q
  <2>1. CASE x = u
    BY <1>1, <1>2, <1>5, <2>1
  <2>2. CASE y = u
    BY <1>1, <1>2, <1>5, <2>2
  <2>3. CASE z = u
    BY <1>1, <1>2, <1>5, <2>3
  <2> QED BY <1>1, <1>2, <2>1, <2>2, <2>3
<1> QED BY <1>3, <1>4, <1>6, <1>7, <1>8 DEF Orders, q

(* Rows that are stamped go to the end, in any order.                      *)
LEMMA OrderOfStamped ==
  ASSUME NEW S, NEW r \in Orders(S), NEW F \in SUBSET S, NEW C \in SUBSET S,
         NEW o \in Orders(C), F \X (S \ F) \subseteq r
  PROVE  LET kept == S \ C
             q == (r \cap (kept \X kept)) \cup (kept \X C) \cup o
         IN  q \in Orders(S) /\ (F \ C) \X (S \ (F \ C)) \subseteq q
<1> DEFINE kept == S \ C
           q == (r \cap (kept \X kept)) \cup (kept \X C) \cup o
<1>1. /\ r \subseteq S \X S /\ o \subseteq C \X C
      /\ \A x, y \in S : <<x, y>> \in r => <<y, x>> \notin r
      /\ \A x, y \in S : x = y \/ <<x, y>> \in r \/ <<y, x>> \in r
      /\ \A x, y, z \in S : <<x, y>> \in r /\ <<y, z>> \in r => <<x, z>> \in r
      /\ \A x, y \in C : <<x, y>> \in o => <<y, x>> \notin o
      /\ \A x, y \in C : x = y \/ <<x, y>> \in o \/ <<y, x>> \in o
      /\ \A x, y, z \in C : <<x, y>> \in o /\ <<y, z>> \in o => <<x, z>> \in o
  BY DEF Orders
<1>2. \A x, y : <<x, y>> \in q <=>
        \/ x \in kept /\ y \in kept /\ <<x, y>> \in r
        \/ x \in kept /\ y \in C
        \/ x \in C /\ y \in C /\ <<x, y>> \in o
  BY <1>1
<1>3. q \subseteq S \X S
  BY <1>1
<1>4. (F \ C) \X (S \ (F \ C)) \subseteq q
  <2>1. \A x \in F \ C, y \in S \ (F \ C) : <<x, y>> \in q
    <3>1. \A x \in F, y \in S \ F : <<x, y>> \in r
      OBVIOUS
    <3> HIDE DEF q
    <3> QED BY <1>2, <3>1
  <2> HIDE DEF q
  <2> QED BY <2>1
<1> HIDE DEF q
<1>5. \A x, y \in S : <<x, y>> \in q => <<y, x>> \notin q
  BY <1>1, <1>2
<1>6. \A x, y \in S : x = y \/ <<x, y>> \in q \/ <<y, x>> \in q
  BY <1>1, <1>2
<1>7. \A x, y, z \in S : <<x, y>> \in q /\ <<y, z>> \in q => <<x, z>> \in q
  BY <1>1, <1>2
<1> QED BY <1>3, <1>4, <1>5, <1>6, <1>7 DEF Orders, q

-----------------------------------------------------------------------------
LEMMA InitScanInv == Init => ScanInv
<1> SUFFICES ASSUME Init PROVE Ordered /\ Claims
  BY InitIInv DEF ScanInv
<1>1. Listed = {}
  BY DEF Init, Listed
<1> QED BY <1>1 DEF Init, Ordered, Claims, Scanning, Orders, Idle

(* A step leaves the claims of a transaction when it keeps it open, does   *)
(* not write the rows it locked and takes none of them off the due ones.   *)
LEMMA KeepsClaims ==
  ASSUME ScanInv, NEW d \in Clients, tx'[d] = tx[d],
         \A u \in tx[d].locks : u \in due => u \in due' /\ watched'[u] = watched[u]
  PROVE  Scanning(tx[d])' /\ (tx[d].locks \subseteq Keys \cup Uris)'
BY DEF ScanInv, Claims, Scanning, Claimable, InCeiling

(* What a step of c leaves to prove when it only writes tx[c].             *)
LEMMA OwnStep ==
  ASSUME ScanInv, NEW c \in Clients, NEW t, tx' = [tx EXCEPT ![c] = t],
         UNCHANGED <<watched, due, fresh, ahead>>,
         t.locks \subseteq Keys \cup Uris,
         t.op = "scan" => \A u \in t.locks : u \in Uris /\ Claimable(u, t.req)
  PROVE  Ordered' /\ Claims'
<1>1. Ordered'
  BY DEF ScanInv, Ordered, Listed
<1>2. tx'[c] = t /\ \A d \in Clients \ {c} : tx'[d] = tx[d]
  BY DEF ScanInv, IInv, Typed
<1>3. Scanning(tx[c])' /\ (tx[c].locks \subseteq Keys \cup Uris)'
  BY <1>2 DEF Scanning, Claimable, InCeiling
<1>4. \A d \in Clients \ {c} :
        Scanning(tx[d])' /\ (tx[d].locks \subseteq Keys \cup Uris)'
  BY <1>2, KeepsClaims
<1> QED BY <1>1, <1>3, <1>4 DEF Claims

LEMMA NoScanStep ==
  ASSUME ScanInv, UNCHANGED <<watched, due, fresh, ahead, tx>>
  PROVE  Ordered' /\ Claims'
BY DEF ScanInv, Ordered, Listed, Claims, Scanning, Claimable, InCeiling

LEMMA BeginClaims ==
  ASSUME ScanInv, NEW c \in Clients,
         \/ \E a \in Adds : BeginAdd(c, a)
         \/ \E w \in Watches : BeginWatch(c, w)
  PROVE  Ordered' /\ Claims'
<1>1. UNCHANGED <<watched, due, fresh, ahead>>
  BY DEF BeginAdd, BeginWatch, watchlist
<1>2. CASE tx' = tx
  BY <1>1, <1>2, NoScanStep
<1>3. CASE tx' # tx
  <2>1. \E t : /\ tx' = [tx EXCEPT ![c] = t]
               /\ t.locks \subseteq Keys \cup Uris /\ t.op # "scan"
    <3>1. ASSUME NEW a \in Adds, BeginAdd(c, a)
          PROVE  \E t : /\ tx' = [tx EXCEPT ![c] = t]
                        /\ t.locks \subseteq Keys \cup Uris /\ t.op # "scan"
      <4> DEFINE blind == [op |-> "add", req |-> a, saw |-> FALSE, locks |-> {}]
                 found == [op |-> "add", req |-> a, saw |-> TRUE, locks |-> {a.key}]
      <4>1. blind.op # "scan" /\ blind.locks = {} /\ found.op # "scan"
            /\ found.locks = {a.key} /\ a.key \in Keys
        BY AddFields
      <4>2. \/ tx' = [tx EXCEPT ![c] = blind] \/ tx' = [tx EXCEPT ![c] = found]
        BY <1>3, <3>1 DEF BeginAdd, Idle
      <4> HIDE DEF blind, found
      <4> QED BY <4>1, <4>2
    <3>2. ASSUME NEW w \in Watches, BeginWatch(c, w)
          PROVE  \E t : /\ tx' = [tx EXCEPT ![c] = t]
                        /\ t.locks \subseteq Keys \cup Uris /\ t.op # "scan"
      <4> DEFINE blind == [op |-> "watch", req |-> w, saw |-> FALSE, locks |-> {}]
                 found == [op |-> "watch", req |-> w, saw |-> TRUE, locks |-> {w.uri}]
      <4>1. blind.op # "scan" /\ blind.locks = {} /\ found.op # "scan"
            /\ found.locks = {w.uri} /\ w.uri \in Uris
        BY WatchFields
      <4>2. \/ tx' = [tx EXCEPT ![c] = blind] \/ tx' = [tx EXCEPT ![c] = found]
        BY <1>3, <3>2 DEF BeginWatch, Idle
      <4> HIDE DEF blind, found
      <4> QED BY <4>1, <4>2
    <3> QED BY <3>1, <3>2
  <2> QED BY <1>1, <2>1, OwnStep
<1> QED BY <1>2, <1>3

(* A registration writes the entry it locked, or adds one that no scan can *)
(* have claimed.                                                           *)
LEMMA CommitWatchClaims ==
  ASSUME ScanInv, NEW c \in Clients, CommitWatch(c)
  PROVE  Ordered' /\ Claims'
<1> DEFINE w == tx[c].req
<1>1. /\ tx[c].op = "watch" /\ w \in Watches /\ w.uri \in Uris
      /\ w.conf \in Confidentialities /\ w.owner \in STRING
      /\ tx' = [tx EXCEPT ![c] = Idle]
  BY WatchFields DEF CommitWatch, ScanInv, IInv, Held, Watching
<1>2. tx'[c] = Idle /\ \A d \in Clients \ {c} : tx'[d] = tx[d]
  BY <1>1 DEF ScanInv, IInv, Typed
<1>3. Scanning(tx[c])' /\ (tx[c].locks \subseteq Keys \cup Uris)'
  BY <1>2 DEF Scanning, Idle
<1>4. watched = [u \in Uris |-> watched[u]] /\ IInv
  BY DEF ScanInv, IInv, Typed
<1>5. CASE UNCHANGED watchlist
  BY <1>1, <1>5, OwnStep DEF watchlist, Idle
<1>6. CASE InsertWatch(w)
  <2> DEFINE e == [enabled |-> TRUE, conf |-> w.conf, owner |-> w.owner]
             u == w.uri
  <2>1. /\ watched[u] = None /\ watched' = [watched EXCEPT ![u] = e]
        /\ due' = due \cup {u} /\ fresh' = fresh \cup {u}
        /\ ahead' = ahead \cup (fresh \X {u}) \cup ({u} \X (Listed \ fresh))
    BY <1>6 DEF InsertWatch
  <2>2. e \in Entry
    BY <1>1 DEF Entry
  <2> HIDE DEF e
  <2>3. /\ watched'[u] = e
        /\ \A x \in Uris \ {u} : watched'[x] = watched[x]
    BY <1>1, <1>4, <2>1
  <2>4. Listed' = Listed \cup {u} /\ u \notin Listed
    BY <1>1, <2>1, <2>2, <2>3, NoneAssumption DEF Listed
  <2>5. Ordered'
    <3>1. fresh \in SUBSET Listed /\ ahead \in Orders(Listed) /\ due \subseteq Listed
          /\ fresh \X (Listed \ fresh) \subseteq ahead
      BY DEF ScanInv, Ordered
    <3>2. ahead' \in Orders(Listed') /\ fresh' \X (Listed' \ fresh') \subseteq ahead'
      BY <2>1, <2>4, <3>1, OrderWithNew
    <3>3. fresh' \subseteq due' /\ due' \subseteq Listed'
      BY <2>1, <2>4 DEF ScanInv, Ordered
    <3> QED BY <3>2, <3>3 DEF Ordered
  <2>6. ASSUME NEW d \in Clients \ {c}
        PROVE  Scanning(tx[d])' /\ (tx[d].locks \subseteq Keys \cup Uris)'
    <3>1. \A x \in tx[d].locks : x \in due => x \in due' /\ watched'[x] = watched[x]
      BY <1>1, <2>1, <2>3, <2>4 DEF ScanInv, Ordered, Listed
    <3> QED BY <1>2, <3>1, KeepsClaims
  <2> QED BY <1>3, <2>5, <2>6 DEF Claims
<1>7. CASE tx[c].saw /\ UpdateWatch(w)
  <2>1. /\ UNCHANGED <<due, fresh, ahead>>
        /\ \A x \in Uris \ {w.uri} : watched'[x] = watched[x]
        /\ w.uri \in tx[c].locks /\ watched[w.uri] # None
    BY <1>1, <1>4, <1>7 DEF UpdateWatch, IInv, Held, Watching
  <2>2. Listed' = Listed
    <3>1. watched'[w.uri] \in Entry
      <4>1. watched[w.uri] \in Entry
        BY <1>1, <1>4, <2>1 DEF IInv, Typed
      <4> QED BY <1>1, <1>4, <1>7, <4>1 DEF UpdateWatch, Entry
    <3> QED BY <2>1, <3>1, NoneAssumption DEF Listed
  <2>3. Ordered'
    BY <2>1, <2>2 DEF ScanInv, Ordered
  <2>4. ASSUME NEW d \in Clients \ {c}
        PROVE  Scanning(tx[d])' /\ (tx[d].locks \subseteq Keys \cup Uris)'
    <3>1. w.uri \notin tx[d].locks
      BY <1>4, <2>1 DEF IInv, Exclusive
    <3>2. \A x \in tx[d].locks : x \in due => x \in due' /\ watched'[x] = watched[x]
      BY <2>1, <3>1 DEF ScanInv, Ordered, Listed
    <3> QED BY <1>2, <3>2, KeepsClaims
  <2> QED BY <1>3, <2>3, <2>4 DEF Claims
<1> QED BY <1>5, <1>6, <1>7 DEF CommitWatch

(* source-unwatch waits for a scan that claimed its row.                   *)
LEMMA UnwatchClaims ==
  ASSUME ScanInv, NEW c \in Clients, NEW w \in Watches, Unwatch(c, w)
  PROVE  Ordered' /\ Claims'
<1>1. /\ tx' = tx /\ UNCHANGED <<due, fresh, ahead>> /\ tx[c] = Idle
      /\ w.uri \in Uris /\ watched = [u \in Uris |-> watched[u]] /\ IInv
  BY WatchFields DEF Unwatch, ScanInv, IInv, Typed
<1>2. CASE UNCHANGED watched
  BY <1>1, <1>2, NoScanStep
<1>3. CASE watched' # watched
  <2>1. watched[w.uri] # None /\ Free(c, w.uri)
    BY <1>3 DEF Unwatch
  <2>2. PICK e : /\ watched' = [watched EXCEPT ![w.uri] = e] /\ e \in Entry
    BY <1>1, <1>3, UnwatchOutcome
  <2>3. watched'[w.uri] = e /\ \A x \in Uris \ {w.uri} : watched'[x] = watched[x]
    BY <1>1, <2>2
  <2>4. Listed' = Listed
    BY <2>1, <2>2, <2>3, NoneAssumption DEF Listed
  <2>5. Ordered'
    BY <1>1, <2>4 DEF ScanInv, Ordered
  <2>6. ASSUME NEW d \in Clients
        PROVE  Scanning(tx[d])' /\ (tx[d].locks \subseteq Keys \cup Uris)'
    <3>1. w.uri \notin tx[d].locks
      BY <1>1, <2>1 DEF Free, Idle
    <3>2. \A x \in tx[d].locks : x \in due => x \in due' /\ watched'[x] = watched[x]
      BY <1>1, <2>3, <3>1 DEF ScanInv, Ordered, Listed
    <3> QED BY <1>1, <3>2, KeepsClaims
  <2> QED BY <2>5, <2>6 DEF Claims
<1> QED BY <1>2, <1>3

LEMMA BeginScanClaims ==
  ASSUME ScanInv, NEW c \in Clients, NEW lane, BeginScan(c, lane)
  PROVE  Ordered' /\ Claims'
<1> DEFINE t == [op |-> "scan", req |-> lane, saw |-> TRUE,
                 locks |-> Worklist(c, lane)]
<1>1. tx' = [tx EXCEPT ![c] = t] /\ UNCHANGED <<watched, due, fresh, ahead>>
  BY DEF BeginScan, watchlist
<1>2. t.req = lane /\ t.locks = Worklist(c, lane)
  OBVIOUS
<1>3. \A u \in Worklist(c, lane) : u \in Uris /\ Claimable(u, lane)
  BY DEF Worklist, Unlocked, Listed
<1> HIDE DEF t
<1>4. t.locks \subseteq Keys \cup Uris
  BY <1>2, <1>3
<1>5. \A u \in t.locks : u \in Uris /\ Claimable(u, t.req)
  BY <1>2, <1>3
<1> QED BY <1>1, <1>4, <1>5, OwnStep

(* The rows that a scan stamps are its own.                                *)
LEMMA CommitScanClaims ==
  ASSUME ScanInv, NEW c \in Clients, CommitScan(c)
  PROVE  Ordered' /\ Claims'
<1> DEFINE claimed == tx[c].locks
           kept == Listed \ claimed
<1>1. /\ tx[c].op = "scan"
      /\ due' = due \ claimed /\ fresh' = fresh \ claimed
      /\ tx' = [tx EXCEPT ![c] = Idle] /\ UNCHANGED watched
  BY DEF CommitScan
<1>2. PICK stamped \in Orders(claimed) :
        ahead' = (ahead \cap (kept \X kept)) \cup (kept \X claimed) \cup stamped
  BY DEF CommitScan
<1>3. claimed \in SUBSET Listed
  BY <1>1 DEF ScanInv, Ordered, Claims, Scanning, Claimable
<1>4. Listed' = Listed
  BY <1>1 DEF Listed
<1>5. Ordered'
  <2>1. /\ fresh \in SUBSET Listed /\ ahead \in Orders(Listed)
        /\ fresh \X (Listed \ fresh) \subseteq ahead
    BY DEF ScanInv, Ordered
  <2>2. ahead' \in Orders(Listed) /\ fresh' \X (Listed \ fresh') \subseteq ahead'
    <3> HIDE DEF claimed
    <3> QED BY <1>1, <1>2, <1>3, <2>1, OrderOfStamped
  <2>3. fresh' \subseteq due' /\ due' \subseteq Listed
    BY <1>1 DEF ScanInv, Ordered
  <2> QED BY <1>4, <2>2, <2>3 DEF Ordered
<1>6. tx'[c] = Idle /\ \A d \in Clients \ {c} : tx'[d] = tx[d]
  BY <1>1 DEF ScanInv, IInv, Typed
<1>7. ASSUME NEW d \in Clients \ {c}
      PROVE  Scanning(tx[d])' /\ (tx[d].locks \subseteq Keys \cup Uris)'
  <2>1. tx[d].locks \cap claimed = {}
    BY DEF ScanInv, IInv, Exclusive
  <2>2. \A x \in tx[d].locks : x \in due => x \in due' /\ watched'[x] = watched[x]
    BY <1>1, <2>1
  <2> QED BY <1>6, <2>2, KeepsClaims
<1> QED BY <1>5, <1>6, <1>7 DEF Claims, Scanning, Idle

(* What becomes due stays listed, and nothing that was claimed leaves.     *)
LEMMA BecomesDueClaims ==
  ASSUME ScanInv, NEW u \in Uris, BecomesDue(u)
  PROVE  Ordered' /\ Claims'
<1>1. /\ watched[u] # None /\ due' = due \cup {u}
      /\ UNCHANGED <<watched, fresh, ahead, tx>>
  BY DEF BecomesDue
<1>2. Ordered'
  BY <1>1 DEF ScanInv, Ordered, Listed
<1>3. \A d \in Clients : Scanning(tx[d])' /\ (tx[d].locks \subseteq Keys \cup Uris)'
  BY <1>1, KeepsClaims
<1> QED BY <1>2, <1>3 DEF Claims

LEMMA StepScanInv == ScanInv /\ [Next]_vars => ScanInv'
<1> SUFFICES ASSUME ScanInv, [Next]_vars PROVE Ordered' /\ Claims'
  BY StepIInv DEF ScanInv
<1>1. CASE UNCHANGED vars
  BY <1>1, NoScanStep DEF vars, watchlist
<1>2. ASSUME NEW c \in Clients, Helper(c) PROVE Ordered' /\ Claims'
  <2>1. CASE \E a \in Adds : BeginAdd(c, a)
    BY <2>1, BeginClaims
  <2>2. ASSUME NEW w \in Watches, BeginWatch(c, w) \/ Unwatch(c, w) \/ OperatorScan(c, w)
        PROVE  Ordered' /\ Claims'
    BY <2>2, BeginClaims, UnwatchClaims, BeginScanClaims DEF OperatorScan
  <2>3. CASE CommitAdd(c) \/ Abort(c)
    <3>1. tx' = [tx EXCEPT ![c] = Idle] /\ UNCHANGED <<watched, due, fresh, ahead>>
      BY <2>3 DEF CommitAdd, Abort, watchlist
    <3> QED BY <3>1, OwnStep DEF Idle
  <2>4. CASE CommitWatch(c) \/ CommitScan(c)
    BY <2>4, CommitWatchClaims, CommitScanClaims
  <2> QED BY <1>2, <2>1, <2>2, <2>3, <2>4 DEF Helper
<1>3. CASE ScheduledScan
  BY <1>3, BeginScanClaims, InvocationsAssumption DEF ScheduledScan
<1>4. CASE \E e \in Cites : CiteSource(e)
  BY <1>4, NoScanStep DEF CiteSource, watchlist
<1>5. CASE \E u \in Uris : BecomesDue(u)
  BY <1>5, BecomesDueClaims
<1> QED BY <1>1, <1>2, <1>3, <1>4, <1>5 DEF Next

LEMMA ScanInvIsEnough == ScanInv => ClaimsStayValid
<1> SUFFICES ASSUME ScanInv PROVE ClaimsStayValid
  OBVIOUS
<1>1. TypeOK
  BY DEF ScanInv, IInv, Typed, Levelled, Ordered, Claims, TypeOK
<1>2. ASSUME NEW c \in Clients, tx[c].op = "scan"
      PROVE  /\ \A u \in tx[c].locks : Claimable(u, tx[c].req)
             /\ \A d \in Clients \ {c} :
                  tx[d].op = "scan" => tx[c].locks \cap tx[d].locks = {}
  BY <1>2 DEF ScanInv, IInv, Exclusive, Claims, Scanning
<1> QED BY <1>1, <1>2 DEF ClaimsStayValid

(* In a well-typed state what a scan is about to return stays due, enabled *)
(* and under the ceiling of its lane, and no other scan returns it, for    *)
(* any number of helpers, sites and registrations (vcops.py:4111-4144).    *)
THEOREM ClaimsAlwaysStayValid == Spec => []ClaimsStayValid
<1>1. Spec => []ScanInv
  BY InitScanInv, StepScanInv, PTL DEF Spec
<1> QED
  BY <1>1, ScanInvIsEnough, PTL
=============================================================================
