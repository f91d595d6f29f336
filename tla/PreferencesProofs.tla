-------------------------- MODULE PreferencesProofs --------------------------
(***************************************************************************)
(* The properties of Preferences for every number of helpers, principals,  *)
(* keys and requests.                                                      *)
(*                                                                         *)
(* The argument is about the row of the principal.  A transaction holds it *)
(* from its first statement, so what it read of the principal's rows is    *)
(* still so when it commits (ReadHeld); a capability belongs to one        *)
(* principal, so nobody consumes it meanwhile (CapabilityHeld); and what a *)
(* request left when it took effect is never deleted (EffectsStay).        *)
(***************************************************************************)
EXTENDS Preferences, FiniteSetTheorems, TLAPS

OpenTx == [req : Requests \cup {None}, obs : SUBSET Observation,
           markers : SUBSET Marker, count : Nat]

(* The markers of a principal, and when they were set; the last of these   *)
(* exists, so that Forgets is a number.                                    *)
MarkersOf(p) == {x \in markers : x.who = p}
Clock(p) == {0} \cup {m.at : m \in MarkersOf(p)}
HasLast(S) == \E n \in S : \A y \in S : n >= y

Tables ==
  /\ uses \subseteq {UseOf(r) : r \in Requests}
  /\ obs \subseteq Observation /\ IsFiniteSet(obs)
  /\ markers \subseteq Marker /\ \A p \in Principals : HasLast(Clock(p))
  /\ prefs \in [Principals -> [Keys -> Preference]]
  /\ \A p \in Principals, k \in Keys :
       /\ (prefs[p][k].status = "active") <=> (prefs[p][k].event # None)
       /\ prefs[p][k].kind = "inferred" => prefs[p][k].status = "active"
  /\ effects \subseteq Requests
  /\ tx \in [Clients -> OpenTx]

Holds(c, p) == tx[c].req # None /\ tx[c].req.who = p

RowHeld ==
  \A c, d \in Clients, p \in Principals : Holds(c, p) /\ Holds(d, p) => c = d

CapabilityHeld ==
  /\ \A r \in effects : UseOf(r) \in uses
  /\ \A u, v \in uses : u.nonce = v.nonce /\ u.scope = v.scope => u = v
  /\ \A c \in Clients : tx[c].req # None => Consumable(tx[c].req)

(* What a transaction read and will write.                                 *)
Read(t) ==
  /\ t.req.cmd \in {"observe", "forget"}
  /\ t.req.cmd = "observe" => /\ t.obs = NewObservation(t.req) /\ t.markers = {}
                              /\ t.count = Evidence(t.req, obs \cup t.obs)
  /\ t.req.cmd = "forget" => t.obs = {} /\ t.markers = NewMarkers(t.req)

ReadHeld == \A c \in Clients : tx[c].req # None => Read(tx[c])

Observed(r) ==
  \E o \in obs : /\ o.who = r.who /\ o.event = r.event
                 /\ o.key = r.key /\ o.value = r.value

Marked(r) ==
  \A k \in TargetKeys(r) :
    \E m \in markers : m.who = r.who /\ m.key = k /\ m.event = r.event

EffectsStay ==
  \A r \in effects : /\ r.cmd = "observe" => Observed(r)
                     /\ r.cmd = "forget" => Marked(r)

(* The observations that count for a value of a kind, and their events.    *)
Counted(p, k, v, kind, table) ==
  {x \in table : /\ x.who = p /\ x.key = k /\ x.value = v /\ x.kind = kind
                 /\ x.at >= Cutoff(p, k)}
Events(p, k, v, kind, table) == {o.event : o \in Counted(p, k, v, kind, table)}

Backed(p, k) ==
  prefs[p][k].kind = "inferred" =>
    /\ prefs[p][k].count >= 3
    /\ prefs[p][k].count <=
         Cardinality(Events(p, k, prefs[p][k].value, "inferred", obs))

EvidenceKept == \A p \in Principals, k \in Keys : Backed(p, k)

IInv == /\ Tables /\ RowHeld /\ CapabilityHeld
        /\ ReadHeld /\ EffectsStay /\ EvidenceKept

-----------------------------------------------------------------------------
(* What the arguments of a request are.                                    *)
LEMMA RequestFields ==
  ASSUME NEW r \in Requests
  PROVE  /\ r # None /\ r.who \in Principals /\ r.cmd \in Scopes
         /\ r.event \in STRING /\ r.event # None
         /\ r.cmd = "observe" =>
              r.key \in Keys /\ r.value \in Values /\ r.kind \in Kinds
         /\ TargetKeys(r) \subseteq Keys
BY RequestsAssumption DEF Request, TargetKeys

(* A capability is of one principal.                                       *)
LEMMA OnePrincipal ==
  ASSUME NEW r \in Requests, NEW s \in Requests, r.nonce = s.nonce
  PROVE  r.who = s.who
BY RequestsAssumption

(* The last of a set of naturals that has one.                             *)
LEMMA LastIsMember ==
  ASSUME NEW S, HasLast(S)
  PROVE  Max(S) \in S /\ \A y \in S : Max(S) >= y
BY DEF HasLast, Max

LEMMA ForgetsIsNat ==
  ASSUME Tables, NEW p \in Principals
  PROVE  Forgets(p) \in Nat /\ \A m \in MarkersOf(p) : m.at <= Forgets(p)
<1>1. Clock(p) \subseteq Nat
  BY DEF Tables, Clock, MarkersOf, Marker
<1>2. HasLast(Clock(p))
  BY DEF Tables
<1>3. Forgets(p) = Max(Clock(p))
  BY DEF Forgets, Clock, MarkersOf
<1>4. Forgets(p) \in Clock(p) /\ \A y \in Clock(p) : Forgets(p) >= y
  BY <1>2, <1>3, LastIsMember
<1>5. \A m \in MarkersOf(p) : m.at \in Clock(p)
  BY DEF Clock
<1> QED BY <1>1, <1>4, <1>5

(* Events of finitely many observations are finitely many, and no more.    *)
LEMMA EventsFinite ==
  ASSUME NEW p, NEW k, NEW v, NEW kind, NEW T, IsFiniteSet(T)
  PROVE  /\ IsFiniteSet(Events(p, k, v, kind, T))
         /\ Cardinality(Events(p, k, v, kind, T)) \in Nat
<1> DEFINE C == Counted(p, k, v, kind, T)
           E == Events(p, k, v, kind, T)
           ev == [o \in C |-> o.event]
<1>1. IsFiniteSet(C)
  BY FS_Subset DEF Counted
<1>2. ev \in Surjection(C, E)
  BY DEF Surjection, Events
<1>3. IsFiniteSet(E)
  BY <1>1, <1>2, FS_Surjection
<1> QED BY <1>3, FS_CardinalityType

-----------------------------------------------------------------------------
(* The initial tables.                                                     *)
LEMMA InitIInv == Init => IInv
<1> SUFFICES ASSUME Init PROVE IInv
  OBVIOUS
<1>1. ASSUME NEW p \in Principals PROVE HasLast(Clock(p))
  <2>1. MarkersOf(p) = {}
    BY DEF Init, MarkersOf
  <2>2. Clock(p) = {0}
    BY <2>1 DEF Clock
  <2> QED BY <2>2 DEF HasLast
<1>2. Idle \in OpenTx
  BY DEF Idle, OpenTx
<1>3. Absent \in Preference
  BY DEF Absent, Preference
<1>4. Tables
  BY <1>1, <1>2, <1>3, FS_EmptySet, RequestsAssumption
  DEF Init, Tables, Absent, Kinds
<1>5. \A c \in Clients : tx[c].req = None
  BY DEF Init, Idle
<1>6. EvidenceKept
  BY RequestsAssumption DEF Init, EvidenceKept, Backed, Absent, Kinds
<1> QED
  BY <1>4, <1>5, <1>6
  DEF Init, IInv, RowHeld, Holds, CapabilityHeld, ReadHeld, EffectsStay

-----------------------------------------------------------------------------
(* What a transaction of a request would add is well-typed, about its      *)
(* principal, and finite.                                                  *)
LEMMA NewRows ==
  ASSUME Tables, NEW r \in Requests
  PROVE  /\ r.cmd = "observe" => NewObservation(r) \subseteq Observation
         /\ IsFiniteSet(NewObservation(r))
         /\ \A o \in NewObservation(r) : o.who = r.who
         /\ NewMarkers(r) \subseteq Marker
         /\ \A m \in NewMarkers(r) :
              m.who = r.who /\ m.at = Forgets(r.who) + 1
<1>1. Forgets(r.who) \in Nat
  BY ForgetsIsNat, RequestFields
<1> DEFINE o == [who |-> r.who, key |-> r.key, value |-> r.value,
                 kind |-> r.kind, event |-> r.event, at |-> Forgets(r.who)]
<1>2. NewObservation(r) = {} \/ NewObservation(r) = {o}
  BY DEF NewObservation
<1>3. IsFiniteSet({o})
  BY FS_Singleton
<1>4. r.cmd = "observe" => o \in Observation
  BY <1>1, RequestFields DEF Observation
<1>5. ASSUME NEW m \in NewMarkers(r)
      PROVE  m \in Marker /\ m.who = r.who /\ m.at = Forgets(r.who) + 1
  <2>1. PICK k \in TargetKeys(r) :
          m = [who |-> r.who, key |-> k, event |-> r.event,
               at |-> Forgets(r.who) + 1]
    BY DEF NewMarkers
  <2>2. k \in Keys
    BY RequestFields
  <2> QED BY <1>1, <2>1, <2>2, RequestFields DEF Marker
<1>6. IsFiniteSet(NewObservation(r))
  BY <1>2, <1>3, FS_EmptySet
<1>7. /\ r.cmd = "observe" => NewObservation(r) \subseteq Observation
      /\ \A x \in NewObservation(r) : x.who = r.who
  BY <1>2, <1>4
<1> HIDE DEF o
<1> QED BY <1>5, <1>6, <1>7

(* A new marker is later than the others of its principal.                 *)
LEMMA ClockAdvances ==
  ASSUME Tables, NEW r \in Requests, NEW S, S = {} \/ S = NewMarkers(r),
         markers' = markers \cup S, NEW p \in Principals
  PROVE  HasLast(Clock(p))'
<1>1. HasLast(Clock(p))
  BY DEF Tables
<1>2. \A m \in S : m.who = r.who /\ m.at = Forgets(r.who) + 1
  BY NewRows
<1>3. CASE {m \in S : m.who = p} = {}
  <2>1. MarkersOf(p)' = MarkersOf(p)
    BY <1>3 DEF MarkersOf
  <2> QED BY <1>1, <2>1 DEF Clock
<1>4. CASE {m \in S : m.who = p} # {}
  <2>1. p = r.who
    BY <1>2, <1>4
  <2>2. Forgets(p) \in Nat /\ \A m \in MarkersOf(p) : m.at <= Forgets(p)
    BY ForgetsIsNat
  <2>3. \A m \in MarkersOf(p) : m.at \in Nat
    BY DEF Tables, MarkersOf, Marker
  <2>4. Clock(p)' = Clock(p) \cup {Forgets(p) + 1}
    BY <1>2, <1>4, <2>1 DEF Clock, MarkersOf
  <2>5. \A y \in Clock(p)' : Forgets(p) + 1 >= y
    BY <2>2, <2>3, <2>4 DEF Clock
  <2> QED BY <2>4, <2>5 DEF HasLast
<1> QED BY <1>3, <1>4

(* What a transaction holds while it is open.                              *)
LEMMA OpenRows ==
  ASSUME IInv, NEW c \in Clients, tx[c].req # None
  PROVE  /\ tx[c].req \in Requests /\ tx[c].count \in Nat
         /\ tx[c].obs \subseteq Observation /\ IsFiniteSet(tx[c].obs)
         /\ tx[c].markers \subseteq Marker
         /\ tx[c].markers = {} \/ tx[c].markers = NewMarkers(tx[c].req)
         /\ \A o \in tx[c].obs : o.who = tx[c].req.who
         /\ \A m \in tx[c].markers : m.who = tx[c].req.who
<1>1. tx[c] \in OpenTx /\ Read(tx[c])
  BY DEF IInv, Tables, ReadHeld
<1>2. tx[c].req \in Requests
  BY <1>1 DEF OpenTx
<1>3. CASE tx[c].req.cmd = "observe"
  <2>1. tx[c].obs = NewObservation(tx[c].req) /\ tx[c].markers = {}
    BY <1>1, <1>3 DEF Read
  <2> QED BY <1>1, <1>2, <1>3, <2>1, NewRows DEF OpenTx, IInv
<1>4. CASE tx[c].req.cmd = "forget"
  <2>1. tx[c].obs = {} /\ tx[c].markers = NewMarkers(tx[c].req)
    BY <1>1, <1>4 DEF Read
  <2> QED BY <1>1, <1>2, <2>1, NewRows, FS_EmptySet DEF OpenTx, IInv
<1> QED BY <1>1, <1>3, <1>4 DEF Read

-----------------------------------------------------------------------------
(* Committing leaves well-typed tables.                                    *)
LEMMA CommitTables ==
  ASSUME IInv, NEW c \in Clients, Commit(c)
  PROVE  Tables'
<1> DEFINE t == tx[c]
           r == tx[c].req
<1>1. r \in Requests /\ r # None
  BY OpenRows DEF Commit
<1>2. UNCHANGED <<>> /\ Tables
  BY DEF IInv
<1>3. uses' \subseteq {UseOf(s) : s \in Requests}
  BY <1>1, <1>2 DEF Tables, Commit
<1>4. obs' \subseteq Observation /\ IsFiniteSet(obs')
  BY <1>1, <1>2, OpenRows, FS_Union DEF Tables, Commit
<1>5. markers' \subseteq Marker
  BY <1>1, <1>2, OpenRows DEF Tables, Commit
<1>6. \A p \in Principals : HasLast(Clock(p))'
  BY <1>1, <1>2, OpenRows, ClockAdvances DEF Commit
<1>7. /\ prefs' \in [Principals -> [Keys -> Preference]]
      /\ \A p \in Principals, k \in Keys :
           /\ (prefs'[p][k].status = "active") <=> (prefs'[p][k].event # None)
           /\ prefs'[p][k].kind = "inferred" => prefs'[p][k].status = "active"
  <2>1. CASE CommitObserve(t)
    <3>1. /\ r.who \in Principals /\ r.key \in Keys /\ r.value \in Values
          /\ r.kind \in Kinds /\ r.event \in STRING /\ r.event # None
      BY <1>1, <2>1, RequestFields DEF CommitObserve
    <3> DEFINE row == [status |-> "active", value |-> r.value, kind |-> r.kind,
                       count |-> t.count, event |-> r.event]
    <3>2. row \in Preference
      BY <1>1, <3>1, OpenRows DEF Preference
    <3>3. prefs' = prefs \/ prefs' = [prefs EXCEPT ![r.who][r.key] = row]
      BY <2>1 DEF CommitObserve
    <3>4. \A p \in Principals, k \in Keys :
            prefs'[p][k] = prefs[p][k] \/ prefs'[p][k] = row
      BY <1>2, <3>1, <3>3 DEF Tables
    <3> HIDE DEF row
    <3>5. prefs' \in [Principals -> [Keys -> Preference]]
      <4>1. [prefs[r.who] EXCEPT ![r.key] = row] \in [Keys -> Preference]
        BY <1>2, <3>1, <3>2 DEF Tables
      <4> QED BY <1>2, <3>1, <3>3, <4>1 DEF Tables
    <3>6. row.status = "active" /\ row.event # None
      BY <3>1 DEF row
    <3> QED BY <1>2, <3>4, <3>5, <3>6 DEF Tables
  <2>2. CASE CommitForget(t)
    <3>1. r.who \in Principals
      BY <1>1, RequestFields
    <3>2. \A p \in Principals, k \in Keys :
            \/ prefs'[p][k] = prefs[p][k]
            \/ prefs'[p][k] = [Absent EXCEPT !.status = "forgotten"]
      BY <1>2, <2>2, <3>1 DEF Tables, CommitForget, Forgotten
    <3>3. [Absent EXCEPT !.status = "forgotten"] \in Preference
      BY DEF Absent, Preference
    <3>4. prefs' \in [Principals -> [Keys -> Preference]]
      <4>1. prefs'[r.who] \in [Keys -> Preference]
        BY <1>2, <2>2, <3>1, <3>3 DEF Tables, CommitForget, Forgotten
      <4>2. prefs' = [prefs EXCEPT ![r.who] = prefs'[r.who]]
        BY <1>2, <2>2, <3>1 DEF Tables, CommitForget
      <4> QED BY <1>2, <4>1, <4>2 DEF Tables
    <3>5. /\ [Absent EXCEPT !.status = "forgotten"].status = "forgotten"
          /\ [Absent EXCEPT !.status = "forgotten"].event = None
          /\ [Absent EXCEPT !.status = "forgotten"].kind = None
      BY DEF Absent
    <3>6. None # "inferred"
      BY RequestsAssumption DEF Kinds
    <3>7. ASSUME NEW p \in Principals, NEW k \in Keys
          PROVE  /\ (prefs'[p][k].status = "active") <=> (prefs'[p][k].event # None)
                 /\ prefs'[p][k].kind = "inferred" => prefs'[p][k].status = "active"
      <4>1. CASE prefs'[p][k] = prefs[p][k]
        BY <1>2, <4>1 DEF Tables
      <4>2. CASE prefs'[p][k] = [Absent EXCEPT !.status = "forgotten"]
        BY <3>5, <3>6, <4>2
      <4> QED BY <3>2, <4>1, <4>2
    <3> QED BY <3>4, <3>7
  <2> QED BY <2>1, <2>2 DEF Commit
<1>8. effects' \subseteq Requests
  BY <1>1, <1>2 DEF Tables, Commit
<1>9. tx' \in [Clients -> OpenTx]
  <2>1. Idle \in OpenTx
    BY DEF Idle, OpenTx
  <2> QED BY <1>2, <2>1 DEF Tables, Commit
<1> QED BY <1>3, <1>4, <1>5, <1>6, <1>7, <1>8, <1>9 DEF Tables

(* So do the steps that only open, close or read.                          *)
LEMMA BeginTables ==
  ASSUME IInv, NEW c \in Clients, Begin(c)
  PROVE  Tables'
<1>1. Tables
  BY DEF IInv
<1>2. PICK r \in Requests :
        /\ BeginObserve(c, r) \/ BeginForget(c, r)
        /\ UNCHANGED <<uses, obs, markers, prefs, effects>>
  BY DEF Begin
<1>3. tx' \in [Clients -> OpenTx]
  <2>1. CASE BeginObserve(c, r)
    <3> DEFINE new == NewObservation(r)
    <3>1. new \subseteq Observation /\ IsFiniteSet(obs \cup new)
      BY <1>1, <2>1, NewRows, FS_Union DEF BeginObserve, Tables
    <3>2. Evidence(r, obs \cup new) \in Nat
      <4>1. Evidence(r, obs \cup new)
              = Cardinality(Events(r.who, r.key, r.value, r.kind, obs \cup new))
        BY DEF Evidence, Events, Counted
      <4> QED BY <3>1, <4>1, EventsFinite
    <3> QED BY <1>1, <2>1, <3>1, <3>2 DEF BeginObserve, OpenTx, Tables
  <2>2. CASE BeginForget(c, r)
    BY <1>1, <2>2, NewRows DEF BeginForget, OpenTx, Tables
  <2> QED BY <1>2, <2>1, <2>2
<1> QED BY <1>1, <1>2, <1>3 DEF Tables, Clock, MarkersOf

LEMMA LookupTables ==
  ASSUME IInv, NEW c \in Clients, Lookup(c)
  PROVE  Tables'
<1>1. Tables
  BY DEF IInv
<1>2. PICK r \in Requests : /\ uses' = uses \cup {UseOf(r)}
                            /\ effects' = effects \cup {r}
                            /\ UNCHANGED <<obs, markers, prefs, tx>>
  BY DEF Lookup
<1> QED BY <1>1, <1>2 DEF Tables, Clock, MarkersOf

LEMMA AbortTables ==
  ASSUME IInv, NEW c \in Clients, Abort(c)
  PROVE  Tables'
<1>1. Tables /\ Idle \in OpenTx
  BY DEF IInv, Idle, OpenTx
<1> QED BY <1>1 DEF Tables, Abort, Clock, MarkersOf

-----------------------------------------------------------------------------
(* What another principal's transaction commits is not about this one.     *)
ObsOf(p) == {x \in obs : x.who = p}

LEMMA OthersCommit ==
  ASSUME IInv, NEW c \in Clients, Commit(c),
         NEW d \in Clients, tx'[d] = tx[d], tx[d].req.who # tx[c].req.who
  PROVE  /\ ObsOf(tx[d].req.who)' = ObsOf(tx[d].req.who)
         /\ MarkersOf(tx[d].req.who)' = MarkersOf(tx[d].req.who)
<1>1. /\ \A o \in tx[c].obs : o.who # tx[d].req.who
      /\ \A m \in tx[c].markers : m.who # tx[d].req.who
  BY OpenRows DEF Commit
<1> QED BY <1>1 DEF Commit, ObsOf, MarkersOf

(* What a transaction read of its principal is still so.                   *)
LEMMA SamePast ==
  ASSUME NEW c \in Clients, tx'[c] = tx[c], Read(tx[c]),
         ObsOf(tx[c].req.who)' = ObsOf(tx[c].req.who),
         MarkersOf(tx[c].req.who)' = MarkersOf(tx[c].req.who)
  PROVE  Read(tx[c])'
<1> DEFINE t == tx[c]
           r == tx[c].req
           p == tx[c].req.who
<1>1. {x \in markers' : x.who = p} = {x \in markers : x.who = p}
  BY DEF MarkersOf
<1>2. {x \in obs' : x.who = p} = {x \in obs : x.who = p}
  BY DEF ObsOf
<1>3. Forgets(p)' = Forgets(p)
  BY <1>1 DEF Forgets
<1>4. ASSUME NEW k PROVE Cutoff(p, k)' = Cutoff(p, k)
  <2>1. {x \in markers' : x.who = p /\ x.key = k}
          = {x \in markers : x.who = p /\ x.key = k}
    BY <1>1
  <2> QED BY <2>1 DEF Cutoff
<1>5. NewObservation(r)' = NewObservation(r)
  <2>1. (\E o \in obs' : /\ o.who = p /\ o.event = r.event
                         /\ o.key = r.key /\ o.value = r.value)
        <=> (\E o \in obs : /\ o.who = p /\ o.event = r.event
                            /\ o.key = r.key /\ o.value = r.value)
    BY <1>2
  <2> QED BY <1>3, <2>1 DEF NewObservation
<1>6. NewMarkers(r)' = NewMarkers(r)
  <2>1. \A k : (\A m \in markers' : ~(m.who = p /\ m.key = k /\ m.event = r.event))
               <=> (\A m \in markers : ~(m.who = p /\ m.key = k /\ m.event = r.event))
    BY <1>1
  <2> QED BY <1>3, <2>1 DEF NewMarkers, TargetKeys
<1>7. Evidence(r, obs \cup t.obs)' = Evidence(r, obs \cup t.obs)
  <2>1. {x \in obs' \cup t.obs : /\ x.who = p /\ x.key = r.key
                                 /\ x.value = r.value /\ x.kind = r.kind
                                 /\ x.at >= Cutoff(p, r.key)'}
        = {x \in obs \cup t.obs : /\ x.who = p /\ x.key = r.key
                                  /\ x.value = r.value /\ x.kind = r.kind
                                  /\ x.at >= Cutoff(p, r.key)}
    BY <1>2, <1>4
  <2> QED BY <2>1 DEF Evidence
<1> QED BY <1>5, <1>6, <1>7 DEF Read

(* The principal's row is held by one transaction.                         *)
LEMMA RowStep ==
  ASSUME IInv, Next
  PROVE  RowHeld'
<1>1. Tables /\ RowHeld /\ Idle.req = None
  BY DEF IInv, Idle
<1>2. PICK c \in Clients : Begin(c) \/ Commit(c) \/ Abort(c) \/ Lookup(c)
  BY DEF Next
<1>3. CASE Begin(c)
  <2>1. PICK r \in Requests :
          PrincipalFree(c, r.who) /\ (BeginObserve(c, r) \/ BeginForget(c, r))
    BY <1>3 DEF Begin
  <2>2. \A d \in Clients \ {c} : tx'[d] = tx[d]
    BY <1>1, <2>1 DEF Tables, BeginObserve, BeginForget
  <2>3. tx'[c].req = r
    BY <1>1, <2>1 DEF Tables, BeginObserve, BeginForget
  <2> QED BY <1>1, <2>1, <2>2, <2>3 DEF RowHeld, Holds, PrincipalFree
<1>4. CASE Commit(c) \/ Abort(c)
  <2>1. \A d \in Clients : tx'[d] = IF d = c THEN Idle ELSE tx[d]
    BY <1>1, <1>4 DEF Tables, Commit, Abort
  <2> QED BY <1>1, <2>1 DEF RowHeld, Holds
<1>5. CASE Lookup(c)
  BY <1>1, <1>5 DEF Lookup, RowHeld, Holds
<1> QED BY <1>2, <1>3, <1>4, <1>5

-----------------------------------------------------------------------------
(* A capability is consumed by one operation.                              *)
LEMMA UseRecorded ==
  ASSUME IInv, NEW r \in Requests, Consumable(r), uses' = uses \cup {UseOf(r)}
  PROVE  /\ \A u, v \in uses' : u.nonce = v.nonce /\ u.scope = v.scope => u = v
         /\ \A s \in Requests : Consumable(s) /\ s.who # r.who => Consumable(s)'
<1>1. UseOf(r).nonce = r.nonce /\ UseOf(r).scope = r.cmd
  BY DEF UseOf
<1>2. \A u, v \in uses' : u.nonce = v.nonce /\ u.scope = v.scope => u = v
  BY <1>1 DEF IInv, CapabilityHeld, Consumable
<1>3. ASSUME NEW s \in Requests, Consumable(s), s.who # r.who
      PROVE  Consumable(s)'
  <2>1. s.nonce # r.nonce
    BY <1>3, OnePrincipal
  <2> QED BY <1>1, <1>3, <2>1 DEF Consumable, UseOf
<1> QED BY <1>2, <1>3

LEMMA CapabilityStep ==
  ASSUME IInv, Next
  PROVE  CapabilityHeld'
<1>1. Tables /\ CapabilityHeld /\ Idle.req = None
  BY DEF IInv, Idle
<1>2. PICK c \in Clients : Begin(c) \/ Commit(c) \/ Abort(c) \/ Lookup(c)
  BY DEF Next
<1>3. CASE Begin(c)
  <2>1. PICK r \in Requests :
          /\ Consumable(r) /\ (BeginObserve(c, r) \/ BeginForget(c, r))
          /\ UNCHANGED <<uses, effects>>
    BY <1>3 DEF Begin
  <2>2. tx'[c].req = r /\ \A d \in Clients \ {c} : tx'[d] = tx[d]
    BY <1>1, <2>1 DEF Tables, BeginObserve, BeginForget
  <2> QED BY <1>1, <2>1, <2>2 DEF CapabilityHeld, Consumable, UseOf
<1>4. CASE Commit(c)
  <2>1. \A d \in Clients : tx'[d] = IF d = c THEN Idle ELSE tx[d]
    BY <1>1, <1>4 DEF Tables, Commit
  <2>2. /\ tx[c].req \in Requests /\ tx[c].req # None
        /\ Consumable(tx[c].req)
        /\ uses' = uses \cup {UseOf(tx[c].req)}
        /\ effects' = effects \cup {tx[c].req}
    BY <1>1, <1>4, OpenRows DEF Commit, CapabilityHeld
  <2>3. /\ \A u, v \in uses' : u.nonce = v.nonce /\ u.scope = v.scope => u = v
        /\ \A s \in Requests :
             Consumable(s) /\ s.who # tx[c].req.who => Consumable(s)'
    BY <2>2, UseRecorded
  <2>4. ASSUME NEW d \in Clients, tx'[d].req # None
        PROVE  Consumable(tx[d].req)'
    <3>1. d # c /\ tx'[d] = tx[d]
      BY <1>1, <2>1, <2>4
    <3>2. tx[d].req \in Requests /\ tx[d].req.who # tx[c].req.who
      BY <2>2, <2>4, <3>1, OpenRows, RequestFields DEF IInv, RowHeld, Holds
    <3>3. Consumable(tx[d].req)
      BY <2>4, <3>1 DEF IInv, CapabilityHeld
    <3>4. \A s : s = tx[d].req => Consumable(s)'
      BY <2>3, <3>2, <3>3
    <3> QED BY <3>1, <3>4 DEF Consumable, UseOf
  <2>5. \A r \in effects' : UseOf(r) \in uses'
    BY <1>1, <2>2 DEF CapabilityHeld
  <2> QED BY <2>3, <2>4, <2>5 DEF CapabilityHeld, UseOf
<1>5. CASE Abort(c)
  BY <1>1, <1>5 DEF Abort, Tables, CapabilityHeld, Consumable, UseOf
<1>6. CASE Lookup(c)
  <2>1. PICK r \in Requests :
          /\ PrincipalFree(c, r.who) /\ Consumable(r) /\ tx[c] = Idle
          /\ uses' = uses \cup {UseOf(r)}
          /\ effects' = effects \cup {r}
          /\ tx' = tx
    BY <1>6 DEF Lookup
  <2>2. /\ \A u, v \in uses' : u.nonce = v.nonce /\ u.scope = v.scope => u = v
        /\ \A s \in Requests : Consumable(s) /\ s.who # r.who => Consumable(s)'
    BY <2>1, UseRecorded
  <2>3. ASSUME NEW d \in Clients, tx[d].req # None
        PROVE  Consumable(tx[d].req)'
    <3>1. d # c
      BY <1>1, <2>1, <2>3
    <3>2. tx[d].req \in Requests /\ tx[d].req.who # r.who
      BY <2>1, <2>3, <3>1, OpenRows DEF PrincipalFree
    <3>3. Consumable(tx[d].req)
      BY <2>3 DEF IInv, CapabilityHeld
    <3>4. \A s : s = tx[d].req => Consumable(s)'
      BY <2>2, <3>2, <3>3
    <3> QED BY <2>1, <3>4 DEF Consumable, UseOf
  <2> QED BY <1>1, <2>1, <2>2, <2>3 DEF CapabilityHeld, UseOf
<1> QED BY <1>2, <1>3, <1>4, <1>5, <1>6

-----------------------------------------------------------------------------
(* What is read stays so until COMMIT.                                     *)
LEMMA ReadStep ==
  ASSUME IInv, Next
  PROVE  ReadHeld'
<1>1. Tables /\ ReadHeld /\ RowHeld /\ Idle.req = None
  BY DEF IInv, Idle
<1>2. PICK c \in Clients : Begin(c) \/ Commit(c) \/ Abort(c) \/ Lookup(c)
  BY DEF Next
<1>3. CASE Begin(c)
  <2>1. PICK r \in Requests :
          /\ BeginObserve(c, r) \/ BeginForget(c, r)
          /\ UNCHANGED <<uses, obs, markers, prefs, effects>>
    BY <1>3 DEF Begin
  <2>2. \A p : ObsOf(p)' = ObsOf(p) /\ MarkersOf(p)' = MarkersOf(p)
    BY <2>1 DEF ObsOf, MarkersOf
  <2>3. \A d \in Clients \ {c} : tx'[d] = tx[d]
    BY <1>1, <2>1 DEF Tables, BeginObserve, BeginForget
  <2>4. ASSUME NEW d \in Clients, d # c, tx'[d].req # None
        PROVE  Read(tx[d])'
    BY <1>1, <2>2, <2>3, <2>4, SamePast DEF ReadHeld
  <2>5. Read(tx[c])'
    <3> DEFINE new == NewObservation(r)
               u == [req |-> r, obs |-> new, markers |-> {},
                     count |-> Evidence(r, obs \cup new)]
               v == [req |-> r, obs |-> {}, markers |-> NewMarkers(r), count |-> 0]
    <3>1. CASE BeginObserve(c, r)
      <4>1. tx'[c] = u /\ r.cmd = "observe"
        BY <1>1, <3>1 DEF Tables, BeginObserve
      <4>2. Read(u)
        BY <4>1 DEF Read
      <4>3. \A t : t = tx'[c] /\ Read(t) => Read(t)'
        BY <2>1 DEF Read, NewObservation, NewMarkers, Evidence, Forgets, Cutoff
      <4> QED BY <4>1, <4>2, <4>3 DEF Read
    <3>2. CASE BeginForget(c, r)
      <4>1. tx'[c] = v /\ r.cmd = "forget"
        BY <1>1, <3>2 DEF Tables, BeginForget
      <4>2. Read(v)
        BY <4>1 DEF Read
      <4>3. \A t : t = tx'[c] /\ Read(t) => Read(t)'
        BY <2>1 DEF Read, NewObservation, NewMarkers, Evidence, Forgets, Cutoff
      <4> QED BY <4>1, <4>2, <4>3 DEF Read
    <3> QED BY <2>1, <3>1, <3>2
  <2> QED BY <2>4, <2>5 DEF ReadHeld
<1>4. CASE Commit(c)
  <2>1. \A d \in Clients : tx'[d] = IF d = c THEN Idle ELSE tx[d]
    BY <1>1, <1>4 DEF Tables, Commit
  <2>2. ASSUME NEW d \in Clients, tx'[d].req # None
        PROVE  Read(tx[d])'
    <3>1. d # c /\ tx'[d] = tx[d] /\ tx[c].req # None
      BY <1>1, <1>4, <2>1, <2>2 DEF Commit
    <3>2. tx[d].req.who # tx[c].req.who
      BY <1>1, <2>2, <3>1, OpenRows, RequestFields DEF RowHeld, Holds
    <3>3. /\ ObsOf(tx[d].req.who)' = ObsOf(tx[d].req.who)
          /\ MarkersOf(tx[d].req.who)' = MarkersOf(tx[d].req.who)
      BY <1>4, <3>1, <3>2, OthersCommit
    <3> QED BY <1>1, <2>2, <3>1, <3>3, SamePast DEF ReadHeld
  <2> QED BY <2>2 DEF ReadHeld
<1>5. CASE Abort(c) \/ Lookup(c)
  <2>1. \A d \in Clients : tx'[d] = tx[d] \/ tx'[d] = Idle
    BY <1>1, <1>5 DEF Tables, Abort, Lookup
  <2>2. \A p : ObsOf(p)' = ObsOf(p) /\ MarkersOf(p)' = MarkersOf(p)
    BY <1>5 DEF ObsOf, MarkersOf, Abort, Lookup
  <2>3. ASSUME NEW d \in Clients, tx'[d].req # None
        PROVE  Read(tx[d])'
    BY <1>1, <2>1, <2>2, <2>3, SamePast DEF ReadHeld
  <2> QED BY <2>3 DEF ReadHeld
<1> QED BY <1>2, <1>3, <1>4, <1>5

(* What took effect leaves its rows.                                       *)
LEMMA EffectsStep ==
  ASSUME IInv, Next
  PROVE  EffectsStay'
<1>1. EffectsStay
  BY DEF IInv
<1>2. PICK c \in Clients : Begin(c) \/ Commit(c) \/ Abort(c) \/ Lookup(c)
  BY DEF Next
<1>3. obs \subseteq obs' /\ markers \subseteq markers'
  BY <1>2 DEF Begin, Commit, Abort, Lookup
<1>4. \A r : /\ Observed(r) => Observed(r)'
             /\ Marked(r) => Marked(r)'
  BY <1>3 DEF Observed, Marked, TargetKeys
<1>5. CASE Begin(c) \/ Abort(c)
  BY <1>1, <1>4, <1>5 DEF EffectsStay, Begin, Abort
<1>6. CASE Lookup(c)
  <2>1. PICK r \in Requests : r.cmd = "lookup" /\ effects' = effects \cup {r}
    BY <1>6 DEF Lookup
  <2> QED BY <1>1, <1>4, <2>1 DEF EffectsStay
<1>7. CASE Commit(c)
  <2> DEFINE r == tx[c].req
  <2>1. /\ Read(tx[c]) /\ effects' = effects \cup {r}
        /\ obs' = obs \cup tx[c].obs /\ markers' = markers \cup tx[c].markers
    BY <1>7 DEF Commit, IInv, ReadHeld
  <2>2. r.cmd = "observe" => \E o \in obs' : /\ o.who = r.who /\ o.event = r.event
                                             /\ o.key = r.key /\ o.value = r.value
    <3> DEFINE n == [who |-> r.who, key |-> r.key, value |-> r.value,
                     kind |-> r.kind, event |-> r.event, at |-> Forgets(r.who)]
    <3>1. CASE Observed(r)
      BY <2>1, <3>1 DEF Observed
    <3>2. CASE ~Observed(r)
      <4>1. n \in NewObservation(r)
        BY <3>2 DEF Observed, NewObservation
      <4>2. ASSUME r.cmd = "observe" PROVE n \in obs'
        BY <2>1, <4>1, <4>2 DEF Read
      <4> QED BY <4>2
    <3> QED BY <3>1, <3>2
  <2>3. ASSUME r.cmd = "forget", NEW k \in TargetKeys(r)
        PROVE  \E m \in markers' : m.who = r.who /\ m.key = k /\ m.event = r.event
    <3> DEFINE n == [who |-> r.who, key |-> k, event |-> r.event,
                     at |-> Forgets(r.who) + 1]
    <3>1. tx[c].markers = NewMarkers(r)
      BY <2>1, <2>3 DEF Read
    <3>2. CASE \E m \in markers : m.who = r.who /\ m.key = k /\ m.event = r.event
      BY <2>1, <3>2
    <3>3. CASE \A m \in markers : ~(m.who = r.who /\ m.key = k /\ m.event = r.event)
      <4>1. n \in NewMarkers(r)
        BY <2>3, <3>3 DEF NewMarkers
      <4> QED BY <2>1, <3>1, <4>1
    <3> QED BY <3>2, <3>3
  <2>4. \A s : s = r => /\ s.cmd = "observe" => Observed(s)'
                        /\ s.cmd = "forget" => Marked(s)'
    BY <2>2, <2>3 DEF Observed, Marked, TargetKeys
  <2> QED BY <1>1, <1>4, <2>1, <2>4 DEF EffectsStay
<1> QED BY <1>2, <1>5, <1>6, <1>7

-----------------------------------------------------------------------------
(* More observations are more events, and the cutoff of a key moves only   *)
(* with a marker of the key.                                               *)
LEMMA MoreEvents ==
  ASSUME NEW p, NEW k, NEW v, NEW S, NEW T, S \subseteq T, IsFiniteSet(T)
  PROVE  Cardinality(Events(p, k, v, "inferred", S))
           <= Cardinality(Events(p, k, v, "inferred", T))
<1>1. Events(p, k, v, "inferred", S) \subseteq Events(p, k, v, "inferred", T)
  BY DEF Events, Counted
<1>2. IsFiniteSet(Events(p, k, v, "inferred", T))
  BY EventsFinite
<1> QED BY <1>1, <1>2, FS_Subset

LEMMA SameCutoff ==
  ASSUME NEW p, NEW k, NEW S, markers' = markers \cup S,
         \A m \in S : ~(m.who = p /\ m.key = k)
  PROVE  Cutoff(p, k)' = Cutoff(p, k)
<1>1. {x \in markers' : x.who = p /\ x.key = k}
        = {x \in markers : x.who = p /\ x.key = k}
  OBVIOUS
<1> QED BY <1>1 DEF Cutoff

(* A preference that a step leaves alone, and the cutoff of its key, is    *)
(* backed by no fewer observations.                                        *)
LEMMA StaysBacked ==
  ASSUME Tables, NEW p \in Principals, NEW k \in Keys, Backed(p, k),
         prefs'[p][k] = prefs[p][k], Cutoff(p, k)' = Cutoff(p, k),
         obs \subseteq obs', IsFiniteSet(obs')
  PROVE  Backed(p, k)'
<1> DEFINE v == prefs[p][k].value
<1>1. CASE prefs[p][k].kind # "inferred"
  BY <1>1 DEF Backed
<1>2. CASE prefs[p][k].kind = "inferred"
  <2>1. /\ IsFiniteSet(obs)
        /\ prefs[p][k].count \in Nat
    BY DEF Tables, Preference
  <2>2. /\ Cardinality(Events(p, k, v, "inferred", obs)) \in Nat
        /\ Cardinality(Events(p, k, v, "inferred", obs')) \in Nat
        /\ Cardinality(Events(p, k, v, "inferred", obs))
             <= Cardinality(Events(p, k, v, "inferred", obs'))
    BY <2>1, EventsFinite, MoreEvents
  <2>3. Events(p, k, v, "inferred", obs)' = Events(p, k, v, "inferred", obs')
    BY DEF Events, Counted
  <2> QED BY <1>2, <2>1, <2>2, <2>3 DEF Backed
<1> QED BY <1>1, <1>2

(* An inferred preference keeps the observations it rests on.              *)
LEMMA EvidenceStep ==
  ASSUME IInv, Next
  PROVE  EvidenceKept'
<1>1. Tables /\ EvidenceKept /\ Tables'
  BY BeginTables, CommitTables, AbortTables, LookupTables DEF IInv, Next
<1>2. PICK c \in Clients : Begin(c) \/ Commit(c) \/ Abort(c) \/ Lookup(c)
  BY DEF Next
<1>3. CASE Begin(c) \/ Abort(c) \/ Lookup(c)
  <2>1. UNCHANGED <<obs, markers, prefs>>
    BY <1>3 DEF Begin, Abort, Lookup
  <2> QED BY <1>1, <2>1
    DEF EvidenceKept, Backed, Events, Counted, Cutoff
<1>4. CASE Commit(c)
  <2> DEFINE t == tx[c]
             r == tx[c].req
  <2>1. /\ r \in Requests /\ Read(t) /\ t.count \in Nat
        /\ obs' = obs \cup t.obs /\ markers' = markers \cup t.markers
        /\ obs \subseteq obs' /\ IsFiniteSet(obs')
    BY <1>1, <1>4, OpenRows DEF Commit, IInv, ReadHeld, Tables
  <2>2. SUFFICES ASSUME NEW p \in Principals, NEW k \in Keys
                 PROVE  Backed(p, k)'
    BY DEF EvidenceKept
  <2>3. Backed(p, k)
    BY <1>1 DEF EvidenceKept
  <2>4. CASE CommitObserve(t)
    <3>1. /\ r.cmd = "observe" /\ t.markers = {}
          /\ t.count = Evidence(r, obs \cup t.obs)
          /\ r.who \in Principals /\ r.key \in Keys
      BY <2>1, <2>4, RequestFields DEF CommitObserve, Read
    <3>2. markers' = markers
      BY <2>1, <3>1
    <3>3. \A q, j : Cutoff(q, j)' = Cutoff(q, j)
      BY <3>2 DEF Cutoff
    <3>4. CASE prefs'[p][k] = prefs[p][k]
      BY <1>1, <2>1, <2>3, <3>3, <3>4, StaysBacked
    <3>5. CASE prefs'[p][k] # prefs[p][k]
      <4>1. /\ p = r.who /\ k = r.key /\ Activates(t)
            /\ prefs'[p][k] = [status |-> "active", value |-> r.value,
                               kind |-> r.kind, count |-> t.count,
                               event |-> r.event]
        BY <1>1, <2>4, <3>1, <3>5 DEF CommitObserve, Tables
      <4>2. CASE r.kind # "inferred"
        BY <4>1, <4>2 DEF Backed
      <4>3. CASE r.kind = "inferred"
        <5>1. t.count = Cardinality({o.event : o \in
                {x \in obs' : /\ x.who = p /\ x.key = k /\ x.value = r.value
                              /\ x.kind = "inferred"
                              /\ x.at >= Cutoff(p, k)'}})
          BY <2>1, <3>1, <3>3, <4>1, <4>3 DEF Evidence
        <5>2. t.count >= 3
          BY <4>1, <4>3 DEF Activates
        <5>3. prefs'[p][k].count = t.count /\ prefs'[p][k].value = r.value
          BY <4>1
        <5> QED BY <2>1, <5>1, <5>2, <5>3 DEF Backed, Events, Counted
      <4> QED BY <4>2, <4>3
    <3> QED BY <3>4, <3>5
  <2>5. CASE CommitForget(t)
    <3>1. /\ r.cmd = "forget" /\ t.obs = {} /\ t.markers = NewMarkers(r)
          /\ r.who \in Principals
      BY <2>1, <2>5, RequestFields DEF CommitForget, Read
    <3>2. CASE p = r.who /\ k \in TargetKeys(r)
      <4>1. \/ prefs'[p][k] = [Absent EXCEPT !.status = "forgotten"]
            \/ prefs[p][k].status = "absent" /\ prefs'[p][k] = prefs[p][k]
        BY <1>1, <2>5, <3>1, <3>2 DEF CommitForget, Forgotten, Tables
      <4>2. [Absent EXCEPT !.status = "forgotten"].kind # "inferred"
        BY RequestsAssumption DEF Absent, Kinds
      <4>3. prefs[p][k].status = "absent" => prefs[p][k].kind # "inferred"
        BY <1>1 DEF Tables
      <4> QED BY <4>1, <4>2, <4>3 DEF Backed
    <3>3. CASE ~(p = r.who /\ k \in TargetKeys(r))
      <4>1. prefs'[p][k] = prefs[p][k]
        BY <1>1, <2>5, <3>1, <3>3 DEF CommitForget, Tables
      <4>2. \A m \in t.markers : ~(m.who = p /\ m.key = k)
        BY <3>1, <3>3 DEF NewMarkers
      <4>3. Cutoff(p, k)' = Cutoff(p, k)
        BY <2>1, <4>2, SameCutoff
      <4> QED BY <1>1, <2>1, <2>3, <4>1, <4>3, StaysBacked
    <3> QED BY <3>2, <3>3
  <2> QED BY <1>4, <2>4, <2>5 DEF Commit
<1> QED BY <1>2, <1>3, <1>4

-----------------------------------------------------------------------------
LEMMA StepIInv == IInv /\ [Next]_vars => IInv'
<1> SUFFICES ASSUME IInv, [Next]_vars PROVE IInv'
  OBVIOUS
<1>1. CASE Next
  <2>1. Tables'
    BY <1>1, BeginTables, CommitTables, AbortTables, LookupTables DEF Next
  <2> QED BY <1>1, <2>1, RowStep, CapabilityStep, ReadStep, EffectsStep, EvidenceStep
          DEF IInv
<1>2. CASE UNCHANGED vars
  <2> USE <1>2 DEF vars
  <2>1. Tables'
    BY DEF IInv, Tables, Clock, MarkersOf
  <2>2. RowHeld' /\ CapabilityHeld'
    BY DEF IInv, RowHeld, Holds, CapabilityHeld, Consumable, UseOf
  <2>3. ReadHeld'
    <3>1. \A p : ObsOf(p)' = ObsOf(p) /\ MarkersOf(p)' = MarkersOf(p)
      BY DEF ObsOf, MarkersOf
    <3> QED BY <3>1, SamePast DEF IInv, ReadHeld
  <2>4. EffectsStay'
    BY DEF IInv, EffectsStay, Observed, Marked, TargetKeys
  <2>5. EvidenceKept'
    BY DEF IInv, EvidenceKept, Backed, Events, Counted, Cutoff
  <2> QED BY <2>1, <2>2, <2>3, <2>4, <2>5 DEF IInv
<1> QED BY <1>1, <1>2

LEMMA Inductive == Spec => []IInv
BY InitIInv, StepIInv, PTL DEF Spec

(* For every set of requests, helpers and principals: an inferred          *)
(* preference in force rests on at least three distinct provider events    *)
(* that were observed since the last forget of its key (vcops.py:5213).    *)
THEOREM InferenceIsBacked == Spec => []InferredHasEvidence
<1>1. IInv => InferredHasEvidence
  <2> SUFFICES ASSUME IInv PROVE InferredHasEvidence
    OBVIOUS
  <2>1. TypeOK
    <3>1. \A u \in uses : u.nonce \in {r.nonce : r \in Requests}
      BY DEF IInv, Tables, UseOf
    <3>2. \A o \in obs : o.who \in Principals /\ o.at \in Nat
      BY DEF IInv, Tables, Observation
    <3>3. \A m \in markers : m.key \in Keys /\ m.at \in Nat \ {0}
      BY DEF IInv, Tables, Marker
    <3>4. \A c \in Clients : tx[c].req \in Requests \cup {None}
      BY DEF IInv, Tables, OpenTx
    <3> QED BY <3>1, <3>2, <3>3, <3>4 DEF IInv, Tables, TypeOK
  <2> QED BY <2>1 DEF IInv, EvidenceKept, Backed, Events, Counted, InferredHasEvidence
<1> QED BY <1>1, Inductive, PTL

(* No scope of a capability is used by two operations (vcops.py:431).      *)
THEOREM CapabilityIsSpentOnce == Spec => []OneOperationPerCapability
<1>1. IInv => OneOperationPerCapability
  BY DEF IInv, CapabilityHeld, UseOf, OneOperationPerCapability
<1> QED BY <1>1, Inductive, PTL

(* A request that took effect adds nothing when it is executed again.      *)
THEOREM RetriesAddNothing == Spec => RepeatAddsNothing
<1>1. IInv /\ [Next]_vars =>
        [\A c \in Clients : tx[c].req \in effects /\ tx'[c] = Idle
           => obs' = obs /\ markers' = markers]_vars
  <2> SUFFICES ASSUME IInv, Next, NEW c \in Clients, tx[c].req \in effects,
                      tx'[c] = Idle
               PROVE  obs' = obs /\ markers' = markers
    BY DEF vars
  <2>1. tx[c].req \in Requests /\ tx[c].req # None /\ Idle.req = None
    BY RequestsAssumption DEF IInv, Tables, Idle
  <2>2. Read(tx[c])
    BY <2>1 DEF IInv, ReadHeld
  <2>3. PICK d \in Clients : Begin(d) \/ Commit(d) \/ Abort(d) \/ Lookup(d)
    BY DEF Next
  <2>4. CASE Begin(d) \/ Abort(d) \/ Lookup(d)
    BY <2>4 DEF Begin, Abort, Lookup
  <2>5. CASE Commit(d)
    <3>1. d = c
      BY <2>1, <2>5 DEF IInv, Tables, Commit
    <3>2. CASE tx[c].req.cmd = "observe"
      <4>1. Observed(tx[c].req)
        BY <3>2 DEF IInv, EffectsStay
      <4>2. tx[c].obs = {} /\ tx[c].markers = {}
        BY <2>2, <3>2, <4>1 DEF Read, NewObservation, Observed
      <4> QED BY <2>5, <3>1, <4>2 DEF Commit
    <3>3. CASE tx[c].req.cmd = "forget"
      <4>1. Marked(tx[c].req)
        BY <3>3 DEF IInv, EffectsStay
      <4>2. tx[c].obs = {} /\ tx[c].markers = {}
        BY <2>2, <3>3, <4>1 DEF Read, NewMarkers, Marked
      <4> QED BY <2>5, <3>1, <4>2 DEF Commit
    <3> QED BY <2>2, <3>2, <3>3 DEF Read
  <2> QED BY <2>3, <2>4, <2>5
<1> QED BY <1>1, Inductive, PTL DEF Spec, RepeatAddsNothing
=============================================================================
