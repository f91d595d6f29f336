----------------------------- MODULE Preferences -----------------------------
(***************************************************************************)
(* Conversational preferences: preference-observe, preference-forget and   *)
(* preference-lookup under the capability of a channel message.            *)
(*                                                                         *)
(* A request is one invocation with fixed arguments: its principal, the    *)
(* provider event it is about, the nonce of its capability, and its        *)
(* operation key.  observe and forget are steps of a workflow run, which   *)
(* fails when a later step fails and is then executed again with the same  *)
(* arguments (WorkflowRun): so a request whose transaction committed may   *)
(* be executed once more, long after other requests.  A prompt that is     *)
(* rebuilt gets another nonce for the same event.                          *)
(*                                                                         *)
(* A transaction is two steps: Begin is everything up to the last SELECT,  *)
(* Commit the writes that depend on what it read.  The first statement     *)
(* upserts the row of the principal and so holds its lock to the end.      *)
(* Only an observation and a forget marker of one principal are ever       *)
(* compared by time, so the clock counts that principal's forgets.  A      *)
(* token that expires later on, and a run that succeeds, are requests that *)
(* nobody makes again; Now is the second at which tokens are verified.     *)
(***************************************************************************)
EXTENDS Naturals, FiniteSets, FiniteSetsExt

CONSTANTS Clients,    \* concurrent helper processes
          Principals, \* (provider, account, sender)
          Keys,       \* PREFERENCE_VALUES, reduced
          Values,
          Requests,   \* the invocations, see Request
          Now,
          None

VARIABLES uses,       \* trusted_context_uses
          obs,        \* preference_observations
          markers,    \* preference_forget_markers
          prefs,      \* user_preferences, per principal and key
          effects,    \* history: requests whose transaction committed
          tx          \* per client: the open transaction

vars == <<uses, obs, markers, prefs, effects, tx>>

Kinds == {"explicit", "inferred"}

Scopes == {"observe", "forget", "lookup"}

(* What a token carries beside who sent what in which event.  signed: its  *)
(* HMAC is the one of the key file; formed: every field has its type and   *)
(* its bounds; direct: its media paths are files of the inbound root.      *)
Token == [signed : BOOLEAN, formed : BOOLEAN, direct : BOOLEAN,
          iat : Nat, exp : Nat, scopes : SUBSET Scopes, group : BOOLEAN]

(* key = None in a forget request means every key.                         *)
Request ==
  [cmd : Scopes, who : Principals, event : STRING, nonce : STRING,
   token : Token, op : STRING, key : Keys \cup {None},
   value : Values \cup {None}, kind : Kinds \cup {None}]

(* The issuer draws a nonce per message, so it names one sender.           *)
ASSUME RequestsAssumption ==
  /\ Requests \subseteq Request /\ Now \in Nat
  /\ None \notin Requests /\ None \notin Kinds
  /\ \A r \in Requests :
       /\ r.event # None
       /\ r.cmd = "observe" =>
            r.key \in Keys /\ r.value \in Values /\ r.kind \in Kinds
       /\ \A s \in Requests : r.nonce = s.nonce => r.who = s.who

Use == [nonce : STRING, scope : Scopes,
        who : Principals, op : STRING, event : STRING]

Observation == [who : Principals, key : Keys, value : Values, kind : Kinds,
                event : STRING, at : Nat]

Marker == [who : Principals, key : Keys, event : STRING, at : Nat \ {0}]

Preference == [status : {"absent", "active", "forgotten"},
               value : Values \cup {None}, kind : Kinds \cup {None},
               count : Nat, event : STRING \cup {None}]

Absent == [status |-> "absent", value |-> None, kind |-> None, count |-> 0,
           event |-> None]

Idle == [req |-> None, obs |-> {}, markers |-> {}, count |-> 0]

TypeOK ==
  /\ \A u \in uses : u.nonce \in {r.nonce : r \in Requests}
  /\ \A o \in obs : o.who \in Principals /\ o.at \in Nat
  /\ \A m \in markers : m.key \in Keys /\ m.at \in Nat \ {0}
  /\ \A p \in Principals, k \in Keys :
       (prefs[p][k].status = "active") <=> (prefs[p][k].event # None)
  /\ effects \subseteq Requests
  /\ \A c \in Clients : tx[c].req \in Requests \cup {None}

Init ==
  /\ uses = {} /\ obs = {} /\ markers = {}
  /\ prefs = [p \in Principals |-> [k \in Keys |-> Absent]]
  /\ effects = {}
  /\ tx = [c \in Clients |-> Idle]

-----------------------------------------------------------------------------
NobodyWaits(c, p) == TRUE                                  \* mutant

(* The upsert of channel_principals waits for the transaction that updated *)
(* the same row.                                                           *)
PrincipalFree(c, p) ==
  \A d \in Clients \ {c} : tx[d].req # None => tx[d].req.who # p

(* The clock window of a token, with half a minute of skew.                *)
InWindow(t) == t.iat <= Now + 30 /\ t.exp >= Now /\ t.exp - t.iat <= 1800

(* verify_trusted_context with the scope of the command.                   *)
Verified(t, scope) ==
  t.signed /\ t.formed /\ InWindow(t) /\ t.direct /\ scope \in t.scopes

(* A write from a group is refused before its capability is consumed.      *)
Permitted(r) ==
  Verified(r.token, r.cmd) /\ (r.cmd # "lookup" => ~r.token.group)

UseOf(r) == [nonce |-> r.nonce, scope |-> r.cmd, who |-> r.who, op |-> r.op,
             event |-> r.event]

ConsumableByEvent(r) ==                                    \* mutant
  \A u \in uses : u.nonce = r.nonce /\ u.scope = r.cmd => u.event = r.event

(* consume_trusted_context: the first use of a nonce in a scope wins, and  *)
(* only the same operation of the same principal and event may repeat it.  *)
Consumable(r) ==
  \A u \in uses : u.nonce = r.nonce /\ u.scope = r.cmd => u = UseOf(r)

Forgets(p) == Max({0} \cup {m.at : m \in {x \in markers : x.who = p}})

Cutoff(p, k) ==
  Max({0} \cup {m.at : m \in {x \in markers : x.who = p /\ x.key = k}})

ObservedAgain(r) ==                                        \* mutant
  LET seen == \E o \in obs : /\ o.who = r.who /\ o.event = r.event
                             /\ o.key = r.key /\ o.value = r.value
                             /\ o.at >= Cutoff(r.who, r.key)
  IN  IF seen THEN {}
      ELSE {[who |-> r.who, key |-> r.key, value |-> r.value,
             kind |-> r.kind, event |-> r.event, at |-> Forgets(r.who)]}

(* INSERT ... ON CONFLICT DO NOTHING: nothing when the principal's event   *)
(* already observed this value, of whichever kind.                         *)
NewObservation(r) ==
  LET seen == \E o \in obs : /\ o.who = r.who /\ o.event = r.event
                             /\ o.key = r.key /\ o.value = r.value
  IN  IF seen THEN {}
      ELSE {[who |-> r.who, key |-> r.key, value |-> r.value,
             kind |-> r.kind, event |-> r.event, at |-> Forgets(r.who)]}

(* count(DISTINCT event_id) of this value and kind since the last forget.  *)
Evidence(r, table) ==
  Cardinality({o.event : o \in
    {x \in table : /\ x.who = r.who /\ x.key = r.key
                   /\ x.value = r.value /\ x.kind = r.kind
                   /\ x.at >= Cutoff(r.who, r.key)}})

TargetKeys(r) == IF r.key = None THEN Keys ELSE {r.key}

NewMarkers(r) ==
  {[who |-> r.who, key |-> k, event |-> r.event, at |-> Forgets(r.who) + 1] :
     k \in {x \in TargetKeys(r) :
              \A m \in markers : ~(/\ m.who = r.who /\ m.key = x
                                   /\ m.event = r.event)}}

-----------------------------------------------------------------------------
BeginObserve(c, r) ==
  /\ r.cmd = "observe"
  /\ LET new == NewObservation(r)
     IN  tx' = [tx EXCEPT ![c] = [req |-> r, obs |-> new, markers |-> {},
                                  count |-> Evidence(r, obs \cup new)]]

BeginForget(c, r) ==
  /\ r.cmd = "forget"
  /\ tx' = [tx EXCEPT ![c] = [req |-> r, obs |-> {},
                              markers |-> NewMarkers(r), count |-> 0]]

(* A helper presents the capability and runs up to its last SELECT.  When  *)
(* the capability is refused it exits without a trace: the guards fail.    *)
Begin(c) ==
  \E r \in Requests :
    /\ tx[c] = Idle
    /\ \A d \in Clients : tx[d].req # r
    /\ Permitted(r)
    /\ PrincipalFree(c, r.who)
    /\ Consumable(r)
    /\ BeginObserve(c, r) \/ BeginForget(c, r)
    /\ UNCHANGED <<uses, obs, markers, prefs, effects>>

Activates(t) == t.req.kind = "explicit" \/ t.count >= 3

CommitObserve(t) ==
  LET r == t.req
  IN  /\ r.cmd = "observe"
      /\ IF Activates(t)
         THEN prefs' = [prefs EXCEPT ![r.who][r.key] =
                [status |-> "active", value |-> r.value, kind |-> r.kind,
                 count |-> t.count, event |-> r.event]]
         ELSE UNCHANGED prefs

Forgotten(f) == [Absent EXCEPT !.status = "forgotten"]

(* The UPDATE touches rows that exist; the marker is written either way.   *)
CommitForget(t) ==
  LET r == t.req
  IN  /\ r.cmd = "forget"
      /\ prefs' = [prefs EXCEPT ![r.who] =
           [k \in Keys |->
              IF k \in TargetKeys(r) /\ @[k].status # "absent"
              THEN Forgotten(@[k]) ELSE @[k]]]

(* COMMIT.                                                                 *)
Commit(c) ==
  LET t == tx[c]
  IN  /\ t.req # None
      /\ CommitObserve(t) \/ CommitForget(t)
      /\ uses' = uses \cup {UseOf(t.req)}
      /\ obs' = obs \cup t.obs
      /\ markers' = markers \cup t.markers
      /\ effects' = effects \cup {t.req}
      /\ tx' = [tx EXCEPT ![c] = Idle]

(* The helper dies or times out before its COMMIT.                         *)
Abort(c) ==
  /\ tx[c].req # None
  /\ tx' = [tx EXCEPT ![c] = Idle]
  /\ UNCHANGED <<uses, obs, markers, prefs, effects>>

(* preference-lookup reads what is active, in one transaction that only    *)
(* consumes its scope.  It has no run: the same call may be made again.    *)
Lookup(c) ==
  \E r \in Requests :
    /\ r.cmd = "lookup"
    /\ tx[c] = Idle
    /\ Permitted(r) /\ PrincipalFree(c, r.who) /\ Consumable(r)
    /\ uses' = uses \cup {UseOf(r)}
    /\ effects' = effects \cup {r}
    /\ UNCHANGED <<obs, markers, prefs, tx>>

Next ==
  \E c \in Clients : Begin(c) \/ Commit(c) \/ Abort(c) \/ Lookup(c)

Spec == Init /\ [][Next]_vars

-----------------------------------------------------------------------------
(* In a well-typed state an inferred preference in force rests on as many  *)
(* distinct provider events as it says, at least three, all of them        *)
(* observed after the last forget of its key, whatever was retried or ran  *)
(* concurrently (vcops.py:5213-5228, WORKFLOWS.md:273).                    *)
InferredHasEvidence ==
  TypeOK /\ \A p \in Principals, k \in Keys :
    LET f == prefs[p][k]
    IN  f.kind = "inferred" =>
          /\ f.count >= 3
          /\ f.count <= Cardinality({o.event : o \in
               {x \in obs : /\ x.who = p /\ x.key = k /\ x.value = f.value
                            /\ x.kind = "inferred"
                            /\ x.at >= Cutoff(p, k)}})

(* Two operations never both take effect under one scope of one            *)
(* capability, whatever order they are presented and retried in            *)
(* (vcops.py:431-443).                                                     *)
OneOperationPerCapability ==
  \A r, s \in effects :
    r.nonce = s.nonce /\ r.cmd = s.cmd => r.op = s.op

(* A request that is executed again adds neither evidence nor a cutoff,    *)
(* also when a forget came between the two executions (WORKFLOWS.md:275).  *)
RepeatAddsNothing ==
  [][\A c \in Clients :
       tx[c].req \in effects /\ tx'[c] = Idle
         => obs' = obs /\ markers' = markers]_vars
=============================================================================
