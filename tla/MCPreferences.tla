---------------------------- MODULE MCPreferences ----------------------------
(***************************************************************************)
(* One principal with two keys: three inferred observations of one value,  *)
(* one of them presented again under the token of a rebuilt prompt, an     *)
(* explicit one, a second operation under its token, a forget of one key   *)
(* and of all keys, a lookup, and writes that must be refused: from a      *)
(* group, without the scope, unsigned, expired, issued too early, with too *)
(* long a life, malformed, with a path outside the inbound root.           *)
(***************************************************************************)
EXTENDS Preferences

CONSTANTS p1, k1, k2, v1, v2

MCToken == [signed |-> TRUE, formed |-> TRUE, direct |-> TRUE, iat |-> Now,
            exp |-> Now + 1800, scopes |-> Scopes, group |-> FALSE]

Observe(e, n, o, v, kind) ==
  [cmd |-> "observe", who |-> p1, event |-> e, nonce |-> n, token |-> MCToken,
   op |-> o, key |-> k1, value |-> v, kind |-> kind]

Forget(e, k) ==
  [cmd |-> "forget", who |-> p1, event |-> e, nonce |-> e, token |-> MCToken,
   op |-> e, key |-> k, value |-> None, kind |-> None]

Refused == {
  [MCToken EXCEPT !.group = TRUE], [MCToken EXCEPT !.scopes = {"lookup"}],
  [MCToken EXCEPT !.signed = FALSE], [MCToken EXCEPT !.formed = FALSE],
  [MCToken EXCEPT !.direct = FALSE],
  [MCToken EXCEPT !.iat = Now + 31, !.exp = Now + 40],
  [MCToken EXCEPT !.iat = Now - 9, !.exp = Now - 1],
  [MCToken EXCEPT !.exp = Now + 1801]}

MCRequests == {
  Observe("e1", "n1", "o1", v1, "inferred"),
  Observe("e1", "n1b", "o1b", v1, "inferred"),
  Observe("e2", "n2", "o2", v1, "inferred"),
  Observe("e3", "n3", "o3", v1, "inferred"),
  Observe("e4", "n4", "o4", v2, "explicit"),
  Observe("e4", "n4", "o4b", v1, "explicit"),
  Forget("f1", k1), Forget("f2", None),
  [Forget("e4", None) EXCEPT !.cmd = "lookup", !.nonce = "n4"]}
  \cup {[Observe("e5", "n5", "o5", v1, "inferred") EXCEPT !.token = t] :
         t \in Refused}
=============================================================================
