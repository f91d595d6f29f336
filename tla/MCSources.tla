----------------------------- MODULE MCSources -----------------------------
(***************************************************************************)
(* One source that two additions, a deliberate downgrade and evidence      *)
(* reach; two watched sites, registered by both lanes.                     *)
(***************************************************************************)
EXTENDS Sources

CONSTANTS s1, u1, u2

Addition(t, c, allow) == [key |-> s1, trust |-> t, conf |-> c, allow |-> allow]
MCAdds == {Addition(5, 2, FALSE), Addition(2, 2, FALSE), Addition(0, 1, TRUE)}

Evidence(k, off, away) ==
  [key |-> s1, kind |-> k, trust |-> 2, conf |-> 2, official |-> off,
   elsewhere |-> away]
MCCites == {Evidence("filing", FALSE, FALSE), Evidence("document", FALSE, TRUE),
            Evidence("document", FALSE, FALSE)}

Call(op, lane, u, c, o) ==
  [op |-> op, lane |-> lane, uri |-> u, conf |-> c, owner |-> o]
MCWatches == {
  Call("watch", "model", u1, 1, "agent"),
  Call("watch", "model", u1, 2, "agent"),
  Call("watch", "operator", u1, 0, "fund"),
  Call("unwatch", "model", u1, 1, "agent"),
  Call("watch", "operator", u2, 1, "fund"),
  Call("scan", "operator", u1, 0, "fund")}
=============================================================================
