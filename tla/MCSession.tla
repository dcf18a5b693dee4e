------------------------------ MODULE MCSession ------------------------------
(* Two connections, one old session that is online, two ids that rand will *)
(* give out, and requests with every cookie and every function.            *)
EXTENDS Session, TLC

CONSTANTS c1, c2, old, g1, g2, u1, u2

MCGenSid == <<g1, g2>>
MCOldRows == <<[sid |-> old, uid |-> u1, online |-> TRUE, pref |-> "default"]>>

Post(k, f, w) == [meth |-> "POST", cookie |-> k, func |-> f, who |-> w, pref |-> FALSE]
Get(k, f, w, p) == [meth |-> "GET", cookie |-> k, func |-> f, who |-> w, pref |-> p]

MCRequests ==
  {Post(k, f, NoUid) : k \in {NoSid, old, g1}, f \in {"none", "logout"}}
    \cup {Post(k, "login", u2) : k \in {NoSid, old}}
    \cup {Post(NoSid, "login", NoUid), Post(NoSid, "tz", NoUid), Post(BadSid, "none", NoUid)}
    \cup {Get(NoSid, "none", NoUid, TRUE), Get(NoSid, "login", u2, FALSE)}

Symmetry == Permutations(Conns)
=============================================================================
