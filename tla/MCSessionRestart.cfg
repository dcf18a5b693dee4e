SPECIFICATION Spec
CONSTANTS
  c1 = c1
  c2 = c2
  old = old
  g1 = g1
  g2 = g2
  u1 = u1
  u2 = u2
  Conns = {c1, c2}
  Sids = {old, g1, g2}
  OldSids = {old}
  GenSid <- MCGenSid
  NoSid = NoSid
  BadSid = BadSid
  Uids = {u1, u2}
  NoUid = NoUid
  NoSession = NoSession
  NoConn = NoConn
  Requests <- MCRequests
  NoRequest = NoRequest
  OldRows <- MCOldRows
  MaxRows = 4
SYMMETRY Symmetry
INVARIANT
  SidIsKey
