--------------------------- MODULE SessionProofs ---------------------------
(***************************************************************************)
(* Proofs about module Session: types, and that an id stands for one row   *)
(* as long as the program is not restarted; then whose page is made, and   *)
(* whose row is written, which hold across restarts.                       *)
(***************************************************************************)
EXTENDS Session, TLAPS

(* The ids that are in the world: the old ones and those drawn so far.     *)
Issued == OldSids \cup {GenSid[k] : k \in 1 .. drawn}

(* Every id anybody holds was issued; the copies of a row, which a         *)
(* connection or cur_session may keep for long, say correctly whether the  *)
(* row exists.                                                             *)
IdsIssued ==
  /\ \A i \in 1 .. Len(rows) : rows[i].sid \in Issued
  /\ known \subseteq Issued
  /\ \A c \in Conns : sid[c] \in Issued \cup {NoSid, BadSid}
  /\ \A c \in Conns :
       request[c] # NoRequest => request[c].cookie \in Issued \cup {NoSid, BadSid}
  /\ curSession # NoSession => curSession.data.sid \in Issued

CopyAgrees(o) ==
  /\ o.id = 0 => \A i \in 1 .. Len(rows) : rows[i].sid # o.data.sid
  /\ o.id # 0 => rows[o.id].sid = o.data.sid

Distinct == \A i, j \in 1 .. Len(rows) : rows[i].sid = rows[j].sid => i = j

(* A request that has begun can still be given an id. *)
IdLeft ==
  /\ pc = "func" => drawn < Len(GenSid)
  /\ pc = "page" => sid[curConn] \in Sids \/ drawn < Len(GenSid)

IInv ==
  /\ TypeOK
  /\ IdLeft
  /\ ~restarted => /\ IdsIssued
                   /\ Distinct
                   /\ curSession # NoSession => CopyAgrees(curSession)

-----------------------------------------------------------------------------
(* What get_rand_sid returns is a session id, and one nobody holds yet.    *)
LEMMA NextIdFresh ==
  ASSUME drawn \in Nat, drawn < Len(GenSid)
  PROVE  /\ GenSid[drawn + 1] \in Sids
         /\ GenSid[drawn + 1] \notin Issued
<1>1. /\ drawn + 1 \in 1 .. Len(GenSid)
      /\ \A k \in 1 .. drawn : k \in 1 .. Len(GenSid) /\ k # drawn + 1
  BY SessionAssumption DEF SessionAssumption
<1>2. GenSid[drawn + 1] \in Sids
  BY <1>1, SessionAssumption DEF SessionAssumption
<1>3. \A k \in 1 .. drawn : GenSid[k] # GenSid[drawn + 1]
  BY <1>1, RandomAssumption DEF RandomAssumption
<1> QED
  BY <1>1, <1>2, <1>3, RandomAssumption DEF RandomAssumption, Issued

(* A session that is looked up or made anew is one of the asked-for id,    *)
(* and it knows whether it has a row.                                      *)
LEMMA SessionsOfOK ==
  ASSUME rows \in Seq(RowType), NEW s \in Sids, NEW o \in SessionsOf(s)
  PROVE  /\ o \in SessionType
         /\ o.id <= Len(rows)
         /\ o.data.sid = s
         /\ CopyAgrees(o)
<1>1. CASE RowsOf(s) = {}
  <2>1. o = NewSession(s)
    BY <1>1 DEF SessionsOf
  <2>2. \A i \in 1 .. Len(rows) : rows[i].sid # s
    BY <1>1 DEF RowsOf
  <2> QED
    BY <2>1, <2>2 DEF NewSession, SessionType, RowType, CopyAgrees
<1>2. CASE RowsOf(s) # {}
  <2>1. PICK i \in RowsOf(s) : o = [id |-> i, data |-> rows[i]]
    BY <1>2 DEF SessionsOf
  <2>2. i \in 1 .. Len(rows) /\ rows[i].sid = s /\ rows[i] \in RowType
    BY <2>1 DEF RowsOf
  <2> QED
    BY <2>1, <2>2 DEF SessionType, CopyAgrees
<1> QED
  BY <1>1, <1>2

(* save() leaves a collection of rows and an object that has one of them;  *)
(* the ids of the other rows are untouched.                                *)
LEMMA SaveOK ==
  ASSUME rows \in Seq(RowType), NEW o \in SessionType, o.id <= Len(rows)
  PROVE  /\ RowsSaved(o) \in Seq(RowType)
         /\ Saved(o) \in SessionType
         /\ Saved(o).data = o.data
         /\ Saved(o).id \in 1 .. Len(RowsSaved(o))
         /\ RowsSaved(o)[Saved(o).id] = o.data
         /\ Len(rows) <= Len(RowsSaved(o))
         /\ Len(RowsSaved(o)) = IF o.id = 0 THEN Len(rows) + 1 ELSE Len(rows)
         /\ \A i \in 1 .. Len(rows) : i # Saved(o).id => RowsSaved(o)[i] = rows[i]
<1>1. o = [id |-> o.id, data |-> o.data] /\ o.id \in Nat /\ o.data \in RowType
  BY DEF SessionType
<1>2. CASE o.id = 0
  <2>1. Saved(o) = [id |-> Len(rows) + 1, data |-> o.data]
    BY <1>1, <1>2 DEF Saved
  <2>2. RowsSaved(o) = Append(rows, o.data)
    BY <1>2 DEF RowsSaved
  <2> QED
    BY <1>1, <1>2, <2>1, <2>2 DEF SessionType
<1>3. CASE o.id # 0
  <2>1. Saved(o) = o /\ o.id \in 1 .. Len(rows)
    BY <1>1, <1>3 DEF Saved
  <2>2. RowsSaved(o) = [rows EXCEPT ![o.id] = o.data]
    BY <1>3 DEF RowsSaved
  <2> QED
    BY <1>1, <1>3, <2>1, <2>2
<1> QED
  BY <1>2, <1>3

(* Saving a copy that agrees with the rows keeps their ids distinct.       *)
LEMMA SaveKeepsIds ==
  ASSUME rows \in Seq(RowType), NEW o \in SessionType, o.id <= Len(rows),
         Distinct, CopyAgrees(o),
         \A i \in 1 .. Len(rows) : rows[i].sid \in Issued,
         o.data.sid \in Issued,
         rows' = RowsSaved(o)
  PROVE  /\ Distinct'
         /\ \A i \in 1 .. Len(rows') : rows'[i].sid \in Issued
         /\ Saved(o).id # 0 /\ rows'[Saved(o).id].sid = Saved(o).data.sid
<1>1. o.id \in Nat
  BY DEF SessionType
<1>2. \A i \in 1 .. Len(rows') :
        rows'[i].sid = IF i = Saved(o).id THEN o.data.sid ELSE rows[i].sid
  <2>1. /\ Saved(o).id = IF o.id = 0 THEN Len(rows) + 1 ELSE o.id
        /\ Len(rows') = IF o.id = 0 THEN Len(rows) + 1 ELSE Len(rows)
        /\ rows'[Saved(o).id] = o.data
        /\ \A i \in 1 .. Len(rows) : i # Saved(o).id => rows'[i] = rows[i]
    BY SaveOK DEF Saved, SessionType
  <2> QED
    BY <1>1, <2>1
<1>3. CASE o.id = 0
  <2>1. /\ Len(rows') = Len(rows) + 1 /\ Saved(o).id = Len(rows) + 1
        /\ \A i \in 1 .. Len(rows) : rows[i].sid # o.data.sid
    BY <1>3, SaveOK DEF Saved, CopyAgrees, SessionType
  <2> QED
    BY <1>2, <2>1, SaveOK DEF Distinct
<1>4. CASE o.id # 0
  <2>1. /\ Len(rows') = Len(rows) /\ Saved(o).id = o.id
        /\ rows[o.id].sid = o.data.sid
    BY <1>4, SaveOK DEF Saved, CopyAgrees
  <2> QED
    BY <1>2, <2>1, SaveOK DEF Distinct
<1> QED
  BY <1>3, <1>4

-----------------------------------------------------------------------------
(* The database the program starts with is in order. *)
LEMMA InitInv == Init => IInv
<1> SUFFICES ASSUME Init PROVE IInv
  OBVIOUS
<1>1. TypeOK
  <2>1. rows \in Seq(RowType) /\ drawn \in 0 .. Len(GenSid) /\ known \in SUBSET Sids
    BY SessionAssumption DEF Init, SessionAssumption
  <2> QED
    BY <2>1 DEF Init, TypeOK
<1>2. IdLeft
  BY DEF Init, IdLeft
<1>3. IdsIssued
  BY RandomAssumption DEF Init, IdsIssued, Issued, RandomAssumption
<1>4. Distinct
  BY RandomAssumption DEF Init, Distinct, RandomAssumption
<1>5. curSession = NoSession
  BY DEF Init
<1> QED
  BY <1>1, <1>2, <1>3, <1>4, <1>5 DEF IInv

(* A request that arrives brings an id its visitor was given. *)
LEMMA ArrivesOK ==
  ASSUME IInv, NEW c \in Conns, NEW r \in Requests, Arrives(c, r)
  PROVE  /\ request' \in [Conns -> Requests \cup {NoRequest}]
         /\ curConn' \in Conns /\ request'[curConn'] \in Requests
         /\ drawn < Len(GenSid)
         /\ r.cookie \in Sids \cup {NoSid, BadSid}
         /\ ~restarted => /\ r.cookie \in Issued \cup {NoSid, BadSid}
                          /\ \A d \in Conns : request'[d] # NoRequest =>
                               request'[d].cookie \in Issued \cup {NoSid, BadSid}
<1>1. r.cookie \in Sids \cup {NoSid, BadSid} /\ r # NoRequest
  BY SessionAssumption DEF SessionAssumption, RequestType
<1>2. request \in [Conns -> Requests \cup {NoRequest}]
  BY DEF IInv, TypeOK
<1>3. /\ request' = [request EXCEPT ![c] = r] /\ curConn' = c
      /\ drawn < Len(GenSid)
      /\ r.cookie \in known \cup {NoSid, BadSid} \/ request[c] = r
  BY DEF Arrives
<1>4. ASSUME ~restarted PROVE r.cookie \in Issued \cup {NoSid, BadSid}
  BY <1>1, <1>3, <1>4 DEF IInv, IdsIssued
<1>5. ASSUME ~restarted
      PROVE  \A d \in Conns : request'[d] # NoRequest =>
               request'[d].cookie \in Issued \cup {NoSid, BadSid}
  BY <1>2, <1>3, <1>4, <1>5 DEF IInv, IdsIssued
<1> QED
  BY <1>1, <1>2, <1>3, <1>4, <1>5

(* Setting the language of the session at hand changes nothing else of it. *)
LEMMA TouchedOK ==
  ASSUME TypeOK, NEW r \in Requests, ~NullDereference(r)
  PROVE  /\ Touched(r) \in SessionType \cup {NoSession}
         /\ Touched(r) = NoSession <=> curSession = NoSession
         /\ curSession # NoSession => /\ Touched(r).id = curSession.id
                                      /\ Touched(r).data.sid = curSession.data.sid
<1>1. CASE r.pref
  <2>1. curSession \in SessionType /\ curSession # NoSession
    BY <1>1 DEF NullDereference, TypeOK
  <2>2. Touched(r) = [curSession EXCEPT !.data.pref = "chosen"]
    BY <1>1 DEF Touched
  <2>3. /\ Touched(r) \in SessionType
        /\ Touched(r).id = curSession.id
        /\ Touched(r).data.sid = curSession.data.sid
    BY <2>1, <2>2 DEF SessionType, RowType
  <2> QED
    BY <2>1, <2>3, SessionAssumption DEF SessionAssumption
<1>2. CASE ~r.pref
  BY <1>2 DEF Touched, TypeOK
<1> QED
  BY <1>1, <1>2

(* A read that dereferences null changes no row and draws no id. *)
LEMMA ReadCrashesInv ==
  ASSUME IInv, NEW c \in Conns, NEW r \in Requests, ReadCrashes(c, r)
  PROVE  IInv'
<1>1. Arrives(c, r) /\ pc' = "dead"
      /\ UNCHANGED <<rows, drawn, known, restarted, body, sid, hasSession,
                     curSession, uid, userSession>>
  BY DEF ReadCrashes
<1>2. TypeOK' /\ IdLeft'
  BY <1>1, ArrivesOK DEF IInv, TypeOK, IdLeft
<1>3. ASSUME ~restarted PROVE IdsIssued'
  BY <1>1, <1>3, ArrivesOK DEF IInv, IdsIssued, Issued
<1> QED
  BY <1>1, <1>2, <1>3 DEF IInv, Distinct, CopyAgrees

(* A read loads the session of its own id, or touches the one at hand. *)
LEMMA ReadInv ==
  ASSUME IInv, NEW c \in Conns, NEW r \in Requests,
         NEW b \in {"missing", "exact", "over"}, NEW late \in BOOLEAN,
         Read(c, r, b, late)
  PROVE  IInv'
<1> DEFINE s == ParsedSid(c, r)
<1>1. /\ Arrives(c, r) /\ ~NullDereference(r)
      /\ body' = [body EXCEPT ![c] = b]
      /\ sid' = [sid EXCEPT ![c] = s]
      /\ (\E o \in SessionsOf(s) : GetSession(c, s, o, late)) \/ GetNoSession(c, r, s)
      /\ pc' = IF b = "exact" THEN "func" ELSE "idle"
      /\ UNCHANGED <<rows, drawn, known, restarted>>
  BY DEF Read
<1>2. s \in Sids \cup {NoSid, BadSid}
  BY ArrivesOK, <1>1 DEF ParsedSid, IInv, TypeOK
<1>3. ~restarted => s \in Issued \cup {NoSid, BadSid}
  BY ArrivesOK, <1>1 DEF ParsedSid, IInv, IdsIssued
<1>4. /\ curSession' \in SessionType \cup {NoSession}
      /\ curSession' # NoSession => curSession'.id <= Len(rows)
      /\ hasSession' \in [Conns -> BOOLEAN]
      /\ uid' \in Uids \cup {NoUid} /\ userSession' \in Uids \cup {NoUid}
      /\ ~restarted /\ curSession' # NoSession =>
           CopyAgrees(curSession') /\ curSession'.data.sid \in Issued
  <2>1. CASE GetNoSession(c, r, s)
    <3>1. /\ curSession' = Touched(r)
          /\ uid' \in {NoUid, uid}
          /\ UNCHANGED <<hasSession, userSession>>
      BY <2>1 DEF GetNoSession
    <3> QED
      BY <3>1, <1>1, TouchedOK DEF IInv, TypeOK, CopyAgrees, IdsIssued
  <2>2. ASSUME NEW o \in SessionsOf(s), GetSession(c, s, o, late)
        PROVE  <1>4!1 /\ <1>4!2 /\ <1>4!3 /\ <1>4!4 /\ <1>4!5
    <3>1. /\ s \in Sids /\ curSession' = o
          /\ hasSession' = [hasSession EXCEPT ![c] = TRUE]
          /\ userSession' \in {o.data.uid, userSession}
          /\ uid' \in {o.data.uid, NoUid, uid}
      BY <2>2 DEF GetSession
    <3>2. o \in SessionType /\ o.id <= Len(rows) /\ o.data.sid = s /\ CopyAgrees(o)
      BY <3>1, SessionsOfOK DEF IInv, TypeOK
    <3>3. o.data.uid \in Uids \cup {NoUid}
      BY <3>2 DEF SessionType, RowType
    <3>4. ~restarted => s \in Issued
      BY <1>3, <3>1, SessionAssumption DEF SessionAssumption
    <3> QED
      BY <3>1, <3>2, <3>3, <3>4 DEF IInv, TypeOK
  <2> QED
    BY <1>1, <2>1, <2>2
<1>5. TypeOK' /\ IdLeft'
  BY <1>1, <1>2, <1>4, ArrivesOK DEF IInv, TypeOK, IdLeft
<1>6. ASSUME ~restarted PROVE IdsIssued'
  BY <1>1, <1>3, <1>4, <1>6, ArrivesOK DEF IInv, TypeOK, IdsIssued, Issued
<1>7. ASSUME ~restarted, curSession' # NoSession PROVE CopyAgrees(curSession)'
  BY <1>1, <1>4, <1>7 DEF CopyAgrees
<1> QED
  BY <1>1, <1>5, <1>6, <1>7 DEF IInv, Distinct

-----------------------------------------------------------------------------
(* The functions that do not touch the session, and tz.                    *)
LEMMA QuietInv ==
  ASSUME IInv, NoFunction \/ SetTimezone \/ FunctionCrashes
  PROVE  IInv'
<1>1. /\ UNCHANGED <<rows, drawn, known, restarted, connVars, curConn, uid, userSession>>
      /\ pc = "func" /\ pc' \in {"page", "dead"}
  BY DEF NoFunction, SetTimezone, FunctionCrashes, Calls
<1>2. \/ curSession' = curSession
      \/ /\ curSession # NoSession
         /\ curSession' = [curSession EXCEPT !.data.pref = "chosen"]
  BY DEF NoFunction, SetTimezone, FunctionCrashes
<1>3. /\ curSession' \in SessionType \cup {NoSession}
      /\ curSession' # NoSession =>
           /\ curSession # NoSession
           /\ curSession'.id = curSession.id
           /\ curSession'.data.sid = curSession.data.sid
  <2>1. CASE curSession' = curSession
    BY <2>1 DEF IInv, TypeOK
  <2>2. CASE /\ curSession # NoSession
             /\ curSession' = [curSession EXCEPT !.data.pref = "chosen"]
    BY <2>2 DEF IInv, TypeOK, SessionType, RowType
  <2> QED
    BY <1>2, <2>1, <2>2
<1>4. TypeOK' /\ IdLeft'
  BY <1>1, <1>3 DEF IInv, TypeOK, IdLeft, connVars
<1>5. ASSUME ~restarted PROVE IdsIssued'
  BY <1>1, <1>3, <1>5 DEF IInv, IdsIssued, Issued, connVars
<1>6. ASSUME ~restarted, curSession' # NoSession PROVE CopyAgrees(curSession)'
  BY <1>1, <1>3, <1>6 DEF IInv, CopyAgrees
<1> QED
  BY <1>1, <1>4, <1>5, <1>6 DEF IInv, Distinct

(* make_session: the id is the connection's, or a fresh one. *)
LEMMA MakeSessionOK ==
  ASSUME IInv, pc \in {"func", "page"}, NEW o, MakeSession(o)
  PROVE  /\ o \in SessionType /\ o.id <= Len(rows)
         /\ drawn' \in drawn .. Len(GenSid)
         /\ sid' \in [Conns -> Sids \cup {NoSid, BadSid}]
         /\ sid'[curConn] = o.data.sid
         /\ hasSession' \in [Conns -> BOOLEAN]
         /\ Issued \subseteq Issued'
         /\ ~restarted => /\ CopyAgrees(o)
                          /\ o.data.sid \in Issued'
                          /\ \A c \in Conns : sid'[c] \in Issued' \cup {NoSid, BadSid}
<1>1. /\ curConn \in Conns /\ drawn \in 0 .. Len(GenSid) /\ Len(GenSid) \in Nat
      /\ rows \in Seq(RowType)
      /\ sid \in [Conns -> Sids \cup {NoSid, BadSid}]
      /\ hasSession \in [Conns -> BOOLEAN]
  BY SessionAssumption DEF IInv, TypeOK, SessionAssumption
<1>2. /\ o \in MadeSessions
      /\ drawn' = IF sid[curConn] \in Sids THEN drawn ELSE drawn + 1
      /\ sid' = [sid EXCEPT ![curConn] = o.data.sid]
      /\ hasSession' = [hasSession EXCEPT ![curConn] = TRUE]
  BY DEF MakeSession
<1>3. Issued \subseteq Issued'
  BY <1>1, <1>2 DEF Issued
<1>4. CASE sid[curConn] \in Sids
  <2>1. o \in SessionsOf(sid[curConn])
    BY <1>2, <1>4 DEF MadeSessions
  <2>2. o \in SessionType /\ o.id <= Len(rows) /\ o.data.sid = sid[curConn] /\ CopyAgrees(o)
    BY <1>1, <1>4, <2>1, SessionsOfOK
  <2>3. ~restarted => sid[curConn] \in Issued
    BY <1>1, <1>4, SessionAssumption DEF IInv, IdsIssued, SessionAssumption
  <2> QED
    BY <1>1, <1>2, <1>3, <1>4, <2>2, <2>3 DEF IInv, IdsIssued
<1>5. CASE sid[curConn] \notin Sids
  <2>1. drawn < Len(GenSid)
    BY <1>5 DEF IInv, IdLeft
  <2>2. GenSid[drawn + 1] \in Sids /\ GenSid[drawn + 1] \notin Issued
    BY <1>1, <2>1, NextIdFresh
  <2>3. o = NewSession(GenSid[drawn + 1])
    BY <1>2, <1>5 DEF MadeSessions
  <2>4. /\ o \in SessionType /\ o.id = 0 /\ o.data.sid = GenSid[drawn + 1]
    BY <2>2, <2>3 DEF NewSession, SessionType, RowType
  <2>5. GenSid[drawn + 1] \in Issued'
    BY <1>1, <1>2, <1>5 DEF Issued
  <2>6. ~restarted => CopyAgrees(o)
    BY <2>2, <2>4 DEF IInv, IdsIssued, CopyAgrees
  <2> QED
    BY <1>1, <1>2, <1>3, <1>5, <2>1, <2>2, <2>4, <2>5, <2>6 DEF IInv, IdsIssued
<1> QED
  BY <1>4, <1>5

(* A login changes the user of a session, not its id. *)
LEMMA LoginInv ==
  ASSUME IInv, Login
  PROVE  IInv'
<1> DEFINE who == request[curConn].who
<1>1. /\ pc = "func" /\ pc' = "page"
      /\ uid' = who /\ userSession' = who
      /\ UNCHANGED <<rows, known, restarted, request, body, curConn>>
  BY DEF Login, Calls
<1>2. who \in Uids \cup {NoUid}
  BY <1>1, SessionAssumption DEF IInv, TypeOK, SessionAssumption, RequestType
<1>3. CASE curSession # NoSession
  <2>1. /\ curSession' = [curSession EXCEPT !.data.uid = who, !.data.online = TRUE]
        /\ UNCHANGED <<drawn, sid, hasSession>>
    BY <1>3 DEF Login
  <2>2. /\ curSession' \in SessionType
        /\ curSession'.id = curSession.id
        /\ curSession'.data.sid = curSession.data.sid
    BY <1>2, <1>3, <2>1 DEF IInv, TypeOK, SessionType, RowType
  <2>3. TypeOK' /\ IdLeft'
    BY <1>1, <1>2, <1>3, <2>1, <2>2 DEF IInv, TypeOK, IdLeft
  <2>4. ASSUME ~restarted PROVE IdsIssued' /\ CopyAgrees(curSession)'
    BY <1>1, <1>3, <2>1, <2>2, <2>4 DEF IInv, IdsIssued, Issued, CopyAgrees
  <2> QED
    BY <1>1, <2>3, <2>4 DEF IInv, Distinct
<1>4. CASE curSession = NoSession
  <2>1. PICK o : /\ MakeSession(o)
                 /\ curSession' = [o EXCEPT !.data.uid = who, !.data.online = TRUE]
    BY <1>4 DEF Login
  <2>2. /\ o \in SessionType /\ o.id <= Len(rows)
        /\ drawn' \in drawn .. Len(GenSid)
        /\ sid' \in [Conns -> Sids \cup {NoSid, BadSid}]
        /\ sid'[curConn] = o.data.sid
        /\ hasSession' \in [Conns -> BOOLEAN]
        /\ Issued \subseteq Issued'
        /\ ~restarted => /\ CopyAgrees(o)
                         /\ o.data.sid \in Issued'
                         /\ \A c \in Conns : sid'[c] \in Issued' \cup {NoSid, BadSid}
    BY <1>1, <2>1, MakeSessionOK
  <2>3. /\ curSession' \in SessionType
        /\ curSession'.id = o.id
        /\ curSession'.data.sid = o.data.sid
    BY <1>2, <2>1, <2>2 DEF SessionType, RowType
  <2>4. o.data.sid \in Sids
    BY <2>2 DEF SessionType, RowType
  <2>5. TypeOK' /\ IdLeft'
    BY <1>1, <1>2, <2>2, <2>3, <2>4 DEF IInv, TypeOK, IdLeft
  <2>6. ASSUME ~restarted PROVE IdsIssued' /\ CopyAgrees(curSession)'
    BY <1>1, <2>2, <2>3, <2>6 DEF IInv, IdsIssued, CopyAgrees
  <2> QED
    BY <1>1, <2>5, <2>6 DEF IInv, Distinct
<1> QED
  BY <1>3, <1>4

(* Logout and the end of the page save a session that agrees with the rows.*)
LEMMA SavingInv ==
  ASSUME IInv, NEW o \in SessionType, o.id <= Len(rows),
         ~restarted => CopyAgrees(o) /\ o.data.sid \in Issued,
         rows' = RowsSaved(o), curSession' = Saved(o),
         uid' \in {uid, NoUid},
         (pc = "func" /\ pc' = "page") \/ pc' = "idle",
         UNCHANGED <<drawn, known, restarted, connVars, curConn, userSession>>
  PROVE  IInv'
<1>1. rows \in Seq(RowType)
  BY DEF IInv, TypeOK
<1>2. /\ rows' \in Seq(RowType)
      /\ curSession' \in SessionType /\ curSession'.data = o.data
      /\ curSession'.id \in 1 .. Len(rows')
  BY <1>1, SaveOK
<1>3. TypeOK' /\ IdLeft'
  BY <1>2 DEF IInv, TypeOK, IdLeft, connVars
<1>4. ASSUME ~restarted PROVE IdsIssued' /\ Distinct' /\ CopyAgrees(curSession)'
  <2>1. /\ Distinct'
        /\ \A i \in 1 .. Len(rows') : rows'[i].sid \in Issued
        /\ curSession'.id # 0 /\ rows'[curSession'.id].sid = curSession'.data.sid
    BY <1>1, <1>4, SaveKeepsIds DEF IInv, IdsIssued
  <2>2. Issued' = Issued
    BY DEF Issued
  <2> QED
    BY <1>2, <1>4, <2>1, <2>2 DEF IInv, IdsIssued, CopyAgrees, connVars
<1> QED
  BY <1>3, <1>4 DEF IInv

(* func_logout saves cur_session, which may be that of another visitor,
   but never under a new id. *)
LEMMA LogoutInv ==
  ASSUME IInv, Logout
  PROVE  IInv'
<1> DEFINE o == [curSession EXCEPT !.data.online = FALSE]
<1>1. /\ pc = "func" /\ pc' = "page" /\ uid' = NoUid
      /\ curSession # NoSession
      /\ rows' = RowsSaved(o) /\ curSession' = Saved(o)
      /\ UNCHANGED <<drawn, known, restarted, connVars, curConn, userSession>>
  BY DEF Logout, Calls
<1>2. /\ o \in SessionType /\ o.id = curSession.id
      /\ o.data.sid = curSession.data.sid /\ curSession.id <= Len(rows)
  BY <1>1 DEF IInv, TypeOK, SessionType, RowType
<1>3. ~restarted => CopyAgrees(o) /\ o.data.sid \in Issued
  BY <1>1, <1>2 DEF IInv, CopyAgrees, IdsIssued
<1> HIDE DEF o
<1> QED
  BY <1>1, <1>2, <1>3, SavingInv

(* The save that ends do_page_request inserts at most one row, with an id
   no row has. *)
LEMMA SaveSessionInv ==
  ASSUME IInv, SaveSession
  PROVE  IInv'
<1>1. /\ pc = "save" /\ pc' = "idle"
      /\ rows' = RowsSaved(curSession) /\ curSession' = Saved(curSession)
      /\ UNCHANGED <<drawn, known, restarted, connVars, curConn, uid, userSession>>
  BY DEF SaveSession
<1>2. /\ curSession # NoSession
      /\ curSession \in SessionType /\ curSession.id <= Len(rows)
  BY <1>1 DEF IInv, TypeOK
<1>3. ~restarted => CopyAgrees(curSession) /\ curSession.data.sid \in Issued
  BY <1>2 DEF IInv, IdsIssued
<1> QED
  BY <1>1, <1>2, <1>3, SavingInv

(* print_cookie makes the session once more and may hand out its id. *)
LEMMA PrintCookieInv ==
  ASSUME IInv, PrintCookie
  PROVE  IInv'
<1>1. PICK o : MakeSession(o) /\ curSession' = [o EXCEPT !.data.uid = uid]
  BY DEF PrintCookie
<1>2. /\ pc = "page" /\ pc' = "save"
      /\ known' \in {known, known \cup {sid'[curConn]}}
      /\ UNCHANGED <<rows, restarted, request, body, curConn, uid, userSession>>
  BY DEF PrintCookie
<1>3. /\ o \in SessionType /\ o.id <= Len(rows)
      /\ drawn' \in drawn .. Len(GenSid)
      /\ sid' \in [Conns -> Sids \cup {NoSid, BadSid}]
      /\ sid'[curConn] = o.data.sid
      /\ hasSession' \in [Conns -> BOOLEAN]
      /\ Issued \subseteq Issued'
      /\ ~restarted => /\ CopyAgrees(o)
                       /\ o.data.sid \in Issued'
                       /\ \A c \in Conns : sid'[c] \in Issued' \cup {NoSid, BadSid}
  BY <1>1, <1>2, MakeSessionOK
<1>4. /\ curSession' \in SessionType /\ curSession' # NoSession
      /\ curSession'.id = o.id
      /\ curSession'.data.sid = o.data.sid /\ o.data.sid \in Sids
  <2>1. uid \in Uids \cup {NoUid}
    BY DEF IInv, TypeOK
  <2>2. /\ curSession' \in SessionType
        /\ curSession'.id = o.id
        /\ curSession'.data.sid = o.data.sid /\ o.data.sid \in Sids
    BY <1>1, <1>3, <2>1 DEF SessionType, RowType
  <2> QED
    BY <2>2, SessionAssumption DEF SessionAssumption
<1>5. TypeOK' /\ IdLeft'
  BY <1>2, <1>3, <1>4 DEF IInv, TypeOK, IdLeft
<1>6. ASSUME ~restarted PROVE IdsIssued' /\ CopyAgrees(curSession)'
  BY <1>2, <1>3, <1>4, <1>6 DEF IInv, IdsIssued, CopyAgrees
<1> QED
  BY <1>2, <1>5, <1>6 DEF IInv, Distinct

(* dyn_connection.end leaves the rows and cur_session alone. *)
LEMMA EndInv ==
  ASSUME IInv, NEW c \in Conns, End(c)
  PROVE  IInv'
<1>1. TypeOK' /\ IdLeft'
  BY DEF IInv, TypeOK, IdLeft, End
<1>2. ASSUME ~restarted PROVE IdsIssued'
  BY <1>2 DEF IInv, TypeOK, IdsIssued, Issued, End
<1> QED
  BY <1>1, <1>2 DEF IInv, Distinct, CopyAgrees, End

(* Every step keeps the strengthened invariant. *)
LEMMA NextInv == IInv /\ [Next]_vars => IInv'
<1> SUFFICES ASSUME IInv, [Next]_vars PROVE IInv'
  OBVIOUS
<1>1. CASE Reading
  <2>1. PICK c \in Conns, r \in Requests :
          \/ ReadCrashes(c, r)
          \/ \E b \in {"missing", "exact", "over"}, late \in BOOLEAN : Read(c, r, b, late)
    BY <1>1 DEF Reading
  <2> QED
    BY <2>1, ReadCrashesInv, ReadInv
<1>2. CASE Calling
  BY <1>2, QuietInv, LoginInv, LogoutInv DEF Calling
<1>3. CASE PrintCookie
  BY <1>3, PrintCookieInv
<1>4. CASE SaveSession
  BY <1>4, SaveSessionInv
<1>5. CASE \E c \in Conns : End(c)
  BY <1>5, EndInv
<1>6. CASE Restart
  <2>1. restarted' = TRUE
    BY <1>6 DEF Restart
  <2>2. TypeOK' /\ IdLeft'
    BY <1>6, SessionAssumption DEF IInv, TypeOK, IdLeft, Restart, SessionAssumption
  <2> QED
    BY <2>1, <2>2 DEF IInv
<1>7. CASE UNCHANGED vars
  BY <1>7 DEF vars, connVars, IInv, TypeOK, IdLeft, IdsIssued, Issued, Distinct, CopyAgrees
<1> QED
  BY <1>1, <1>2, <1>3, <1>4, <1>5, <1>6, <1>7 DEF Next

-----------------------------------------------------------------------------
(* The strengthened invariant: every id in use was issued, and whoever     *)
(* holds a copy of a session knows whether it has a row.                   *)
THEOREM Invariance == Spec => []IInv
<1>1. Init => IInv
  BY InitInv
<1>2. IInv /\ [Next]_vars => IInv'
  BY NextInv
<1> QED
  BY <1>1, <1>2, PTL DEF Spec

(* TypeOK holds: an object never names a row that does not exist, and a    *)
(* page that is saved has a session.                                       *)
THEOREM TypeCorrect == Spec => []TypeOK
<1>1. IInv => TypeOK
  BY DEF IInv
<1> QED
  BY <1>1, Invariance, PTL

(* OneRowPerSid holds: however the requests of however many connections    *)
(* interleave, no save gives an id a second row before a restart.          *)
THEOREM UniqueUntilRestart == Spec => []OneRowPerSid
<1>1. IInv => OneRowPerSid
  BY DEF IInv, Distinct, OneRowPerSid
<1> QED
  BY <1>1, Invariance, PTL

-----------------------------------------------------------------------------
(* Identity. *)

Making == pc \in {"func", "page", "save"}

(* While a page is made, the globals are those of its connection: the user *)
(* of user_session is the user, cur_session has the id of the connection   *)
(* (when the function runs, if there is one of 26 characters), and what is *)
(* saved at the end is online just as the row is.                          *)
GlobalsOfPage ==
  /\ Making /\ uid # NoUid => userSession = uid
  /\ pc = "func" /\ sid[curConn] \in Sids =>
       curSession # NoSession /\ curSession.data.sid = sid[curConn]
  /\ pc = "save" /\ curSession.id # 0 =>
       rows[curSession.id].online = curSession.data.online

(* cur_session never changes the id of the row it was loaded from. *)
CopyOfRow == curSession # NoSession /\ curSession.id # 0 =>
               rows[curSession.id].sid = curSession.data.sid

Identity == OwnIdentity /\ PageSession /\ GlobalsOfPage /\ CopyOfRow

-----------------------------------------------------------------------------
(* A read makes the globals those of its request before a page is made.    *)
LEMMA ReadIdentity ==
  ASSUME IInv, Identity, NEW c \in Conns, NEW r \in Requests,
         NEW b \in {"missing", "exact", "over"}, NEW late \in BOOLEAN,
         Read(c, r, b, late)
  PROVE  Identity'
<1> DEFINE s == ParsedSid(c, r)
<1>1. /\ ~NullDereference(r) /\ Arrives(c, r)
      /\ body' = [body EXCEPT ![c] = b]
      /\ sid' = [sid EXCEPT ![c] = s]
      /\ (\E o \in SessionsOf(s) : GetSession(c, s, o, late)) \/ GetNoSession(c, r, s)
      /\ pc' = IF b = "exact" THEN "func" ELSE "idle"
      /\ rows' = rows
  BY DEF Read
<1>2. /\ curConn' = c /\ sid'[c] = s /\ body'[c] = b /\ rows \in Seq(RowType)
  BY <1>1 DEF Arrives, IInv, TypeOK
<1> HIDE DEF s
<1>3. CASE GetNoSession(c, r, s)
  <2>1. s \notin Sids /\ curSession' = Touched(r) /\ (b = "exact" => uid' = NoUid)
    BY <1>2, <1>3 DEF GetNoSession
  <2>2. CopyOfRow'
    BY <1>1, <2>1, TouchedOK DEF IInv, Identity, CopyOfRow
  <2> QED
    BY <1>1, <1>2, <2>1, <2>2
    DEF Identity, OwnIdentity, PageSession, GlobalsOfPage, Making
<1>4. ASSUME NEW o \in SessionsOf(s), GetSession(c, s, o, late)
      PROVE  Identity'
  <2>1. /\ s \in Sids /\ curSession' = o
        /\ o.data.uid # NoUid => userSession' = o.data.uid
        /\ uid' = IF LoggedIn(o, late) THEN o.data.uid
                  ELSE IF b = "exact" THEN NoUid ELSE uid
    BY <1>2, <1>4 DEF GetSession
  <2>2. /\ o \in SessionType /\ o.data.sid = s /\ CopyAgrees(o)
    BY <1>2, <2>1, SessionsOfOK
  <2>3. CopyOfRow'
    BY <1>1, <2>1, <2>2 DEF CopyOfRow, CopyAgrees
  <2>4. ASSUME LoggedIn(o, late)
        PROVE  \E i \in RowsOf(s) : rows[i].uid = o.data.uid /\ rows[i].online
    <3>1. o.data.uid # NoUid
      BY <2>4 DEF LoggedIn
    <3>2. o \in {[id |-> i, data |-> rows[i]] : i \in RowsOf(s)}
      BY <3>1 DEF SessionsOf, NewSession
    <3> QED
      BY <2>4, <3>2 DEF LoggedIn
  <2>5. b = "exact" /\ uid' # NoUid => LoggedIn(o, late) /\ o.data.uid # NoUid /\ uid' = o.data.uid
    BY <2>1 DEF LoggedIn
  <2>7. OwnIdentity'
    BY <1>1, <1>2, <2>4, <2>5 DEF OwnIdentity, RowsOf
  <2>8. GlobalsOfPage'
    BY <1>1, <1>2, <2>1, <2>2, <2>5, SessionAssumption
    DEF GlobalsOfPage, Making, SessionAssumption
  <2> QED
    BY <1>1, <2>3, <2>7, <2>8 DEF Identity, PageSession
<1> QED
  BY <1>1, <1>3, <1>4

(* make_session gives the connection the id of the session it makes, and   *)
(* keeps the one it has.                                                   *)
LEMMA MadeIdentity ==
  ASSUME IInv, pc \in {"func", "page"}, NEW o, MakeSession(o)
  PROVE  /\ o \in SessionType /\ o.data.sid = sid'[curConn] /\ hasSession'[curConn]
         /\ o.id # 0 => o.id \in 1 .. Len(rows) /\ o.data = rows[o.id]
         /\ sid[curConn] \in Sids => sid'[curConn] = sid[curConn]
<1>1. /\ curConn \in Conns /\ rows \in Seq(RowType)
      /\ hasSession \in [Conns -> BOOLEAN]
  BY DEF IInv, TypeOK
<1>2. o \in MadeSessions /\ hasSession' = [hasSession EXCEPT ![curConn] = TRUE]
  BY DEF MakeSession
<1>3. o \in SessionType /\ o.data.sid = sid'[curConn]
  BY MakeSessionOK
<1>4. CASE sid[curConn] \in Sids
  <2>1. o \in SessionsOf(sid[curConn])
    BY <1>2, <1>4 DEF MadeSessions
  <2>2. o.data.sid = sid[curConn]
    BY <1>1, <1>4, <2>1, SessionsOfOK
  <2>3. o.id # 0 => o.id \in 1 .. Len(rows) /\ o.data = rows[o.id]
    BY <2>1 DEF SessionsOf, NewSession, RowsOf
  <2> QED
    BY <1>1, <1>2, <1>3, <2>2, <2>3
<1>5. CASE sid[curConn] \notin Sids
  BY <1>1, <1>2, <1>3, <1>5 DEF MadeSessions, NewSession
<1> QED
  BY <1>4, <1>5

-----------------------------------------------------------------------------
(* The functions that do not touch the user. *)
LEMMA QuietIdentity ==
  ASSUME IInv, Identity, NoFunction \/ SetTimezone \/ FunctionCrashes
  PROVE  Identity'
<1>1. /\ UNCHANGED <<rows, sid, request, curConn, uid, userSession>>
      /\ pc = "func" /\ pc' \in {"page", "dead"}
  BY DEF NoFunction, SetTimezone, FunctionCrashes, Calls, connVars
<1>2. CopyOfRow'
  <2>1. CASE curSession' = curSession
    BY <1>1, <2>1 DEF Identity, CopyOfRow
  <2>2. CASE /\ curSession # NoSession
             /\ curSession' = [curSession EXCEPT !.data.pref = "chosen"]
    <3>1. curSession'.id = curSession.id /\ curSession'.data.sid = curSession.data.sid
      BY <2>2 DEF IInv, TypeOK, SessionType, RowType
    <3> QED
      BY <1>1, <2>2, <3>1 DEF Identity, CopyOfRow
  <2> QED
    BY <2>1, <2>2 DEF NoFunction, SetTimezone, FunctionCrashes
<1> QED
  BY <1>1, <1>2
  DEF Identity, OwnIdentity, PageSession, GlobalsOfPage, Making, RowsOf

(* A login is its own authority. *)
LEMMA LoginIdentity ==
  ASSUME IInv, Identity, Login
  PROVE  Identity'
<1> DEFINE who == request[curConn].who
<1>1. /\ pc = "func" /\ pc' = "page" /\ request[curConn].func = "login"
      /\ uid' = who /\ userSession' = who
      /\ UNCHANGED <<rows, request, curConn>>
  BY DEF Login, Calls
<1>2. CopyOfRow'
  <2>1. CASE curSession # NoSession
    <3>1. curSession' = [curSession EXCEPT !.data.uid = who, !.data.online = TRUE]
      BY <2>1 DEF Login
    <3>2. curSession'.id = curSession.id /\ curSession'.data.sid = curSession.data.sid
      BY <2>1, <3>1 DEF IInv, TypeOK, SessionType, RowType
    <3> QED
      BY <1>1, <2>1, <3>2 DEF Identity, CopyOfRow
  <2>2. CASE curSession = NoSession
    <3>1. PICK o : /\ MakeSession(o)
                   /\ curSession' = [o EXCEPT !.data.uid = who, !.data.online = TRUE]
      BY <2>2 DEF Login
    <3>2. o \in SessionType /\ (o.id # 0 => o.data = rows[o.id])
      BY <1>1, <3>1, MadeIdentity
    <3>3. curSession'.id = o.id /\ curSession'.data.sid = o.data.sid
      BY <3>1, <3>2 DEF SessionType, RowType
    <3> QED
      BY <1>1, <3>2, <3>3 DEF CopyOfRow
  <2> QED
    BY <2>1, <2>2
<1> QED
  BY <1>1, <1>2 DEF Identity, OwnIdentity, PageSession, GlobalsOfPage, Making

(* A saved object still has the id of its row. *)
LEMMA SavedCopy ==
  ASSUME rows \in Seq(RowType), NEW o \in SessionType, o.id <= Len(rows),
         rows' = RowsSaved(o), curSession' = Saved(o)
  PROVE  CopyOfRow'
BY SaveOK DEF CopyOfRow

(* After a logout there is no user, so nobody's page is made. *)
LEMMA LogoutIdentity ==
  ASSUME IInv, Identity, Logout
  PROVE  Identity'
<1> DEFINE o == [curSession EXCEPT !.data.online = FALSE]
<1>1. /\ pc = "func" /\ pc' = "page" /\ uid' = NoUid /\ curSession # NoSession
      /\ rows' = RowsSaved(o) /\ curSession' = Saved(o)
  BY DEF Logout, Calls
<1>2. o \in SessionType /\ o.id <= Len(rows) /\ rows \in Seq(RowType)
  BY <1>1 DEF IInv, TypeOK, SessionType, RowType
<1> HIDE DEF o
<1>3. CopyOfRow'
  BY <1>1, <1>2, SavedCopy
<1> QED
  BY <1>1, <1>3 DEF Identity, OwnIdentity, PageSession, GlobalsOfPage, Making

(* print_cookie: whoever has no id yet is given one, and then no row has   *)
(* it; so a user without an id has just logged in.                         *)
LEMMA PrintCookieIdentity ==
  ASSUME IInv, Identity, PrintCookie
  PROVE  Identity'
<1>1. PICK o : MakeSession(o) /\ curSession' = [o EXCEPT !.data.uid = uid]
  BY DEF PrintCookie
<1>2. /\ pc = "page" /\ pc' = "save"
      /\ UNCHANGED <<rows, request, curConn, uid, userSession>>
  BY DEF PrintCookie
<1>3. /\ o \in SessionType /\ o.data.sid = sid'[curConn] /\ hasSession'[curConn]
      /\ o.id # 0 => o.id \in 1 .. Len(rows) /\ o.data = rows[o.id]
      /\ sid[curConn] \in Sids => sid'[curConn] = sid[curConn]
  BY <1>1, <1>2, MadeIdentity
<1>4. /\ curSession'.id = o.id /\ curSession'.data.uid = uid
      /\ curSession'.data.sid = o.data.sid /\ curSession'.data.online = o.data.online
  BY <1>1, <1>3 DEF SessionType, RowType
<1>5. CopyOfRow' /\ PageSession' /\ GlobalsOfPage'
  BY <1>2, <1>3, <1>4
  DEF Identity, CopyOfRow, PageSession, GlobalsOfPage, Making
<1>6. OwnIdentity'
  <2>1. CASE sid[curConn] \in Sids
    BY <1>2, <1>3, <2>1 DEF Identity, OwnIdentity, RowsOf
  <2>2. CASE sid[curConn] \notin Sids
    <3>1. RowsOf(sid[curConn]) = {}
      <4>1. \A i \in 1 .. Len(rows) : rows[i] \in RowType
        BY DEF IInv, TypeOK
      <4>2. \A i \in 1 .. Len(rows) : rows[i].sid # sid[curConn]
        BY <2>2, <4>1 DEF RowType
      <4> QED
        BY <4>2 DEF RowsOf
    <3> QED
      BY <1>2, <3>1 DEF Identity, OwnIdentity
  <2> QED
    BY <2>1, <2>2
<1> QED
  BY <1>5, <1>6 DEF Identity

(* The save, the end of a connection and a crash make no page. *)
LEMMA IdleIdentity ==
  ASSUME IInv, Identity,
         \/ SaveSession
         \/ \E c \in Conns : End(c) \/ \E r \in Requests : ReadCrashes(c, r)
  PROVE  Identity'
<1>1. pc' \in {"idle", "dead"}
  BY DEF SaveSession, End, ReadCrashes
<1>2. CopyOfRow'
  <2>1. CASE SaveSession
    BY <2>1, SavedCopy DEF SaveSession, IInv, TypeOK
  <2>2. CASE ~SaveSession
    BY <2>2 DEF End, ReadCrashes, Identity, CopyOfRow
  <2> QED
    BY <2>1, <2>2
<1> QED
  BY <1>1, <1>2 DEF Identity, OwnIdentity, PageSession, GlobalsOfPage, Making

(* Every step keeps it. *)
LEMMA NextIdentity == IInv /\ Identity /\ [Next]_vars => Identity'
<1> SUFFICES ASSUME IInv, Identity, [Next]_vars PROVE Identity'
  OBVIOUS
<1>1. CASE Reading
  <2>1. PICK c \in Conns, r \in Requests :
          \/ ReadCrashes(c, r)
          \/ \E b \in {"missing", "exact", "over"}, late \in BOOLEAN : Read(c, r, b, late)
    BY <1>1 DEF Reading
  <2> QED
    BY <2>1, IdleIdentity, ReadIdentity
<1>2. CASE Calling
  BY <1>2, QuietIdentity, LoginIdentity, LogoutIdentity DEF Calling
<1>3. CASE PrintCookie
  BY <1>3, PrintCookieIdentity
<1>4. CASE SaveSession \/ \E c \in Conns : End(c)
  BY <1>4, IdleIdentity
<1>5. CASE Restart
  BY <1>5 DEF Restart, Identity, OwnIdentity, PageSession, GlobalsOfPage, CopyOfRow, Making
<1>6. CASE UNCHANGED vars
  BY <1>6 DEF vars, connVars, Identity, OwnIdentity, PageSession, GlobalsOfPage,
              CopyOfRow, Making, RowsOf
<1> QED
  BY <1>1, <1>2, <1>3, <1>4, <1>5, <1>6 DEF Next

(* The globals are those of the page that is made, and cur_session is a    *)
(* copy of the row it names.                                               *)
THEOREM IdentityInvariance == Spec => [](IInv /\ Identity)
<1>1. Init => Identity
  BY DEF Init, Identity, OwnIdentity, PageSession, GlobalsOfPage, CopyOfRow, Making
<1>2. IInv /\ Identity /\ [Next]_vars => Identity'
  BY NextIdentity
<1> QED
  BY <1>1, <1>2, Invariance, PTL DEF Spec

(* OwnIdentity holds: no request is served as the user of another one.     *)
THEOREM ServedAsOneself == Spec => []OwnIdentity
<1>1. Identity => OwnIdentity
  BY DEF Identity
<1> QED
  BY <1>1, IdentityInvariance, PTL

(* PageSession holds: what a page saves is its own session.                *)
THEOREM SavesItsSession == Spec => []PageSession
<1>1. Identity => PageSession
  BY DEF Identity
<1> QED
  BY <1>1, IdentityInvariance, PTL

-----------------------------------------------------------------------------
(* A step changes a row only by the save of cur_session, at the end of a   *)
(* page or in a logout.                                                    *)
LEMMA RowsChange ==
  ASSUME IInv, [Next]_vars, rows' # rows
  PROVE  \E o \in SessionType :
           /\ o.id <= Len(rows) /\ rows' = RowsSaved(o)
           /\ curSession # NoSession
           /\ o.id = curSession.id /\ o.data.sid = curSession.data.sid
           /\ Calls("logout") \/ (pc = "save" /\ o = curSession)
<1>1. Logout \/ SaveSession
  BY DEF Next, Reading, ReadCrashes, Read, Calling, NoFunction, Login, SetTimezone,
         FunctionCrashes, PrintCookie, End, Restart, vars
<1>2. CASE Logout
  <2> DEFINE o == [curSession EXCEPT !.data.online = FALSE]
  <2>1. Calls("logout") /\ curSession # NoSession /\ rows' = RowsSaved(o)
    BY <1>2 DEF Logout
  <2>2. /\ o \in SessionType /\ o.id <= Len(rows)
        /\ o.id = curSession.id /\ o.data.sid = curSession.data.sid
    BY <2>1 DEF IInv, TypeOK, SessionType, RowType
  <2> HIDE DEF o
  <2> QED
    BY <2>1, <2>2
<1>3. CASE SaveSession
  BY <1>3 DEF SaveSession, IInv, TypeOK
<1> QED
  BY <1>1, <1>2, <1>3

(* The row that a save changes is the one the object names.                *)
LEMMA SaveChanges ==
  ASSUME rows \in Seq(RowType), NEW o \in SessionType, o.id <= Len(rows),
         rows' = RowsSaved(o), NEW i \in 1 .. Len(rows), rows'[i] # rows[i]
  PROVE  o.id = i /\ i # 0 /\ rows'[i] = o.data
<1>1. Saved(o).id = i /\ rows'[i] = o.data
  BY SaveOK
<1>2. o.id # 0
  <2>1. SUFFICES ASSUME o.id = 0 PROVE FALSE
    OBVIOUS
  <2>2. Saved(o).id = Len(rows) + 1
    BY <2>1 DEF Saved, SessionType
  <2> QED
    BY <1>1, <2>2
<1> QED
  BY <1>1, <1>2 DEF Saved

(* OwnRowOnly holds: a row is written only on behalf of its visitor, but   *)
(* for a logout by somebody who has no id.                                 *)
THEOREM WritesItsRow == Spec => OwnRowOnly
<1> DEFINE A == /\ Len(rows) <= Len(rows')
                /\ \A i \in 1 .. Len(rows) :
                     rows'[i] # rows[i] =>
                       \/ rows[i].sid = sid[curConn]
                       \/ Calls("logout") /\ sid[curConn] \notin Sids
<1>1. IInv /\ Identity /\ [Next]_vars => [A]_vars
  <2> SUFFICES ASSUME IInv, Identity, [Next]_vars PROVE A
    OBVIOUS
  <2>0. rows \in Seq(RowType)
    BY DEF IInv, TypeOK
  <2>1. CASE rows' = rows
    BY <2>0, <2>1
  <2>2. CASE rows' # rows
    <3>1. PICK o \in SessionType :
            /\ o.id <= Len(rows) /\ rows' = RowsSaved(o)
            /\ curSession # NoSession
            /\ o.id = curSession.id /\ o.data.sid = curSession.data.sid
            /\ Calls("logout") \/ (pc = "save" /\ o = curSession)
      BY <2>2, RowsChange
    <3>2. Len(rows) <= Len(rows')
      BY <2>0, <3>1, SaveOK
    <3>3. ASSUME NEW i \in 1 .. Len(rows), rows'[i] # rows[i]
          PROVE  \/ rows[i].sid = sid[curConn]
                 \/ Calls("logout") /\ sid[curConn] \notin Sids
      <4>1. curSession.id = i /\ curSession.id # 0
        BY <2>0, <3>1, <3>3, SaveChanges
      <4>2. rows[i].sid = curSession.data.sid
        BY <3>1, <4>1 DEF Identity, CopyOfRow
      <4> QED
        BY <3>1, <4>2 DEF Identity, PageSession, GlobalsOfPage, Calls
    <3> QED
      BY <3>2, <3>3
  <2> QED
    BY <2>1, <2>2
<1> QED
  BY <1>1, IdentityInvariance, PTL DEF Spec, OwnRowOnly

(* OnlineUntilLogout holds: the page that saves a session has loaded it    *)
(* when the row was what it still is.                                      *)
THEOREM StaysOnline == Spec => OnlineUntilLogout
<1> DEFINE A == \A i \in 1 .. Len(rows) :
                  rows[i].online /\ ~rows'[i].online => Calls("logout")
<1>1. IInv /\ Identity /\ [Next]_vars => [A]_vars
  <2> SUFFICES ASSUME IInv, Identity, [Next]_vars,
                      NEW i \in 1 .. Len(rows), rows[i].online, ~rows'[i].online
               PROVE  Calls("logout")
    OBVIOUS
  <2>1. rows \in Seq(RowType) /\ rows'[i] # rows[i]
    BY DEF IInv, TypeOK
  <2>2. PICK o \in SessionType :
          /\ o.id <= Len(rows) /\ rows' = RowsSaved(o)
          /\ Calls("logout") \/ (pc = "save" /\ o = curSession)
    BY <2>1, RowsChange
  <2>3. o.id = i /\ i # 0 /\ rows'[i] = o.data
    BY <2>1, <2>2, SaveChanges
  <2> QED
    BY <2>2, <2>3 DEF Identity, GlobalsOfPage
<1> QED
  BY <1>1, IdentityInvariance, PTL DEF Spec, OnlineUntilLogout
=============================================================================
