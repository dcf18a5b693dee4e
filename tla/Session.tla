------------------------------- MODULE Session -------------------------------
(***************************************************************************)
(* Visitors, sessions and logins: what core/core.d (get_session,           *)
(* make_session, do_page_request, print_cookie) and core/session.d do with *)
(* the globals cur_session, user_session and uid, with the fields sid and  *)
(* session of the connections, and with the Session rows of the database.  *)
(*                                                                         *)
(* One thread serves the requests one after the other, but the globals are *)
(* those of the last request until somebody sets them, a request is parsed *)
(* again each time more bytes of it arrive, and a restart keeps nothing    *)
(* but the rows.                                                           *)
(*                                                                         *)
(* Hits, times and the rendered page are left out; whether a login has     *)
(* expired is a free choice at each request.  lang and timezone, which are *)
(* set on cur_session in the same way, are the one field pref.             *)
(***************************************************************************)
EXTENDS Naturals, Sequences

CONSTANTS
  Conns,      \* connections (dyn_connection structures) in use
  Sids,       \* session ids of 26 characters
  OldSids,    \* those that visitors still hold from earlier
  GenSid,     \* what get_rand_sid returns, call by call, after a start
  NoSid,      \* no SID cookie
  BadSid,     \* an SID cookie of another length
  Uids,       \* users
  NoUid,      \* uid = 0
  NoSession,  \* null
  NoConn,     \* no request yet
  Requests,   \* the requests visitors make (see RequestType)
  NoRequest,
  OldRows,    \* the rows in the database when it all starts
  MaxRows     \* bound: rows of the database

(* A request: its method, its SID cookie, the function it calls ("f"), the *)
(* user that validate_user returns if that is login, and whether it has a  *)
(* parameter or cookie "L".                                                *)
RequestType ==
  [meth : {"GET", "POST"}, cookie : Sids \cup {NoSid, BadSid},
   func : {"none", "login", "logout", "tz"}, who : Uids \cup {NoUid},
   pref : BOOLEAN]

(* A row, and an EdbObject: its _id, 0 when it is not saved yet, and data. *)
RowType ==
  [sid : Sids, uid : Uids \cup {NoUid}, online : BOOLEAN,
   pref : {"default", "chosen"}]

SessionType == [id : Nat, data : RowType]

ASSUME SessionAssumption ==
  /\ OldSids \subseteq Sids /\ NoSid \notin Sids /\ BadSid \notin Sids
  /\ NoSid # BadSid
  /\ NoUid \notin Uids
  /\ NoSession \notin SessionType /\ NoConn \notin Conns
  /\ GenSid \in Seq(Sids)
  /\ Requests \subseteq RequestType /\ NoRequest \notin RequestType
  /\ OldRows \in Seq(RowType) /\ MaxRows \in Nat

(* Random ids do not clash with each other nor with ids of old rows.       *)
ASSUME RandomAssumption ==
  /\ \A i, j \in 1 .. Len(GenSid) : GenSid[i] = GenSid[j] => i = j
  /\ \A i \in 1 .. Len(GenSid) : GenSid[i] \notin OldSids
  /\ \A i \in 1 .. Len(OldRows) : OldRows[i].sid \in OldSids
  /\ \A i, j \in 1 .. Len(OldRows) : OldRows[i].sid = OldRows[j].sid => i = j

VARIABLES
  rows,         \* the Session collection, in the order of a query
  drawn,        \* how often get_rand_sid was called since the start
  known,        \* the ids visitors can send: old ones and those of Set-Cookie
  restarted,    \* whether the program was restarted
  request,      \* per connection: its request, once the header is complete
  body,         \* per connection: how its body compares with content_len
  sid,          \* per connection: its field sid
  hasSession,   \* per connection: session !is null
  pc,           \* where do_page_request is
  curConn,      \* cur_conn
  curSession,   \* cur_session
  uid,          \* the global uid
  userSession   \* the user of user_session

connVars == <<request, body, sid, hasSession>>
vars == <<rows, drawn, known, restarted, connVars, pc, curConn, curSession,
          uid, userSession>>

TypeOK ==
  /\ rows \in Seq(RowType)
  /\ drawn \in 0 .. Len(GenSid)
  /\ known \in SUBSET Sids
  /\ restarted \in BOOLEAN
  /\ request \in [Conns -> Requests \cup {NoRequest}]
  /\ body \in [Conns -> {"missing", "exact", "over"}]
  /\ sid \in [Conns -> Sids \cup {NoSid, BadSid}]
  /\ hasSession \in [Conns -> BOOLEAN]
  /\ pc \in {"idle", "func", "page", "save", "dead"}
  /\ curConn \in Conns \cup {NoConn}
  /\ pc \in {"func", "page", "save"} => curConn \in Conns /\ request[curConn] \in Requests
  /\ curSession \in SessionType \cup {NoSession}
  /\ curSession # NoSession => curSession.id <= Len(rows)
  /\ pc = "save" => curSession # NoSession
  /\ uid \in Uids \cup {NoUid} /\ userSession \in Uids \cup {NoUid}

Init ==
  /\ rows = OldRows /\ drawn = 0 /\ known = OldSids /\ restarted = FALSE
  /\ request = [c \in Conns |-> NoRequest]
  /\ body = [c \in Conns |-> "missing"]
  /\ sid = [c \in Conns |-> NoSid]
  /\ hasSession = [c \in Conns |-> FALSE]
  /\ pc = "idle" /\ curConn = NoConn
  /\ curSession = NoSession /\ uid = NoUid /\ userSession = NoUid

-----------------------------------------------------------------------------
(* Session.get_session: the first row that matches; a new Session(0) with  *)
(* that sid when there is none.  The rows are read each time.              *)
RowsOf(s) == {i \in 1 .. Len(rows) : rows[i].sid = s}

NewSession(s) ==
  [id |-> 0,
   data |-> [sid |-> s, uid |-> NoUid, online |-> FALSE, pref |-> "default"]]

SessionsOf(s) ==
  IF RowsOf(s) = {} THEN {NewSession(s)}
  ELSE {[id |-> i, data |-> rows[i]] :
          i \in {i \in RowsOf(s) : \A j \in RowsOf(s) : i <= j}}

(* EdbObject.save: insert or update. *)
RowsSaved(o) ==
  IF o.id = 0 THEN Append(rows, o.data) ELSE [rows EXCEPT ![o.id] = o.data]

Saved(o) == IF o.id = 0 THEN [o EXCEPT !.id = Len(rows) + 1] ELSE o

(* Mutant of MadeSessions: the rows are not looked through first. *)
AlwaysNew ==
  IF sid[curConn] \in Sids THEN {NewSession(sid[curConn])}
  ELSE {NewSession(GenSid[drawn + 1])}

(* dyn_connection.make_session on cur_conn: by the sid it has, or with a   *)
(* new one.  o is the session it makes.                                    *)
MadeSessions ==
  IF sid[curConn] \in Sids THEN SessionsOf(sid[curConn])
  ELSE {NewSession(GenSid[drawn + 1])}

MakeSession(o) ==
  /\ o \in MadeSessions
  /\ drawn' = IF sid[curConn] \in Sids THEN drawn ELSE drawn + 1
  /\ sid' = [sid EXCEPT ![curConn] = o.data.sid]
  /\ hasSession' = [hasSession EXCEPT ![curConn] = TRUE]

-----------------------------------------------------------------------------
(* A read after which the header is complete.  The first one brings the    *)
(* request; each further one parses the same header again.  A page is made *)
(* when the body has exactly its length, for a GET each time.              *)
Bodies(c, r) ==
  CASE r.meth = "GET"                            -> {"exact"}
    [] r.meth = "POST" /\ body[c] = "missing" -> {"missing", "exact", "over"}
    [] OTHER                                     -> {"over"}

Arrives(c, r) ==
  /\ pc = "idle"
  /\ Len(rows) + 2 <= MaxRows /\ drawn < Len(GenSid)
  /\ \/ request[c] = NoRequest /\ r \in Requests /\ r.cookie \in known \cup {NoSid, BadSid}
     \/ request[c] = r
  /\ request' = [request EXCEPT ![c] = r]
  /\ curConn' = c

(* process_qs and process_cookie set cur_session.lang before get_session   *)
(* runs, so on whatever session the last request left.                     *)
Touched(r) ==
  IF r.pref THEN [curSession EXCEPT !.data.pref = "chosen"] ELSE curSession

NullDereference(r) == r.pref /\ curSession = NoSession

ReadCrashes(c, r) ==
  /\ Arrives(c, r)
  /\ NullDereference(r)
  /\ pc' = "dead"
  /\ UNCHANGED <<rows, drawn, known, restarted, body, sid, hasSession,
                 curSession, uid, userSession>>

(* Core.get_session, at the end of process_header, and, if the page is to  *)
(* be made, main_loop's copy of cur_conn.uid.                              *)
ParsedSid(c, r) == IF r.cookie = NoSid THEN sid[c] ELSE r.cookie

LoggedIn(o, late) == o.data.uid # NoUid /\ o.data.online /\ ~late

GetSession(c, s, o, late) ==
  /\ s \in Sids
  /\ o \in SessionsOf(s)
  /\ curSession' = o
  /\ hasSession' = [hasSession EXCEPT ![c] = TRUE]
  /\ userSession' = IF o.data.uid # NoUid THEN o.data.uid ELSE userSession
  /\ uid' = IF LoggedIn(o, late) THEN o.data.uid
            ELSE IF body'[c] = "exact" THEN NoUid ELSE uid

(* Mutant of GetNoSession: the copy of cur_conn.uid (0) is only made for a *)
(* connection with a session.                                              *)
UidLeftOver(c, r, s) ==
  /\ s \notin Sids
  /\ curSession' = Touched(r)
  /\ UNCHANGED <<hasSession, userSession, uid>>

GetNoSession(c, r, s) ==
  /\ s \notin Sids
  /\ curSession' = Touched(r)
  /\ uid' = IF body'[c] = "exact" THEN NoUid ELSE uid
  /\ UNCHANGED <<hasSession, userSession>>

Read(c, r, b, late) ==
  /\ Arrives(c, r)
  /\ ~NullDereference(r)
  /\ b \in Bodies(c, r)
  /\ body' = [body EXCEPT ![c] = b]
  /\ sid' = [sid EXCEPT ![c] = ParsedSid(c, r)]
  /\ \/ \E o \in SessionsOf(ParsedSid(c, r)) : GetSession(c, ParsedSid(c, r), o, late)
     \/ GetNoSession(c, r, ParsedSid(c, r))
  /\ pc' = IF b = "exact" THEN "func" ELSE "idle"
  /\ UNCHANGED <<rows, drawn, known, restarted>>

-----------------------------------------------------------------------------
(* do_page_request: the function of the request runs.                      *)
Calls(f) == pc = "func" /\ request[curConn].func = f

NoFunction ==
  /\ Calls("none") \/ (Calls("login") /\ request[curConn].who = NoUid)
  /\ pc' = "page"
  /\ UNCHANGED <<rows, drawn, known, restarted, connVars, curConn, curSession,
                 uid, userSession>>

(* UserAuth.login: on cur_session, whosesoever it is. *)
Login ==
  /\ Calls("login") /\ request[curConn].who # NoUid
  /\ \/ /\ curSession # NoSession
        /\ curSession' = [curSession EXCEPT !.data.uid = request[curConn].who,
                                            !.data.online = TRUE]
        /\ UNCHANGED <<drawn, sid, hasSession>>
     \/ /\ curSession = NoSession
        /\ \E o \in MadeSessions :
             /\ MakeSession(o)
             /\ curSession' = [o EXCEPT !.data.uid = request[curConn].who,
                                        !.data.online = TRUE]
  /\ uid' = request[curConn].who /\ userSession' = request[curConn].who
  /\ pc' = "page"
  /\ UNCHANGED <<rows, known, restarted, request, body, curConn>>

(* Session.func_set_timezone, only called "tz". *)
SetTimezone ==
  /\ Calls("tz") /\ curSession # NoSession
  /\ curSession' = [curSession EXCEPT !.data.pref = "chosen"]
  /\ pc' = "page"
  /\ UNCHANGED <<rows, drawn, known, restarted, connVars, curConn, uid, userSession>>

(* UserAuth.func_logout *)
Logout ==
  /\ Calls("logout") /\ curSession # NoSession
  /\ LET o == [curSession EXCEPT !.data.online = FALSE] IN
       rows' = RowsSaved(o) /\ curSession' = Saved(o)
  /\ uid' = NoUid
  /\ pc' = "page"
  /\ UNCHANGED <<drawn, known, restarted, connVars, curConn, userSession>>

FunctionCrashes ==
  /\ Calls("tz") \/ Calls("logout")
  /\ curSession = NoSession
  /\ pc' = "dead"
  /\ UNCHANGED <<rows, drawn, known, restarted, connVars, curConn, curSession,
                 uid, userSession>>

(* Mutants of PrintCookie: cur_session is not set to the session made; it  *)
(* is set only when it is null; online follows uid.                        *)
CookieSetsNothing ==
  /\ pc = "page"
  /\ \E o \in MadeSessions : MakeSession(o)
  /\ known' = IF request[curConn].cookie = NoSid THEN known \cup {sid'[curConn]} ELSE known
  /\ pc' = "save"
  /\ UNCHANGED <<rows, restarted, request, body, curConn, curSession, uid, userSession>>

CookieKeepsSession ==
  /\ pc = "page"
  /\ \E o \in MadeSessions :
       /\ MakeSession(o)
       /\ curSession' = [(IF curSession = NoSession THEN o ELSE curSession)
                           EXCEPT !.data.uid = uid]
  /\ known' = IF request[curConn].cookie = NoSid THEN known \cup {sid'[curConn]} ELSE known
  /\ pc' = "save"
  /\ UNCHANGED <<rows, restarted, request, body, curConn, uid, userSession>>

CookieSetsOnline ==
  /\ pc = "page"
  /\ \E o \in MadeSessions :
       /\ MakeSession(o)
       /\ curSession' = [o EXCEPT !.data.uid = uid, !.data.online = uid # NoUid]
  /\ known' = IF request[curConn].cookie = NoSid THEN known \cup {sid'[curConn]} ELSE known
  /\ pc' = "save"
  /\ UNCHANGED <<rows, restarted, request, body, curConn, uid, userSession>>

(* process_page ends with print_cookie: the session is made once more, and *)
(* the visitor without an SID cookie is told the id.                       *)
PrintCookie ==
  /\ pc = "page"
  /\ \E o \in MadeSessions :
       /\ MakeSession(o)
       /\ curSession' = [o EXCEPT !.data.uid = uid]
  /\ known' = IF request[curConn].cookie = NoSid THEN known \cup {sid'[curConn]} ELSE known
  /\ pc' = "save"
  /\ UNCHANGED <<rows, restarted, request, body, curConn, uid, userSession>>

SaveSession ==
  /\ pc = "save"
  /\ rows' = RowsSaved(curSession) /\ curSession' = Saved(curSession)
  /\ pc' = "idle"
  /\ UNCHANGED <<drawn, known, restarted, connVars, curConn, uid, userSession>>

-----------------------------------------------------------------------------
(* dyn_connection.end; cur_session stays what it is. *)
End(c) ==
  /\ pc = "idle" /\ request[c] # NoRequest
  /\ request' = [request EXCEPT ![c] = NoRequest]
  /\ body' = [body EXCEPT ![c] = "missing"]
  /\ sid' = [sid EXCEPT ![c] = NoSid]
  /\ hasSession' = [hasSession EXCEPT ![c] = FALSE]
  /\ UNCHANGED <<rows, drawn, known, restarted, pc, curConn, curSession, uid, userSession>>

(* The program is started again, after a crash or at any moment.  Nothing  *)
(* calls srand, so rand begins its sequence anew.                          *)
Restart ==
  /\ restarted' = TRUE
  /\ drawn' = 0
  /\ request' = [c \in Conns |-> NoRequest]
  /\ body' = [c \in Conns |-> "missing"]
  /\ sid' = [c \in Conns |-> NoSid]
  /\ hasSession' = [c \in Conns |-> FALSE]
  /\ pc' = "idle" /\ curConn' = NoConn
  /\ curSession' = NoSession /\ uid' = NoUid /\ userSession' = NoUid
  /\ UNCHANGED <<rows, known>>

Reading ==
  \E c \in Conns : \E r \in Requests :
    \/ ReadCrashes(c, r)
    \/ \E b \in {"missing", "exact", "over"}, late \in BOOLEAN : Read(c, r, b, late)

Calling == NoFunction \/ Login \/ SetTimezone \/ Logout \/ FunctionCrashes

Next ==
  \/ Reading \/ Calling \/ PrintCookie \/ SaveSession
  \/ \E c \in Conns : End(c)
  \/ Restart

Spec == Init /\ [][Next]_vars

-----------------------------------------------------------------------------
(* Until the program is restarted, no two rows have the same sid, although *)
(* a session is looked up, made and saved in different places, with reads  *)
(* of other connections in between: the row get_session finds is the one   *)
(* the visitor's pages were saved to.                                      *)
OneRowPerSid ==
  ~restarted => \A i, j \in 1 .. Len(rows) : rows[i].sid = rows[j].sid => i = j

(* A page is made as a user only if this very request has logged in as     *)
(* that user or the row of its own session says so: the globals that the   *)
(* last request left never lend their user to a later one.                 *)
OwnIdentity ==
  pc \in {"func", "page", "save"} /\ uid # NoUid =>
    \/ request[curConn].func = "login" /\ request[curConn].who = uid
    \/ \E i \in RowsOf(sid[curConn]) : rows[i].uid = uid /\ rows[i].online

(* When the page is done (the asserts of do_page_request), cur_session is  *)
(* the session of this connection, for the user it was made as, and        *)
(* user_session, which is saved if there is a user, is that user's.        *)
PageSession ==
  pc = "save" =>
    /\ curSession.data.sid = sid[curConn] /\ hasSession[curConn]
    /\ curSession.data.uid = uid
    /\ uid # NoUid => userSession = uid

(* A request never changes the row of another visitor, except that a       *)
(* logout without a session of 26 characters saves whatever session the    *)
(* last request left.  And no row disappears.                              *)
OwnRowOnly ==
  [][ /\ Len(rows) <= Len(rows')
      /\ \A i \in 1 .. Len(rows) :
           rows'[i] # rows[i] =>
             \/ rows[i].sid = sid[curConn]
             \/ Calls("logout") /\ sid[curConn] \notin Sids ]_vars

(* A session that is online stays so, whatever its visitor asks for, until *)
(* a logout: no page writes an older copy of the row back.                 *)
OnlineUntilLogout ==
  [][ \A i \in 1 .. Len(rows) :
        rows[i].online /\ ~rows'[i].online => Calls("logout") ]_vars

(* "string sid; // make an index across these for fast lookups."           *)
(* (session.d, class Session): an id stands for one session.               *)
SidIsKey == \A i, j \in 1 .. Len(rows) : rows[i].sid = rows[j].sid => i = j

=============================================================================
