------------------------------ MODULE Request -------------------------------
(***************************************************************************)
(* How core/core.d reads a request: main_loop appends what has arrived to  *)
(* input, as much as a read gives, and process_header goes over all of it  *)
(* again, until a page is made or a file is sent (process_cookie,          *)
(* process_qs, process_post).  One connection, from its first byte on.     *)
(*                                                                         *)
(* The input is a sequence of tokens; a read may end between any two.      *)
(* process_header also looks at the bytes behind the input: what is there  *)
(* - in the release build, which has no bounds checks - is whatever an     *)
(* earlier request has left, its rest or the end of its header included.   *)
(* A slice whose end lies before its start is as long as memory, and who   *)
(* walks through it ends the program; in the debug build the bounds check  *)
(* does that.  Left out: multipart bodies, photos, keepalive, the query     *)
(* string (only logged), who sends the request (Session), and how the      *)
(* answer is written (MainLoop).                                           *)
(***************************************************************************)
EXTENDS Integers, SequencesExt, FiniteSetsExt

CONSTANTS
  Requests,   \* [method, doc, args, lines, body, extra]: see Stream
  Files,      \* documents in FILES or FILES_GZIP
  MaxExtra    \* bound: reads once an answer is there

(* The tokens of a request.  Lines are [name, text, length, cookies], the  *)
(* value of a line in the form that its name calls for; a cookie is        *)
(* [key, value, args], an argument [key, value].                           *)
Argument == [key : STRING, value : STRING]
Cookies == [key : STRING, value : STRING, args : Seq(Argument)]
HeaderLines == [name : STRING, text : STRING, length : Nat, cookies : Seq(Cookies)]

(* A request has a line of the header at least (HTTP/1.1 asks for Host):   *)
(* the end of the header is looked for behind a line only, so one without  *)
(* any would wait for ever.  Its body has the length that it says.         *)
ASSUME RequestAssumption ==
  /\ MaxExtra \in Nat
  /\ Requests \subseteq [method : {"GET", "POST"}, doc : STRING, args : Seq(Argument),
                         lines : Seq(HeaderLines), body : Seq(Argument), extra : Nat]
  /\ \A r \in Requests :
       /\ r.lines # <<>>
       /\ \A i \in DOMAIN r.lines : r.method = "POST" /\ r.lines[i].name = "Content-Length" =>
            r.lines[i].length = Len(r.body)

VARIABLES
  req,      \* what the client sends
  stream,   \* as tokens
  input,    \* input: the tokens read so far
  conn,     \* the other fields of dyn_connection
  session,  \* cur_session is not null
  answers,  \* history: what was put into output, and from what
  dead      \* the program has ended

requestVars == <<req, stream, input, conn, session, answers, dead>>

-----------------------------------------------------------------------------
T(t) == [t |-> t]
CR == T("CR")
LF == T("LF")
CRLF == <<CR, LF>>
Arg(a) == [t |-> "arg", arg |-> a]

Args(args) == [i \in DOMAIN args |-> Arg(args[i])]
Line(l) == <<[t |-> "name", name |-> l.name], [t |-> "value", line |-> l]>> \o CRLF
Stream(r) ==
  <<T(r.method), [t |-> "doc", doc |-> r.doc]>>
    \o (IF r.args = <<>> THEN <<>> ELSE <<T("?")>> \o Args(r.args))
    \o <<T("SP"), T("version")>> \o CRLF
    \o FlattenSeq([i \in DOMAIN r.lines |-> Line(r.lines[i])]) \o CRLF
    \o Args(r.body) \o [i \in 1 .. r.extra |-> T("extra")]

Is(s, i, t) == i \in DOMAIN s /\ s[i].t = t
First(s, from, t) == LET at == {i \in from .. Len(s) : s[i].t = t} IN IF at = {} THEN 0 ELSE Min(at)

(* What may lie behind the input: nothing that matches, the rest of an     *)
(* equal request, or the end of some header.                               *)
Behind(n) == {<<>>, SubSeq(stream, n + 1, Len(stream)), <<LF>> \o CRLF, CRLF, CRLF \o CRLF}

-----------------------------------------------------------------------------
Unset == -1
NewConn == [headerLen |-> 0, contentLen |-> 0, doc |-> "", origQs |-> FALSE, browser |-> FALSE,
            gzip |-> FALSE, post |-> {}, func |-> "", sid |-> "", file |-> FALSE]

RequestInit ==
  /\ req \in Requests /\ stream = Stream(req) /\ input = <<>> /\ conn = NewConn /\ session \in BOOLEAN
  /\ answers = <<>> /\ dead = FALSE

(* POST is a map: [key, value], a key once, the last value of it.  "f"     *)
(* names the function to call.                                             *)
Named(args, key) == {i \in DOMAIN args : args[i].key = key}
Put(map, args) ==
  {b \in map : Named(args, b.key) = {}}
    \cup {args[i] : i \in {j \in DOMAIN args : j = Max(Named(args, args[j].key))}}
Called(func, args) == IF Named(args, "f") = {} THEN func ELSE args[Max(Named(args, "f"))].value
TakeArgs(c, args) == [c EXCEPT !.post = Put(@, args), !.func = Called(@, args)]

(* process_qs sets cur_session.lang when it comes to an "L". *)
process_qs(c, args) == [TakeArgs(c, args) EXCEPT !.origQs = TRUE]
NeedsSession(args) == Named(args, "L") # {}

(* The arguments of the cookies that are called GET; the last SID counts.  *)
Gets(cookies) ==
  FlattenSeq([i \in DOMAIN cookies |-> IF cookies[i].key = "GET" THEN cookies[i].args ELSE <<>>])
process_cookie(c, cookies) ==
  LET d == IF Named(cookies, "GET") = {} THEN c ELSE process_qs(c, Gets(cookies))
  IN  IF Named(cookies, "SID") = {} THEN d
      ELSE [d EXCEPT !.sid = cookies[Max(Named(cookies, "SID"))].value]
CookieNeedsSession(cookies) == Named(cookies, "L") # {} \/ NeedsSession(Gets(cookies))

(* What process_header leaves: the connection, what it returns, whether    *)
(* the program is still there, and whether get_session has found one.      *)
Result(c, ret) == [c |-> c, ret |-> ret, dead |-> FALSE, session |-> FALSE]
Dies(c) == [Result(c, 0) EXCEPT !.dead = TRUE]

(* A line that has not arrived to its end (endl is before it) is sliced    *)
(* all the same; the search for "gzip" may find one on its way.            *)
Slices(c, name) == name = "Cookie" \/ (name = "Content-Length" /\ c.contentLen = Unset)
                     \/ (name = "User-Agent" /\ ~c.browser)

Handle(c, name, l, whole, found) ==
  CASE name = "If-Modified-Since" -> Result(c, -1)
    [] ~whole /\ (Slices(c, name) \/ (name = "Accept-Encoding" /\ ~found)) -> Dies(c)
    [] name = "Accept-Encoding" /\ (whole \/ found) ->
         Result([c EXCEPT !.gzip = ~whole \/ l.text = "gzip"], 0)
    [] whole /\ name = "Cookie" ->
         IF CookieNeedsSession(l.cookies) /\ ~session THEN Dies(c)
         ELSE Result(process_cookie(c, l.cookies), 0)
    [] whole /\ name # "Cookie" /\ Slices(c, name) ->
         Result(IF name = "User-Agent" THEN [c EXCEPT !.browser = TRUE]
                ELSE [c EXCEPT !.contentLen = l.length], 0)
    [] OTHER -> Result(c, 0)

(* The line that begins at position k.  It ends where CR has arrived and   *)
(* LF follows, the header where another of both follows that.              *)
NoLine == [text |-> ""]
OneLine(t, c, k, mem, found) ==
  LET all == t \o mem
      ends == {e \in k .. Len(t) : Is(t, e, "CR") /\ Is(all, e + 1, "LF")}
      endl == Min(ends)
      r == Handle(c, t[k].name, IF ends = {} THEN NoLine ELSE t[k + 1].line, ends # {}, found)
  IN  IF r.ret # 0 \/ r.dead \/ ends = {} \/ ~Is(all, endl + 2, "CR") \/ ~Is(all, endl + 3, "LF")
      THEN r
      ELSE IF r.c.contentLen = Unset THEN Result(r.c, -1)
      ELSE [Result(r.c, endl + 3) EXCEPT !.session = r.c.sid # ""]

(* The lines behind position from.  (A line is noticed by the capital      *)
(* letter it starts with.)                                                 *)
Lines(t, c, from, mem, found) ==
  LET Walk(r, k) == IF r.ret # 0 \/ r.dead \/ t[k].t # "name" THEN r
                    ELSE OneLine(t, r.c, k, mem, found)
      upTo[k \in 0 .. Len(t) - from] ==
        IF k = 0 THEN Result(c, 0) ELSE Walk(upTo[k - 1], from + k)
  IN  upTo[Len(t) - from]

(* Mutant of Started: Content-Length of a POST is not looked for again.    *)
StartedOnce(c) == IF req.method = "GET" THEN [c EXCEPT !.contentLen = 0] ELSE c
(* Each pass starts with these. *)
Started(c) == [c EXCEPT !.contentLen = IF req.method = "GET" THEN 0 ELSE Unset]

process_header(t, mem, found) ==
  LET sp == First(t, 1, "SP")
      all == t \o mem
      args == [i \in 1 .. sp - 4 |-> t[i + 3].arg]
      named == [Started(conn) EXCEPT !.doc = t[2].doc]
      c == IF sp > 3 THEN process_qs(named, args) ELSE [named EXCEPT !.origQs = FALSE]
  IN  IF sp = 0 THEN Result(Started(conn), 0)
      ELSE IF sp > 3 /\ NeedsSession(args) /\ ~session THEN Dies(conn)
      ELSE IF ~(Is(all, sp + 2, "CR") /\ Is(all, sp + 3, "LF")) THEN Result(c, -1)
      ELSE Lines(t, c, sp, mem, found)

(* process_post, of what follows the header. *)
process_post(t, c) ==
  LET h == c.headerLen
      end == Max({h} \cup {i \in h + 1 .. Len(t) : t[i].t = "arg"})
  IN  TakeArgs(c, [i \in 1 .. end - h |-> t[h + i].arg])

(* Mutant of Incomplete: too many bytes do not matter. *)
IncompleteBelow(t, c) == c.contentLen # 0 /\ c.contentLen + c.headerLen > Len(t)
(* Mutant of Incomplete: the blank line is counted with the body. *)
IncompleteBlank(t, c) == c.contentLen # 0 /\ c.contentLen + c.headerLen # Len(t) + 1
(* "this prevents trying to render the page, if there is a POST, and it's  *)
(* not fully downloaded yet"                                               *)
Incomplete(t, c) == c.contentLen # 0 /\ c.contentLen + c.headerLen # Len(t)

(* What main_loop does with a whole header.  The copies of POST and        *)
(* func_name that process_post changes are the globals'.                   *)
Page(c) == c.doc = "/" \/ (c.origQs /\ c.doc \notin Files)
Serve(t, r) ==
  LET c == [r.c EXCEPT !.headerLen = r.ret]
      made == IF c.contentLen # 0 THEN process_post(t, c) ELSE c
  IN  IF Page(c)
      THEN IF Incomplete(t, c)
           THEN /\ conn' = c /\ UNCHANGED answers /\ session' = (session \/ r.session)
           ELSE /\ conn' = c /\ session' = TRUE
                /\ answers' = Append(answers, [kind |-> "page", doc |-> c.doc,
                                               post |-> made.post, func |-> made.func])
      ELSE /\ session' = (session \/ r.session)
           /\ conn' = [c EXCEPT !.file = c.doc \in Files]
           /\ answers' = IF c.file THEN answers
                         ELSE Append(answers, [kind |-> IF c.doc \in Files THEN "file" ELSE "404",
                                               doc |-> c.doc])

(* A read up to token n. *)
Read(n, mem, found) ==
  /\ ~dead /\ Len(answers) < MaxExtra
  /\ \E t \in {SubSeq(stream, 1, n)} :
       \E r \in {IF ~conn.file /\ n > 1 THEN process_header(t, mem, found)
                 ELSE Result(conn, conn.headerLen)} :
         /\ input' = t /\ dead' = r.dead
         /\ \/ /\ r.dead /\ UNCHANGED <<conn, session, answers>>
            \/ /\ ~r.dead /\ r.ret = -1
               /\ conn' = [r.c EXCEPT !.headerLen = -1] /\ UNCHANGED session
               /\ answers' = Append(answers, [kind |-> "bad"])
            \/ /\ ~r.dead /\ r.ret = 0
               /\ conn' = [r.c EXCEPT !.headerLen = 0] /\ UNCHANGED <<session, answers>>
            \/ ~r.dead /\ r.ret > 0 /\ Serve(t, r)
  /\ UNCHANGED <<req, stream>>

RequestNext ==
  \E n \in Len(input) + 1 .. Len(stream), found \in BOOLEAN : \E mem \in Behind(n) : Read(n, mem, found)

RequestSpec == RequestInit /\ [][RequestNext]_requestVars

-----------------------------------------------------------------------------
(* What the request names: in its query string and in the cookies of its   *)
(* first k lines.                                                          *)
NamedIn(r, k) ==
  r.args \o FlattenSeq([i \in 1 .. k |-> IF r.lines[i].name = "Cookie" THEN Gets(r.lines[i].cookies)
                                         ELSE <<>>])
Meant(args) == TakeArgs(NewConn, args)
Does(page, args) == page.post = Meant(args).post /\ page.func = Meant(args).func
Pages == {i \in DOMAIN answers : answers[i].kind = "page"}

(* However a request is cut into reads, and whatever lies behind its end,  *)
(* what is posted is acted on once at most, and then with the whole of it  *)
(* and nothing else: header, cookie, body - even as more bytes follow; and *)
(* without a body a page is made of what the request names, the query      *)
(* string and as many lines of the header as there were when it ended.     *)
PostActedOnce ==
  /\ \A i \in Pages : answers[i].doc = req.doc
  /\ req.method = "POST" /\ req.body # <<>> =>
       /\ \A i, j \in Pages : i = j
       /\ \A i \in Pages : Does(answers[i], NamedIn(req, Len(req.lines)) \o req.body)
  /\ req.body = <<>> =>
       \A i \in Pages : \E k \in 0 .. Len(req.lines) : Does(answers[i], NamedIn(req, k))

(* A request that has arrived, and no more than it, is answered in that    *)
(* read, unless it has ended the program: nothing waits for bytes that     *)
(* will not come.                                                          *)
WholeIsAnswered == Len(input) = Len(stream) - req.extra => answers # <<>> \/ dead
=============================================================================
