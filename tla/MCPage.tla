------------------------------- MODULE MCPage -------------------------------
(***************************************************************************)
(* One run for two things a page is made of, which share nothing: the      *)
(* request it answers and the rows it shows.  A behaviour is of either.    *)
(*                                                                         *)
(* Three documents, one of them without the field, one that may not be     *)
(* read; pages of two rows, the first and the second, and of one row, as   *)
(* a load by the _id 0 asks for.  A query finds all documents, or those    *)
(* without a certain value, the last first.                                *)
(*                                                                         *)
(* Requests for a page, a file and a document that is not there, with and  *)
(* without arguments, cookies and a body, cut anywhere.                    *)
(***************************************************************************)
EXTENDS Edb, Request, TLC

CONSTANTS plain, hidden, o1, o2

Symmetry == Permutations(Objs)

MCCollections == {<<plain, hidden, Missing>>}

MCAnswers ==
  {[ds \in Docs |-> SelectSeq(<<1, 2, 3>>, LAMBDA i : ds[i] # NoDoc)],
   [ds \in Docs |-> SelectSeq(<<3, 2, 1>>, LAMBDA i : ds[i] \notin {NoDoc, plain})]}

-----------------------------------------------------------------------------
A(k, v) == [key |-> k, value |-> v]
K(k, v, as) == [key |-> k, value |-> v, args |-> as]
Line1(n, v, len, cs) == [name |-> n, text |-> v, length |-> len, cookies |-> cs]
Cookie(cs) == Line1("Cookie", "", 0, cs)
Length(n) == Line1("Content-Length", "", n, <<>>)
Other(n, v) == Line1(n, v, 0, <<>>)
Sid == Cookie(<<K("SID", "s", <<>>)>>)
MoreGet == Cookie(<<K("GET", "", <<A("a", "4")>>)>>)
GetCookie == Cookie(<<K("SID", "s", <<>>), K("GET", "", <<A("a", "3"), A("f", "view")>>)>>)
Lang == Cookie(<<K("L", "es", <<>>)>>)
Agent == Other("User-Agent", "gecko")
Gzip == Other("Accept-Encoding", "gzip")
Host == Other("Host", "h")

R(method, doc, args, lines, body, extra) ==
  [method |-> method, doc |-> doc, args |-> args, lines |-> lines, body |-> body, extra |-> extra]

MCRequests ==
  {R("GET", doc, args, lines, <<>>, extra) :
     doc \in {"/", "/file", "/none"}, extra \in {0, 1},
     args \in {<<>>, <<A("a", "1"), A("f", "view")>>, <<A("L", "en")>>},
     lines \in {<<Host>>, <<GetCookie, Agent, MoreGet>>, <<Gzip, Lang>>, <<Host, Other("If-Modified-Since", "t")>>}}
  \cup {R("POST", doc, args, lines, body, extra) :
     doc \in {"/", "/none"}, args \in {<<>>, <<A("a", "1")>>}, extra \in {0, 1},
     body \in {<<A("f", "post"), A("a", "2")>>},
     lines \in {<<Length(2), GetCookie>>, <<Sid, Length(2)>>, <<Sid>>}}
  \cup {R("POST", "/", <<A("a", "1")>>, <<Length(0), Sid>>, <<>>, 1)}

-----------------------------------------------------------------------------
VARIABLE part

PageInit ==
  /\ part \in {"rows", "request"}
  /\ Init /\ RequestInit
  /\ part = "rows" => req = CHOOSE r \in Requests : TRUE
  /\ part = "rows" => ~session
  /\ part = "request" => docs = CHOOSE ds \in Collections : TRUE

PageNext ==
  \/ part = "rows" /\ Next /\ UNCHANGED <<part, requestVars>>
  \/ part = "request" /\ RequestNext /\ UNCHANGED <<part, vars>>

PageSpec == PageInit /\ [][PageNext]_<<part, vars, requestVars>>

=============================================================================
