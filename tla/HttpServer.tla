----------------------------- MODULE HttpServer -----------------------------
(***************************************************************************)
(* One connection of an HttpServer: requests arrive as a stream of bytes cut *)
(* anywhere; each read event runs onMessage, which parses what is in the     *)
(* input buffer with the connection's HttpContext, calls the user with the   *)
(* HttpRequest and sends the HttpResponse.                                   *)
(*                                                                           *)
(* A line of the stream is a sequence of tokens; those the parser looks for  *)
(* (blank, question mark, colon) are tokens of their own.  A line is two     *)
(* units long, its text and its CRLF, so that it can arrive in parts; the    *)
(* input buffer holds the units that arrived after the lines retrieved.      *)
(***************************************************************************)
EXTENDS Integers, Sequences, SequencesExt

CONSTANTS NumRequests,      \* requests the client sends
          Requests          \* what they may be, see Request

R == 1..NumRequests
MethodNames == {"GET", "POST", "HEAD", "PUT", "DELETE"}

(* A header as its sender means it: the name is not a colon, and the blanks around
   the value do not belong to it. *)
Header ==
  {h \in [field : STRING \ {":"}, value : Seq(STRING), pad : Seq({" "})] :
     h.value # <<>> => h.value[1] # " " /\ Last(h.value) # " "}

(* And a request: version "" is none; junk, a header line without a colon behind the
   others; body, what is between the CRLFs of its body, <<>> when it has none. *)
Request == [method : MethodNames \cup {"BREW"}, query : BOOLEAN,
            version : {"", "0", "1", "9"},
            headers : Seq(Header),
            junk : BOOLEAN, body : Seq(Seq(STRING))]

ASSUME HttpAssumption == NumRequests \in Nat /\ Requests \subseteq Request

VARIABLES requests,         \* what the client sends
          stream,           \* its lines
          got,              \* units of the stream that have arrived
          pos,              \* lines retrieved from the input buffer
          pc,               \* where onMessage is
          state,            \* state_ of the HttpContext
          request,          \* request_
          connected,        \* the connection is kConnected, not kDisconnecting
          answers           \* responses sent, in order

client == <<requests, stream>>
parser == <<state, request>>
vars == <<client, got, pos, pc, parser, connected, answers>>

NewRequest == [method |-> "kInvalid", version |-> "kUnknown", path |-> <<>>,
               query |-> <<>>, headers |-> <<>>]

(* The client's lines.  Nothing retrieves a body: what is behind its last CRLF comes in
   front of the next request line, and what is before is lines of its own. *)
RequestLine(q) ==
  <<q.method, " ", "/path">> \o (IF q.query THEN <<"?", "id">> ELSE <<>>) \o
  (IF q.version = "" THEN <<>> ELSE <<" ", "HTTP/1.", q.version>>)
LinesOf(qs, r) ==
  <<(IF r > 1 /\ qs[r - 1].body # <<>> THEN Last(qs[r - 1].body) ELSE <<>>) \o
      RequestLine(qs[r])>> \o
  [i \in DOMAIN qs[r].headers |->
     LET h == qs[r].headers[i] IN <<h.field, ":">> \o h.pad \o h.value \o h.pad] \o
  (IF qs[r].junk THEN << <<"junk">> >> ELSE <<>>) \o (<< <<>> >> \o Front(qs[r].body))

Init ==
  /\ requests \in [R -> Requests]
  /\ stream = FlattenSeq([r \in R |-> LinesOf(requests, r)])
  /\ got = 0 /\ pos = 0
  /\ pc = "idle"
  /\ state = "kExpectRequestLine" /\ request = NewRequest
  /\ connected = TRUE
  /\ answers = <<>>

(* The client sends on whether it has an answer or not. *)
Arrive(n) ==
  /\ pc = "idle"
  /\ n \in (got + 1)..(2 * Len(stream))
  /\ got' = n
  /\ pc' = "parse"
  /\ UNCHANGED <<client, pos, parser, connected, answers>>

-----------------------------------------------------------------------------
(* HttpRequest *)

find(s, token) == SelectInSeq(s, LAMBDA t : t = token)      \* 0 when there is none
Before(s, i) == SubSeq(s, 1, i - 1)
After(s, i) == SubSeq(s, i + 1, Len(s))

setMethod(text) == IF \E m \in MethodNames : text = <<m>> THEN text[1] ELSE "kInvalid"

Trimmed(value) ==
  LET inner == {i \in DOMAIN value : value[i] # " "}
  IN  IF inner = {} THEN <<>> ELSE SubSeq(value, Min(inner), Max(inner))

addHeaderToLastColon(line) ==                                     \* mutant
  LET colon == Max({i \in DOMAIN line : line[i] = ":"})
      field == Before(line, colon)
  IN  [request EXCEPT !.headers = [f \in DOMAIN @ \cup {field} |->
         IF f = field THEN Trimmed(After(line, colon)) ELSE @[f]]]
addHeader(line) ==
  LET colon == find(line, ":")
      field == Before(line, colon)
  IN  [request EXCEPT !.headers = [f \in DOMAIN @ \cup {field} |->
         IF f = field THEN Trimmed(After(line, colon)) ELSE @[f]]]

getHeader(req, field) ==
  IF <<field>> \in DOMAIN req.headers THEN req.headers[<<field>>] ELSE <<>>

-----------------------------------------------------------------------------
(* HttpContext::processRequestLine, whether it succeeds and what it leaves in
   request_ either way *)

Version(text) == CASE text = <<"HTTP/1.", "1">> -> "kHttp11"
                   [] text = <<"HTTP/1.", "0">> -> "kHttp10"
                   [] OTHER -> "kUnknown"

processRequestLine(line) ==
  LET space == find(line, " ")
      method == setMethod(Before(line, space))
      rest == After(line, space)
      space2 == find(rest, " ")
      target == Before(rest, space2)
      question == find(target, "?")
      version == Version(After(rest, space2))
      split == space # 0 /\ method # "kInvalid" /\ space2 # 0
      succeed == split /\ version # "kUnknown"
  IN  [ok |-> succeed,
       request |->
         [request EXCEPT
            !.method = IF space # 0 THEN method ELSE @,
            !.path = IF ~split THEN @
                     ELSE IF question = 0 THEN target ELSE Before(target, question),
            !.query = IF split /\ question # 0 THEN After(target, question - 1) ELSE @,
            !.version = IF succeed THEN version ELSE @]]

(* parseRequest: one iteration of its loop for each line *)

HasCRLF == got >= 2 * (pos + 1)
Line == stream[pos + 1]

ParseRequestLine ==
  /\ pc = "parse" /\ state = "kExpectRequestLine" /\ HasCRLF
  /\ LET parsed == processRequestLine(Line)
     IN  /\ request' = parsed.request
         /\ \/ /\ parsed.ok
               /\ pos' = pos + 1
               /\ state' = "kExpectHeaders"
               /\ UNCHANGED pc
            \/ /\ ~parsed.ok
               /\ pc' = "bad"
               /\ UNCHANGED <<pos, state>>
  /\ UNCHANGED <<client, got, connected, answers>>

(* A line without a colon ends the headers. *)
ParseHeader ==
  /\ pc = "parse" /\ state = "kExpectHeaders" /\ HasCRLF
  /\ pos' = pos + 1
  /\ \/ /\ find(Line, ":") # 0
        /\ request' = addHeader(Line)
        /\ UNCHANGED <<pc, state>>
     \/ /\ find(Line, ":") = 0
        /\ state' = "kGotAll"
        /\ pc' = "request"
        /\ UNCHANGED request
  /\ UNCHANGED <<client, got, connected, answers>>

NeedMore ==
  /\ pc = "parse" /\ ~HasCRLF
  /\ pc' = "idle"
  /\ UNCHANGED <<client, got, pos, parser, connected, answers>>

-----------------------------------------------------------------------------
(* HttpResponse::appendToBuffer: lines of texts with their numbers.  clear() leaves
   the status text in the string stream, so it is written again in front of the
   length. *)
appendToBuffer(response) ==
  LET oss == << <<"HTTP/1.1", response.statusCode>> >>
  IN  <<oss>> \o
      (IF response.closeConnection
       THEN << << <<"Connection: close", 0>> >> >>
       ELSE <<oss \o << <<"Content-Length", response.body>> >>,
              << <<"Connection: Keep-Alive", 0>> >> >>) \o
      [i \in DOMAIN response.headers |-> << <<response.headers[i], 0>> >>] \o
      << <<>>, << <<"body", response.body>> >> >>

BadResponse == << << <<"HTTP/1.1", 400>> >>, <<>> >>

(* TcpConnection::send does nothing unless the connection is kConnected. *)
Send(seen, text, asked) ==
  answers' = IF connected
             THEN Append(answers, [seen |-> seen, text |-> text, asked |-> asked])
             ELSE answers

BadRequestOpen ==                                                 \* mutant
  /\ pc = "bad"
  /\ Send(NewRequest, BadResponse, TRUE)
  /\ pc' = "idle"
  /\ UNCHANGED <<client, got, pos, parser, connected>>

(* The bad line is not retrieved and the context is not reset. *)
BadRequest ==
  /\ pc = "bad"
  /\ Send(NewRequest, BadResponse, TRUE)
  /\ connected' = FALSE
  /\ pc' = "idle"
  /\ UNCHANGED <<client, got, pos, parser>>

resetKeepsState == UNCHANGED state /\ request' = NewRequest       \* mutant
reset == state' = "kExpectRequestLine" /\ request' = NewRequest

Close(req) ==
  LET connection == getHeader(req, "Connection")
  IN  connection = <<"close">> \/
        (req.version = "kHttp10" /\ connection # <<"Keep-Alive">>)

(* onRequest and reset().  The response is made with close; the user's callback
   sets the code (400 as well), headers other than Connection and the body, and may call
   setCloseConnection, as defaultHttpCallback does. *)
OnRequest(code, headers, body, on) ==
  LET response == [statusCode |-> code, headers |-> headers, body |-> body,
                   closeConnection |-> on]
  IN  /\ pc = "request"
      /\ Send(request, appendToBuffer(response), on # Close(request))
      /\ connected' = (connected /\ ~on)
      /\ reset
      /\ pc' = "idle"
      /\ UNCHANGED <<client, got, pos>>

httpCallback ==
  \/ \E code \in {200, 400}, on \in BOOLEAN :
       OnRequest(code, <<"Content-Type: text/html">>, 5, on)
  \/ OnRequest(404, <<>>, 0, TRUE)

-----------------------------------------------------------------------------
OnMessage == ParseRequestLine \/ ParseHeader \/ NeedMore \/ BadRequest \/ httpCallback

ClientSends == \E n \in 1..(2 * Len(stream)) : Arrive(n)

Next == ClientSends \/ OnMessage

Spec == Init /\ [][Next]_vars

(* The loop's thread runs onMessage to its end.  Clients owe nothing. *)
FairSpec == Spec /\ WF_vars(OnMessage)

-----------------------------------------------------------------------------
TypeOK ==
  /\ got \in 0..(2 * Len(stream))
  /\ pos \in 0..Len(stream) /\ 2 * pos <= got
  /\ pc \in {"idle", "parse", "bad", "request"}
  /\ state \in {"kExpectRequestLine", "kExpectHeaders", "kGotAll"}
  /\ request.method \in MethodNames \cup {"kInvalid"}
  /\ request.version \in {"kUnknown", "kHttp10", "kHttp11"}
  /\ connected \in BOOLEAN

(* What the sender means, with the last of several headers of a name. *)
Meaning(q) ==
  LET named(f) == {i \in DOMAIN q.headers : q.headers[i].field = f}
      fields == {q.headers[i].field : i \in DOMAIN q.headers}
  IN  [method |-> q.method, version |-> IF q.version = "1" THEN "kHttp11" ELSE "kHttp10",
       path |-> <<"/path">>, query |-> IF q.query THEN <<"?", "id">> ELSE <<>>,
       headers |-> [f \in {<<g>> : g \in fields} |->
                      q.headers[Max(named(f[1]))].value]]

WellFormed(q) == q.method \in MethodNames /\ q.version \in {"0", "1"}

(* The i-th answer is the answer to the i-th request as its sender meant it, or 400
   when that is not well-formed.  The blank line that a header line without a colon
   leaves in the buffer is answered as a bad request. *)
AsMeant(i) ==
  LET bad == answers[i].text = BadResponse
  IN  IF i > 1 /\ requests[i - 1].junk THEN bad
      ELSE /\ i \in R
           /\ bad <=> ~WellFormed(requests[i])
           /\ ~bad => answers[i].seen = Meaning(requests[i])

(* Requests are answered in order, none twice and none left out, and the user is
   given each as its sender meant it: method, path, query, version and trimmed
   headers, nothing left from an earlier request, however the stream is cut; this up
   to and including the first request with a body, which is read as more requests. *)
AnswersInOrder ==
  TypeOK /\ \A i \in DOMAIN answers :
    (\A j \in 1..(i - 1) : j \in R => requests[j].body = <<>>) => AsMeant(i)

Says(answer, line) == \E i \in DOMAIN answer.text : answer.text[i] = << <<line, 0>> >>
Closes(answer) == answer.text = BadResponse \/ Says(answer, "Connection: close")

(* The client can tell from a response what becomes of the connection, the user's own
   400 included.  Nothing is sent after a response that says close or is the parser's
   400, whatever else arrives, and the connection is shut down by such a response only;
   any other says Keep-Alive.  The request decides unless the callback does. *)
ClosesAsTold ==
  /\ \A i \in DOMAIN answers :
       IF Closes(answers[i]) THEN i = Len(answers)
       ELSE Says(answers[i], "Connection: Keep-Alive")
  /\ \A i \in DOMAIN answers :
       ~answers[i].asked => (Closes(answers[i]) <=> Close(answers[i].seen))
  /\ connected <=> \A i \in DOMAIN answers : ~Closes(answers[i])

(* A read event that finds the next request complete in the buffer answers it,
   wherever the stream was cut before.  onMessage answers one request for each
   read event, so a request that came with the one before it waits for more. *)
HeadLines(q) == 2 + Len(q.headers) + (IF q.junk THEN 1 ELSE 0)
LinesIn(q) == HeadLines(q) + Len(Front(q.body))
LastUnit(r) ==
  LET before == FoldLeft(LAMBDA n, q : n + LinesIn(q), 0, SubSeq(requests, 1, r - 1))
  IN  2 * (before + HeadLines(requests[r]))
ReadAnswersNext ==
  \A r \in R :
    (pc = "parse" /\ Len(answers) = r - 1 /\ got >= LastUnit(r)) ~>
       (Len(answers) >= r \/ ~connected)
=============================================================================
