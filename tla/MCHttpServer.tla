---------------------------- MODULE MCHttpServer ----------------------------
EXTENDS HttpServer

HeaderLine(field, value, pad) == [field |-> field, value |-> value, pad |-> pad]
Host == HeaderLine("Host", <<"a", ":", "80">>, <<" ">>)
Connection(value) == HeaderLine("Connection", <<value>>, <<" ", " ">>)
NoConnection == HeaderLine("Connection", <<>>, <<" ">>)

Of(method, query, version, headers) ==
  [method |-> method, query |-> query, version |-> version, headers |-> headers,
   junk |-> FALSE, body |-> <<>>]

(* A body that is text, one that is a request, and one that takes the next request
   line for a header. *)
Text == << <<"text">> >>
LineX == <<"GET", " ", "/x", " ", "HTTP/1.", "1">>
Whole == <<LineX, <<>>, <<>> >>
Open == <<LineX, <<"X", ":">> >>

MCRequests ==
  {Of("GET", FALSE, "1", <<>>),
   Of("GET", TRUE, "1", <<Host, Connection("close")>>),
   Of("POST", TRUE, "0", <<Connection("Keep-Alive")>>),
   Of("HEAD", FALSE, "0", <<NoConnection>>),
   Of("GET", FALSE, "1", <<Connection("close"), Connection("Keep-Alive")>>),
   Of("BREW", FALSE, "1", <<>>),
   Of("GET", TRUE, "", <<>>),
   Of("PUT", FALSE, "9", <<Host>>),
   [Of("POST", FALSE, "1", <<Host>>) EXCEPT !.body = Text],
   [Of("POST", FALSE, "1", <<>>) EXCEPT !.body = Whole],
   [Of("POST", FALSE, "1", <<>>) EXCEPT !.body = Open],
   [Of("GET", TRUE, "1", <<Connection("Keep-Alive")>>) EXCEPT !.junk = TRUE]}
=============================================================================
