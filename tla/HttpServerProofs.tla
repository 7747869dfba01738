-------------------------- MODULE HttpServerProofs --------------------------
(* Proofs about HttpServer for any requests and any number of them. *)
EXTENDS HttpServer, SequenceTheorems, NaturalsInduction, WellFoundedInduction, TLAPS

-----------------------------------------------------------------------------
(* Responses *)

Only(what, n) == << <<what, n>> >>

LEMMA Joined ==
  ASSUME NEW S, NEW a \in Seq(S), NEW b \in Seq(S)
  PROVE  /\ a \o b \in Seq(S) /\ Len(a \o b) = Len(a) + Len(b)
         /\ \A k \in 1..Len(a) : (a \o b)[k] = a[k]
         /\ \A k \in 1..Len(b) : (a \o b)[Len(a) + k] = b[k]
OBVIOUS

LEMMA Singleton ==
  ASSUME NEW S, NEW x \in S
  PROVE  <<x>> \in Seq(S) /\ Len(<<x>>) = 1 /\ <<x>>[1] = x
OBVIOUS

LEMMA Pair ==
  ASSUME NEW S, NEW x \in S, NEW y \in S
  PROVE  <<x, y>> \in Seq(S) /\ Len(<<x, y>>) = 2 /\ <<x, y>>[1] = x /\ <<x, y>>[2] = y
OBVIOUS

LEMMA TwoJoined == ASSUME NEW x, NEW y PROVE <<x>> \o <<y>> = <<x, y>>
<1> DEFINE s == <<x>>
           t == <<y>>
           p == <<x, y>>
           S == {x, y}
<1>1. s \in Seq(S) /\ Len(s) = 1 /\ s[1] = x
  BY Singleton
<1>2. t \in Seq(S) /\ Len(t) = 1 /\ t[1] = y
  BY Singleton
<1>3. p \in Seq(S) /\ Len(p) = 2 /\ p[1] = x /\ p[2] = y
  BY Pair
<1> HIDE DEF s, t, p, S
<1>4. /\ s \o t \in Seq(S) /\ Len(s \o t) = 2
      /\ (s \o t)[1] = x /\ (s \o t)[2] = y
  <2>1. s \in Seq(S) /\ t \in Seq(S)
    BY <1>1, <1>2
  <2>2. /\ s \o t \in Seq(S) /\ Len(s \o t) = Len(s) + Len(t)
        /\ \A k \in 1..Len(s) : (s \o t)[k] = s[k]
        /\ \A k \in 1..Len(t) : (s \o t)[Len(s) + k] = t[k]
    BY <2>1, Joined
  <2> DEFINE r == s \o t
  <2> HIDE DEF r
  <2>3. r \in Seq(S) /\ Len(r) = 2 /\ r[1] = x /\ r[2] = y
    BY <1>1, <1>2, <2>2 DEF r
  <2>4. QED BY <2>3 DEF r
<1> DEFINE r == s \o t
<1> HIDE DEF r
<1>5. r = p
  <2>1. r \in Seq(S) /\ Len(r) = 2 /\ r[1] = x /\ r[2] = y
    BY <1>4 DEF r
  <2>2. \A k \in 1..Len(r) : r[k] = p[k]
    BY <1>3, <2>1
  <2>3. QED BY <1>3, <2>1, <2>2, SeqEqual
<1>6. QED BY <1>5 DEF r, s, t, p

(* Where the lines of four parts are found. *)
AreSeqs(S, a, b, c, d) == a \in Seq(S) /\ b \in Seq(S) /\ c \in Seq(S) /\ d \in Seq(S)

LEMMA FourParts ==
  ASSUME NEW S, NEW a, NEW b, NEW c, NEW d, AreSeqs(S, a, b, c, d)
  PROVE  LET t == a \o b \o c \o d
         IN  /\ t \in Seq(S) /\ Len(t) = Len(a) + Len(b) + Len(c) + Len(d)
             /\ \A k \in 1..Len(a) : t[k] = a[k]
             /\ \A k \in 1..Len(b) : t[Len(a) + k] = b[k]
             /\ \A k \in 1..Len(c) : t[Len(a) + Len(b) + k] = c[k]
             /\ \A k \in 1..Len(d) : t[Len(a) + Len(b) + Len(c) + k] = d[k]
<1> DEFINE p == a \o b
           q == p \o c
           t == q \o d
<1>1. /\ p \in Seq(S) /\ Len(p) = Len(a) + Len(b)
      /\ \A k \in 1..Len(a) : p[k] = a[k]
      /\ \A k \in 1..Len(b) : p[Len(a) + k] = b[k]
  <2>1. a \in Seq(S) /\ b \in Seq(S)
    BY DEF AreSeqs
  <2>2. QED BY <2>1, Joined
<1> HIDE DEF p
<1>2. /\ q \in Seq(S) /\ Len(q) = Len(p) + Len(c)
      /\ \A k \in 1..Len(p) : q[k] = p[k]
      /\ \A k \in 1..Len(c) : q[Len(p) + k] = c[k]
  <2>1. p \in Seq(S) /\ c \in Seq(S)
    BY <1>1 DEF AreSeqs
  <2>2. QED BY <2>1, Joined
<1> HIDE DEF q
<1>3. /\ t \in Seq(S) /\ Len(t) = Len(q) + Len(d)
      /\ \A k \in 1..Len(q) : t[k] = q[k]
      /\ \A k \in 1..Len(d) : t[Len(q) + k] = d[k]
  <2>1. q \in Seq(S) /\ d \in Seq(S)
    BY <1>2 DEF AreSeqs
  <2>2. QED BY <2>1, Joined
<1> HIDE DEF t
<1>4. Len(a) \in Nat /\ Len(b) \in Nat /\ Len(c) \in Nat /\ Len(d) \in Nat
  BY DEF AreSeqs
<1>5. ASSUME NEW k \in 1..Len(a) PROVE t[k] = a[k]
  BY <1>1, <1>2, <1>3, <1>4
<1>6. ASSUME NEW k \in 1..Len(b) PROVE t[Len(a) + k] = b[k]
  <2>1. Len(a) + k \in 1..Len(p) /\ Len(a) + k \in 1..Len(q)
    BY <1>1, <1>2, <1>4
  <2>2. QED BY <1>1, <1>2, <1>3, <2>1
<1>7. ASSUME NEW k \in 1..Len(c) PROVE t[Len(a) + Len(b) + k] = c[k]
  <2>1. Len(a) + Len(b) + k = Len(p) + k /\ Len(p) + k \in 1..Len(q)
    BY <1>1, <1>2, <1>4
  <2>2. QED BY <1>2, <1>3, <2>1
<1>8. ASSUME NEW k \in 1..Len(d) PROVE t[Len(a) + Len(b) + Len(c) + k] = d[k]
  <2>1. Len(a) + Len(b) + Len(c) + k = Len(q) + k
    BY <1>1, <1>2, <1>4
  <2>2. QED BY <1>3, <2>1
<1>9. t \in Seq(S) /\ Len(t) = Len(a) + Len(b) + Len(c) + Len(d)
  BY <1>1, <1>2, <1>3, <1>4
<1>10. QED BY <1>5, <1>6, <1>7, <1>8, <1>9 DEF p, q, t

(* The lines of a response to the user's headers, none of which speaks of closing. *)
Response(code, headers, body, on) ==
  [statusCode |-> code, headers |-> headers, body |-> body, closeConnection |-> on]
HeaderLines(headers) == [j \in DOMAIN headers |-> Only(headers[j], 0)]
WithLength(code, body) == <<<<"HTTP/1.1", code>>, <<"Content-Length", body>>>>
IsClose(line) == line = Only("Connection: close", 0)
Silent(H) == "Connection: close" \notin H

LEMMA HeaderLinesResult ==
  ASSUME NEW H, Silent(H), NEW headers \in Seq(H)
  PROVE  /\ HeaderLines(headers) \in Seq({Only(h, 0) : h \in H})
         /\ Len(HeaderLines(headers)) \in Nat
         /\ \A j \in 1..Len(HeaderLines(headers)) : ~IsClose(HeaderLines(headers)[j])
<1>1. /\ DOMAIN headers = 1..Len(headers) /\ Len(headers) \in Nat
      /\ \A j \in 1..Len(headers) : headers[j] \in H
  OBVIOUS
<1>2. \A h \in H : ~IsClose(Only(h, 0))
  BY DEF Only, IsClose, Silent
<1> DEFINE h == HeaderLines(headers)
           X(j) == Only(headers[j], 0)
           S == {Only(g, 0) : g \in H}
<1>3. \A j \in 1..Len(headers) : X(j) \in S /\ ~IsClose(X(j))
  BY <1>1, <1>2
<1>4. h = [j \in 1..Len(headers) |-> X(j)]
  BY <1>1 DEF HeaderLines
<1> HIDE DEF h, X, S
<1>5. h \in Seq(S) /\ Len(h) = Len(headers)
  <2>1. \A j \in 1..Len(headers) : X(j) \in S
    BY <1>3
  <2>2. Len(headers) \in Nat
    BY <1>1
  <2>3. QED BY <1>4, <2>1, <2>2
<1>6. \A j \in 1..Len(headers) : h[j] = X(j)
  BY <1>4
<1>7. QED BY <1>1, <1>3, <1>5, <1>6 DEF h, S

(* What a client reads in a response that closes ... *)
ReadsClosing(text, code) ==
  text[1] = Only("HTTP/1.1", code) /\ 2 \in DOMAIN text /\ IsClose(text[2])

LEMMA ClosingText ==
  ASSUME NEW H, Silent(H), NEW headers \in Seq(H), NEW code, NEW body
  PROVE  ReadsClosing(appendToBuffer(Response(code, headers, body, TRUE)), code)
<1> DEFINE first == Only("HTTP/1.1", code)
           close == Only("Connection: close", 0)
           last == Only("body", body)
           T == {first, close, <<>>, last} \cup {Only(h, 0) : h \in H}
           a == <<first>>
           b == <<close>>
           c == HeaderLines(headers)
           d == << <<>>, last>>
           text == a \o b \o c \o d
<1>1. appendToBuffer(Response(code, headers, body, TRUE)) = text
  BY DEF appendToBuffer, Response, Only, HeaderLines
<1>2. c \in Seq({Only(h, 0) : h \in H}) /\ Len(c) \in Nat
  BY HeaderLinesResult
<1>3. first \in T /\ close \in T /\ <<>> \in T /\ last \in T
  OBVIOUS
<1>4. {Only(h, 0) : h \in H} \subseteq T
  OBVIOUS
<1> HIDE DEF first, close, last, T, c
<1> DEFINE G == {Only(h, 0) : h \in H}
<1> HIDE DEF G
<1>5. c \in Seq(T)
  <2>1. c \in Seq(G) /\ G \subseteq T
    BY <1>2, <1>4 DEF G
  <2>2. QED BY <2>1
<1>6. a \in Seq(T) /\ Len(a) = 1 /\ a[1] = first
  BY <1>3, Singleton
<1>7. b \in Seq(T) /\ Len(b) = 1 /\ b[1] = close
  BY <1>3, Singleton
<1>8. d \in Seq(T) /\ Len(d) = 2
  BY <1>3, Pair
<1> HIDE DEF a, b, d
<1>9. AreSeqs(T, a, b, c, d)
  BY <1>5, <1>6, <1>7, <1>8 DEF AreSeqs
<1>10. /\ text \in Seq(T) /\ Len(text) = Len(a) + Len(b) + Len(c) + Len(d)
       /\ \A k \in 1..Len(a) : text[k] = a[k]
       /\ \A k \in 1..Len(b) : text[Len(a) + k] = b[k]
  BY <1>9, FourParts
<1> HIDE DEF text
<1>11. Len(text) >= 4 /\ text[1] = first /\ text[2] = close
  BY <1>2, <1>6, <1>7, <1>8, <1>10
<1>12. Len(text) \in Nat /\ DOMAIN text = 1..Len(text)
  BY <1>10
<1>13. 2 \in DOMAIN text
  BY <1>11, <1>12
<1>14. QED BY <1>1, <1>11, <1>13 DEF first, close, IsClose, ReadsClosing

(* ... and in one that does not: Keep-Alive, and nowhere that the connection closes. *)
ReadsOpen(text, code, body) ==
  /\ {1, 2, 3} \subseteq DOMAIN text
  /\ text[1] = Only("HTTP/1.1", code) /\ text[2] = WithLength(code, body)
  /\ text[3] = Only("Connection: Keep-Alive", 0)
  /\ \A k \in DOMAIN text : ~IsClose(text[k])

LEMMA KeepAliveText ==
  ASSUME NEW H, Silent(H), NEW headers \in Seq(H), NEW code, NEW body
  PROVE  ReadsOpen(appendToBuffer(Response(code, headers, body, FALSE)), code, body)
<1> DEFINE first == Only("HTTP/1.1", code)
           length == WithLength(code, body)
           keep == Only("Connection: Keep-Alive", 0)
           last == Only("body", body)
           G == {Only(h, 0) : h \in H}
           T == {first, length, keep, <<>>, last} \cup G
           a == <<first>>
           b == <<length, keep>>
           c == HeaderLines(headers)
           d == << <<>>, last>>
           text == a \o b \o c \o d
<1>1. appendToBuffer(Response(code, headers, body, FALSE)) = text
  <2>1. first \o << <<"Content-Length", body>> >> = length
    BY TwoJoined, Zenon DEF Only, WithLength
  <2>2. QED BY <2>1 DEF appendToBuffer, Response, Only, HeaderLines
<1>2. c \in Seq(G) /\ Len(c) \in Nat /\ \A j \in 1..Len(c) : ~IsClose(c[j])
  BY HeaderLinesResult
<1>3. first \in T /\ length \in T /\ keep \in T /\ <<>> \in T /\ last \in T /\ G \subseteq T
  OBVIOUS
<1>4. ~IsClose(first) /\ ~IsClose(length) /\ ~IsClose(keep) /\ ~IsClose(last)
  BY DEF Only, IsClose, WithLength
<1>5. ~IsClose(<<>>)
  BY DEF Only, IsClose
<1> HIDE DEF first, length, keep, last, T, G, c
<1>6. c \in Seq(T)
  <2>1. c \in Seq(G) /\ G \subseteq T
    BY <1>2, <1>3
  <2>2. QED BY <2>1
<1>7. a \in Seq(T) /\ Len(a) = 1 /\ a[1] = first
  BY <1>3, Singleton
<1>8. b \in Seq(T) /\ Len(b) = 2 /\ b[1] = length /\ b[2] = keep
  BY <1>3, Pair
<1>9. d \in Seq(T) /\ Len(d) = 2 /\ d[1] = <<>> /\ d[2] = last
  BY <1>3, Pair
<1> HIDE DEF a, b, d
<1>10. AreSeqs(T, a, b, c, d)
  BY <1>6, <1>7, <1>8, <1>9 DEF AreSeqs
<1>11. /\ text \in Seq(T) /\ Len(text) = Len(a) + Len(b) + Len(c) + Len(d)
       /\ \A k \in 1..Len(a) : text[k] = a[k]
       /\ \A k \in 1..Len(b) : text[Len(a) + k] = b[k]
       /\ \A k \in 1..Len(c) : text[Len(a) + Len(b) + k] = c[k]
       /\ \A k \in 1..Len(d) : text[Len(a) + Len(b) + Len(c) + k] = d[k]
  BY <1>10, FourParts
<1> HIDE DEF text
<1>12. /\ Len(text) = 5 + Len(c) /\ text[1] = first /\ text[2] = length
       /\ text[3] = keep /\ text[4 + Len(c)] = <<>> /\ text[5 + Len(c)] = last
  BY <1>2, <1>7, <1>8, <1>9, <1>11
<1>13. \A k \in 1..Len(c) : text[3 + k] = c[k]
  BY <1>7, <1>8, <1>11
<1>14. ASSUME NEW k \in 1..Len(text) PROVE ~IsClose(text[k])
  <2>1. CASE k \in 4..(3 + Len(c))
    <3>1. k - 3 \in 1..Len(c) /\ 3 + (k - 3) = k
      BY <1>2, <2>1
    <3>2. text[k] = c[k - 3]
      BY <1>13, <3>1
    <3>3. QED BY <1>2, <3>1, <3>2
  <2>2. CASE k \in {1, 2, 3, 4 + Len(c), 5 + Len(c)}
    BY <1>4, <1>5, <1>12, <2>2
  <2>3. QED BY <1>2, <1>12, <2>1, <2>2
<1>15. Len(text) \in Nat /\ DOMAIN text = 1..Len(text) /\ Len(text) >= 5
  BY <1>2, <1>11, <1>12
<1>16. {1, 2, 3} \subseteq DOMAIN text
  BY <1>15
<1>17. QED BY <1>1, <1>12, <1>14, <1>15, <1>16
       DEF first, length, keep, last, ReadsOpen

-----------------------------------------------------------------------------
(* What an answer tells *)

(* The answer's part of ClosesAsTold. *)
Telling(a) ==
  /\ Closes(a) \/ Says(a, "Connection: Keep-Alive")
  /\ ~a.asked => (Closes(a) <=> Close(a.seen))

LEMMA ClosingTells ==
  ASSUME NEW a, NEW code, ReadsClosing(a.text, code), ~a.asked => Close(a.seen)
  PROVE  Telling(a) /\ Closes(a)
<1>1. Says(a, "Connection: close")
  BY DEF Says, ReadsClosing, IsClose, Only
<1>2. QED BY <1>1 DEF Telling, Closes

(* The text of the parser's 400 says neither: its second line ends the headers. *)
NotBad(text) == text # BadResponse

LEMMA OpenText ==
  ASSUME NEW text, NEW code, NEW body, ReadsOpen(text, code, body)
  PROVE  NotBad(text)
<1>1. text[2] = WithLength(code, body)
  BY DEF ReadsOpen
<1>2. BadResponse[2] = <<>>
  BY DEF BadResponse
<1>3. WithLength(code, body) # <<>>
  BY DEF WithLength
<1>4. QED BY <1>1, <1>2, <1>3, Zenon DEF NotBad

LEMMA CloseText ==
  ASSUME NEW text, NEW code, ReadsClosing(text, code)
  PROVE  NotBad(text)
<1>1. IsClose(text[2])
  BY DEF ReadsClosing
<1>2. BadResponse[2] = <<>>
  BY DEF BadResponse
<1>3. ~IsClose(<<>>)
  BY DEF IsClose, Only
<1>4. QED BY <1>1, <1>2, <1>3, Zenon DEF NotBad

LEMMA OpenTells ==
  ASSUME NEW a, NEW code, NEW body, ReadsOpen(a.text, code, body),
         ~a.asked => ~Close(a.seen)
  PROVE  Telling(a) /\ ~Closes(a)
<1>1. a.text # BadResponse
  BY OpenText, Zenon DEF NotBad
<1>2. ~Says(a, "Connection: close")
  BY DEF Says, IsClose, Only, ReadsOpen
<1>3. Says(a, "Connection: Keep-Alive")
  BY DEF Says, Only, ReadsOpen
<1>4. ~Closes(a)
  BY <1>1, <1>2 DEF Closes
<1>5. QED BY <1>3, <1>4, Zenon DEF Telling

(* So does a 400 of the parser, which nobody has asked for. *)
LEMMA BadTells ==
  ASSUME NEW seen, NEW a, a = [seen |-> seen, text |-> BadResponse, asked |-> TRUE]
  PROVE  Telling(a) /\ Closes(a)
BY DEF Telling, Closes

-----------------------------------------------------------------------------
(* Sequences of anything *)

IsSeq(s) == Len(s) \in Nat /\ s = [k \in 1..Len(s) |-> s[k]]

LEMMA Appended ==
  ASSUME NEW s, IsSeq(s), NEW e
  PROVE  /\ IsSeq(Append(s, e)) /\ Len(Append(s, e)) = Len(s) + 1
         /\ DOMAIN s = 1..Len(s) /\ DOMAIN Append(s, e) = 1..(Len(s) + 1)
         /\ \A k \in 1..Len(s) : Append(s, e)[k] = s[k]
         /\ Append(s, e)[Len(s) + 1] = e
<1> DEFINE S == {s[k] : k \in 1..Len(s)} \cup {e}
           r == Append(s, e)
<1>1. Len(s) \in Nat /\ s = [k \in 1..Len(s) |-> s[k]]
  BY DEF IsSeq
<1>2. e \in S /\ \A k \in 1..Len(s) : s[k] \in S
  OBVIOUS
<1> HIDE DEF S
<1>3. s \in Seq(S)
  BY <1>1, <1>2
<1>4. /\ r \in Seq(S) /\ Len(r) = Len(s) + 1 /\ r[Len(s) + 1] = e
      /\ \A k \in 1..Len(s) : r[k] = s[k]
  BY <1>2, <1>3
<1>5. DOMAIN s = 1..Len(s)
  BY <1>3
<1> HIDE DEF r
<1>6. /\ DOMAIN r = 1..Len(r) /\ Len(r) \in Nat /\ r = [k \in 1..Len(r) |-> r[k]]
  BY <1>4
<1>7. QED BY <1>4, <1>5, <1>6 DEF IsSeq, r

-----------------------------------------------------------------------------
(* ClosesAsTold is inductive when answers is a sequence. *)

Told ==
  /\ IsSeq(answers) /\ connected \in BOOLEAN
  /\ \A k \in 1..Len(answers) : /\ Telling(answers[k])
                                /\ Closes(answers[k]) => k = Len(answers)
  /\ connected <=> \A k \in 1..Len(answers) : ~Closes(answers[k])

LEMMA ToldIsClosesAsTold == Told => ClosesAsTold
<1> SUFFICES ASSUME Told PROVE ClosesAsTold
  OBVIOUS
<1>1. DOMAIN answers = 1..Len(answers)
  BY Appended, Zenon DEF Told
<1>2. QED BY <1>1, Zenon DEF Told, Telling, ClosesAsTold

(* An answer is sent on an open connection, which stays open if it says so. *)
LEMMA AnswerTold ==
  ASSUME Told, connected, NEW a, Telling(a), answers' = Append(answers, a),
         connected' \in BOOLEAN, connected' <=> ~Closes(a)
  PROVE  Told'
<1> DEFINE n == Len(answers)
           r == answers'
<1>1. /\ IsSeq(r) /\ Len(r) = n + 1 /\ r[n + 1] = a
      /\ \A k \in 1..n : r[k] = answers[k]
  BY Appended DEF Told
<1>2. n \in Nat /\ \A k \in 1..n : Telling(answers[k]) /\ ~Closes(answers[k])
  BY DEF Told, IsSeq
<1> HIDE DEF n, r
<1>3. \A k \in 1..(n + 1) : Telling(r[k]) /\ (Closes(r[k]) => k = n + 1)
  BY <1>1, <1>2
<1>4. (\A k \in 1..(n + 1) : ~Closes(r[k])) <=> ~Closes(a)
  BY <1>1, <1>2
<1>5. /\ \A k \in 1..Len(r) : Telling(r[k]) /\ (Closes(r[k]) => k = Len(r))
      /\ connected' <=> \A k \in 1..Len(r) : ~Closes(r[k])
  BY <1>1, <1>3, <1>4
<1>6. QED BY <1>1, <1>5, Zenon
      DEF Told, r, Telling, Closes, Says, Close, getHeader, BadResponse, IsSeq

(* A closed connection sends nothing and stays closed. *)
LEMMA SilentTold ==
  ASSUME Told, answers' = answers, connected' = connected
  PROVE  Told'
<1> DEFINE r == answers'
<1>1. /\ IsSeq(r) /\ connected' \in BOOLEAN
      /\ \A k \in 1..Len(r) : Telling(r[k]) /\ (Closes(r[k]) => k = Len(r))
      /\ connected' <=> \A k \in 1..Len(r) : ~Closes(r[k])
  BY DEF Told
<1> HIDE DEF r
<1>2. QED BY <1>1, Zenon
      DEF Told, r, Telling, Closes, Says, Close, getHeader, BadResponse, IsSeq

(* What the callback answers with, whatever the code. *)
PageHeaders == {"Content-Type: text/html"}

LEMMA OnRequestTold ==
  ASSUME Told, NEW code, NEW headers \in Seq(PageHeaders),
         NEW body, NEW on \in BOOLEAN, OnRequest(code, headers, body, on)
  PROVE  Told'
<1>0. Silent(PageHeaders)
  BY DEF Silent, PageHeaders
<1> DEFINE text == appendToBuffer(Response(code, headers, body, on))
           a == [seen |-> request, text |-> text, asked |-> on # Close(request)]
<1>1. /\ Send(request, text, on # Close(request))
      /\ connected' = (connected /\ ~on)
  BY DEF OnRequest, Response
<1>2. connected \in BOOLEAN
  BY DEF Told
<1>3. CASE connected
  <2>1. answers' = Append(answers, a)
    BY <1>1, <1>3 DEF Send
  <2>2. a.text = text /\ a.seen = request /\ (a.asked <=> on # Close(request))
    OBVIOUS
  <2>3. Telling(a) /\ (Closes(a) <=> on)
    <3>1. CASE on = TRUE
      <4>1. ReadsClosing(text, code)
        BY <1>0, <3>1, ClosingText
      <4> HIDE DEF text, a
      <4>2. ReadsClosing(a.text, code) /\ (~a.asked => Close(a.seen))
        BY <2>2, <3>1, <4>1
      <4>3. QED BY <3>1, <4>2, ClosingTells
    <3>2. CASE on = FALSE
      <4>1. ReadsOpen(text, code, body)
        BY <1>0, <3>2, KeepAliveText
      <4> HIDE DEF text, a
      <4>2. ReadsOpen(a.text, code, body) /\ (~a.asked => ~Close(a.seen))
        BY <2>2, <3>2, <4>1
      <4>3. QED BY <1>0, <3>2, <4>2, OpenTells
    <3>3. QED BY <3>1, <3>2
  <2> HIDE DEF a
  <2>4. connected' \in BOOLEAN /\ (connected' <=> ~Closes(a))
    BY <1>1, <1>3, <2>3
  <2>5. QED BY <1>3, <2>1, <2>3, <2>4, AnswerTold
<1>4. CASE ~connected
  <2>1. answers' = answers /\ connected' = connected
    BY <1>1, <1>2, <1>4 DEF Send
  <2>2. QED BY <2>1, SilentTold
<1>5. QED BY <1>3, <1>4

LEMMA BadRequestTold == ASSUME Told, BadRequest PROVE Told'
<1> DEFINE a == [seen |-> NewRequest, text |-> BadResponse, asked |-> TRUE]
<1>1. Send(NewRequest, BadResponse, TRUE) /\ connected' = FALSE
  BY DEF BadRequest
<1>2. connected \in BOOLEAN
  BY DEF Told
<1>3. CASE connected
  <2>1. answers' = Append(answers, a)
    BY <1>1, <1>3 DEF Send
  <2>2. Telling(a) /\ Closes(a)
    BY BadTells
  <2> HIDE DEF a
  <2>3. connected' \in BOOLEAN /\ (connected' <=> ~Closes(a))
    BY <1>1, <2>2
  <2>4. QED BY <1>3, <2>1, <2>2, <2>3, AnswerTold
<1>4. CASE ~connected
  <2>1. answers' = answers /\ connected' = connected
    BY <1>1, <1>2, <1>4 DEF Send
  <2>2. QED BY <2>1, SilentTold
<1>5. QED BY <1>3, <1>4

LEMMA CallbackTold == ASSUME Told, httpCallback PROVE Told'
<1> DEFINE page == <<"Content-Type: text/html">>
           none == <<>>
           codes == {200, 400}
<1>1. page \in Seq(PageHeaders)
  BY Singleton DEF PageHeaders
<1>2. none \in Seq(PageHeaders)
  BY EmptySeq
<1>0. \/ \E code \in codes, on \in BOOLEAN : OnRequest(code, page, 5, on)
      \/ OnRequest(404, none, 0, TRUE)
  BY Zenon DEF httpCallback
<1> HIDE DEF page, none, codes
<1>3. ASSUME NEW code \in codes, NEW on \in BOOLEAN, OnRequest(code, page, 5, on)
      PROVE  Told'
  BY <1>1, <1>3, OnRequestTold
<1>4. CASE OnRequest(404, none, 0, TRUE)
  <2>1. TRUE \in BOOLEAN
    OBVIOUS
  <2>2. QED BY <1>2, <1>4, <2>1, OnRequestTold, Zenon
<1>5. QED BY <1>0, <1>3, <1>4, Zenon

LEMMA InitTold == Init => Told
<1> SUFFICES ASSUME Init PROVE Told
  OBVIOUS
<1>1. answers = <<>> /\ connected = TRUE
  BY DEF Init
<1>2. Len(answers) = 0 /\ answers = [k \in 1..Len(answers) |-> answers[k]]
  BY <1>1
<1>3. QED BY <1>1, <1>2 DEF Told, IsSeq

LEMMA ToldStep == ASSUME Told, [Next]_vars PROVE Told'
<1>1. CASE UNCHANGED <<connected, answers>>
  BY <1>1, SilentTold
<1>2. CASE httpCallback
  BY <1>2, CallbackTold
<1>3. CASE BadRequest
  BY <1>3, BadRequestTold
<1>4. QED BY <1>1, <1>2, <1>3
  DEF Next, ClientSends, Arrive, OnMessage, ParseRequestLine, ParseHeader, NeedMore, vars

(* A response that closes is the last one, and the connection is shut down after such
   a response and no other; any other says Keep-Alive and the length of its body. *)
THEOREM AlwaysClosesAsTold == Spec => []ClosesAsTold
<1>1. Told /\ [Next]_vars => Told'
  BY ToldStep
<1>2. QED BY <1>1, InitTold, ToldIsClosesAsTold, PTL DEF Spec

-----------------------------------------------------------------------------
(* Numbers: the least element stands for induction. *)

LEMMA LeastNumber ==
  ASSUME NEW S \in SUBSET Nat, S # {}
  PROVE  \E n \in S : \A m \in S : n <= m
<1> DEFINE Less == {ss \in Nat \X Nat : ss[1] < ss[2]}
<1>1. Less = OpToRel(<, Nat)
  BY Zenon DEF OpToRel
<1>2. IsWellFoundedOn(Less, Nat)
  BY <1>1, NatLessThanWellFounded, Zenon
<1> HIDE DEF Less
<1>3. PICK n \in S : \A m \in S : ~(<<m, n>> \in Less)
  BY <1>2, WFMin, Zenon
<1>4. ASSUME NEW m \in S PROVE n <= m
  <2>1. m \in Nat /\ n \in Nat
    OBVIOUS
  <2>2. ~(m < n)
    BY <1>3, <2>1 DEF Less
  <2>3. QED BY <2>1, <2>2
<1>5. QED BY <1>4

-----------------------------------------------------------------------------
(* The stream: where FlattenSeq puts the lines of each request *)

(* f[k] is what flattening has made of the first k. *)
Flattens(f, s, n) ==
  f[1] = s[1] /\ \A k \in 2..n : f[k] = f[k - 1] \o s[k]

LEMMA FlattenExists ==
  ASSUME NEW S, NEW N \in Nat \ {0}, NEW s \in [1..N -> Seq(S)]
  PROVE  \E f \in [1..N -> Seq(S)] : Flattens(f, s, N)
<1> DEFINE P(n) == \E f \in [1..n -> Seq(S)] : Flattens(f, s, n)
           B == {n \in 1..N : ~P(n)}
<1>1. SUFFICES ASSUME B # {} PROVE FALSE
  OBVIOUS
<1>2. PICK n \in B : \A m \in B : n <= m
  <2>1. B \in SUBSET Nat
    OBVIOUS
  <2>2. QED BY <1>1, <2>1, LeastNumber
<1>3. n \in 1..N /\ ~P(n)
  BY <1>2
<1>4. P(1)
  <2> DEFINE f == [k \in 1..1 |-> s[1]]
  <2>1. f \in [1..1 -> Seq(S)] /\ f[1] = s[1]
    OBVIOUS
  <2> HIDE DEF f
  <2>2. Flattens(f, s, 1)
    BY <2>1 DEF Flattens
  <2>3. QED BY <2>1, <2>2
<1>5. n # 1
  BY <1>3, <1>4
<1>6. n - 1 \in 1..N /\ n - 1 \in Nat /\ ~(n <= n - 1)
  BY <1>3, <1>5
<1>7. P(n - 1)
  BY <1>2, <1>6
<1>8. PICK f \in [1..(n - 1) -> Seq(S)] : Flattens(f, s, n - 1)
  BY <1>7
<1> DEFINE g == [k \in 1..n |-> IF k = n THEN f[n - 1] \o s[n] ELSE f[k]]
<1>9. f[n - 1] \o s[n] \in Seq(S)
  <2>1. f[n - 1] \in Seq(S) /\ s[n] \in Seq(S)
    BY <1>3, <1>5, <1>6, <1>8
  <2>2. QED BY <2>1, Joined
<1>10. \A k \in 1..n : k # n => k \in 1..(n - 1) /\ f[k] \in Seq(S)
  BY <1>3, <1>6, <1>8
<1>11. g \in [1..n -> Seq(S)]
  BY <1>9, <1>10
<1>12. g[n] = f[n - 1] \o s[n] /\ \A k \in 1..(n - 1) : g[k] = f[k]
  BY <1>3
<1> HIDE DEF g
<1>13. Flattens(g, s, n)
  <2>1. g[1] = s[1]
    BY <1>3, <1>5, <1>8, <1>12 DEF Flattens
  <2>2. ASSUME NEW k \in 2..n PROVE g[k] = g[k - 1] \o s[k]
    <3>1. CASE k = n
      <4>1. n - 1 \in 1..(n - 1)
        BY <1>3, <1>5
      <4>2. g[n - 1] = f[n - 1]
        BY <1>12, <4>1
      <4>3. g[n] = g[n - 1] \o s[n]
        BY <1>12, <4>2
      <4>4. QED BY <3>1, <4>3
    <3>2. CASE k # n
      <4>1. k \in 2..(n - 1) /\ k \in 1..(n - 1) /\ k - 1 \in 1..(n - 1)
        BY <1>3, <3>2
      <4>2. g[k] = f[k] /\ g[k - 1] = f[k - 1]
        BY <1>12, <4>1
      <4>3. f[k] = f[k - 1] \o s[k]
        BY <1>8, <4>1 DEF Flattens
      <4>4. QED BY <4>2, <4>3
    <3>3. QED BY <3>1, <3>2
  <2>3. QED BY <2>1, <2>2 DEF Flattens
<1>14. QED BY <1>3, <1>11, <1>13

(* FlattenSeq is such a function's last value. *)
LEMMA FlattenUnfolds ==
  ASSUME NEW S, NEW N \in Nat \ {0}, NEW s \in [1..N -> Seq(S)]
  PROVE  \E f \in [1..N -> Seq(S)] : Flattens(f, s, N) /\ FlattenSeq(s) = f[N]
<1> DEFINE G(f) == f = [n \in 1..N |-> IF n = 1 THEN s[n] ELSE f[n - 1] \o s[n]]
           h == CHOOSE f : G(f)
<1>1. PICK f \in [1..N -> Seq(S)] : Flattens(f, s, N)
  BY FlattenExists
<1>2. G(f)
  <2> DEFINE r == [n \in 1..N |-> IF n = 1 THEN s[n] ELSE f[n - 1] \o s[n]]
  <2>1. ASSUME NEW k \in 1..N PROVE f[k] = r[k]
    <3>1. CASE k = 1
      BY <1>1, <3>1 DEF Flattens
    <3>2. CASE k # 1
      <4>1. k \in 2..N
        BY <3>2
      <4>2. f[k] = f[k - 1] \o s[k]
        BY <1>1, <4>1 DEF Flattens
      <4>3. r[k] = f[k - 1] \o s[k]
        BY <3>2
      <4>4. QED BY <4>2, <4>3
    <3>3. QED BY <3>1, <3>2
  <2>2. QED BY <2>1
<1>3. G(h)
  BY <1>2, Zenon
<1> HIDE DEF h
<1>4. /\ DOMAIN h = 1..N /\ h = [k \in 1..N |-> h[k]]
      /\ \A k \in 1..N : h[k] = IF k = 1 THEN s[k] ELSE h[k - 1] \o s[k]
  <2>1. h = [n \in 1..N |-> IF n = 1 THEN s[n] ELSE h[n - 1] \o s[n]]
    BY <1>3
  <2>2. \A k \in 1..N : h[k] = IF k = 1 THEN s[k] ELSE h[k - 1] \o s[k]
    BY <2>1, Zenon
  <2>3. DOMAIN h = 1..N /\ h = [k \in 1..N |-> h[k]]
    BY <2>1
  <2>4. QED BY <2>2, <2>3
<1>5. \A k \in 1..N : h[k] = f[k]
  <2> DEFINE B == {k \in 1..N : h[k] # f[k]}
  <2>1. SUFFICES ASSUME B # {} PROVE FALSE
    OBVIOUS
  <2>2. PICK k \in B : \A m \in B : k <= m
    <3>1. B \in SUBSET Nat
      OBVIOUS
    <3>2. QED BY <2>1, <3>1, LeastNumber
  <2>3. k \in 1..N /\ h[k] # f[k]
    BY <2>2
  <2>4. k # 1
    BY <1>1, <1>4, <2>3 DEF Flattens
  <2>5. k - 1 \in 1..N /\ ~(k <= k - 1) /\ k \in 2..N
    BY <2>3, <2>4
  <2>6. h[k - 1] = f[k - 1]
    BY <2>2, <2>5
  <2>7. f[k] = f[k - 1] \o s[k]
    BY <1>1, <2>5 DEF Flattens
  <2>8. h[k] = h[k - 1] \o s[k]
    BY <1>4, <2>3, <2>4
  <2>9. QED BY <2>3, <2>6, <2>7, <2>8
<1>6. Len(s) = N
  OBVIOUS
<1>7. FlattenSeq(s) = h[N]
  BY <1>6, Zenon DEF FlattenSeq, h
<1>8. h[N] = f[N]
  BY <1>5
<1>9. QED BY <1>1, <1>7, <1>8

(* The parts of a flattened sequence lie one behind the other: part r begins after
   at[r]. *)
Placed(at, s, t, N) ==
  /\ at[1] = 0 /\ at[N + 1] = Len(t)
  /\ \A r \in 1..N : /\ at[r + 1] = at[r] + Len(s[r])
                     /\ \A k \in 1..Len(s[r]) : t[at[r] + k] = s[r][k]

LEMMA FlattenPlaces ==
  ASSUME NEW S, NEW N \in Nat, NEW s \in [1..N -> Seq(S)]
  PROVE  \E at \in [1..(N + 1) -> Nat] : Placed(at, s, FlattenSeq(s), N)
<1>1. CASE N = 0
  <2> DEFINE at == [k \in 1..(N + 1) |-> 0]
  <2>1. Len(s) = 0
    BY <1>1
  <2>2. FlattenSeq(s) = s
    BY <2>1 DEF FlattenSeq
  <2>3. /\ at \in [1..(N + 1) -> Nat] /\ at[1] = 0 /\ at[N + 1] = Len(FlattenSeq(s))
    BY <1>1, <2>1, <2>2
  <2>4. Placed(at, s, FlattenSeq(s), N)
    BY <1>1, <2>3 DEF Placed
  <2>5. QED BY <2>3, <2>4
<1>2. CASE N # 0
  <2>1. N \in Nat \ {0}
    BY <1>2
  <2>2. PICK h \in [1..N -> Seq(S)] : Flattens(h, s, N) /\ FlattenSeq(s) = h[N]
    BY <2>1, FlattenUnfolds
  <2> DEFINE at == [k \in 1..(N + 1) |-> IF k = 1 THEN 0 ELSE Len(h[k - 1])]
  <2>3. \A k \in 1..N : h[k] \in Seq(S) /\ s[k] \in Seq(S) /\ Len(h[k]) \in Nat
    OBVIOUS
  <2>4. at \in [1..(N + 1) -> Nat] /\ at[1] = 0 /\ \A k \in 1..N : at[k + 1] = Len(h[k])
    <3>1. \A k \in 1..(N + 1) : k # 1 => k - 1 \in 1..N
      OBVIOUS
    <3>2. at \in [1..(N + 1) -> Nat]
      BY <2>3, <3>1
    <3>3. ASSUME NEW k \in 1..N PROVE at[k + 1] = Len(h[k])
      <4>1. k + 1 \in 1..(N + 1) /\ k + 1 # 1 /\ (k + 1) - 1 = k
        OBVIOUS
      <4>2. QED BY <4>1
    <3>4. QED BY <3>2, <3>3
  <2> HIDE DEF at
  (* One more part goes behind what there is. *)
  <2>5. ASSUME NEW k \in 1..N
        PROVE  /\ at[k + 1] = at[k] + Len(s[k])
               /\ \A j \in 1..Len(s[k]) : h[k][at[k] + j] = s[k][j]
               /\ k # 1 => \A j \in 1..at[k] : h[k][j] = h[k - 1][j]
    <3>1. CASE k = 1
      <4>1. h[1] = s[1] /\ at[1] = 0 /\ at[2] = Len(s[1]) /\ s[1] \in Seq(S)
        BY <2>2, <2>3, <2>4, <3>1 DEF Flattens
      <4>2. Len(s[1]) \in Nat /\ \A j \in 1..Len(s[1]) : at[1] + j = j
        BY <4>1
      <4>3. QED BY <3>1, <4>1, <4>2
    <3>2. CASE k # 1
      <4>1. k \in 2..N /\ k - 1 \in 1..N /\ (k - 1) + 1 = k
        BY <3>2
      <4>2. h[k] = h[k - 1] \o s[k] /\ at[k] = Len(h[k - 1]) /\ at[k + 1] = Len(h[k])
        BY <2>2, <2>4, <4>1 DEF Flattens
      <4>3. h[k - 1] \in Seq(S) /\ s[k] \in Seq(S)
        BY <2>3, <4>1
      <4>4. /\ Len(h[k - 1] \o s[k]) = Len(h[k - 1]) + Len(s[k])
            /\ \A j \in 1..Len(h[k - 1]) : (h[k - 1] \o s[k])[j] = h[k - 1][j]
            /\ \A j \in 1..Len(s[k]) : (h[k - 1] \o s[k])[Len(h[k - 1]) + j] = s[k][j]
        BY <4>3, Joined
      <4>5. QED BY <4>2, <4>4, Zenon
    <3>3. QED BY <3>1, <3>2
  <2>6. \A k \in 1..(N + 1) : at[k] \in Nat
    BY <2>4
  <2>7. \A k \in 1..N : Len(s[k]) \in Nat
    BY <2>3
  (* What is placed stays in its place. *)
  <2> DEFINE Kept(m) == \A r \in 1..m : /\ at[r + 1] <= at[m + 1]
                                        /\ \A j \in 1..Len(s[r]) : h[m][at[r] + j] = s[r][j]
  <2>8. Kept(1)
    BY <2>1, <2>5, <2>6
  <2>9. ASSUME NEW m \in 1..N, m # 1, Kept(m - 1) PROVE Kept(m)
    <3>1. m - 1 \in 1..N /\ (m - 1) + 1 = m
      BY <2>9
    <3>2. \A j \in 1..at[m] : h[m][j] = h[m - 1][j]
      BY <2>5, <2>9
    <3>3. at[m + 1] = at[m] + Len(s[m])
      BY <2>5
    <3>4. ASSUME NEW r \in 1..m
          PROVE  /\ at[r + 1] <= at[m + 1]
                 /\ \A j \in 1..Len(s[r]) : h[m][at[r] + j] = s[r][j]
      <4>1. CASE r = m
        <5>1. \A j \in 1..Len(s[m]) : h[m][at[m] + j] = s[m][j]
          BY <2>5
        <5>2. at[m + 1] <= at[m + 1]
          <6>1. m + 1 \in 1..(N + 1)
            OBVIOUS
          <6>2. at[m + 1] \in Nat
            BY <2>6, <6>1
          <6>3. QED BY <6>2
        <5>3. QED BY <4>1, <5>1, <5>2
      <4>2. CASE r # m
        <5>1. /\ r \in 1..(m - 1) /\ r \in 1..N /\ r \in 1..(N + 1) /\ r + 1 \in 1..(N + 1)
              /\ m \in 1..(N + 1) /\ m + 1 \in 1..(N + 1)
          BY <4>2
        <5>2. /\ at[r + 1] <= at[m]
              /\ \A j \in 1..Len(s[r]) : h[m - 1][at[r] + j] = s[r][j]
          BY <2>9, <3>1, <5>1
        <5>3. /\ at[r] \in Nat /\ at[r + 1] \in Nat /\ at[m] \in Nat /\ at[m + 1] \in Nat
              /\ Len(s[r]) \in Nat /\ Len(s[m]) \in Nat
          BY <2>6, <2>7, <5>1
        <5>4. at[r + 1] = at[r] + Len(s[r])
          BY <2>5, <5>1
        <5>5. at[r + 1] <= at[m + 1]
          BY <3>3, <5>2, <5>3, SMTT(30)
        <5>6. ASSUME NEW j \in 1..Len(s[r]) PROVE h[m][at[r] + j] = s[r][j]
          <6> DEFINE a == at[r]
                     b == at[m]
                     l == Len(s[r])
          <6>3. a \in Nat /\ b \in Nat /\ l \in Nat /\ a + l <= b /\ j \in 1..l
            <7>1. at[r] + Len(s[r]) <= at[m]
              BY <5>2, <5>4
            <7>2. QED BY <5>3, <7>1
          <6> HIDE DEF a, b, l
          <6>4. a + j \in 1..b
            BY <6>3
          <6>1. at[r] + j \in 1..at[m]
            BY <6>4 DEF a, b
          <6>2. QED BY <3>2, <5>2, <6>1
        <5>7. QED BY <5>5, <5>6
      <4>3. QED BY <4>1, <4>2
    <3>5. QED BY <3>4
  <2>10. \A m \in 1..N : Kept(m)
    <3> HIDE DEF Kept
    <3> DEFINE B == {m \in 1..N : ~Kept(m)}
    <3>1. SUFFICES ASSUME B # {} PROVE FALSE
      OBVIOUS
    <3>2. PICK m \in B : \A k \in B : m <= k
      <4>1. B \in SUBSET Nat
        OBVIOUS
      <4>2. QED BY <3>1, <4>1, LeastNumber
    <3>3. m \in 1..N /\ ~Kept(m) /\ m # 1
      BY <2>8, <3>2
    <3>4. m - 1 \in 1..N /\ ~(m <= m - 1)
      BY <3>3
    <3>5. Kept(m - 1)
      BY <3>2, <3>4
    <3>6. QED BY <2>9, <3>3, <3>5
  <2>11. N \in 1..N
    BY <2>1
  <2>12. Kept(N)
    BY <2>10, <2>11
  <2>13. Placed(at, s, h[N], N)
    BY <2>4, <2>5, <2>11, <2>12 DEF Placed
  <2>14. QED BY <2>2, <2>4, <2>13
<1>3. QED BY <1>1, <1>2

-----------------------------------------------------------------------------
(* Finding, cutting and trimming, whatever the tokens are *)

LEMMA FindFirst ==
  ASSUME NEW S, NEW s \in Seq(S), NEW x, NEW k \in 1..Len(s), s[k] = x,
         \A j \in 1..(k - 1) : s[j] # x
  PROVE  find(s, x) = k
<1> DEFINE I == {i \in 1..Len(s) : s[i] = x}
<1>1. k \in I /\ I # {}
  OBVIOUS
<1>2. \A y \in I : k <= y
  OBVIOUS
<1>3. I \subseteq Int
  OBVIOUS
<1>4. find(s, x) = Min(I)
  BY <1>1, Zenon DEF find, SelectInSeq
<1> HIDE DEF I
<1>5. \A z \in I : (\A y \in I : z <= y) => z = k
  BY <1>1, <1>2, <1>3
<1>6. Min(I) = k
  BY <1>1, <1>2, <1>5, Zenon DEF Min
<1>7. QED BY <1>4, <1>6

LEMMA FindNone ==
  ASSUME NEW s, NEW x, \A j \in 1..Len(s) : s[j] # x
  PROVE  find(s, x) = 0
<1> DEFINE I == {i \in 1..Len(s) : s[i] = x}
<1>1. I = {}
  BY Zenon
<1>2. QED BY <1>1, Zenon DEF find, SelectInSeq

LEMMA Cut ==
  ASSUME NEW S, NEW s \in Seq(S), NEW a \in Nat, NEW b \in Nat, 1 <= a, b <= Len(s)
  PROVE  /\ SubSeq(s, a, b) \in Seq(S)
         /\ Len(SubSeq(s, a, b)) = IF a <= b THEN b - a + 1 ELSE 0
         /\ \A k \in 1..(b - a + 1) : SubSeq(s, a, b)[k] = s[a + k - 1]
OBVIOUS

LEMMA CutBefore ==
  ASSUME NEW S, NEW s \in Seq(S), NEW i \in 1..Len(s)
  PROVE  /\ Before(s, i) \in Seq(S) /\ Len(Before(s, i)) = i - 1
         /\ \A k \in 1..(i - 1) : Before(s, i)[k] = s[k]
<1>1. i - 1 \in Nat /\ i - 1 <= Len(s) /\ 1 \in Nat /\ 1 <= 1
  OBVIOUS
<1>2. /\ SubSeq(s, 1, i - 1) \in Seq(S)
      /\ Len(SubSeq(s, 1, i - 1)) = IF 1 <= i - 1 THEN (i - 1) - 1 + 1 ELSE 0
      /\ \A k \in 1..((i - 1) - 1 + 1) : SubSeq(s, 1, i - 1)[k] = s[1 + k - 1]
  BY <1>1, Cut
<1> DEFINE t == SubSeq(s, 1, i - 1)
<1> HIDE DEF t
<1>3. t \in Seq(S) /\ Len(t) = i - 1 /\ \A k \in 1..(i - 1) : t[k] = s[k]
  BY <1>1, <1>2 DEF t
<1>4. QED BY <1>3 DEF Before, t

LEMMA CutAfter ==
  ASSUME NEW S, NEW s \in Seq(S), NEW i \in 0..Len(s)
  PROVE  /\ After(s, i) \in Seq(S) /\ Len(After(s, i)) = Len(s) - i
         /\ \A k \in 1..(Len(s) - i) : After(s, i)[k] = s[i + k]
<1> DEFINE n == Len(s)
<1>1. i + 1 \in Nat /\ 1 <= i + 1 /\ n \in Nat /\ n <= Len(s)
  OBVIOUS
<1>2. /\ SubSeq(s, i + 1, n) \in Seq(S)
      /\ Len(SubSeq(s, i + 1, n)) = IF i + 1 <= n THEN n - (i + 1) + 1 ELSE 0
      /\ \A k \in 1..(n - (i + 1) + 1) : SubSeq(s, i + 1, n)[k] = s[(i + 1) + k - 1]
  BY <1>1, Cut
<1> DEFINE t == SubSeq(s, i + 1, n)
<1> HIDE DEF t
<1>3. t \in Seq(S) /\ Len(t) = n - i /\ \A k \in 1..(n - i) : t[k] = s[i + k]
  BY <1>1, <1>2 DEF t
<1>4. QED BY <1>3 DEF After, t

ConcatOf(S, t, a, b) ==
  /\ t \in Seq(S) /\ Len(t) = Len(a) + Len(b)
  /\ \A k \in 1..Len(a) : t[k] = a[k]
  /\ \A k \in 1..Len(b) : t[Len(a) + k] = b[k]

LEMMA Concats ==
  ASSUME NEW S, NEW a, NEW b, a \in Seq(S), b \in Seq(S)
  PROVE  ConcatOf(S, a \o b, a, b)
BY Joined DEF ConcatOf

(* The first x of a line splits it. *)
Free(s, x) == \A j \in 1..Len(s) : s[j] # x

LEMMA SplitAt ==
  ASSUME NEW S, NEW a \in Seq(S), NEW b \in Seq(S), NEW x \in S, Free(a, x)
  PROVE  LET s == a \o <<x>> \o b
             k == Len(a) + 1
         IN  /\ s \in Seq(S) /\ k \in Nat \ {0} /\ find(s, x) = k
             /\ Before(s, k) = a /\ After(s, k) = b /\ After(s, k - 1) = <<x>> \o b
<1> DEFINE m == <<x>>
           p == a \o m
           s == p \o b
           t == m \o b
           n == Len(a)
           k == n + 1
           l == Len(b)
<1>1. m \in Seq(S) /\ Len(m) = 1 /\ m[1] = x
  BY Singleton
<1> HIDE DEF m
<1>2. /\ p \in Seq(S) /\ Len(p) = n + 1 /\ p[n + 1] = x
      /\ \A j \in 1..n : p[j] = a[j]
  <2>1. /\ p \in Seq(S) /\ Len(p) = Len(a) + Len(m)
        /\ \A j \in 1..Len(a) : p[j] = a[j]
        /\ \A j \in 1..Len(m) : p[Len(a) + j] = m[j]
    <3>1. ConcatOf(S, p, a, m)
      BY <1>1, Concats, Zenon
    <3>2. QED BY <3>1, Zenon DEF ConcatOf
  <2> HIDE DEF p
  <2>2. QED BY <1>1, <2>1
<1> HIDE DEF p
<1>3. /\ s \in Seq(S) /\ Len(s) = Len(p) + l
      /\ \A j \in 1..Len(p) : s[j] = p[j]
      /\ \A j \in 1..l : s[Len(p) + j] = b[j]
  <2>1. ConcatOf(S, s, p, b)
    BY <1>2, Concats, Zenon
  <2>2. QED BY <2>1, Zenon DEF ConcatOf
<1> HIDE DEF s
<1>4. n \in Nat /\ l \in Nat
  OBVIOUS
<1> HIDE DEF n, l
<1>5. /\ Len(s) = n + 1 + l /\ s[n + 1] = x
      /\ \A j \in 1..n : s[j] = a[j]
      /\ \A j \in 1..l : s[n + 1 + j] = b[j]
  BY <1>2, <1>3, <1>4
<1>6. k \in 1..Len(s) /\ k - 1 \in 0..Len(s) /\ k \in 0..Len(s) /\ k - 1 = n
  BY <1>4, <1>5
<1>7. find(s, x) = k
  <2>1. \A j \in 1..(k - 1) : s[j] # x
    BY <1>5, <1>6 DEF Free, n
  <2>2. s[k] = x
    BY <1>5
  <2>3. QED BY <1>3, <1>6, <2>1, <2>2, FindFirst
<1>8. Before(s, k) = a
  <2>1. /\ Before(s, k) \in Seq(S) /\ Len(Before(s, k)) = k - 1
        /\ \A j \in 1..(k - 1) : Before(s, k)[j] = s[j]
    BY <1>3, <1>6, CutBefore
  <2> DEFINE r == Before(s, k)
  <2> HIDE DEF r
  <2>2. r \in Seq(S) /\ Len(r) = Len(a) /\ \A j \in 1..Len(r) : r[j] = a[j]
    BY <1>5, <1>6, <2>1 DEF r, n
  <2>3. r = a
    BY <2>2, SeqEqual
  <2>4. QED BY <2>3 DEF r
<1>9. After(s, k) = b
  <2>1. /\ After(s, k) \in Seq(S) /\ Len(After(s, k)) = Len(s) - k
        /\ \A j \in 1..(Len(s) - k) : After(s, k)[j] = s[k + j]
    BY <1>3, <1>6, CutAfter
  <2> DEFINE r == After(s, k)
  <2> HIDE DEF r
  <2>2. r \in Seq(S) /\ Len(r) = l /\ \A j \in 1..l : r[j] = b[j]
    BY <1>4, <1>5, <2>1 DEF r
  <2>3. r = b
    BY <2>2, SeqEqual DEF l
  <2>4. QED BY <2>3 DEF r
<1>10. After(s, k - 1) = t
  <2>1. /\ After(s, k - 1) \in Seq(S) /\ Len(After(s, k - 1)) = Len(s) - (k - 1)
        /\ \A j \in 1..(Len(s) - (k - 1)) : After(s, k - 1)[j] = s[(k - 1) + j]
    BY <1>3, <1>6, CutAfter
  <2>2. /\ t \in Seq(S) /\ Len(t) = Len(m) + l
        /\ \A j \in 1..Len(m) : t[j] = m[j]
        /\ \A j \in 1..l : t[Len(m) + j] = b[j]
    <3>1. ConcatOf(S, t, m, b)
      BY <1>1, Concats, Zenon
    <3>2. QED BY <3>1, Zenon DEF ConcatOf, l
  <2> DEFINE r == After(s, k - 1)
  <2> HIDE DEF r, t
  <2>3. r \in Seq(S) /\ Len(r) = l + 1 /\ \A j \in 1..(l + 1) : r[j] = s[n + j]
    BY <1>4, <1>5, <1>6, <2>1 DEF r
  <2>4. t \in Seq(S) /\ Len(t) = l + 1 /\ t[1] = x /\ \A j \in 1..l : t[1 + j] = b[j]
    BY <1>1, <1>4, <2>2
  <2>5. ASSUME NEW j \in 1..(l + 1) PROVE r[j] = t[j]
    <3>1. CASE j = 1
      BY <1>4, <1>5, <2>3, <2>4, <3>1
    <3>2. CASE j # 1
      <4>1. j - 1 \in 1..l /\ 1 + (j - 1) = j /\ n + 1 + (j - 1) = n + j
        BY <1>4, <3>2
      <4>2. t[j] = b[j - 1] /\ s[n + j] = b[j - 1]
        BY <1>5, <2>4, <4>1
      <4>3. QED BY <2>3, <4>2
    <3>3. QED BY <3>1, <3>2
  <2>6. r = t
    <3>1. Len(r) = Len(t) /\ \A j \in 1..Len(r) : r[j] = t[j]
      BY <2>3, <2>4, <2>5
    <3>2. QED BY <2>3, <2>4, <3>1, SeqEqual
  <2>7. QED BY <2>6 DEF r
<1>11. k \in Nat \ {0}
  BY <1>4
<1>12. QED BY <1>3, <1>7, <1>8, <1>9, <1>10, <1>11 DEF s, p, m, n

LEMMA MaxIs ==
  ASSUME NEW I \in SUBSET Int, NEW m \in I, \A y \in I : y <= m
  PROVE  Max(I) = m
<1>1. \A z \in I : (\A y \in I : z >= y) => z = m
  OBVIOUS
<1>2. \A y \in I : m >= y
  OBVIOUS
<1>3. QED BY <1>1, <1>2, Zenon DEF Max

LEMMA MinIs ==
  ASSUME NEW I \in SUBSET Int, NEW m \in I, \A y \in I : m <= y
  PROVE  Min(I) = m
<1>1. \A z \in I : (\A y \in I : z <= y) => z = m
  OBVIOUS
<1>2. QED BY <1>1, Zenon DEF Min

(* The lemma as a fact about any names, which the provers find sooner. *)
Splits(S, s, x, a, b, k) ==
  /\ s \in Seq(S) /\ k \in Nat \ {0} /\ find(s, x) = k
  /\ Before(s, k) = a /\ After(s, k) = b /\ After(s, k - 1) = <<x>> \o b

LEMMA Split ==
  ASSUME NEW S, NEW s, NEW x, NEW a, NEW b, NEW k, a \in Seq(S), b \in Seq(S), x \in S,
         Free(a, x), s = a \o <<x>> \o b, k = Len(a) + 1
  PROVE  Splits(S, s, x, a, b, k)
BY SplitAt DEF Splits

(* Blanks b around a value that has none at its ends: what is not blank reaches from
   the value's first to its last. *)
Bare(v, b) == v # <<>> => v[1] # b /\ Last(v) # b
Inner(w, b) == {i \in DOMAIN w : w[i] # b}
TrimsTo(w, b, v) ==
  /\ v = <<>> => Inner(w, b) = {}
  /\ v # <<>> => /\ Inner(w, b) # {}
                 /\ SubSeq(w, Min(Inner(w, b)), Max(Inner(w, b))) = v

LEMMA Trims ==
  ASSUME NEW S, NEW b, NEW v, NEW p, b \in S, v \in Seq(S), p \in Seq({b}), Bare(v, b)
  PROVE  p \o v \o p \in Seq(S) /\ TrimsTo(p \o v \o p, b, v)
<1> DEFINE u == p \o v
           w == u \o p
           n == Len(p)
           l == Len(v)
           I == Inner(w, b)
<1>1. p \in Seq(S) /\ n \in Nat /\ \A k \in 1..n : p[k] = b
  OBVIOUS
<1>2. l \in Nat /\ (v = <<>> <=> l = 0)
  OBVIOUS
<1>3. /\ u \in Seq(S) /\ Len(u) = n + l
      /\ \A k \in 1..n : u[k] = p[k]
      /\ \A k \in 1..l : u[n + k] = v[k]
  <2>1. ConcatOf(S, u, p, v)
    BY <1>1, Concats, Zenon
  <2>2. QED BY <2>1, Zenon DEF ConcatOf
<1> HIDE DEF u
<1>4. /\ w \in Seq(S) /\ Len(w) = Len(u) + n
      /\ \A k \in 1..Len(u) : w[k] = u[k]
      /\ \A k \in 1..n : w[Len(u) + k] = p[k]
  <2>1. ConcatOf(S, w, u, p)
    BY <1>1, <1>3, Concats, Zenon
  <2>2. QED BY <2>1, Zenon DEF ConcatOf
<1> HIDE DEF w, n, l
<1>5. \A k \in 1..n : w[k] = b
  BY <1>1, <1>2, <1>3, <1>4
<1>6. \A k \in 1..l : w[n + k] = v[k]
  BY <1>1, <1>2, <1>3, <1>4
<1>7. \A k \in 1..n : w[n + l + k] = b
  BY <1>1, <1>3, <1>4
<1>8. Len(w) = n + l + n /\ DOMAIN w = 1..(n + l + n)
  BY <1>3, <1>4
<1>9. ASSUME NEW i \in 1..(n + l + n), w[i] # b PROVE i \in (n + 1)..(n + l)
  <2>1. ~(i \in 1..n)
    BY <1>5, <1>9
  <2>2. ~(i - (n + l) \in 1..n)
    <3>1. SUFFICES ASSUME i - (n + l) \in 1..n PROVE FALSE
      OBVIOUS
    <3>2. n + l + (i - (n + l)) = i
      BY <1>1, <1>2
    <3>3. QED BY <1>7, <1>9, <3>1, <3>2
  <2>3. QED BY <1>1, <1>2, <2>1, <2>2
<1>10. I \subseteq (n + 1)..(n + l)
  BY <1>8, <1>9 DEF Inner
<1>11. CASE v = <<>>
  <2>1. l = 0
    BY <1>2, <1>11
  <2>2. I = {}
    BY <1>1, <1>10, <2>1
  <2>3. QED BY <1>4, <1>11, <2>2, Zenon DEF TrimsTo, I, w, u
<1>12. CASE v # <<>>
  <2>1. l \in Nat \ {0} /\ v[1] # b /\ v[l] # b
    BY <1>2, <1>12 DEF Bare, Last, l
  <2>2. w[n + 1] = v[1] /\ w[n + l] = v[l]
    BY <1>6, <2>1
  <2>3. n + 1 \in 1..(n + l + n) /\ n + l \in 1..(n + l + n)
    BY <1>1, <2>1
  <2>4. n + 1 \in I /\ n + l \in I
    BY <1>8, <2>1, <2>2, <2>3, Zenon DEF Inner
  <2> HIDE DEF I
  <2>5. I \in SUBSET Int /\ \A y \in I : n + 1 <= y /\ y <= n + l
    BY <1>1, <1>2, <1>10
  <2>6. Min(I) = n + 1
    BY <2>4, <2>5, MinIs
  <2>7. Max(I) = n + l
    BY <2>4, <2>5, MaxIs
  <2>8. SubSeq(w, n + 1, n + l) = v
    <3>1. n + 1 \in Nat /\ n + l \in Nat /\ 1 <= n + 1 /\ n + l <= Len(w)
      BY <1>1, <1>2, <1>8
    <3>2. /\ SubSeq(w, n + 1, n + l) \in Seq(S)
          /\ Len(SubSeq(w, n + 1, n + l)) = IF n + 1 <= n + l THEN (n + l) - (n + 1) + 1 ELSE 0
          /\ \A k \in 1..((n + l) - (n + 1) + 1) :
               SubSeq(w, n + 1, n + l)[k] = w[(n + 1) + k - 1]
      BY <1>4, <3>1, Cut, SMTT(30)
    <3> DEFINE r == SubSeq(w, n + 1, n + l)
    <3> HIDE DEF r
    <3>3. r \in Seq(S) /\ Len(r) = l /\ \A k \in 1..l : r[k] = w[n + k]
      BY <1>1, <2>1, <3>2 DEF r
    <3>4. \A k \in 1..l : r[k] = v[k]
      BY <1>6, <3>3
    <3>5. r = v
      BY <3>3, <3>4, SeqEqual DEF l
    <3>6. QED BY <3>5 DEF r
  <2>9. I # {}
    BY <2>4
  <2>10. QED BY <1>4, <1>12, <2>6, <2>7, <2>8, <2>9, Zenon DEF TrimsTo, I, w, u
<1>13. QED BY <1>11, <1>12

-----------------------------------------------------------------------------
(* Header lines *)

HeaderText(h) == <<h.field, ":">> \o h.pad \o h.value \o h.pad

LEMMA HeaderParts ==
  ASSUME NEW S, NEW f \in S, NEW c \in S, NEW b \in S, NEW v \in Seq(S), NEW p \in Seq({b})
  PROVE  <<f, c>> \o p \o v \o p = <<f>> \o <<c>> \o (p \o v \o p)
<1> DEFINE e == <<f>> \o <<c>>
           u == p \o v
<1>1. <<f, c>> = e
  BY TwoJoined
<1>2. p \in Seq(S)
  OBVIOUS
<1>3. <<f, c>> \in Seq(S)
  BY Pair
<1>4. e \in Seq(S)
  BY <1>1, <1>3
<1> HIDE DEF e
<1>5. u \in Seq(S)
  BY <1>2, Concats, Zenon DEF ConcatOf
<1>6. (e \o p) \o v = e \o u
  BY <1>2, <1>4, ConcatAssociative, SMTT(30)
<1> HIDE DEF u
<1>7. (e \o u) \o p = e \o (u \o p)
  BY <1>2, <1>4, <1>5, ConcatAssociative
<1>8. QED BY <1>1, <1>6, <1>7, Zenon DEF u, e

LEMMA HeaderSplit ==
  ASSUME NEW S, NEW f, NEW c, NEW b, NEW v, NEW p,
         f \in S, c \in S, f # c, b \in S, v \in Seq(S), p \in Seq({b}), Bare(v, b)
  PROVE  Splits(S, <<f, c>> \o p \o v \o p, c, <<f>>, p \o v \o p, 2)
<1> DEFINE w == p \o v \o p
           a == <<f>>
           s == a \o <<c>> \o w
<1>1. w \in Seq(S)
  BY Trims, Zenon
<1>2. a \in Seq(S) /\ Len(a) = 1 /\ a[1] = f
  BY Singleton
<1> HIDE DEF w, a
<1>3. Free(a, c)
  BY <1>2 DEF Free
<1>4. Len(a) + 1 = 2
  BY <1>2
<1>6. Splits(S, s, c, a, w, 2)
  BY <1>1, <1>2, <1>3, <1>4, Split, Zenon
<1>7. <<f, c>> \o p \o v \o p = s
  BY HeaderParts, SMTT(30) DEF w, a
<1> HIDE DEF s
<1>8. QED BY <1>6, <1>7, Zenon DEF w, a

(* The tokens of a line. *)
Token == STRING \cup {" ", ":", "?", "/path", "id", "HTTP/1.", "junk"}
                \cup MethodNames \cup {"BREW"} \cup {"0", "1", "9"}

(* A header line is read as its sender meant it. *)
LEMMA HeaderRead ==
  ASSUME NEW h \in Header
  PROVE  /\ HeaderText(h) \in Seq(Token) /\ find(HeaderText(h), ":") = 2
         /\ Before(HeaderText(h), 2) = <<h.field>>
         /\ Trimmed(After(HeaderText(h), 2)) = h.value
<1> DEFINE S == Token
           f == h.field
           c == ":"
           b == " "
           v == h.value
           p == h.pad
           w == p \o v \o p
<1>1. /\ f \in S /\ c \in S /\ f # c /\ b \in S /\ v \in Seq(S) /\ p \in Seq({b})
  <2>1. h \in [field : STRING \ {":"}, value : Seq(STRING), pad : Seq({" "})]
    BY DEF Header
  <2>2. f \in STRING \ {":"} /\ v \in Seq(STRING) /\ p \in Seq({" "})
    BY <2>1
  <2>3. c \in S /\ b \in S /\ STRING \subseteq S
    BY Zenon DEF Token
  <2>4. f \in S /\ f # c
    BY <2>2, <2>3, Zenon
  <2>6. v \in Seq(S)
    BY <2>2, <2>3, SeqMonotonic, Zenon
  <2>5. QED BY <2>2, <2>3, <2>4, <2>6, Zenon
<1>2. Bare(v, b)
  BY Zenon DEF Header, Bare
<1>3. Trimmed(w) = IF Inner(w, b) = {} THEN <<>>
                   ELSE SubSeq(w, Min(Inner(w, b)), Max(Inner(w, b)))
  BY Zenon DEF Trimmed, Inner
<1> HIDE DEF S, f, c, b, v, p
<1>4. Splits(S, <<f, c>> \o p \o v \o p, c, <<f>>, w, 2)
  BY <1>1, <1>2, HeaderSplit, Zenon
<1>5. TrimsTo(w, b, v)
  BY <1>1, <1>2, Trims, Zenon
<1>6. Trimmed(w) = v
  BY <1>3, <1>5, Zenon DEF TrimsTo
<1>7. QED BY <1>4, <1>6, Zenon DEF Splits, HeaderText, S, f, c, b, v, p

-----------------------------------------------------------------------------
(* Request lines *)

(* Equality as a predicate, for lemmas that are instantiated by Zenon. *)
Same(s, t) == s = t

LEMMA Regroup ==
  ASSUME NEW S, NEW a, NEW b, NEW c, a \in Seq(S), b \in Seq(S), c \in Seq(S)
  PROVE  Same((a \o b) \o c, a \o (b \o c))
BY ConcatAssociative DEF Same

LEMMA Triple ==
  ASSUME NEW S, NEW a, NEW b, NEW c, a \in S, b \in S, c \in S
  PROVE  Same(<<a, b, c>>, <<a, b>> \o <<c>>) /\ Same(<<a, b, c>>, <<a>> \o <<b, c>>)
<1> DEFINE t == <<a, b, c>>
           p == <<a, b>>
           z == <<c>>
           s == <<a>>
           r == <<b, c>>
<1>1. t \in Seq(S) /\ Len(t) = 3 /\ t[1] = a /\ t[2] = b /\ t[3] = c
  OBVIOUS
<1>2. p \in Seq(S) /\ Len(p) = 2 /\ p[1] = a /\ p[2] = b
  BY Pair
<1>3. z \in Seq(S) /\ Len(z) = 1 /\ z[1] = c
  BY Singleton
<1>4. s \in Seq(S) /\ Len(s) = 1 /\ s[1] = a
  BY Singleton
<1>5. r \in Seq(S) /\ Len(r) = 2 /\ r[1] = b /\ r[2] = c
  BY Pair
<1> HIDE DEF t, p, z, s, r
<1>6. t = p \o z
  <2> DEFINE u == p \o z
  <2>1. ConcatOf(S, u, p, z)
    BY <1>2, <1>3, Concats, Zenon
  <2> HIDE DEF u
  <2>2. /\ u \in Seq(S) /\ Len(u) = Len(p) + Len(z)
        /\ \A k \in 1..Len(p) : u[k] = p[k]
        /\ \A k \in 1..Len(z) : u[Len(p) + k] = z[k]
    BY <2>1, Zenon DEF ConcatOf
  <2>3. Len(u) = 3 /\ u[1] = a /\ u[2] = b /\ u[3] = c
    BY <1>2, <1>3, <2>2
  <2>4. \A k \in 1..Len(t) : t[k] = u[k]
    BY <1>1, <2>3
  <2>5. t = u
    BY <1>1, <2>2, <2>3, <2>4, SeqEqual
  <2>6. QED BY <2>5 DEF u
<1>7. t = s \o r
  <2> DEFINE u == s \o r
  <2>1. ConcatOf(S, u, s, r)
    BY <1>4, <1>5, Concats, Zenon
  <2> HIDE DEF u
  <2>2. /\ u \in Seq(S) /\ Len(u) = Len(s) + Len(r)
        /\ \A k \in 1..Len(s) : u[k] = s[k]
        /\ \A k \in 1..Len(r) : u[Len(s) + k] = r[k]
    BY <2>1, Zenon DEF ConcatOf
  <2>3. Len(u) = 3 /\ u[1] = a /\ u[2] = b /\ u[3] = c
    BY <1>4, <1>5, <2>2
  <2>4. \A k \in 1..Len(t) : t[k] = u[k]
    BY <1>1, <2>3
  <2>5. t = u
    BY <1>1, <2>2, <2>3, <2>4, SeqEqual
  <2>6. QED BY <2>5 DEF u
<1>8. QED BY <1>6, <1>7 DEF Same, t, p, z, s, r

(* A request line: method, blank, target and perhaps blank and version. *)
PartsOf(S, m, x, p, v, w, q) ==
  LET target == <<p>> \o q
  IN  /\ target \in Seq(S)
      /\ <<m, x, p>> \o q = <<m>> \o <<x>> \o target
      /\ target \o <<x>> \o <<v, w>> \in Seq(S)
      /\ <<m, x, p>> \o q \o <<x, v, w>>
           = <<m>> \o <<x>> \o (target \o <<x>> \o <<v, w>>)

LEMMA LineParts ==
  ASSUME NEW S, NEW m, NEW x, NEW p, NEW v, NEW w, NEW q,
         m \in S, x \in S, p \in S, v \in S, w \in S, q \in Seq(S)
  PROVE  PartsOf(S, m, x, p, v, w, q)
<1> DEFINE a == <<m>>
           b == <<x>>
           c == <<p>>
           d == <<v, w>>
           e == a \o b
           t == c \o q
           r == b \o d
<1>1. a \in Seq(S) /\ b \in Seq(S) /\ c \in Seq(S) /\ d \in Seq(S)
  BY Singleton, Pair
<1>2. <<m, x>> = e
  BY TwoJoined
<1>3. <<m, x, p>> = e \o c
  <2>1. Same(<<m, x, p>>, <<m, x>> \o <<p>>)
    BY Triple, Zenon
  <2>2. QED BY <1>2, <2>1, Zenon DEF Same
<1>4. <<x, v, w>> = r
  <2>1. Same(<<x, v, w>>, <<x>> \o <<v, w>>)
    BY Triple, Zenon
  <2>2. QED BY <2>1, Zenon DEF Same
<1> HIDE DEF a, b, c, d
<1>5. e \in Seq(S)
  BY <1>1, Concats, Zenon DEF ConcatOf
<1>6. t \in Seq(S)
  BY <1>1, Concats, Zenon DEF ConcatOf
<1>7. r \in Seq(S)
  BY <1>1, Concats, Zenon DEF ConcatOf
<1> HIDE DEF e
<1>8. (e \o c) \o q = e \o t
  <2>1. Same((e \o c) \o q, e \o (c \o q))
    BY <1>1, <1>5, Regroup, Zenon
  <2>2. QED BY <2>1, Zenon DEF Same
<1>9. (t \o b) \o d = t \o r
  <2>1. Same((t \o b) \o d, t \o (b \o d))
    BY <1>1, <1>6, Regroup, Zenon
  <2>2. QED BY <2>1, Zenon DEF Same
<1>10. (e \o t) \o r = e \o (t \o r)
  <2>1. Same((e \o t) \o r, e \o (t \o r))
    BY <1>5, <1>6, <1>7, Regroup, Zenon
  <2>2. QED BY <2>1, Zenon DEF Same
<1>11. t \o r \in Seq(S)
  BY <1>6, <1>7, Concats, Zenon DEF ConcatOf
<1>12. <<m, x, p>> \o q = a \o b \o t
  BY <1>3, <1>8 DEF e
<1>13. <<m, x, p>> \o q \o <<x, v, w>> = a \o b \o (t \o b \o d)
  BY <1>3, <1>4, <1>8, <1>9, <1>10, Zenon DEF e
<1>14. t \o b \o d \in Seq(S)
  BY <1>9, <1>11, Zenon
<1>15. QED BY <1>6, <1>12, <1>13, <1>14, Zenon DEF PartsOf, a, b, c, d

Query(q) == IF q.query THEN <<"?", "id">> ELSE <<>>
Target(q) == <<"/path">> \o Query(q)
VersionOf(q) == <<"HTTP/1.", q.version>>
Rest(q) == IF q.version = "" THEN Target(q) ELSE Target(q) \o <<" ">> \o VersionOf(q)

LEMMA TokensIn ==
  /\ " " \in Token /\ ":" \in Token /\ "?" \in Token /\ "/path" \in Token /\ "id" \in Token
  /\ "HTTP/1." \in Token /\ "junk" \in Token
  /\ "0" \in Token /\ "1" \in Token /\ "9" \in Token
BY Zenon DEF Token

LEMMA MethodToken ==
  ASSUME NEW q \in Request
  PROVE  q.method \in Token /\ q.method # " " /\ q.query \in BOOLEAN
<1>1. q.method \in MethodNames \cup {"BREW"} /\ q.query \in BOOLEAN
  BY DEF Request
<1>2. " " \notin MethodNames \cup {"BREW"}
  BY DEF MethodNames
<1>3. MethodNames \cup {"BREW"} \subseteq Token
  BY Zenon DEF Token
<1>4. QED BY <1>1, <1>2, <1>3, Zenon

LEMMA VersionToken ==
  ASSUME NEW q \in Request, q.version # ""
  PROVE  q.version \in Token
<1>1. q.version \in {"", "0", "1", "9"}
  BY DEF Request
<1>2. q.version = "0" \/ q.version = "1" \/ q.version = "9"
  BY <1>1
<1>3. QED BY <1>2, TokensIn, Zenon

(* The target: its path, and its query behind the question mark. *)
LEMMA TargetSplits ==
  ASSUME NEW q \in Request
  PROVE  /\ Query(q) \in Seq(Token) /\ Target(q) \in Seq(Token) /\ Free(Target(q), " ")
         /\ q.query => Splits(Token, Target(q), "?", <<"/path">>, <<"id">>, 2)
         /\ ~q.query => Target(q) = <<"/path">> /\ find(Target(q), "?") = 0
<1> DEFINE S == Token
           x == " "
           y == "?"
           p == "/path"
           i == "id"
           a == <<p>>
           b == <<i>>
           t == Target(q)
<1>1. /\ x \in S /\ y \in S /\ p \in S /\ i \in S
  BY TokensIn, Zenon
<1>2. p # x /\ p # y /\ i # x /\ y # x
  OBVIOUS
<1>3. q.query \in BOOLEAN
  BY MethodToken
<1>4. q.query => Query(q) = <<y, i>> /\ t = a \o <<y, i>>
  BY DEF Query, Target
<1>5. ~q.query => Query(q) = <<>> /\ t = a \o <<>>
  BY DEF Query, Target
<1> HIDE DEF S, x, y, p, i, t
<1>6. a \in Seq(S) /\ Len(a) = 1 /\ a[1] = p
  BY <1>1, Singleton
<1>7. b \in Seq(S) /\ Len(b) = 1 /\ b[1] = i
  BY <1>1, Singleton
<1>8. CASE q.query
  <2> DEFINE z == <<y>>
             u == a \o z
             w == u \o b
  <2>1. z \in Seq(S) /\ Len(z) = 1 /\ z[1] = y
    BY <1>1, Singleton
  <2>2. <<y, i>> = z \o b
    BY TwoJoined
  <2>3. <<y, i>> \in Seq(S)
    BY <1>1, Pair
  <2> HIDE DEF a, b, z
  <2>4. Same(w, a \o (z \o b))
    BY <1>6, <1>7, <2>1, Regroup, Zenon
  <2>5. t = w
    BY <1>4, <1>8, <2>2, <2>4, Zenon DEF Same
  <2>6. Free(a, y)
    BY <1>2, <1>6 DEF Free
  <2>7. 2 = Len(a) + 1
    BY <1>6
  <2>8. Splits(S, w, y, a, b, 2)
    BY <1>1, <1>6, <1>7, <2>6, <2>7, Split, Zenon DEF z
  <2>9. ConcatOf(S, u, a, z)
    BY <1>6, <2>1, Concats, Zenon
  <2>10. u \in Seq(S)
    BY <2>9, Zenon DEF ConcatOf
  <2>11. ConcatOf(S, w, u, b)
    BY <1>7, <2>10, Concats, Zenon
  <2> HIDE DEF u, w
  <2>12. Len(u) = 2 /\ u[1] = p /\ u[2] = y
    <3>1. /\ Len(u) = Len(a) + Len(z)
          /\ \A k \in 1..Len(a) : u[k] = a[k]
          /\ \A k \in 1..Len(z) : u[Len(a) + k] = z[k]
      BY <2>9, Zenon DEF ConcatOf
    <3>2. QED BY <1>6, <2>1, <3>1
  <2>13. w \in Seq(S) /\ Len(w) = 3 /\ w[1] = p /\ w[2] = y /\ w[3] = i
    <3>1. /\ w \in Seq(S) /\ Len(w) = Len(u) + Len(b)
          /\ \A k \in 1..Len(u) : w[k] = u[k]
          /\ \A k \in 1..Len(b) : w[Len(u) + k] = b[k]
      BY <2>11, Zenon DEF ConcatOf
    <3>2. QED BY <1>7, <2>12, <3>1
  <2>14. Free(w, x)
    BY <1>2, <2>13 DEF Free
  <2>15. QED BY <1>4, <1>8, <2>3, <2>5, <2>8, <2>13, <2>14, Zenon
         DEF S, x, y, p, i, t, a, b
<1>9. CASE ~q.query
  <2>1. <<>> \in Seq(S)
    BY EmptySeq
  <2> HIDE DEF a
  <2>2. a \o <<>> = a
    BY <1>6, ConcatEmptySeq
  <2>3. t = a
    BY <1>5, <1>9, <2>2, Zenon
  <2>4. Free(a, x) /\ Free(a, y)
    BY <1>2, <1>6 DEF Free
  <2>5. find(a, y) = 0
    BY <2>4, FindNone, Zenon DEF Free
  <2>6. QED BY <1>5, <1>6, <1>9, <2>1, <2>3, <2>4, <2>5, Zenon DEF S, x, y, p, t, a
<1>10. QED BY <1>3, <1>8, <1>9

(* The line: its method, and the target and the version behind the first blank. *)
LEMMA LineSplits ==
  ASSUME NEW q \in Request
  PROVE  /\ Rest(q) \in Seq(Token)
         /\ Splits(Token, RequestLine(q), " ", <<q.method>>, Rest(q), 2)
         /\ RequestLine(q) = <<q.method>> \o <<" ">> \o Rest(q)
         /\ q.version = "" => find(Rest(q), " ") = 0
         /\ q.version # "" => \E k : Splits(Token, Rest(q), " ", Target(q), VersionOf(q), k)
<1> DEFINE S == Token
           m == q.method
           x == " "
           p == "/path"
           v == "HTTP/1."
           w == q.version
           r == Query(q)
           t == Target(q)
           rest == Rest(q)
           line == RequestLine(q)
           a == <<m>>
<1>1. m \in S /\ m # x /\ x \in S /\ p \in S /\ v \in S
  BY TokensIn, MethodToken, Zenon
<1>2. r \in Seq(S) /\ t \in Seq(S) /\ Free(t, x)
  BY TargetSplits, Zenon
<1>3. t = <<p>> \o r
  BY DEF Target
<1>4. w = "" => rest = t /\ line = <<m, x, p>> \o r \o <<>>
  BY DEF Rest, RequestLine, Query
<1>5. w # "" => /\ rest = t \o <<x>> \o <<v, w>> /\ line = <<m, x, p>> \o r \o <<x, v, w>>
  BY DEF Rest, RequestLine, Query, VersionOf
<1>6. w # "" => w \in S
  BY VersionToken, Zenon
<1> HIDE DEF S, m, x, p, v, r, t, rest, line
<1>7. a \in Seq(S) /\ Len(a) = 1 /\ a[1] = m
  BY <1>1, Singleton
<1>8. Free(a, x)
  BY <1>1, <1>7 DEF Free
<1>9. 2 = Len(a) + 1
  BY <1>7
<1>10. rest \in Seq(S) /\ line = a \o <<x>> \o rest
  <2>1. CASE w = ""
    <3> DEFINE u == <<m, x, p>> \o r
    <3>1. u = <<m>> \o <<x>> \o t
      <4>1. PartsOf(S, m, x, p, v, v, r)
        BY <1>1, <1>2, LineParts, Zenon
      <4>2. QED BY <1>3, <4>1, Zenon DEF PartsOf
    <3>2. <<x>> \in Seq(S)
      BY <1>1, Singleton
    <3>3. a \o <<x>> \in Seq(S)
      BY <1>7, <3>2, Concats, Zenon DEF ConcatOf
    <3>4. u \in Seq(S)
      BY <1>2, <3>1, <3>3, Concats, Zenon DEF ConcatOf
    <3> HIDE DEF u
    <3>5. u \o <<>> = u
      BY <3>4, ConcatEmptySeq
    <3>6. QED BY <1>2, <1>4, <2>1, <3>1, <3>5, Zenon DEF u, a
  <2>2. CASE w # ""
    <3>1. /\ t \o <<x>> \o <<v, w>> \in Seq(S)
          /\ <<m, x, p>> \o r \o <<x, v, w>> = <<m>> \o <<x>> \o (t \o <<x>> \o <<v, w>>)
      <4>1. w \in S
        BY <1>6, <2>2
      <4>2. PartsOf(S, m, x, p, v, w, r)
        BY <1>1, <1>2, <4>1, LineParts, Zenon
      <4>3. QED BY <1>3, <4>2, Zenon DEF PartsOf
    <3>2. QED BY <1>5, <2>2, <3>1, Zenon DEF a
  <2>3. QED BY <2>1, <2>2
<1> HIDE DEF a
<1>11. Splits(S, line, x, a, rest, 2)
  BY <1>1, <1>7, <1>8, <1>9, <1>10, Split, Zenon
<1>12. w = "" => find(rest, x) = 0
  BY <1>2, <1>4, FindNone, Zenon DEF Free
<1>13. ASSUME w # "" PROVE \E k : Splits(S, rest, x, t, <<v, w>>, k)
  <2>1. <<v, w>> \in Seq(S)
    BY <1>1, <1>6, <1>13, Pair
  <2>2. rest = t \o <<x>> \o <<v, w>>
    BY <1>5, <1>13
  <2>3. Splits(S, rest, x, t, <<v, w>>, Len(t) + 1)
    BY <1>1, <1>2, <2>1, <2>2, Split, Zenon
  <2>4. QED BY <2>3
<1>14. QED BY <1>10, <1>11, <1>12, <1>13, Zenon
       DEF S, m, x, v, w, t, rest, line, a, VersionOf

(* What processRequestLine makes of the parts of a line. *)

LEMMA MethodRead ==
  ASSUME NEW m
  PROVE  setMethod(<<m>>) = IF m \in MethodNames THEN m ELSE "kInvalid"
<1>1. <<m>>[1] = m /\ \A n : (<<m>> = <<n>>) <=> m = n
  OBVIOUS
<1>2. QED BY <1>1, Zenon DEF setMethod

LEMMA NoMethod ==
  ASSUME NEW s, Len(s) # 1
  PROVE  setMethod(s) = "kInvalid"
<1>1. \A m : Len(<<m>>) = 1
  OBVIOUS
<1>2. \A m : s # <<m>>
  BY <1>1
<1>3. QED BY <1>2, Zenon DEF setMethod

LEMMA MethodRange == ASSUME NEW s PROVE setMethod(s) \in MethodNames \cup {"kInvalid"}
<1>1. CASE \E m \in MethodNames : s = <<m>>
  <2>1. PICK m \in MethodNames : s = <<m>>
    BY <1>1
  <2>2. setMethod(s) = m
    BY <2>1, MethodRead, Zenon
  <2>3. QED BY <2>2, Zenon
<1>2. CASE ~\E m \in MethodNames : s = <<m>>
  BY <1>2, Zenon DEF setMethod
<1>3. QED BY <1>1, <1>2

LEMMA VersionRead ==
  ASSUME NEW w \in {"0", "1", "9"}
  PROVE  Version(<<"HTTP/1.", w>>) = IF w = "1" THEN "kHttp11"
                                     ELSE IF w = "0" THEN "kHttp10" ELSE "kUnknown"
<1>1. /\ <<"HTTP/1.", w>> = <<"HTTP/1.", "1">> <=> w = "1"
      /\ <<"HTTP/1.", w>> = <<"HTTP/1.", "0">> <=> w = "0"
  <2>1. \A a, b, c, d : (<<a, b>> = <<c, d>>) <=> (a = c /\ b = d)
    OBVIOUS
  <2>2. QED BY <2>1, Zenon
<1>2. QED BY <1>1 DEF Version

LEMMA VersionRange == ASSUME NEW s PROVE Version(s) \in {"kUnknown", "kHttp10", "kHttp11"}
BY DEF Version

(* request_ is a request as far as it has been read. *)
RequestOK(r) ==
  /\ r = [method |-> r.method, version |-> r.version, path |-> r.path,
          query |-> r.query, headers |-> r.headers]
  /\ r.method \in MethodNames \cup {"kInvalid"}
  /\ r.version \in {"kUnknown", "kHttp10", "kHttp11"}

Made(line, method, path, query, version) ==
  processRequestLine(line).request =
    [method |-> method, version |-> version, path |-> path, query |-> query,
     headers |-> request.headers]

LEMMA LineKeepsRequest ==
  ASSUME RequestOK(request), NEW line
  PROVE  RequestOK(processRequestLine(line).request)
<1> DEFINE space == find(line, " ")
           method == setMethod(Before(line, space))
           rest == After(line, space)
           space2 == find(rest, " ")
           target == Before(rest, space2)
           question == find(target, "?")
           version == Version(After(rest, space2))
           split == space # 0 /\ method # "kInvalid" /\ space2 # 0
           succeed == split /\ version # "kUnknown"
<1> DEFINE a == IF space # 0 THEN method ELSE request.method
           b == IF ~split THEN request.path
                ELSE IF question = 0 THEN target ELSE Before(target, question)
           c == IF split /\ question # 0 THEN After(target, question - 1) ELSE request.query
           d == IF succeed THEN version ELSE request.version
<1>1. Made(line, a, b, c, d)
  <2>1. request = [method |-> request.method, version |-> request.version,
                   path |-> request.path, query |-> request.query,
                   headers |-> request.headers]
    BY DEF RequestOK
  <2>2. processRequestLine(line).request =
          [request EXCEPT !.method = a, !.path = b, !.query = c, !.version = d]
    BY DEF processRequestLine
  <2> HIDE DEF a, b, c, d
  <2>3. QED BY <2>1, <2>2 DEF Made
<1>2. a \in MethodNames \cup {"kInvalid"}
  BY MethodRange, Zenon DEF RequestOK
<1>3. d \in {"kUnknown", "kHttp10", "kHttp11"}
  BY VersionRange, Zenon DEF RequestOK
<1> HIDE DEF a, b, c, d
<1>4. QED BY <1>1, <1>2, <1>3 DEF Made, RequestOK

Started(q) ==
  [method |-> q.method, version |-> IF q.version = "1" THEN "kHttp11" ELSE "kHttp10",
   path |-> <<"/path">>, query |-> Query(q), headers |-> <<>>]

Fills(t, r, m, p, u, v) ==
  t = [r EXCEPT !.method = m, !.path = p, !.query = u, !.version = v]

LEMMA Filled ==
  ASSUME NEW r, RequestOK(r), NEW t, NEW m, NEW p, NEW u, NEW v, Fills(t, r, m, p, u, v)
  PROVE  Same(t, [method |-> m, version |-> v, path |-> p, query |-> u,
                  headers |-> r.headers])
<1>1. r = [method |-> r.method, version |-> r.version, path |-> r.path, query |-> r.query,
           headers |-> r.headers]
  BY DEF RequestOK
<1>2. t = [r EXCEPT !.method = m, !.path = p, !.query = u, !.version = v]
  BY DEF Fills
<1>3. t = [method |-> m, version |-> v, path |-> p, query |-> u, headers |-> r.headers]
  BY <1>1, <1>2
<1>4. QED BY <1>3, Zenon DEF Same

LEMMA NewRequestOK == RequestOK(NewRequest)
BY DEF RequestOK, NewRequest

ReadAs(line, s1, method, rest, s2, target, version) ==
  /\ s1 = find(line, " ") /\ method = setMethod(Before(line, s1)) /\ rest = After(line, s1)
  /\ s2 = find(rest, " ") /\ target = Before(rest, s2) /\ version = Version(After(rest, s2))
  /\ s1 # 0 /\ method # "kInvalid" /\ s2 # 0 /\ version # "kUnknown"
PathIn(target) ==
  LET question == find(target, "?")
  IN  IF question = 0 THEN target ELSE Before(target, question)
QueryIn(target) ==
  LET question == find(target, "?")
  IN  IF question # 0 THEN After(target, question - 1) ELSE request.query

LEMMA Processed ==
  ASSUME NEW line, NEW s1, NEW method, NEW rest, NEW s2, NEW target, NEW version,
         ReadAs(line, s1, method, rest, s2, target, version)
  PROVE  LET parsed == processRequestLine(line)
         IN  /\ parsed.ok
             /\ Fills(parsed.request, request, method, PathIn(target), QueryIn(target), version)
BY DEF processRequestLine, ReadAs, PathIn, QueryIn, Fills

LEMMA GoodLine ==
  ASSUME NEW q \in Request, WellFormed(q), request = NewRequest
  PROVE  /\ processRequestLine(RequestLine(q)).ok
         /\ processRequestLine(RequestLine(q)).request = Started(q)
<1> DEFINE line == RequestLine(q)
           rest == Rest(q)
           target == Target(q)
           x == " "
<1>1. q.method \in MethodNames /\ q.version \in {"0", "1"}
  BY DEF WellFormed
<1>2. q.version # "" /\ q.version \in {"0", "1", "9"} /\ q.method # "kInvalid"
  BY <1>1 DEF MethodNames
<1>3. Splits(Token, line, x, <<q.method>>, rest, 2)
  BY LineSplits, Zenon
<1>4. PICK k : Splits(Token, rest, x, target, VersionOf(q), k)
  BY <1>2, LineSplits, Zenon
<1>5. find(line, " ") = 2 /\ Before(line, 2) = <<q.method>> /\ After(line, 2) = rest
  BY <1>3, Zenon DEF Splits
<1>6. find(rest, " ") = k /\ Before(rest, k) = target /\ After(rest, k) = VersionOf(q)
  BY <1>4, Zenon DEF Splits
<1>7. k # 0
  BY <1>4 DEF Splits
<1>8. setMethod(<<q.method>>) = q.method
  BY <1>1, MethodRead, Zenon
<1>9. Version(VersionOf(q)) = IF q.version = "1" THEN "kHttp11" ELSE "kHttp10"
  <2>1. Version(VersionOf(q)) = IF q.version = "1" THEN "kHttp11"
                                ELSE IF q.version = "0" THEN "kHttp10" ELSE "kUnknown"
    BY <1>2, VersionRead, Zenon DEF VersionOf
  <2>2. QED BY <1>1, <2>1
<1>10. PathIn(target) = <<"/path">> /\ QueryIn(target) = Query(q)
  <2>0. request.query = <<>>
    BY DEF NewRequest
  <2>1. CASE q.query
    <3>1. Splits(Token, target, "?", <<"/path">>, <<"id">>, 2)
      BY <2>1, TargetSplits, Zenon
    <3>2. find(target, "?") = 2 /\ Before(target, 2) = <<"/path">>
          /\ After(target, 2 - 1) = <<"?">> \o <<"id">>
      BY <3>1, Zenon DEF Splits
    <3>3. <<"?">> \o <<"id">> = <<"?", "id">>
      BY TwoJoined
    <3>4. Query(q) = <<"?", "id">>
      BY <2>1 DEF Query
    <3>5. 2 # 0
      OBVIOUS
    <3> HIDE DEF target
    <3>6. QED BY <3>2, <3>3, <3>4, <3>5, Zenon DEF PathIn, QueryIn
  <2>2. CASE ~q.query
    <3>1. target = <<"/path">> /\ find(target, "?") = 0
      BY <2>2, TargetSplits, Zenon
    <3>2. Query(q) = <<>>
      BY <2>2 DEF Query
    <3>3. QED BY <2>0, <3>1, <3>2, Zenon DEF PathIn, QueryIn
  <2>3. QED BY <2>1, <2>2
<1> DEFINE version == IF q.version = "1" THEN "kHttp11" ELSE "kHttp10"
           made == processRequestLine(line).request
<1>11. version # "kUnknown"
  OBVIOUS
<1> HIDE DEF line, rest, target, version, made
<1>12. ReadAs(line, 2, q.method, rest, k, target, version)
  <2>1. 2 # 0
    OBVIOUS
  <2>2. QED BY <1>2, <1>5, <1>6, <1>7, <1>8, <1>9, <1>11, <2>1, Zenon DEF ReadAs, version
<1>13. /\ processRequestLine(line).ok
       /\ Fills(made, request, q.method, PathIn(target), QueryIn(target), version)
  BY <1>12, Processed, Zenon DEF made
<1>14. Fills(made, request, q.method, <<"/path">>, Query(q), version)
  BY <1>10, <1>13, Zenon
<1>15. RequestOK(request) /\ request.headers = <<>>
  BY NewRequestOK DEF NewRequest
<1>16. Same(made, [method |-> q.method, version |-> version, path |-> <<"/path">>,
                   query |-> Query(q), headers |-> request.headers])
  BY <1>14, <1>15, Filled, Zenon
<1>17. QED BY <1>13, <1>15, <1>16, Zenon
       DEF Same, Started, line, made, version

(* Any other request line is a bad one, ... *)
LEMMA BadLine ==
  ASSUME NEW q \in Request, ~WellFormed(q)
  PROVE  ~processRequestLine(RequestLine(q)).ok
<1> DEFINE line == RequestLine(q)
           rest == Rest(q)
           x == " "
<1>1. Splits(Token, line, x, <<q.method>>, rest, 2)
  BY LineSplits, Zenon
<1>2. find(line, " ") = 2 /\ Before(line, 2) = <<q.method>> /\ After(line, 2) = rest
  BY <1>1, Zenon DEF Splits
<1>3. q.version \in {"", "0", "1", "9"}
  BY DEF Request
<1>4. CASE q.method \notin MethodNames
  <2>1. setMethod(<<q.method>>) = "kInvalid"
    BY <1>4, MethodRead, Zenon
  <2> HIDE DEF line
  <2>2. QED BY <1>2, <2>1 DEF processRequestLine, line
<1>5. CASE q.version = ""
  <2>1. find(rest, " ") = 0
    BY <1>5, LineSplits, Zenon
  <2> HIDE DEF line, rest
  <2>2. QED BY <1>2, <2>1 DEF processRequestLine, line
<1>6. CASE q.version = "9"
  <2>1. PICK k : Splits(Token, rest, x, Target(q), VersionOf(q), k)
    <3>1. q.version # ""
      BY <1>6
    <3>2. QED BY <3>1, LineSplits, Zenon
  <2>2. find(rest, " ") = k /\ After(rest, k) = VersionOf(q)
    BY <2>1, Zenon DEF Splits
  <2>3. Version(VersionOf(q)) = "kUnknown"
    <3>1. q.version \in {"0", "1", "9"} /\ q.version # "1" /\ q.version # "0"
      BY <1>6
    <3>2. QED BY <3>1, VersionRead, Zenon DEF VersionOf
  <2> HIDE DEF line, rest
  <2>4. QED BY <1>2, <2>2, <2>3 DEF processRequestLine, line
<1>7. QED BY <1>3, <1>4, <1>5, <1>6 DEF WellFormed

(* ... and so is an empty line. *)
LEMMA EmptyLine == ~processRequestLine(<<>>).ok
<1>1. \A j \in 1..Len(<<>>) : <<>>[j] # " "
  <2>1. Len(<<>>) = 0
    OBVIOUS
  <2>2. \A j \in 1..0 : FALSE
    OBVIOUS
  <2>3. QED BY <2>1, <2>2, Zenon
<1>2. find(<<>>, " ") = 0
  BY <1>1, FindNone, Zenon
<1>3. QED BY <1>2 DEF processRequestLine

-----------------------------------------------------------------------------
(* Headers one by one: the last of a name wins. *)

Latest(key, val, n) ==
  [f \in {key[i] : i \in 1..n} |-> val[Max({i \in 1..n : key[i] = f})]]

LEMMA MaxExists ==
  ASSUME NEW n \in Nat, NEW I \in SUBSET (1..n), I # {}
  PROVE  \E m \in I : \A y \in I : y <= m
<1> DEFINE B == {n - i : i \in I}
<1>1. B \in SUBSET Nat /\ B # {}
  <2>1. \A i \in I : i \in 1..n
    OBVIOUS
  <2>2. \A i \in 1..n : n - i \in Nat
    OBVIOUS
  <2>3. QED BY <2>1, <2>2
<1>2. PICK b \in B : \A c \in B : b <= c
  BY <1>1, LeastNumber
<1>3. PICK m \in I : b = n - m
  BY <1>2
<1>4. ASSUME NEW y \in I PROVE y <= m
  <2>1. n - y \in B
    OBVIOUS
  <2>2. b <= n - y
    BY <1>2, <2>1
  <2>3. m \in Int /\ y \in Int
    OBVIOUS
  <2>4. QED BY <1>3, <2>2, <2>3
<1>5. QED BY <1>4

LEMMA LatestNone == ASSUME NEW key, NEW val PROVE Latest(key, val, 0) = <<>>
<1>1. {key[i] : i \in 1..0} = {}
  OBVIOUS
<1>2. QED BY <1>1 DEF Latest

LEMMA LatestNext ==
  ASSUME NEW key, NEW val, NEW n \in Nat, NEW m, m = Latest(key, val, n)
  PROVE  Same([f \in DOMAIN m \cup {key[n + 1]} |-> IF f = key[n + 1] THEN val[n + 1] ELSE m[f]],
              Latest(key, val, n + 1))
<1> DEFINE D == {key[i] : i \in 1..n}
           E == {key[i] : i \in 1..(n + 1)}
           At(f) == {i \in 1..n : key[i] = f}
           To(f) == {i \in 1..(n + 1) : key[i] = f}
           k == key[n + 1]
<1>1. DOMAIN m = D /\ \A f \in D : m[f] = val[Max(At(f))]
  BY DEF Latest
<1>2. D \cup {k} = E
  OBVIOUS
<1>3. To(k) \in SUBSET Int /\ n + 1 \in To(k) /\ \A y \in To(k) : y <= n + 1
  OBVIOUS
<1>4. Max(To(k)) = n + 1
  <2> DEFINE I == To(k)
  <2> HIDE DEF I
  <2>1. I \in SUBSET Int /\ n + 1 \in I /\ \A y \in I : y <= n + 1
    BY <1>3 DEF I
  <2>2. Max(I) = n + 1
    BY <2>1, MaxIs
  <2>3. QED BY <2>2 DEF I
<1>5. \A f : f # k => To(f) = At(f)
  OBVIOUS
<1>6. \A f \in E : f # k => f \in D
  OBVIOUS
<1>7. Latest(key, val, n + 1) = [f \in E |-> val[Max(To(f))]]
  BY DEF Latest
<1> HIDE DEF D, E, At, To, k
<1>8. ASSUME NEW f \in E PROVE val[Max(To(f))] = IF f = k THEN val[n + 1] ELSE m[f]
  BY <1>1, <1>4, <1>5, <1>6, Zenon
<1>9. [f \in E |-> val[Max(To(f))]] = [f \in E |-> IF f = k THEN val[n + 1] ELSE m[f]]
  BY <1>8
<1>10. QED BY <1>1, <1>2, <1>7, <1>9, Zenon DEF Same, k

Keys(q) == [i \in 1..Len(q.headers) |-> <<q.headers[i].field>>]
Vals(q) == [i \in 1..Len(q.headers) |-> q.headers[i].value]
Heads(q, h) == Latest(Keys(q), Vals(q), h)
Partial(q, h) ==
  [method |-> q.method, version |-> IF q.version = "1" THEN "kHttp11" ELSE "kHttp10",
   path |-> <<"/path">>, query |-> Query(q), headers |-> Heads(q, h)]

LEMMA StartedPartial == ASSUME NEW q PROVE Started(q) = Partial(q, 0)
<1>1. Heads(q, 0) = <<>>
  BY LatestNone DEF Heads
<1>2. QED BY <1>1, Zenon DEF Started, Partial

LEMMA HeadersOf ==
  ASSUME NEW q \in Request
  PROVE  /\ Len(q.headers) \in Nat /\ DOMAIN q.headers = 1..Len(q.headers)
         /\ \A i \in 1..Len(q.headers) : q.headers[i] \in Header
<1>1. q.headers \in Seq(Header)
  BY DEF Request
<1> DEFINE s == q.headers
<1> HIDE DEF s
<1>2. s \in Seq(Header)
  BY <1>1 DEF s
<1>3. Len(s) \in Nat /\ DOMAIN s = 1..Len(s) /\ \A i \in 1..Len(s) : s[i] \in Header
  BY <1>2
<1>4. QED BY <1>3 DEF s

LEMMA HeaderAdded ==
  ASSUME NEW q \in Request, NEW h \in Nat, h + 1 \in 1..Len(q.headers),
         request = Partial(q, h)
  PROVE  /\ find(HeaderText(q.headers[h + 1]), ":") # 0
         /\ addHeader(HeaderText(q.headers[h + 1])) = Partial(q, h + 1)
<1> DEFINE hd == q.headers[h + 1]
           line == HeaderText(hd)
           key == Keys(q)
           val == Vals(q)
           m == Heads(q, h)
           k == key[h + 1]
           n == [f \in DOMAIN m \cup {k} |-> IF f = k THEN val[h + 1] ELSE m[f]]
<1>1. hd \in Header
  BY HeadersOf
<1>2. /\ find(line, ":") = 2 /\ Before(line, 2) = <<hd.field>>
      /\ Trimmed(After(line, 2)) = hd.value
  BY <1>1, HeaderRead, Zenon
<1>3. k = <<hd.field>> /\ val[h + 1] = hd.value
  BY DEF Keys, Vals
<1>4. Same(n, Heads(q, h + 1))
  BY LatestNext, Zenon DEF Heads
<1> HIDE DEF key, val, k
<1>5. request.headers = m
  BY DEF Partial
<1>6. addHeader(line) = [request EXCEPT !.headers = n]
  <2>1. addHeader(line) =
          [request EXCEPT !.headers = [f \in DOMAIN request.headers \cup {Before(line, 2)} |->
             IF f = Before(line, 2) THEN Trimmed(After(line, 2)) ELSE request.headers[f]]]
    BY <1>2, Zenon DEF addHeader
  <2> DEFINE b == Before(line, 2)
             t == Trimmed(After(line, 2))
             r == request.headers
             w == val[h + 1]
  <2>2. b = k /\ t = w /\ r = m
    BY <1>2, <1>3, <1>5, Zenon
  <2>3. addHeader(line) =
          [request EXCEPT !.headers = [f \in DOMAIN r \cup {b} |-> IF f = b THEN t ELSE r[f]]]
    BY <2>1, Zenon
  <2> HIDE DEF b, t, r, w, m
  <2>4. [f \in DOMAIN r \cup {b} |-> IF f = b THEN t ELSE r[f]]
          = [f \in DOMAIN m \cup {k} |-> IF f = k THEN w ELSE m[f]]
    BY <2>2
  <2>5. [f \in DOMAIN r \cup {b} |-> IF f = b THEN t ELSE r[f]] = n
    BY <2>4, Zenon DEF w
  <2>6. QED BY <2>3, <2>5, Zenon
<1> HIDE DEF n, m
<1> DEFINE made == [request EXCEPT !.headers = n]
<1>7. made = [method |-> q.method, version |-> IF q.version = "1" THEN "kHttp11" ELSE "kHttp10",
              path |-> <<"/path">>, query |-> Query(q), headers |-> n]
  <2> DEFINE v == IF q.version = "1" THEN "kHttp11" ELSE "kHttp10"
             p == <<"/path">>
             u == Query(q)
             a == q.method
             t == made
  <2>1. request = [method |-> a, version |-> v, path |-> p, query |-> u, headers |-> m]
    BY Zenon DEF Partial, m
  <2> HIDE DEF v, p, u, a
  <2>2. t = [request EXCEPT !.headers = n]
    OBVIOUS
  <2> HIDE DEF t
  <2>3. t = [method |-> a, version |-> v, path |-> p, query |-> u, headers |-> n]
    BY <2>1, <2>2
  <2>4. QED BY <2>3, Zenon DEF t, v, p, u, a
<1> HIDE DEF made
<1>8. made = Partial(q, h + 1)
  BY <1>4, <1>7, Zenon DEF Partial, Same
<1>9. find(line, ":") # 0
  BY <1>2
<1>10. QED BY <1>6, <1>8, <1>9, Zenon DEF made, line, hd

LEMMA ComesMeaning ==
  ASSUME NEW q \in Request, WellFormed(q)
  PROVE  Partial(q, Len(q.headers)) = Meaning(q)
<1> DEFINE n == Len(q.headers)
           field(i) == q.headers[i].field
           fields == {q.headers[i].field : i \in DOMAIN q.headers}
           named(f) == {i \in DOMAIN q.headers : q.headers[i].field = f}
           D == {Keys(q)[i] : i \in 1..n}
           E == {<<g>> : g \in fields}
           At(f) == {i \in 1..n : Keys(q)[i] = f}
<1>1. n \in Nat /\ DOMAIN q.headers = 1..n
  BY HeadersOf
<1>2. \A i \in 1..n : Keys(q)[i] = <<q.headers[i].field>> /\ Vals(q)[i] = q.headers[i].value
  BY DEF Keys, Vals
<1>3. D = E
  BY <1>1, <1>2, Zenon
<1>4. ASSUME NEW f \in E PROVE At(f) = named(f[1]) /\ At(f) # {} /\ At(f) \in SUBSET (1..n)
  <2>1. PICK g \in fields : f = <<g>>
    BY <1>4
  <2>2. f[1] = g /\ \A x : (<<x>> = f) <=> x = g
    BY <2>1
  <2>3. At(f) = named(g)
    BY <1>1, <1>2, <2>2, Zenon
  <2>4. named(g) # {}
    BY <2>1, Zenon
  <2>5. QED BY <2>2, <2>3, <2>4, Zenon
<1>5. ASSUME NEW f \in E PROVE Vals(q)[Max(At(f))] = q.headers[Max(named(f[1]))].value
  <2> DEFINE I == At(f)
  <2>1. I = named(f[1]) /\ I # {} /\ I \in SUBSET (1..n)
    BY <1>4
  <2> HIDE DEF I
  <2>2. PICK m \in I : \A y \in I : y <= m
    BY <1>1, <2>1, MaxExists
  <2>3. I \in SUBSET Int
    BY <2>1
  <2>4. Max(I) = m
    BY <2>2, <2>3, MaxIs
  <2>5. Max(I) \in 1..n
    BY <2>1, <2>2, <2>4
  <2>6. Vals(q)[Max(I)] = q.headers[Max(I)].value
    BY <1>2, <2>5
  <2>7. QED BY <2>1, <2>6, Zenon DEF I
<1>6. Heads(q, n) = [f \in D |-> Vals(q)[Max(At(f))]]
  BY Zenon DEF Heads, Latest
<1> HIDE DEF D, E, At, named
<1>7. [f \in D |-> Vals(q)[Max(At(f))]] = [f \in E |-> q.headers[Max(named(f[1]))].value]
  BY <1>3, <1>5
<1>8. Meaning(q) =
        [method |-> q.method, version |-> IF q.version = "1" THEN "kHttp11" ELSE "kHttp10",
         path |-> <<"/path">>, query |-> Query(q),
         headers |-> [f \in E |-> q.headers[Max(named(f[1]))].value]]
  BY Zenon DEF Meaning, Query, E, named
<1>9. QED BY <1>6, <1>7, <1>8, Zenon DEF Partial

LEMMA NoColon == find(<<"junk">>, ":") = 0 /\ find(<<>>, ":") = 0
<1>1. find(<<>>, ":") = 0
  <2>1. Len(<<>>) = 0
    OBVIOUS
  <2>2. \A j \in 1..0 : FALSE
    OBVIOUS
  <2>3. \A j \in 1..Len(<<>>) : <<>>[j] # ":"
    BY <2>1, <2>2, Zenon
  <2>4. QED BY <2>3, FindNone, Zenon
<1>2. find(<<"junk">>, ":") = 0
  <2> DEFINE x == "junk"
             c == ":"
             s == <<x>>
  <2>1. x # c
    OBVIOUS
  <2> HIDE DEF x, c
  <2>2. \A j \in 1..Len(s) : s[j] # c
    BY <2>1
  <2>3. find(s, c) = 0
    BY <2>2, FindNone, Zenon
  <2>4. QED BY <2>3, Zenon DEF x, c
<1>3. QED BY <1>1, <1>2

-----------------------------------------------------------------------------
(* Where the lines of a request are in the stream *)

Front1(qs, r) == IF r > 1 /\ qs[r - 1].body # <<>> THEN Last(qs[r - 1].body) ELSE <<>>
First(qs, r) == Front1(qs, r) \o RequestLine(qs[r])

(* The lines b of request q, the first of them f. *)
Block(b, q, f) ==
  LET n == Len(q.headers)
  IN  /\ b \in Seq(Seq(Token)) /\ Len(b) = LinesIn(q) /\ b[1] = f
      /\ \A i \in 1..n : b[1 + i] = HeaderText(q.headers[i])
      /\ b[2 + n] = IF q.junk THEN <<"junk">> ELSE <<>>
      /\ q.junk => b[3 + n] = <<>>

(* What is in a body. *)
LEMMA BodyLines ==
  ASSUME NEW q \in Request
  PROVE  /\ Front(q.body) \in Seq(Seq(Token)) /\ Len(Front(q.body)) \in Nat
         /\ q.body = <<>> => Len(Front(q.body)) = 0
         /\ q.body # <<>> => Last(q.body) \in Seq(Token)
<1> DEFINE T == Seq(Token)
           b == q.body
<1>1. b \in Seq(T)
  <2>1. b \in Seq(Seq(STRING))
    BY DEF Request
  <2>2. STRING \subseteq Token
    BY Zenon DEF Token
  <2>3. Seq(STRING) \subseteq T
    BY <2>2, SeqMonotonic, Zenon
  <2>4. QED BY <2>1, <2>3, SeqMonotonic, Zenon
<1> HIDE DEF T, b
<1>2. Front(b) = SubSeq(b, 1, Len(b) - 1) /\ Last(b) = b[Len(b)]
  BY DEF Front, Last
<1>3. Front(b) \in Seq(T) /\ Len(Front(b)) \in Nat
  <2> DEFINE u == SubSeq(b, 1, Len(b) - 1)
  <2>1. u \in Seq(T)
    BY <1>1
  <2> HIDE DEF u
  <2>2. Len(u) \in Nat
    BY <2>1
  <2>3. QED BY <1>2, <2>1, <2>2, Zenon DEF u
<1>4. ASSUME b = <<>> PROVE Len(Front(b)) = 0
  <2>1. Len(b) = 0
    BY <1>4
  <2>2. Len(SubSeq(b, 1, Len(b) - 1)) = 0
    BY <1>1, <2>1
  <2>3. QED BY <1>2, <2>2, Zenon
<1>5. ASSUME b # <<>> PROVE Last(b) \in T
  <2>1. Len(b) \in 1..Len(b)
    BY <1>1, <1>5
  <2>2. QED BY <1>1, <1>2, <2>1
<1>6. QED BY <1>3, <1>4, <1>5, Zenon DEF T, b

LEMMA FirstLine ==
  ASSUME NEW qs, NEW r, qs[r] \in Request, r > 1 => qs[r - 1] \in Request
  PROVE  First(qs, r) \in Seq(Token)
<1> DEFINE line == RequestLine(qs[r])
           front == Front1(qs, r)
<1>1. line \in Seq(Token)
  BY LineSplits, Zenon DEF Splits
<1>2. front \in Seq(Token)
  <2>1. <<>> \in Seq(Token)
    BY EmptySeq
  <2>2. QED BY <2>1, BodyLines, Zenon DEF Front1
<1> HIDE DEF line, front
<1>3. front \o line \in Seq(Token)
  BY <1>1, <1>2, Concats, Zenon DEF ConcatOf
<1>4. QED BY <1>3, Zenon DEF First, front, line

LEMMA BlockLines ==
  ASSUME NEW qs, NEW r, qs[r] \in Request, r > 1 => qs[r - 1] \in Request
  PROVE  Block(LinesOf(qs, r), qs[r], First(qs, r))
<1> DEFINE q == qs[r]
           T == Seq(Token)
           f == First(qs, r)
           n == Len(q.headers)
           j == <<"junk">>
           z == <<>>
           a == <<f>>
           b == [i \in DOMAIN q.headers |-> HeaderText(q.headers[i])]
           c == IF q.junk THEN <<j>> ELSE <<>>
           v == Front(q.body)
           l == Len(v)
           d == <<z>> \o v
           t == a \o b \o c \o d
<1>1. LinesOf(qs, r) = t
  BY Zenon DEF LinesOf, HeaderText, First, Front1
<1>2. n \in Nat /\ DOMAIN q.headers = 1..n
  BY HeadersOf
<1>3. \A i \in 1..n : HeaderText(q.headers[i]) \in T
  <2>1. \A i \in 1..n : q.headers[i] \in Header
    BY HeadersOf
  <2>2. QED BY <2>1, HeaderRead, Zenon
<1>4. f \in T
  BY FirstLine
<1>5. z \in T
  BY EmptySeq
<1>6. j \in T
  <2> DEFINE w == "junk"
  <2>1. w \in Token
    BY TokensIn, Zenon
  <2> HIDE DEF w
  <2>2. <<w>> \in Seq(Token)
    BY <2>1, Singleton
  <2>3. QED BY <2>2, Zenon DEF w
<1>7. q.junk \in BOOLEAN
  BY DEF Request
<1>8. LinesIn(q) = 2 + n + (IF q.junk THEN 1 ELSE 0) + l
  BY DEF LinesIn, HeadLines
<1>20. v \in Seq(T) /\ l \in Nat
  BY BodyLines
<1> DEFINE e(i) == HeaderText(q.headers[i])
<1> HIDE DEF T, f, n, j, z, e, q, v
<1>9. b \in Seq(T) /\ Len(b) = n /\ \A i \in 1..n : b[i] = e(i)
  <2>1. b = [i \in 1..n |-> e(i)]
    BY <1>2 DEF e
  <2>2. \A i \in 1..n : e(i) \in T
    BY <1>3 DEF e
  <2> HIDE DEF b
  <2>3. QED BY <1>2, <2>1, <2>2
<1>10. a \in Seq(T) /\ Len(a) = 1 /\ a[1] = f
  BY <1>4, Singleton
<1>11. d \in Seq(T) /\ Len(d) = 1 + l /\ d[1] = z
  <2> DEFINE u == <<z>>
  <2>1. u \in Seq(T) /\ Len(u) = 1 /\ u[1] = z
    BY <1>5, Singleton
  <2> HIDE DEF u
  <2>2. /\ u \o v \in Seq(T) /\ Len(u \o v) = Len(u) + Len(v)
        /\ \A k \in 1..Len(u) : (u \o v)[k] = u[k]
    BY <1>20, <2>1, Joined
  <2>3. 1 \in 1..Len(u)
    BY <2>1
  <2>4. QED BY <2>1, <2>2, <2>3, Zenon DEF u
<1>12. /\ c \in Seq(T)
       /\ q.junk => Len(c) = 1 /\ c[1] = j
       /\ ~q.junk => Len(c) = 0
  <2>1. <<j>> \in Seq(T) /\ Len(<<j>>) = 1 /\ <<j>>[1] = j
    BY <1>6, Singleton
  <2>2. <<>> \in Seq(T) /\ Len(<<>>) = 0
    BY EmptySeq
  <2>3. CASE q.junk
    <3>1. c = <<j>>
      BY <2>3
    <3>2. QED BY <2>1, <2>3, <3>1, Zenon
  <2>4. CASE ~q.junk
    <3>1. c = <<>>
      BY <2>4
    <3>2. QED BY <2>2, <2>4, <3>1, Zenon
  <2>5. QED BY <2>3, <2>4
<1> HIDE DEF a, b, c, d, l
<1>21. l \in Nat /\ 1 \in 1..Len(d)
  BY <1>11, <1>20
<1>13. AreSeqs(T, a, b, c, d)
  BY <1>9, <1>10, <1>11, <1>12, Zenon DEF AreSeqs
<1>14. /\ t \in Seq(T) /\ Len(t) = Len(a) + Len(b) + Len(c) + Len(d)
       /\ \A k \in 1..Len(a) : t[k] = a[k]
       /\ \A k \in 1..Len(b) : t[Len(a) + k] = b[k]
       /\ \A k \in 1..Len(c) : t[Len(a) + Len(b) + k] = c[k]
       /\ \A k \in 1..Len(d) : t[Len(a) + Len(b) + Len(c) + k] = d[k]
  BY <1>13, FourParts
<1> HIDE DEF t
<1>15. t[1] = f
  BY <1>10, <1>14
<1>16. \A i \in 1..n : t[1 + i] = e(i)
  BY <1>9, <1>10, <1>14
<1>17. CASE q.junk
  <2>1. Len(c) = 1 /\ c[1] = j
    BY <1>12, <1>17
  <2>2. Len(t) = 3 + n + l
    BY <1>2, <1>9, <1>10, <1>11, <1>14, <1>21, <2>1
  <2>3. t[1 + n + 1] = j
    BY <1>9, <1>10, <1>14, <2>1
  <2>4. t[1 + n + 1 + 1] = z
    BY <1>9, <1>10, <1>11, <1>14, <1>21, <2>1
  <2>5. 1 + n + 1 = 2 + n /\ 1 + n + 1 + 1 = 3 + n /\ 2 + n + 1 = 3 + n
    BY <1>2
  <2>6. Len(t) = LinesIn(q)
    BY <1>8, <1>17, <1>21, <2>2, <2>5
  <2>7. t[2 + n] = j /\ t[3 + n] = z
    BY <2>3, <2>4, <2>5
  <2>8. QED BY <1>1, <1>14, <1>15, <1>16, <1>17, <2>6, <2>7, Zenon
        DEF Block, T, f, n, j, z, e, q
<1>18. CASE ~q.junk
  <2>1. Len(c) = 0
    BY <1>12, <1>18
  <2>2. Len(t) = 2 + n + l
    BY <1>2, <1>9, <1>10, <1>11, <1>14, <1>21, <2>1
  <2>3. t[1 + n + 0 + 1] = z
    BY <1>9, <1>10, <1>11, <1>14, <1>21, <2>1
  <2>4. 1 + n + 0 + 1 = 2 + n /\ 2 + n + 0 = 2 + n
    BY <1>2
  <2>5. Len(t) = LinesIn(q)
    BY <1>8, <1>18, <1>21, <2>2, <2>4
  <2>6. t[2 + n] = z
    BY <2>3, <2>4
  <2>7. QED BY <1>1, <1>14, <1>15, <1>16, <1>18, <2>5, <2>6, Zenon
        DEF Block, T, f, n, z, e, q
<1>19. QED BY <1>7, <1>17, <1>18

Laid(at, qs, t) ==
  /\ at \in [1..(NumRequests + 1) -> Nat]
  /\ at[1] = 0 /\ at[NumRequests + 1] = Len(t)
  /\ \A r \in R :
       LET n == Len(qs[r].headers)
       IN  /\ at[r + 1] = at[r] + LinesIn(qs[r])
           /\ t[at[r] + 1] = First(qs, r)
           /\ \A i \in 1..n : t[at[r] + 1 + i] = HeaderText(qs[r].headers[i])
           /\ t[at[r] + 2 + n] = IF qs[r].junk THEN <<"junk">> ELSE <<>>
           /\ qs[r].junk => t[at[r] + 3 + n] = <<>>

LEMMA LaidOut ==
  ASSUME NEW qs \in [R -> Request]
  PROVE  \E at : Laid(at, qs, FlattenSeq([r \in R |-> LinesOf(qs, r)]))
<1> DEFINE N == NumRequests
           T == Seq(Token)
           s == [r \in R |-> LinesOf(qs, r)]
           t == FlattenSeq(s)
<1>1. N \in Nat /\ R = 1..N
  BY HttpAssumption DEF R
<1>2. \A r \in R : s[r] = LinesOf(qs, r) /\ Block(s[r], qs[r], First(qs, r))
  <2>1. \A r \in R : qs[r] \in Request /\ (r > 1 => qs[r - 1] \in Request)
    <3>1. \A r \in R : r > 1 => r - 1 \in R
      BY <1>1
    <3>2. QED BY <3>1, Zenon
  <2>2. QED BY <2>1, BlockLines, Zenon
<1>3. s \in [1..N -> Seq(T)]
  <2>1. \A r \in R : LinesOf(qs, r) \in Seq(T)
    BY <1>2, Zenon DEF Block
  <2>2. QED BY <1>1, <2>1
<1> HIDE DEF T, s
<1>4. PICK at \in [1..(N + 1) -> Nat] : Placed(at, s, t, N)
  BY <1>1, <1>3, FlattenPlaces, Zenon
<1> HIDE DEF t
<1>5. at[1] = 0 /\ at[N + 1] = Len(t)
  BY <1>4, Zenon DEF Placed
<1>6. ASSUME NEW r \in R
      PROVE  LET n == Len(qs[r].headers)
             IN  /\ at[r + 1] = at[r] + LinesIn(qs[r])
                 /\ t[at[r] + 1] = First(qs, r)
                 /\ \A i \in 1..n : t[at[r] + 1 + i] = HeaderText(qs[r].headers[i])
                 /\ t[at[r] + 2 + n] = IF qs[r].junk THEN <<"junk">> ELSE <<>>
                 /\ qs[r].junk => t[at[r] + 3 + n] = <<>>
  <2> DEFINE q == qs[r]
             n == Len(q.headers)
             b == s[r]
             p == at[r]
             line(i) == HeaderText(q.headers[i])
             j == IF q.junk THEN <<"junk">> ELSE <<>>
  <2>1. q \in Request
    OBVIOUS
  <2>2. n \in Nat
    BY <2>1, HeadersOf
  <2>3. p \in Nat
    <3>1. r \in 1..(N + 1)
      BY <1>1
    <3>2. QED BY <1>4, <3>1
  <2>4. at[r + 1] = p + Len(b) /\ \A k \in 1..Len(b) : t[p + k] = b[k]
    BY <1>1, <1>4, Zenon DEF Placed
  <2>5. /\ Len(b) = LinesIn(q) /\ b[1] = First(qs, r) /\ b[2 + n] = j
        /\ \A i \in 1..n : b[1 + i] = line(i)
        /\ q.junk => b[3 + n] = <<>>
    BY <1>2, Zenon DEF Block
  <2>6. LinesIn(q) = 2 + n + (IF q.junk THEN 1 ELSE 0) + Len(Front(q.body))
    BY DEF LinesIn, HeadLines
  <2> DEFINE g == q.junk
             z == <<>>
             l == Len(b)
             f == First(qs, r)
             e == Len(Front(q.body))
  <2>17. e \in Nat
    BY <2>1, BodyLines, Zenon
  <2>7. g => b[3 + n] = z
    BY <2>5
  <2>8. l = 2 + n + (IF g THEN 1 ELSE 0) + e
    BY <2>5, <2>6
  <2> HIDE DEF n, b, p, line, j, g, z, l, f, e
  <2>9. l >= 2 + n /\ (g => l >= 3 + n) /\ l \in Nat
    BY <2>2, <2>8, <2>17
  <2>10. \A k \in 1..l : t[p + k] = b[k]
    BY <2>4, Zenon DEF l
  <2>11. t[p + 1] = f
    <3>1. 1 \in 1..l /\ b[1] = f
      BY <2>2, <2>5, <2>9 DEF f
    <3>2. QED BY <2>10, <3>1
  <2>12. ASSUME NEW i \in 1..n PROVE t[p + 1 + i] = line(i)
    <3>1. 1 + i \in 1..l /\ p + (1 + i) = p + 1 + i
      BY <2>2, <2>3, <2>9
    <3>2. b[1 + i] = line(i)
      BY <2>5, Zenon
    <3>3. QED BY <2>10, <3>1, <3>2
  <2>13. t[p + 2 + n] = j
    <3>1. 2 + n \in 1..l /\ p + (2 + n) = p + 2 + n
      BY <2>2, <2>3, <2>9
    <3>2. b[2 + n] = j
      BY <2>5, Zenon
    <3>3. QED BY <2>10, <3>1, <3>2
  <2>14. ASSUME g PROVE t[p + 3 + n] = z
    <3>1. 3 + n \in 1..l /\ p + (3 + n) = p + 3 + n
      BY <2>2, <2>3, <2>9, <2>14
    <3>2. QED BY <2>7, <2>10, <2>14, <3>1
  <2>15. at[r + 1] = p + LinesIn(q)
    BY <2>4, <2>5, Zenon
  <2>16. QED BY <2>11, <2>12, <2>13, <2>14, <2>15, Zenon DEF n, p, line, j, g, z, f
<1>7. Laid(at, qs, t)
  BY <1>4, <1>5, <1>6, Zenon DEF Laid
<1>8. QED BY <1>7, Zenon DEF t, s

-----------------------------------------------------------------------------
(* The invariant: where in the stream the parser is *)

Typed(t) ==
  /\ Len(t) \in Nat
  /\ got \in 0..(2 * Len(t)) /\ pos \in 0..Len(t) /\ 2 * pos <= got
  /\ pc \in {"idle", "parse", "bad", "request"}
  /\ state \in {"kExpectRequestLine", "kExpectHeaders", "kGotAll"}
  /\ RequestOK(request) /\ connected \in BOOLEAN

(* n requests have been answered; once one of them had a body there is no telling. *)
Lost(qs, n) == \E j \in 1..n : j \in R /\ qs[j].body # <<>>
Spoilt(qs, n) == n > 0 /\ qs[n].junk
Left(qs, n) == IF n > 0 /\ qs[n].junk THEN 1 ELSE 0     \* lines the last of them left
Next1(qs, n) == n + 1 \in R /\ ~Spoilt(qs, n) /\ WellFormed(qs[n + 1])

Between(qs, at, n) ==
  /\ pc \in {"idle", "parse"} /\ state = "kExpectRequestLine"
  /\ request = NewRequest /\ pos + Left(qs, n) = at[n + 1]
InHeaders(qs, at, n) ==
  /\ pc \in {"idle", "parse"} /\ state = "kExpectHeaders" /\ Next1(qs, n)
  /\ \E h \in 0..Len(qs[n + 1].headers) :
       request = Partial(qs[n + 1], h) /\ pos = at[n + 1] + 1 + h
Complete(qs, at, n) ==
  /\ pc = "request" /\ Next1(qs, n) /\ request = Meaning(qs[n + 1])
  /\ pos = at[n + 1] + 2 + Len(qs[n + 1].headers)
Unreadable(qs, n) == Spoilt(qs, n) \/ (n + 1 \in R /\ ~WellFormed(qs[n + 1]))
Stage(qs, at, n) ==
  \/ Lost(qs, n)
  \/ /\ n \in 0..NumRequests
     /\ \/ Between(qs, at, n) \/ InHeaders(qs, at, n) \/ Complete(qs, at, n)
        \/ pc = "bad" /\ Unreadable(qs, n)

(* The answer's part of AnswersInOrder. *)
Meant(qs, i, a) ==
  LET bad == a.text = BadResponse
  IN  IF i > 1 /\ qs[i - 1].junk THEN bad
      ELSE /\ i \in R
           /\ bad <=> ~WellFormed(qs[i])
           /\ ~bad => a.seen = Meaning(qs[i])
Right(qs, i, a) == ~Lost(qs, i - 1) => Meant(qs, i, a)

Given(qs, t, at) == qs \in [R -> Request] /\ Laid(at, qs, t)
Answered(qs, s) == IsSeq(s) /\ \A i \in 1..Len(s) : Right(qs, i, s[i])

Reading(qs, t, at, s) ==
  /\ requests = qs /\ stream = t /\ answers = s
  /\ Given(qs, t, at) /\ Typed(t) /\ Answered(qs, s)
  /\ connected => Stage(qs, at, Len(s))
Read == \E qs, t, at, s : Reading(qs, t, at, s)

LEMMA ReadIsAnswersInOrder == Read => AnswersInOrder
<1> SUFFICES ASSUME Read PROVE AnswersInOrder
  OBVIOUS
<1>1. PICK qs, t, at, s : Reading(qs, t, at, s)
  BY DEF Read
<1>2. requests = qs /\ stream = t /\ answers = s /\ Typed(t) /\ Answered(qs, s)
  BY <1>1 DEF Reading
<1>3. TypeOK
  BY <1>2, Zenon DEF Typed, TypeOK, RequestOK
<1>4. DOMAIN s = 1..Len(s)
  BY <1>2, Appended, Zenon DEF Answered
<1>5. \A i \in 1..Len(s) : Right(qs, i, s[i])
  BY <1>2, Zenon DEF Answered
<1>6. \A i \in DOMAIN answers : Right(requests, i, answers[i])
  BY <1>2, <1>4, <1>5
<1>7. QED BY <1>3, <1>6, Zenon DEF AnswersInOrder, AsMeant, Meant, Right, Lost

LEMMA LaidFacts ==
  ASSUME NEW qs, NEW t, NEW at, Given(qs, t, at)
  PROVE  /\ NumRequests \in Nat /\ R = 1..NumRequests
         /\ \A n \in 0..NumRequests : at[n + 1] \in Nat
         /\ \A r \in R : qs[r] \in Request
<1>1. NumRequests \in Nat /\ R = 1..NumRequests
  BY HttpAssumption DEF R
<1>2. at \in [1..(NumRequests + 1) -> Nat]
  BY DEF Given, Laid
<1>3. \A n \in 0..NumRequests : n + 1 \in 1..(NumRequests + 1)
  BY <1>1
<1>4. \A n \in 0..NumRequests : at[n + 1] \in Nat
  BY <1>2, <1>3
<1>5. \A r \in R : qs[r] \in Request
  BY DEF Given
<1>6. QED BY <1>1, <1>4, <1>5

LEMMA LostStays == ASSUME NEW qs, NEW at, NEW n, Lost(qs, n) PROVE Stage(qs, at, n)'
BY Zenon DEF Stage, Lost

(* As long as nothing is lost, the last request had no body. *)
LEMMA NotLost ==
  ASSUME NEW qs, NEW n \in 0..NumRequests, n > 0, ~Lost(qs, n)
  PROVE  n \in R /\ qs[n].body = <<>>
<1>1. NumRequests \in Nat /\ R = 1..NumRequests
  BY HttpAssumption DEF R
<1>2. n \in R /\ n \in 1..n
  BY <1>1
<1>3. QED BY <1>2, Zenon DEF Lost

LEMMA InitRead == Init => Read
<1> SUFFICES ASSUME Init PROVE Read
  OBVIOUS
<1> DEFINE qs == requests
           t == stream
           s == answers
<1>1. qs \in [R -> Request] /\ t = FlattenSeq([r \in R |-> LinesOf(qs, r)])
  BY HttpAssumption DEF Init
<1>2. /\ got = 0 /\ pos = 0 /\ pc = "idle" /\ state = "kExpectRequestLine"
      /\ request = NewRequest /\ connected = TRUE /\ s = <<>>
  BY DEF Init
<1> HIDE DEF qs, t, s
<1>3. PICK at : Laid(at, qs, t)
  BY <1>1, LaidOut, Zenon
<1>4. Given(qs, t, at)
  BY <1>1, <1>3, Zenon DEF Given
<1>5. NumRequests \in Nat
  BY HttpAssumption
<1>6. Len(t) \in Nat /\ at[1] = 0
  <2>1. at[NumRequests + 1] \in Nat
    <3>1. NumRequests \in 0..NumRequests
      BY <1>5
    <3>2. QED BY <1>4, <3>1, LaidFacts
  <2>2. QED BY <1>3, <2>1, Zenon DEF Laid
<1>7. Typed(t)
  <2>1. RequestOK(request)
    BY <1>2, NewRequestOK
  <2>2. got \in 0..(2 * Len(t)) /\ pos \in 0..Len(t) /\ 2 * pos <= got
    BY <1>2, <1>6
  <2>3. QED BY <1>2, <1>6, <2>1, <2>2 DEF Typed
<1>8. Len(s) = 0 /\ IsSeq(s)
  BY <1>2 DEF IsSeq
<1>9. Answered(qs, s)
  <2>1. \A i \in 1..0 : FALSE
    OBVIOUS
  <2>2. QED BY <1>8, <2>1, Zenon DEF Answered
<1>10. Stage(qs, at, 0)
  <2>1. pos + Left(qs, 0) = at[0 + 1]
    <3>1. Left(qs, 0) = 0 /\ 0 + 1 = 1
      BY DEF Left
    <3>2. QED BY <1>2, <1>6, <3>1
  <2>2. 0 \in 0..NumRequests
    BY <1>5
  <2>3. QED BY <1>2, <2>1, <2>2, Zenon DEF Stage, Between
<1>11. Reading(qs, t, at, s)
  BY <1>4, <1>7, <1>8, <1>9, <1>10 DEF Reading, qs, t, s
<1>12. QED BY <1>11, Zenon DEF Read

LEMMA ReadNext ==
  ASSUME NEW qs, NEW t, NEW at, NEW s, Given(qs, t, at), Answered(qs, s),
         requests' = qs, stream' = t, answers' = s, Typed(t)',
         connected' => Stage(qs, at, Len(s))'
  PROVE  Read'
<1>1. Reading(qs, t, at, s)'
  BY Zenon DEF Reading
<1>2. QED BY <1>1, Zenon DEF Read

(* Bytes arrive, or a line is not complete. *)
Waits == NeedMore \/ \E n \in (got + 1)..(2 * Len(stream)) : Arrive(n)

LEMMA WaitsRead ==
  ASSUME NEW qs, NEW t, NEW at, NEW s, Reading(qs, t, at, s), Waits
  PROVE  Read'
<1>1. /\ requests = qs /\ stream = t /\ answers = s
      /\ Given(qs, t, at) /\ Typed(t) /\ Answered(qs, s)
      /\ connected => Stage(qs, at, Len(s))
  BY Zenon DEF Reading
<1>2. /\ requests' = requests /\ stream' = stream /\ answers' = answers /\ pos' = pos
      /\ state' = state /\ request' = request /\ connected' = connected
      /\ pc \in {"idle", "parse"} /\ pc' \in {"idle", "parse"}
  BY DEF Waits, NeedMore, Arrive, client, parser
<1>3. got' \in 0..(2 * Len(t)) /\ got <= got'
  <2>1. got \in 0..(2 * Len(t)) /\ Len(t) \in Nat
    BY <1>1 DEF Typed
  <2>2. CASE NeedMore
    BY <2>1, <2>2 DEF NeedMore
  <2>3. ASSUME NEW n \in (got + 1)..(2 * Len(stream)), Arrive(n)
        PROVE  got' \in 0..(2 * Len(t)) /\ got <= got'
    <3>1. got' = n /\ n \in (got + 1)..(2 * Len(t))
      BY <1>1, <2>3 DEF Arrive
    <3>2. QED BY <2>1, <3>1
  <2>4. QED BY <2>2, <2>3 DEF Waits
<1>4. Typed(t)'
  <2>1. /\ Len(t) \in Nat /\ got \in 0..(2 * Len(t)) /\ pos \in 0..Len(t) /\ 2 * pos <= got
    BY <1>1, Zenon DEF Typed
  <2>2. pos' \in 0..Len(t) /\ 2 * pos' <= got'
    BY <1>2, <1>3, <2>1
  <2>3. RequestOK(request)'
    BY <1>1, <1>2, Zenon DEF Typed, RequestOK
  <2>4. pc' \in {"idle", "parse", "bad", "request"}
    BY <1>2
  <2>5. /\ state' \in {"kExpectRequestLine", "kExpectHeaders", "kGotAll"}
        /\ connected' \in BOOLEAN
    BY <1>1, <1>2, Zenon DEF Typed
  <2>6. QED BY <1>3, <2>1, <2>2, <2>3, <2>4, <2>5, Zenon DEF Typed
<1>5. ASSUME connected', ~Lost(qs, Len(s)) PROVE Stage(qs, at, Len(s))'
  <2> DEFINE n == Len(s)
  <2>1. Stage(qs, at, n) /\ ~Lost(qs, n)
    BY <1>1, <1>2, <1>5, Zenon
  <2> HIDE DEF n
  <2>2. pc # "request" /\ pc # "bad"
    BY <1>2
  <2>3. n \in 0..NumRequests /\ (Between(qs, at, n) \/ InHeaders(qs, at, n))
    BY <2>1, <2>2, Zenon DEF Stage, Complete
  <2>4. Between(qs, at, n) => Between(qs, at, n)'
    BY <1>2, Zenon DEF Between
  <2>5. InHeaders(qs, at, n) => InHeaders(qs, at, n)'
    BY <1>2, Zenon DEF InHeaders
  <2>6. QED BY <2>3, <2>4, <2>5, Zenon DEF Stage, n
<1>6. requests' = qs /\ stream' = t /\ answers' = s
  BY <1>1, <1>2
<1>7. connected' => Stage(qs, at, Len(s))'
  BY <1>5, LostStays, Zenon
<1>8. QED BY <1>1, <1>4, <1>6, <1>7, ReadNext, Zenon

(* The line that is read is one of the stream. *)
LEMMA LineInStream ==
  ASSUME NEW t, Typed(t), HasCRLF
  PROVE  /\ pos \in Nat /\ pos + 1 \in 0..Len(t) /\ 2 * (pos + 1) <= got
<1>1. Len(t) \in Nat /\ got \in 0..(2 * Len(t)) /\ pos \in 0..Len(t)
  BY DEF Typed
<1>2. got >= 2 * (pos + 1)
  BY DEF HasCRLF
<1>3. QED BY <1>1, <1>2

(* The first line of a request. *)
LEMMA ExpectedLine ==
  ASSUME NEW qs, NEW t, NEW at, NEW n, Given(qs, t, at), Typed(t), HasCRLF, stream = t,
         n \in 0..NumRequests, ~Lost(qs, n), Between(qs, at, n)
  PROVE  IF n > 0 /\ qs[n].junk THEN Line = <<>>
         ELSE /\ n + 1 \in R /\ qs[n + 1] \in Request /\ pos = at[n + 1]
              /\ Line = RequestLine(qs[n + 1])
<1>1. pos \in Nat /\ pos + 1 \in 0..Len(t)
  BY LineInStream
<1>2. NumRequests \in Nat /\ R = 1..NumRequests /\ at[n + 1] \in Nat
  BY LaidFacts
<1>3. pos + Left(qs, n) = at[n + 1]
  BY DEF Between
<1>4. Line = t[pos + 1]
  BY DEF Line
<1>5. at[NumRequests + 1] = Len(t)
  BY DEF Given, Laid
<1>6. CASE n > 0 /\ qs[n].junk
  <2>1. n \in R
    BY <1>2, <1>6
  <2>2. qs[n] \in Request
    BY <2>1, LaidFacts
  <2>3. Left(qs, n) = 1
    BY <1>6 DEF Left
  <2> DEFINE h == Len(qs[n].headers)
  <2>4. h \in Nat
    BY <2>2, HeadersOf
  <2>5. at[n + 1] = at[n] + LinesIn(qs[n]) /\ t[at[n] + 3 + h] = <<>>
    BY <1>6, <2>1, Zenon DEF Given, Laid
  <2> DEFINE e == Len(Front(qs[n].body))
  <2>10. e = 0
    BY <1>6, <2>2, NotLost, BodyLines, Zenon
  <2>6. LinesIn(qs[n]) = 2 + h + 1
    <3>1. LinesIn(qs[n]) = 2 + h + 1 + e
      BY <1>6 DEF LinesIn, HeadLines
    <3> HIDE DEF h, e
    <3>2. QED BY <2>4, <2>10, <3>1
  <2>7. at[n] \in Nat
    <3>1. n - 1 \in 0..NumRequests /\ (n - 1) + 1 = n
      BY <1>2, <2>1
    <3>2. QED BY <3>1, LaidFacts
  <2> HIDE DEF h
  <2>8. pos + 1 = at[n] + 3 + h
    BY <1>1, <1>3, <2>3, <2>4, <2>5, <2>6, <2>7
  <2>9. Line = <<>>
    BY <1>4, <2>5, <2>8, Zenon
  <2>11. QED BY <1>6, <2>9, Zenon
<1>7. CASE ~(n > 0 /\ qs[n].junk)
  <2>1. Left(qs, n) = 0
    BY <1>7, Zenon DEF Left
  <2>2. pos = at[n + 1]
    BY <1>1, <1>3, <2>1
  <2>3. n # NumRequests
    BY <1>1, <1>5, <2>2
  <2>4. n + 1 \in R /\ n \in Nat
    BY <1>2, <2>3
  <2>5. qs[n + 1] \in Request
    BY <2>4, LaidFacts
  <2>6. t[at[n + 1] + 1] = First(qs, n + 1)
    BY <2>4, Zenon DEF Given, Laid
  <2>7. Line = First(qs, n + 1)
    BY <1>4, <2>2, <2>6, Zenon
  <2>8. (n + 1 > 1 <=> n > 0) /\ (n + 1) - 1 = n
    BY <2>4
  <2> DEFINE line == RequestLine(qs[n + 1])
  <2>9. line \in Seq(Token)
    BY <2>5, LineSplits, Zenon DEF Splits
  <2>10. <<>> \o line = line
    BY <2>9, ConcatEmptySeq
  <2>11. First(qs, n + 1) = <<>> \o line
    BY <2>8, NotLost, Zenon DEF First, Front1
  <2> HIDE DEF line
  <2>12. Line = line
    BY <2>7, <2>10, <2>11, Zenon
  <2>13. QED BY <1>7, <2>2, <2>4, <2>5, <2>12, Zenon DEF line
<1>8. QED BY <1>6, <1>7

LEMMA LineVerdict ==
  ASSUME NEW qs, NEW t, NEW at, NEW n, Given(qs, t, at), Typed(t), HasCRLF, stream = t,
         n \in 0..NumRequests, ~Lost(qs, n), Between(qs, at, n)
  PROVE  IF processRequestLine(Line).ok
         THEN /\ Next1(qs, n) /\ pos = at[n + 1]
              /\ processRequestLine(Line).request = Partial(qs[n + 1], 0)
         ELSE Unreadable(qs, n)
<1> DEFINE line == Line
           q == qs[n + 1]
<1>1. IF n > 0 /\ qs[n].junk THEN line = <<>>
      ELSE n + 1 \in R /\ q \in Request /\ pos = at[n + 1] /\ line = RequestLine(q)
  BY ExpectedLine, Zenon
<1>2. request = NewRequest
  BY DEF Between
<1> HIDE DEF line
<1>3. CASE n > 0 /\ qs[n].junk
  <2>1. ~processRequestLine(line).ok
    BY <1>1, <1>3, EmptyLine, Zenon
  <2>2. Unreadable(qs, n)
    BY <1>3, Zenon DEF Unreadable, Spoilt
  <2>3. QED BY <2>1, <2>2, Zenon DEF line
<1>4. CASE ~(n > 0 /\ qs[n].junk)
  <2>1. n + 1 \in R /\ q \in Request /\ pos = at[n + 1] /\ line = RequestLine(q)
    BY <1>1, <1>4, Zenon
  <2>2. ~Spoilt(qs, n)
    BY <1>4, Zenon DEF Spoilt
  <2>3. CASE WellFormed(q)
    <3>1. processRequestLine(line).ok /\ processRequestLine(line).request = Started(q)
      BY <1>2, <2>1, <2>3, GoodLine, Zenon
    <3>2. Started(q) = Partial(q, 0)
      BY StartedPartial, Zenon
    <3>3. Next1(qs, n)
      BY <2>1, <2>2, <2>3, Zenon DEF Next1
    <3>4. QED BY <2>1, <3>1, <3>2, <3>3, Zenon DEF line
  <2>4. CASE ~WellFormed(q)
    <3>1. ~processRequestLine(line).ok
      BY <2>1, <2>4, BadLine, Zenon
    <3>2. Unreadable(qs, n)
      BY <2>1, <2>4, Zenon DEF Unreadable
    <3>3. QED BY <3>1, <3>2, Zenon DEF line
  <2>5. QED BY <2>3, <2>4
<1>5. QED BY <1>3, <1>4

LEMMA RequestLineRead ==
  ASSUME NEW qs, NEW t, NEW at, NEW s, Reading(qs, t, at, s), ParseRequestLine
  PROVE  Read'
<1> DEFINE n == Len(s)
           parsed == processRequestLine(Line)
<1>1. /\ requests = qs /\ stream = t /\ answers = s
      /\ Given(qs, t, at) /\ Typed(t) /\ Answered(qs, s)
      /\ connected => Stage(qs, at, n)
  BY Zenon DEF Reading
<1>2. /\ requests' = requests /\ stream' = stream /\ answers' = answers /\ got' = got
      /\ connected' = connected /\ HasCRLF /\ pc = "parse" /\ state = "kExpectRequestLine"
      /\ request' = parsed.request
  BY DEF ParseRequestLine, client
<1>3. \/ parsed.ok /\ pos' = pos + 1 /\ state' = "kExpectHeaders" /\ pc' = pc
      \/ ~parsed.ok /\ pc' = "bad" /\ pos' = pos /\ state' = state
  BY Zenon DEF ParseRequestLine
<1>4. RequestOK(parsed.request)
  BY <1>1, LineKeepsRequest, Zenon DEF Typed
<1>5. ASSUME connected, ~Lost(qs, n)
      PROVE  /\ n \in 0..NumRequests
             /\ parsed.ok => /\ Next1(qs, n) /\ pos = at[n + 1]
                             /\ parsed.request = Partial(qs[n + 1], 0)
             /\ ~parsed.ok => Unreadable(qs, n)
  <2>1. Stage(qs, at, n)
    BY <1>1, <1>5
  <2>2. pc # "request" /\ pc # "bad" /\ state # "kExpectHeaders"
    BY <1>2
  <2> HIDE DEF n
  <2>3. n \in 0..NumRequests /\ Between(qs, at, n)
    BY <1>5, <2>1, <2>2, Zenon DEF Stage, InHeaders, Complete, n
  <2>4. QED BY <1>1, <1>2, <1>5, <2>3, LineVerdict, Zenon DEF n
<1> HIDE DEF parsed, n
<1>6. Typed(t)'
  <2>1. /\ Len(t) \in Nat /\ got \in 0..(2 * Len(t)) /\ pos \in 0..Len(t) /\ 2 * pos <= got
    BY <1>1, Zenon DEF Typed
  <2>2. pos + 1 \in 0..Len(t) /\ 2 * (pos + 1) <= got
    BY <1>1, <1>2, LineInStream, Zenon
  <2>3. got' \in 0..(2 * Len(t)) /\ pos' \in 0..Len(t) /\ 2 * pos' <= got'
    BY <1>2, <1>3, <2>1, <2>2, Zenon
  <2>4. RequestOK(request)'
    BY <1>2, <1>4, Zenon DEF RequestOK
  <2>5. /\ pc' \in {"idle", "parse", "bad", "request"}
        /\ state' \in {"kExpectRequestLine", "kExpectHeaders", "kGotAll"}
    BY <1>2, <1>3, Zenon
  <2>6. connected' \in BOOLEAN
    BY <1>1, <1>2, Zenon DEF Typed
  <2>7. QED BY <2>1, <2>3, <2>4, <2>5, <2>6, Zenon DEF Typed
<1>7. ASSUME connected', ~Lost(qs, n) PROVE Stage(qs, at, n)'
  <2>0. connected /\ ~Lost(qs, n)
    BY <1>2, <1>7
  <2>1. /\ n \in 0..NumRequests
        /\ parsed.ok => /\ Next1(qs, n) /\ pos = at[n + 1]
                        /\ parsed.request = Partial(qs[n + 1], 0)
        /\ ~parsed.ok => Unreadable(qs, n)
    BY <1>5, <2>0
  <2>2. CASE parsed.ok
    <3>1. Next1(qs, n) /\ request' = Partial(qs[n + 1], 0)
      BY <1>2, <2>1, <2>2, Zenon
    <3>2. pc' = "parse" /\ state' = "kExpectHeaders" /\ pos' = pos + 1
      BY <1>2, <1>3, <2>2, Zenon
    <3>3. qs[n + 1] \in Request /\ at[n + 1] \in Nat
      BY <1>1, <2>1, <3>1, LaidFacts, Zenon DEF Next1
    <3>4. 0 \in 0..Len(qs[n + 1].headers)
      <4>1. Len(qs[n + 1].headers) \in Nat
        BY <3>3, HeadersOf, Zenon
      <4>2. QED BY <4>1
    <3>5. pos' = at[n + 1] + 1 + 0
      BY <2>1, <2>2, <3>2, <3>3
    <3>6. InHeaders(qs, at, n)'
      BY <3>1, <3>2, <3>4, <3>5, Zenon DEF InHeaders
    <3>7. QED BY <2>1, <3>6, Zenon DEF Stage
  <2>3. CASE ~parsed.ok
    <3>1. pc' = "bad" /\ Unreadable(qs, n)
      BY <1>3, <2>1, <2>3, Zenon
    <3>2. QED BY <2>1, <3>1, Zenon DEF Stage
  <2>4. QED BY <2>2, <2>3
<1>8. requests' = qs /\ stream' = t /\ answers' = s
  BY <1>1, <1>2
<1>9. connected' => Stage(qs, at, n)'
  BY <1>7, LostStays, Zenon
<1>10. QED BY <1>1, <1>6, <1>8, <1>9, ReadNext, Zenon DEF n

LEMMA HeaderKeepsRequest ==
  ASSUME RequestOK(request), NEW line
  PROVE  RequestOK(addHeader(line))
<1>1. PICK m : addHeader(line) = [request EXCEPT !.headers = m]
  BY Zenon DEF addHeader
<1>2. request = [method |-> request.method, version |-> request.version,
                 path |-> request.path, query |-> request.query,
                 headers |-> request.headers]
  BY DEF RequestOK
<1> DEFINE r == addHeader(line)
<1> HIDE DEF r
<1>3. r = [request EXCEPT !.headers = m]
  BY <1>1 DEF r
<1>4. r = [method |-> request.method, version |-> request.version,
           path |-> request.path, query |-> request.query, headers |-> m]
  BY <1>2, <1>3
<1>5. RequestOK(r)
  BY <1>4 DEF RequestOK
<1>6. QED BY <1>5 DEF r

(* The line after h headers. *)
LEMMA HeaderLineNext ==
  ASSUME NEW qs, NEW t, NEW at, NEW n, NEW h, Given(qs, t, at), stream = t,
         n \in 0..NumRequests, n + 1 \in R, h \in 0..Len(qs[n + 1].headers),
         pos = at[n + 1] + 1 + h
  PROVE  /\ h # Len(qs[n + 1].headers) =>
              /\ h \in Nat /\ h + 1 \in 1..Len(qs[n + 1].headers)
              /\ Line = HeaderText(qs[n + 1].headers[h + 1])
         /\ h = Len(qs[n + 1].headers) => find(Line, ":") = 0
<1> DEFINE q == qs[n + 1]
           l == Len(q.headers)
           p == at[n + 1]
           text(i) == HeaderText(q.headers[i])
           j == IF q.junk THEN <<"junk">> ELSE <<>>
<1>1. q \in Request /\ p \in Nat
  BY LaidFacts
<1>2. l \in Nat
  BY <1>1, HeadersOf
<1>3. /\ \A i \in 1..l : t[p + 1 + i] = text(i)
      /\ t[p + 2 + l] = j
  BY Zenon DEF Given, Laid
<1>4. Line = t[pos + 1]
  BY DEF Line
<1>5. find(j, ":") = 0
  BY NoColon, Zenon
<1>6. h \in 0..l /\ pos = p + 1 + h
  OBVIOUS
<1> DEFINE line == Line
<1>7. line = t[pos + 1]
  BY <1>4
<1> HIDE DEF q, l, p, text, j, line
<1>8. ASSUME h # l PROVE h \in Nat /\ h + 1 \in 1..l /\ line = text(h + 1)
  <2>1. h \in Nat /\ h + 1 \in 1..l /\ pos + 1 = p + 1 + (h + 1)
    BY <1>1, <1>2, <1>6, <1>8
  <2>2. t[p + 1 + (h + 1)] = text(h + 1)
    BY <1>3, <2>1
  <2>3. QED BY <1>7, <2>1, <2>2
<1>9. ASSUME h = l PROVE find(line, ":") = 0
  <2>1. pos + 1 = p + 2 + l
    BY <1>1, <1>2, <1>6, <1>9
  <2>2. line = j
    BY <1>3, <1>7, <2>1, Zenon
  <2>3. QED BY <1>5, <2>2, Zenon
<1>10. QED BY <1>8, <1>9, Zenon DEF q, l, text, line

LEMMA HeaderLineRead ==
  ASSUME NEW qs, NEW t, NEW at, NEW s, Reading(qs, t, at, s), ParseHeader
  PROVE  Read'
<1> DEFINE n == Len(s)
           colon == find(Line, ":") # 0
<1>1. /\ requests = qs /\ stream = t /\ answers = s
      /\ Given(qs, t, at) /\ Typed(t) /\ Answered(qs, s)
      /\ connected => Stage(qs, at, n)
  BY Zenon DEF Reading
<1>2. /\ requests' = requests /\ stream' = stream /\ answers' = answers /\ got' = got
      /\ connected' = connected /\ HasCRLF /\ pc = "parse" /\ state = "kExpectHeaders"
      /\ pos' = pos + 1
  BY DEF ParseHeader, client
<1>3. \/ colon /\ request' = addHeader(Line) /\ pc' = pc /\ state' = state
      \/ ~colon /\ state' = "kGotAll" /\ pc' = "request" /\ request' = request
  BY Zenon DEF ParseHeader
<1>4. RequestOK(addHeader(Line))
  BY <1>1, HeaderKeepsRequest, Zenon DEF Typed
<1>5. Typed(t)'
  <2>1. /\ Len(t) \in Nat /\ got \in 0..(2 * Len(t))
    BY <1>1, Zenon DEF Typed
  <2>2. pos + 1 \in 0..Len(t) /\ 2 * (pos + 1) <= got
    BY <1>1, <1>2, LineInStream, Zenon
  <2>3. got' \in 0..(2 * Len(t)) /\ pos' \in 0..Len(t) /\ 2 * pos' <= got'
    BY <1>2, <2>1, <2>2, Zenon
  <2>4. RequestOK(request)'
    <3>1. CASE request' = addHeader(Line)
      BY <1>4, <3>1, Zenon DEF RequestOK
    <3>2. CASE request' = request
      BY <1>1, <3>2, Zenon DEF Typed, RequestOK
    <3>3. QED BY <1>3, <3>1, <3>2, Zenon
  <2>5. /\ pc' \in {"idle", "parse", "bad", "request"}
        /\ state' \in {"kExpectRequestLine", "kExpectHeaders", "kGotAll"}
    BY <1>2, <1>3, Zenon
  <2>6. connected' \in BOOLEAN
    BY <1>1, <1>2, Zenon DEF Typed
  <2>7. QED BY <2>1, <2>3, <2>4, <2>5, <2>6, Zenon DEF Typed
<1> HIDE DEF n, colon
<1>6. ASSUME connected', ~Lost(qs, n) PROVE Stage(qs, at, n)'
  <2>1. Stage(qs, at, n) /\ ~Lost(qs, n)
    BY <1>1, <1>2, <1>6
  <2>2. pc # "request" /\ pc # "bad" /\ state # "kExpectRequestLine"
    BY <1>2
  <2>3. n \in 0..NumRequests /\ InHeaders(qs, at, n)
    BY <2>1, <2>2, Zenon DEF Stage, Between, Complete
  <2> DEFINE q == qs[n + 1]
             l == Len(q.headers)
  <2>4. Next1(qs, n) /\ n + 1 \in R /\ WellFormed(q)
    BY <2>3, Zenon DEF InHeaders, Next1
  <2>5. PICK h \in 0..l : request = Partial(q, h) /\ pos = at[n + 1] + 1 + h
    BY <2>3, Zenon DEF InHeaders
  <2>6. q \in Request /\ at[n + 1] \in Nat
    BY <1>1, <2>3, <2>4, LaidFacts, Zenon
  <2>7. l \in Nat
    BY <2>6, HeadersOf, Zenon
  <2>8. /\ h # l => h \in Nat /\ h + 1 \in 1..l /\ Line = HeaderText(q.headers[h + 1])
        /\ h = l => find(Line, ":") = 0
    BY <1>1, <2>3, <2>4, <2>5, HeaderLineNext, Zenon
  <2>9. CASE h # l
    <3>1. h \in Nat /\ h + 1 \in 1..l /\ Line = HeaderText(q.headers[h + 1])
      BY <2>8, <2>9, Zenon
    <3>2. /\ find(HeaderText(q.headers[h + 1]), ":") # 0
          /\ addHeader(HeaderText(q.headers[h + 1])) = Partial(q, h + 1)
      BY <2>5, <2>6, <3>1, HeaderAdded, Zenon
    <3>3. colon /\ addHeader(Line) = Partial(q, h + 1)
      BY <3>1, <3>2, Zenon DEF colon
    <3>4. request' = Partial(q, h + 1) /\ pc' = "parse" /\ state' = "kExpectHeaders"
      BY <1>2, <1>3, <3>3, Zenon
    <3> DEFINE p == at[n + 1]
    <3>5. pos = p + 1 + h /\ p \in Nat
      BY <2>5, <2>6
    <3> HIDE DEF l, p
    <3>6. pos' = p + 1 + (h + 1) /\ h + 1 \in 0..l
      BY <1>2, <2>7, <3>1, <3>5
    <3>7. InHeaders(qs, at, n)'
      BY <2>4, <3>4, <3>6, Zenon DEF InHeaders, l, p
    <3>8. QED BY <2>3, <3>7, Zenon DEF Stage
  <2>10. CASE h = l
    <3>1. ~colon
      BY <2>8, <2>10, Zenon DEF colon
    <3>2. request' = request /\ pc' = "request"
      BY <1>3, <3>1, Zenon
    <3>3. Partial(q, l) = Meaning(q)
      BY <2>4, <2>6, ComesMeaning, Zenon
    <3>4. request' = Meaning(q)
      BY <2>5, <2>10, <3>2, <3>3, Zenon
    <3> DEFINE p == at[n + 1]
    <3>5. pos = p + 1 + l /\ p \in Nat
      BY <2>5, <2>6, <2>10
    <3> HIDE DEF l, p
    <3>6. pos' = p + 2 + l
      BY <1>2, <2>7, <3>5
    <3>7. Complete(qs, at, n)'
      BY <2>4, <3>2, <3>4, <3>6, Zenon DEF Complete, l, p
    <3>8. QED BY <2>3, <3>7, Zenon DEF Stage
  <2>11. QED BY <2>9, <2>10
<1>7. requests' = qs /\ stream' = t /\ answers' = s
  BY <1>1, <1>2
<1>8. connected' => Stage(qs, at, n)'
  BY <1>6, LostStays, Zenon
<1>9. QED BY <1>1, <1>5, <1>7, <1>8, ReadNext, Zenon DEF n

(* One answer more. *)
LEMMA AnsweredMore ==
  ASSUME NEW qs, NEW s, NEW a, NEW r, Answered(qs, s), Right(qs, Len(s) + 1, a),
         r = Append(s, a)
  PROVE  Answered(qs, r) /\ Len(r) = Len(s) + 1 /\ Len(s) \in Nat
<1> DEFINE n == Len(s)
<1>1. IsSeq(s) /\ \A i \in 1..n : Right(qs, i, s[i])
  BY DEF Answered
<1>2. /\ IsSeq(r) /\ Len(r) = n + 1 /\ r[n + 1] = a
      /\ \A k \in 1..n : r[k] = s[k]
  BY <1>1, Appended
<1>3. n \in Nat
  BY <1>1 DEF IsSeq
<1>4. Right(qs, n + 1, a)
  OBVIOUS
<1> HIDE DEF n
<1>5. ASSUME NEW i \in 1..(n + 1) PROVE Right(qs, i, r[i])
  <2>1. CASE i = n + 1
    BY <1>2, <1>4, <2>1, Zenon
  <2>2. CASE i # n + 1
    <3>1. i \in 1..n
      BY <1>3, <2>2
    <3>2. QED BY <1>1, <1>2, <3>1, Zenon
  <2>3. QED BY <2>1, <2>2
<1>6. QED BY <1>2, <1>3, <1>5, Zenon DEF Answered, n

LEMMA BadRequestRead ==
  ASSUME NEW qs, NEW t, NEW at, NEW s, Reading(qs, t, at, s), BadRequest
  PROVE  Read'
<1> DEFINE n == Len(s)
           a == [seen |-> NewRequest, text |-> BadResponse, asked |-> TRUE]
<1>1. /\ requests = qs /\ stream = t /\ answers = s
      /\ Given(qs, t, at) /\ Typed(t) /\ Answered(qs, s)
      /\ connected => Stage(qs, at, n)
  BY Zenon DEF Reading
<1>2. /\ requests' = requests /\ stream' = stream /\ got' = got /\ pos' = pos
      /\ state' = state /\ request' = request /\ connected' = FALSE
      /\ pc = "bad" /\ pc' = "idle" /\ Send(NewRequest, BadResponse, TRUE)
  BY DEF BadRequest, client, parser
<1>3. Typed(t)'
  <2>1. RequestOK(request)'
    BY <1>1, <1>2, Zenon DEF Typed, RequestOK
  <2>2. pc' \in {"idle", "parse", "bad", "request"} /\ connected' \in BOOLEAN
    BY <1>2, Zenon
  <2>3. QED BY <1>1, <1>2, <2>1, <2>2, Zenon DEF Typed
<1>4. PICK r : answers' = r
  OBVIOUS
<1>5. Answered(qs, r)
  <2>1. CASE connected
    <3>1. r = Append(s, a)
      BY <1>1, <1>2, <1>4, <2>1 DEF Send
    <3>2. a.text = BadResponse
      OBVIOUS
    <3>3. Stage(qs, at, n) /\ n \in Nat
      BY <1>1, <2>1 DEF Answered, IsSeq
    <3> HIDE DEF n, a
    <3>4. pc \notin {"idle", "parse"} /\ pc # "request"
      BY <1>2
    <3>5. Lost(qs, n) \/ Unreadable(qs, n)
      BY <3>3, <3>4, Zenon DEF Stage, Between, InHeaders, Complete
    <3>6. (n + 1 > 1 <=> n > 0) /\ (n + 1) - 1 = n
      BY <3>3
    <3>7. Right(qs, n + 1, a)
      BY <3>2, <3>5, <3>6, Zenon DEF Right, Meant, Unreadable, Spoilt
    <3>8. QED BY <1>1, <3>1, <3>7, AnsweredMore, Zenon DEF n
  <2>2. CASE ~connected
    <3>1. r = s
      BY <1>1, <1>2, <1>4, <2>2 DEF Send
    <3>2. QED BY <1>1, <3>1
  <2>3. QED BY <2>1, <2>2
<1>6. connected' => Stage(qs, at, Len(r))'
  BY <1>2
<1>7. requests' = qs /\ stream' = t
  BY <1>1, <1>2
<1>8. QED BY <1>1, <1>3, <1>4, <1>5, <1>6, <1>7, ReadNext, Zenon

LEMMA StatusRead ==
  ASSUME NEW code, NEW headers \in Seq(PageHeaders), NEW body, NEW on \in BOOLEAN
  PROVE  NotBad(appendToBuffer(Response(code, headers, body, on)))
<1>0. Silent(PageHeaders)
  BY DEF Silent, PageHeaders
<1> DEFINE text == appendToBuffer(Response(code, headers, body, on))
<1>1. CASE on = TRUE
  <2>1. ReadsClosing(text, code)
    BY <1>0, <1>1, ClosingText
  <2> HIDE DEF text
  <2>2. QED BY <2>1, CloseText, Zenon DEF text
<1>2. CASE on = FALSE
  <2>1. ReadsOpen(text, code, body)
    BY <1>0, <1>2, KeepAliveText
  <2> HIDE DEF text
  <2>2. QED BY <2>1, OpenText, Zenon DEF text
<1>3. QED BY <1>1, <1>2

(* The answer to a request that is complete, and the stage after it. *)
LEMMA RequestAnswered ==
  ASSUME NEW qs, NEW t, NEW at, NEW n \in 0..NumRequests, NEW a,
         Given(qs, t, at), Complete(qs, at, n), a.seen = request, a.text # BadResponse,
         pos' = pos, pc' = "idle", state' = "kExpectRequestLine", request' = NewRequest
  PROVE  Right(qs, n + 1, a) /\ (~Lost(qs, n + 1) => Stage(qs, at, n + 1)')
<1> DEFINE q == qs[n + 1]
           l == Len(q.headers)
<1>1. /\ n + 1 \in R /\ ~Spoilt(qs, n) /\ WellFormed(q) /\ request = Meaning(q)
      /\ pos = at[n + 1] + 2 + l
  BY Zenon DEF Complete, Next1
<1>2. n \in Nat /\ n + 1 \in 0..NumRequests /\ (n + 1 > 1 <=> n > 0) /\ (n + 1) - 1 = n
  <2>1. NumRequests \in Nat /\ R = 1..NumRequests
    BY LaidFacts, Zenon
  <2>2. n \in 0..NumRequests /\ n + 1 \in 1..NumRequests
    BY <1>1, <2>1, Zenon
  <2>3. QED BY <2>1, <2>2
<1>3. Right(qs, n + 1, a)
  <2>1. ~(n + 1 > 1 /\ qs[(n + 1) - 1].junk)
    BY <1>1, <1>2, Zenon DEF Spoilt
  <2>2. a.seen = Meaning(q)
    BY <1>1, Zenon
  <2>3. QED BY <1>1, <2>1, <2>2, Zenon DEF Right, Meant
<1>4. ASSUME ~Lost(qs, n + 1) PROVE Stage(qs, at, n + 1)'
  <2>1. q \in Request /\ at[n + 1] \in Nat
    BY <1>1, LaidFacts, Zenon
  <2>2. l \in Nat
    BY <2>1, HeadersOf, Zenon
  <2>3. at[(n + 1) + 1] = at[n + 1] + LinesIn(q)
    BY <1>1, Zenon DEF Given, Laid
  <2> DEFINE g == q.junk
             p == at[n + 1]
             z == at[(n + 1) + 1]
             e == Len(Front(q.body))
  <2>4. n + 1 > 0
    BY <1>2
  <2>5. e = 0
    BY <1>2, <1>4, <2>1, <2>4, NotLost, BodyLines, Zenon
  <2>6. LinesIn(q) = 2 + l + (IF g THEN 1 ELSE 0) + e
    BY DEF LinesIn, HeadLines
  <2>7. Left(qs, n + 1) = (IF g THEN 1 ELSE 0)
    BY <2>4, Zenon DEF Left
  <2>8. pos' = p + 2 + l /\ p \in Nat /\ z = p + LinesIn(q)
    BY <1>1, <2>1, <2>3
  <2> HIDE DEF g, p, z, l, e
  <2>9. pos' + Left(qs, n + 1) = z
    BY <2>2, <2>5, <2>6, <2>7, <2>8
  <2>10. pc' \in {"idle", "parse"}
    OBVIOUS
  <2>11. Between(qs, at, n + 1)'
    BY <2>9, <2>10, Zenon DEF Between, z
  <2>12. QED BY <1>2, <2>11, Zenon DEF Stage
<1>5. QED BY <1>3, <1>4

LEMMA OnRequestRead ==
  ASSUME NEW qs, NEW t, NEW at, NEW s, Reading(qs, t, at, s),
         NEW code, NEW headers \in Seq(PageHeaders),
         NEW body, NEW on \in BOOLEAN, OnRequest(code, headers, body, on)
  PROVE  Read'
<1> DEFINE n == Len(s)
           text == appendToBuffer(Response(code, headers, body, on))
           asked == on # Close(request)
           a == [seen |-> request, text |-> text, asked |-> asked]
<1>1. /\ requests = qs /\ stream = t /\ answers = s
      /\ Given(qs, t, at) /\ Typed(t) /\ Answered(qs, s)
      /\ connected => Stage(qs, at, n)
  BY Zenon DEF Reading
<1>2. /\ requests' = requests /\ stream' = stream /\ got' = got /\ pos' = pos
      /\ state' = "kExpectRequestLine" /\ request' = NewRequest
      /\ connected' = (connected /\ ~on) /\ pc = "request" /\ pc' = "idle"
      /\ Send(request, text, asked)
  BY DEF OnRequest, reset, client, Response
<1>3. a.seen = request /\ a.text # BadResponse
  <2>1. a.seen = request /\ a.text = text
    OBVIOUS
  <2>2. NotBad(text)
    BY StatusRead, Zenon
  <2> HIDE DEF text, a
  <2>3. QED BY <2>1, <2>2, Zenon DEF NotBad
<1> HIDE DEF text, asked
<1>4. Typed(t)'
  <2>1. RequestOK(request)'
    <3>1. RequestOK(NewRequest)
      BY NewRequestOK
    <3>2. QED BY <1>2, <3>1, Zenon DEF RequestOK
  <2>2. /\ pc' \in {"idle", "parse", "bad", "request"} /\ connected' \in BOOLEAN
        /\ state' \in {"kExpectRequestLine", "kExpectHeaders", "kGotAll"}
    BY <1>1, <1>2 DEF Typed
  <2>3. QED BY <1>1, <1>2, <2>1, <2>2, Zenon DEF Typed
<1>5. PICK r : answers' = r
  OBVIOUS
<1>6. requests' = qs /\ stream' = t
  BY <1>1, <1>2
<1>7. CASE connected
  <2>1. r = Append(s, a)
    BY <1>1, <1>2, <1>5, <1>7 DEF Send
  <2>2. Stage(qs, at, n)
    BY <1>1, <1>7
  <2>3. pc \notin {"idle", "parse"} /\ pc # "bad"
    BY <1>2
  <2> HIDE DEF n, a
  <2>4. n \in Nat /\ (n + 1) - 1 = n
    <3>1. n \in Nat
      BY <1>1 DEF Answered, IsSeq, n
    <3>2. QED BY <3>1
  <2>5. CASE Lost(qs, n)
    <3>1. Right(qs, n + 1, a)
      BY <2>4, <2>5, Zenon DEF Right
    <3>2. Answered(qs, r) /\ Len(r) = n + 1
      BY <1>1, <2>1, <3>1, AnsweredMore, Zenon DEF n
    <3>3. Lost(qs, n + 1)
      <4>1. 1..n \subseteq 1..(n + 1)
        BY <2>4
      <4>2. QED BY <2>5, <4>1, Zenon DEF Lost
    <3>4. Stage(qs, at, Len(r))'
      BY <3>2, <3>3, LostStays, Zenon
    <3>5. QED BY <1>1, <1>4, <1>5, <1>6, <3>2, <3>4, ReadNext, Zenon
  <2>6. CASE ~Lost(qs, n)
    <3>1. n \in 0..NumRequests /\ Complete(qs, at, n)
      BY <2>2, <2>3, <2>6, Zenon DEF Stage, Between, InHeaders
    <3>2. Right(qs, n + 1, a) /\ (~Lost(qs, n + 1) => Stage(qs, at, n + 1)')
      BY <1>1, <1>2, <1>3, <3>1, RequestAnswered, Zenon
    <3>3. Answered(qs, r) /\ Len(r) = n + 1
      BY <1>1, <2>1, <3>2, AnsweredMore, Zenon DEF n
    <3>4. Stage(qs, at, n + 1)'
      BY <3>2, LostStays, Zenon
    <3>5. Stage(qs, at, Len(r))'
      BY <3>3, <3>4, Zenon
    <3>6. QED BY <1>1, <1>4, <1>5, <1>6, <3>3, <3>5, ReadNext, Zenon
  <2>7. QED BY <2>5, <2>6
<1>8. CASE ~connected
  <2>1. r = s
    BY <1>1, <1>2, <1>5, <1>8 DEF Send
  <2>2. Answered(qs, r)
    BY <1>1, <2>1
  <2>3. connected' => Stage(qs, at, Len(r))'
    BY <1>2, <1>8
  <2>4. QED BY <1>1, <1>4, <1>5, <1>6, <2>2, <2>3, ReadNext, Zenon
<1>9. QED BY <1>7, <1>8

LEMMA CallbackRead ==
  ASSUME NEW qs, NEW t, NEW at, NEW s, Reading(qs, t, at, s), httpCallback
  PROVE  Read'
<1> DEFINE page == <<"Content-Type: text/html">>
           none == <<>>
           codes == {200, 400}
<1>1. page \in Seq(PageHeaders)
  BY Singleton DEF PageHeaders
<1>2. none \in Seq(PageHeaders)
  BY EmptySeq
<1>0. \/ \E code \in codes, on \in BOOLEAN : OnRequest(code, page, 5, on)
      \/ OnRequest(404, none, 0, TRUE)
  BY Zenon DEF httpCallback
<1> HIDE DEF page, none, codes
<1>3. ASSUME NEW code \in codes, NEW on \in BOOLEAN, OnRequest(code, page, 5, on)
      PROVE  Read'
  BY <1>1, <1>3, OnRequestRead
<1>4. CASE OnRequest(404, none, 0, TRUE)
  <2>1. TRUE \in BOOLEAN
    OBVIOUS
  <2>2. QED BY <1>2, <1>4, <2>1, OnRequestRead, Zenon
<1>5. QED BY <1>0, <1>3, <1>4, Zenon

LEMMA StutterRead ==
  ASSUME NEW qs, NEW t, NEW at, NEW s, Reading(qs, t, at, s), UNCHANGED vars
  PROVE  Read'
<1>1. /\ requests' = requests /\ stream' = stream /\ answers' = answers /\ pos' = pos
      /\ state' = state /\ request' = request /\ connected' = connected
      /\ got' = got /\ pc' = pc
  BY DEF vars, client, parser
<1>2. /\ requests = qs /\ stream = t /\ answers = s
      /\ Given(qs, t, at) /\ Typed(t) /\ Answered(qs, s)
      /\ connected => Stage(qs, at, Len(s))
  BY Zenon DEF Reading
<1>3. Typed(t)'
  BY <1>1, <1>2, Zenon DEF Typed, RequestOK
<1>4. connected' => Stage(qs, at, Len(s))'
  <2>1. ASSUME connected, ~Lost(qs, Len(s)) PROVE Stage(qs, at, Len(s))'
    BY <1>1, <1>2, <2>1, Zenon DEF Stage, Between, InHeaders, Complete
  <2>2. QED BY <1>1, <2>1, LostStays, Zenon
<1>5. requests' = qs /\ stream' = t /\ answers' = s
  BY <1>1, <1>2
<1>6. QED BY <1>2, <1>3, <1>4, <1>5, ReadNext, Zenon

LEMMA ReadStep == ASSUME Read, [Next]_vars PROVE Read'
<1>1. PICK qs, t, at, s : Reading(qs, t, at, s)
  BY DEF Read
<1>2. CASE ClientSends \/ NeedMore
  <2>1. Waits
    BY <1>2 DEF ClientSends, Arrive, Waits
  <2>2. QED BY <1>1, <2>1, WaitsRead, Zenon
<1>3. CASE ParseRequestLine
  BY <1>1, <1>3, RequestLineRead, Zenon
<1>4. CASE ParseHeader
  BY <1>1, <1>4, HeaderLineRead, Zenon
<1>5. CASE BadRequest
  BY <1>1, <1>5, BadRequestRead, Zenon
<1>6. CASE httpCallback
  BY <1>1, <1>6, CallbackRead, Zenon
<1>7. CASE UNCHANGED vars
  BY <1>1, <1>7, StutterRead, Zenon
<1>8. QED BY <1>2, <1>3, <1>4, <1>5, <1>6, <1>7, Zenon DEF Next, OnMessage

(* However the stream is cut, requests are answered in order, none twice and none left
   out, and the user is given each as its sender meant it; only a request that is not
   well-formed, or that follows one with a line without a colon, is answered as a bad
   one.  This up to and including the first request that has a body: parseRequest takes
   no body out of the buffer and reads it as more requests. *)
THEOREM AlwaysInOrder == Spec => []AnswersInOrder
<1>1. Read /\ [Next]_vars => Read'
  BY ReadStep
<1>2. QED BY <1>1, InitRead, ReadIsAnswersInOrder, PTL DEF Spec
=============================================================================
