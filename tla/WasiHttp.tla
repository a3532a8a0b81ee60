------------------------------ MODULE WasiHttp ------------------------------
(***************************************************************************)
(* The HTTP/1.1 client of the virtual machine's command-line tools         *)
(* (registry/native/crates/libs/wasi-http): HttpClient.send and send_sse   *)
(* over one socket, response framing, and SseReader.                       *)
(*                                                                         *)
(* Bytes are tokens: "CR", "LF", one token for a header line, a chunk size *)
(* or a piece of text.  The server decides what it answers and where the   *)
(* connection ends; recv returns any number of tokens up to RECV.          *)
(***************************************************************************)
EXTENDS Integers, Sequences, SequencesExt

CONSTANTS
  Urls,          \* URLs as sequences of tokens
  Replies,       \* [framing, body]: what the server means to answer
  LengthLine,    \* the Content-Length line for each length of a body
  SizeLine,      \* the size line for each size of a chunk, 0 included
  MaxChunk,      \* the most tokens the server puts into a chunk
  RECV,          \* size of the receive buffer
  MaxHeader,     \* 64 KB in the code
  CompactAfter   \* 8192 in the code

ASSUME Sizes == RECV \in Nat \ {0} /\ MaxHeader \in Nat /\ CompactAfter \in Nat

\* A URL has a token for its scheme.
ASSUME UrlTokens == Urls \subseteq Seq(STRING) \ {<<>>}

\* The server can announce every body and every chunk it sends, and a line says
\* one number only.
ASSUME Lines ==
  /\ \A r \in Replies :
       /\ r.framing \in {"length", "chunked", "overrun", "close", "big", "garbage"}
       /\ r.body \in Seq(STRING) /\ Len(r.body) \in DOMAIN LengthLine
  /\ \A n \in DOMAIN LengthLine :
       /\ LengthLine[n] \in STRING \ {"status", "nostatus", "chunked", "x", "y", "CR", "LF"}
       /\ \A k \in DOMAIN LengthLine : LengthLine[k] = LengthLine[n] => k = n
  /\ MaxChunk \in Nat \ {0} /\ DOMAIN SizeLine = 0 .. MaxChunk
  /\ \A n \in 0 .. MaxChunk :
       /\ SizeLine[n] \in STRING \ {"CR", "LF"}
       /\ \A k \in 0 .. MaxChunk : SizeLine[k] = SizeLine[n] => k = n

None == "none"
CRLF == <<"CR", "LF">>

VARIABLES
  phase,     \* where the client is
  sse,       \* send_sse and not send
  url,       \* the request's URL while it is needed
  socket,    \* "none", "open" or "closed"
  unsent,    \* tokens of the request still to be sent
  reply,     \* what the server means, None before it answers
  wire,      \* what is still to arrive; then recv returns 0
  cut,       \* how many tokens of the reply the connection lost at its end
  buf, body, need, offset, done,
  events,    \* history: what next_event returned
  failedIn   \* where the exchange failed, None when it did not

httpVars == <<phase, sse, url, socket, unsent, reply, wire, cut, buf, body, need,
          offset, done, events, failedIn>>

---------------------------------------------------------------------------
(* Url.                                                                    *)

PortOf(tokens) == CASE tokens = <<"80">> -> 80 [] tokens = <<"443">> -> 443
                    [] tokens = <<"8080">> -> 8080 [] OTHER -> -1
DefaultPort(scheme) == IF scheme = "https://" THEN 443 ELSE 80

IndexesOf(t, s) == {i \in DOMAIN s : s[i] = t}
LeastOf(S) == CHOOSE i \in S : \A j \in S : i <= j
GreatestOf(S) == CHOOSE i \in S : \A j \in S : j <= i
Upto(s, n) == SubSeq(s, 1, n)
From(s, n) == SubSeq(s, n, Len(s))

\* The host ends at "]" or at the last ":"; what follows must be a port.
Authority(a, scheme) ==
  LET bracket == IndexesOf("]", a)
      colon == IndexesOf(":", a)
      end == LeastOf(bracket)
  IN  IF bracket # {}
      THEN [host |-> Upto(a, end),
            port |-> IF Len(a) > end /\ a[end + 1] = ":" THEN PortOf(From(a, end + 2))
                     ELSE DefaultPort(scheme)]
      ELSE IF colon # {}
      THEN [host |-> Upto(a, GreatestOf(colon) - 1), port |-> PortOf(From(a, GreatestOf(colon) + 1))]
      ELSE [host |-> a, port |-> DefaultPort(scheme)]

\* Url.parse: a port that is not a number is an error, port -1 here.
parse(tokens) ==
  LET rest == Tail(tokens)
      slash == IndexesOf("/", rest)
      a == Authority(IF slash = {} THEN rest ELSE Upto(rest, LeastOf(slash) - 1), Head(tokens))
  IN  IF Head(tokens) \notin {"http://", "https://"} THEN [ok |-> FALSE]
      ELSE [ok |-> a.port # -1, scheme |-> Head(tokens), host |-> a.host, port |-> a.port,
            path |-> IF slash = {} THEN <<"/">> ELSE From(rest, LeastOf(slash))]

PortTokens(port) == <<CASE port = 80 -> "80" [] port = 443 -> "443" [] OTHER -> "8080">>
host_header(u) ==
  IF u.port = DefaultPort(u.scheme) THEN u.host ELSE u.host \o <<":">> \o PortTokens(u.port)

---------------------------------------------------------------------------
(* Request and connection.                                                 *)

\* to_bytes: request line, Host, user headers, Content-Length for a body that
\* has none, Connection unless set, blank line, body.
to_bytes(u, headers, content) ==
  <<"line", "host">> \o headers
    \o (IF content # <<>> /\ "length" \notin Range(headers) THEN <<"length">> ELSE <<>>)
    \o (IF "connection" \notin Range(headers) THEN <<"connection">> ELSE <<>>)
    \o CRLF \o content

Close == socket' = "closed"
GiveUp(where) == phase' = "over" /\ failedIn' = where

\* get, post_json, a request with headers, and one that streams.
Request ==
  /\ phase = "idle"
  /\ \E raw \in Urls, stream \in BOOLEAN, req \in {<<<<>>, <<>>>>, <<<<"type">>, <<"json">>>>} :
       LET u == parse(raw) IN
       /\ sse' = stream
       /\ IF u.ok THEN phase' = "connect" /\ url' = u /\ unsent' = to_bytes(u, req[1], req[2]) /\ UNCHANGED failedIn
          ELSE GiveUp("url") /\ UNCHANGED <<url, unsent>>
  /\ UNCHANGED <<socket, reply, wire, cut, buf, body, need, offset, done, events>>

\* connect: a socket that cannot be connected or secured is closed again.
Connect ==
  /\ phase = "connect"
  /\ \/ GiveUp("socket") /\ UNCHANGED socket
     \/ GiveUp("connect") /\ Close
     \/ url.scheme = "https://" /\ GiveUp("tls") /\ Close
     \/ phase' = "send" /\ socket' = "open" /\ UNCHANGED failedIn
  /\ url' = [ok |-> FALSE]
  /\ UNCHANGED <<sse, unsent, reply, wire, cut, buf, body, need, offset, done, events>>

\* send_all: partial sends until everything is out; its error leaves at once
\* and the socket stays open.
SendAll ==
  /\ phase = "send"
  /\ \/ /\ \E n \in 1 .. Len(unsent) : unsent' = From(unsent, n + 1)
        /\ phase' = IF unsent' = <<>> THEN "answer" ELSE phase
        /\ UNCHANGED failedIn
     \/ GiveUp("send") /\ unsent' = <<>>
  /\ UNCHANGED <<sse, url, socket, reply, wire, cut, buf, body, need, offset, done, events>>

---------------------------------------------------------------------------
(* The server: a status line, the framing header, the body as framed.      *)

\* The chunks of the last n tokens of s, as full as they can be, and the end.
Chunks(s) ==
  LET last[n \in 0 .. Len(s)] ==
        LET size == IF n < MaxChunk THEN n ELSE MaxChunk
            from == Len(s) - n
        IN  IF n = 0 THEN <<SizeLine[0]>> \o CRLF \o CRLF
            ELSE <<SizeLine[size]>> \o CRLF \o SubSeq(s, from + 1, from + size) \o CRLF
                   \o last[n - size]
  IN  last[Len(s)]

StatusAndHeaders(r) ==
  <<IF r.framing = "garbage" THEN "nostatus" ELSE "status">> \o CRLF
    \o (CASE r.framing \in {"length", "overrun"} -> <<LengthLine[Len(r.body)]>> \o CRLF
          [] r.framing = "chunked" -> <<"chunked">> \o CRLF
          [] r.framing = "big" -> <<"x">> \o CRLF \o <<"y">> \o CRLF
          [] OTHER -> <<>>)
    \o CRLF
Framed(r) == CASE r.framing = "chunked" -> Chunks(r.body)
               [] r.framing = "overrun" -> r.body \o <<"more">>
               [] OTHER -> r.body

Answer ==
  /\ phase = "answer"
  /\ \E r \in Replies :
       LET full == StatusAndHeaders(r) \o Framed(r) IN
       /\ reply' = r
       /\ \E n \in 0 .. Len(full) : wire' = Upto(full, n) /\ cut' = Len(full) - n
  /\ phase' = "headers"
  /\ UNCHANGED <<sse, url, socket, unsent, buf, body, need, offset, done, events, failedIn>>

---------------------------------------------------------------------------
(* Reading the response.                                                   *)

Occurs(sep, s) == {i \in DOMAIN s : i + Len(sep) - 1 <= Len(s) /\ SubSeq(s, i, i + Len(sep) - 1) = sep}
find_header_end(s) == Occurs(CRLF \o CRLF, s)
find_crlf(s) == Occurs(CRLF, s)
find_double_newline(s) == Occurs(<<"LF", "LF">>, s)

\* What read_response does with the header lines: chunked first, then a
\* Content-Length that parses, else until the connection closes.
parse_response_headers(h) ==
  IF h[1] # "status" THEN "error"
  ELSE IF "chunked" \in Range(h) THEN "chunked"
  ELSE IF \E n \in DOMAIN LengthLine : LengthLine[n] \in Range(h) THEN "length"
  ELSE "close"
content_length(h) == CHOOSE n \in DOMAIN LengthLine : LengthLine[n] \in Range(h)

\* The end of an exchange of `send`: the socket is closed whatever happened.
Finish(where) ==
  /\ phase' = "over" /\ failedIn' = where
  /\ socket' = IF sse THEN socket ELSE "closed"

BodyPhase(h, rest) ==
  LET kind == parse_response_headers(h) IN
  IF kind = "error" THEN Finish("protocol") /\ UNCHANGED <<buf, need>>
  ELSE /\ phase' = IF sse THEN "events" ELSE kind
       /\ buf' = rest
       /\ need' = IF ~sse /\ kind = "length" THEN content_length(h) ELSE -1
       /\ UNCHANGED <<socket, failedIn>>

\* recv either fails, returns 0 at the end of the wire, or some tokens.
RecvFails ==
  /\ phase \in {"headers", "length", "chunked", "close"}
  /\ Finish("recv")
  /\ UNCHANGED <<sse, url, unsent, reply, wire, cut, buf, body, need, offset, done, events>>

\* read_headers: the limit is looked at only when the end was not found.
read_headers(got) ==
  LET b == buf \o got
      ends == find_header_end(b)
  IN  IF ends # {} THEN BodyPhase(Upto(b, LeastOf(ends) - 1), From(b, LeastOf(ends) + 4))
      ELSE IF Len(b) > MaxHeader THEN Finish("protocol") /\ UNCHANGED <<buf, need>>
      ELSE buf' = b /\ UNCHANGED <<phase, failedIn, socket, need>>

Headers ==
  /\ phase = "headers"
  /\ IF wire = <<>> THEN Finish("protocol") /\ UNCHANGED <<wire, buf, need>>
     ELSE \E n \in 1 .. RECV : n <= Len(wire) /\ wire' = From(wire, n + 1) /\ read_headers(Upto(wire, n))
  /\ UNCHANGED <<sse, url, unsent, reply, cut, body, offset, done, events>>

\* mutant: what follows the body is kept
OverrunKept(b, length) == b

\* The bodies that end at a length, or when the connection does; an early end
\* of a body with a length is accepted.
Truncated(b, length) == IF Len(b) > length THEN Upto(b, length) ELSE b

\* mutant: a recv of 0 bytes is not taken for the end
NoEofCheck ==
  /\ phase \in {"length", "close"}
  /\ IF phase = "length" /\ Len(buf) >= need
     THEN body' = Truncated(buf, need) /\ Finish(None) /\ buf' = <<>> /\ UNCHANGED wire
     ELSE /\ \E n \in 0 .. RECV : n <= Len(wire) /\ buf' = buf \o Upto(wire, n) /\ wire' = From(wire, n + 1)
          /\ UNCHANGED <<phase, failedIn, socket, body>>
  /\ UNCHANGED <<sse, url, unsent, reply, cut, need, offset, done, events>>

ReadPlain ==
  /\ phase \in {"length", "close"}
  /\ IF wire = <<>> \/ (phase = "length" /\ Len(buf) >= need)
     THEN /\ body' = IF phase = "length" THEN Truncated(buf, need) ELSE buf
          /\ Finish(None) /\ buf' = <<>> /\ UNCHANGED wire
     ELSE /\ \E n \in 1 .. RECV : n <= Len(wire) /\ buf' = buf \o Upto(wire, n) /\ wire' = From(wire, n + 1)
          /\ UNCHANGED <<phase, failedIn, socket, body>>
  /\ UNCHANGED <<sse, url, unsent, reply, cut, need, offset, done, events>>

\* read_chunked_body: need is the size of the chunk being read, -1 while its
\* size line is.  A chunk is complete only with the CR LF behind it.
Recv ==
  /\ IF wire = <<>> THEN Finish("protocol") /\ UNCHANGED <<wire, buf>>
     ELSE /\ \E n \in 1 .. RECV : n <= Len(wire) /\ buf' = buf \o Upto(wire, n) /\ wire' = From(wire, n + 1)
          /\ UNCHANGED <<phase, failedIn, socket>>
  /\ UNCHANGED <<body, need>>
ChunkData ==
  IF Len(buf) < need + 2 THEN Recv
  ELSE /\ body' = body \o Upto(buf, need) /\ buf' = From(buf, need + 3) /\ need' = -1
       /\ UNCHANGED <<phase, failedIn, socket, wire>>
\* The number in a size line, -1 if there is none.
SizeIn(t) == IF \E n \in DOMAIN SizeLine : SizeLine[n] = t
             THEN CHOOSE n \in DOMAIN SizeLine : SizeLine[n] = t ELSE -1
ChunkSize ==
  IF find_crlf(buf) = {} THEN Recv
  ELSE LET p == LeastOf(find_crlf(buf))
           size == IF p = 2 THEN SizeIn(buf[1]) ELSE -1
       IN  /\ buf' = From(buf, p + 2)
           /\ IF size < 0 THEN Finish("protocol") /\ UNCHANGED need
              ELSE IF size = 0 THEN Finish(None) /\ UNCHANGED need
              ELSE need' = size /\ UNCHANGED <<phase, failedIn, socket>>
           /\ UNCHANGED <<wire, body>>
ReadChunked ==
  /\ phase = "chunked"
  /\ IF need = -1 THEN ChunkSize ELSE ChunkData
  /\ UNCHANGED <<sse, url, unsent, reply, cut, offset, done, events>>

---------------------------------------------------------------------------
(* SseReader: events end at a blank line; the offset moves over the buffer *)
(* and the buffer is cut now and then.                                     *)

parse_sse_event(block) == SelectSeq(block, LAMBDA t : t \notin {"CR", "LF"})

Compact(b, o) == IF o > CompactAfter THEN <<From(b, o + 1), 0>> ELSE <<b, o>>

NextEvent ==
  /\ phase = "events" /\ ~done
  /\ LET rest == From(buf, offset + 1)
         ends == find_double_newline(rest)
         c == Compact(buf, offset + LeastOf(ends) + 1)
     IN  \/ /\ ends # {}
            /\ events' = Append(events, parse_sse_event(Upto(rest, LeastOf(ends) - 1)))
            /\ buf' = c[1] /\ offset' = c[2]
            /\ UNCHANGED <<wire, done, failedIn>>
         \/ /\ ends = {} /\ wire # <<>>
            /\ \E n \in 1 .. RECV : n <= Len(wire) /\ buf' = buf \o Upto(wire, n) /\ wire' = From(wire, n + 1)
            /\ UNCHANGED <<done, events, offset, failedIn>>
         \/ /\ ends = {} /\ wire = <<>>
            /\ done' = TRUE
            /\ events' = IF parse_sse_event(rest) = <<>> THEN events
                         ELSE Append(events, parse_sse_event(rest))
            /\ UNCHANGED <<wire, buf, offset, failedIn>>
         \/ /\ ends = {}
            /\ done' = TRUE /\ failedIn' = "recv"
            /\ UNCHANGED <<wire, buf, offset, events>>
  /\ UNCHANGED <<phase, sse, url, socket, unsent, reply, cut, body, need>>

\* The caller closes the reader.
CloseReader ==
  /\ phase = "events" /\ done
  /\ phase' = "over" /\ Close
  /\ UNCHANGED <<sse, url, unsent, reply, wire, cut, buf, body, need, offset, done, events, failedIn>>

---------------------------------------------------------------------------
HttpInit ==
  /\ phase = "idle" /\ sse = FALSE /\ url = [ok |-> FALSE] /\ socket = "none"
  /\ unsent = <<>> /\ reply = [framing |-> None] /\ wire = <<>> /\ cut = 0
  /\ buf = <<>> /\ body = <<>> /\ need = -1 /\ offset = 0 /\ done = FALSE
  /\ events = <<>> /\ failedIn = None

Step == Request \/ Connect \/ SendAll \/ Answer \/ Headers \/ ReadPlain
        \/ ReadChunked \/ NextEvent \/ CloseReader
Over == phase = "over" /\ UNCHANGED httpVars
HttpNext == Step \/ RecvFails \/ Over

HttpSpec == HttpInit /\ [][HttpNext]_httpVars

---------------------------------------------------------------------------
HttpTypeOK ==
  /\ phase \in {"idle", "connect", "send", "answer", "headers", "length", "chunked", "close", "events", "over"}
  /\ socket \in {"none", "open", "closed"} /\ sse \in BOOLEAN /\ done \in BOOLEAN /\ cut \in Nat
  /\ need \in Nat \cup {-1} /\ offset \in 0 .. Len(buf)

\* A response that is not an error carries the body the server framed, however
\* recv cut it: never more, and all of it if the reply was chunked or complete
\* (read_response and the three body readers).
BodyAsFramed ==
  phase = "over" /\ ~sse /\ failedIn = None =>
    /\ IsPrefix(body, reply.body)
    /\ reply.framing = "chunked" \/ cut = 0 => body = reply.body

\* The blocks of a text: what stands between two line feeds in a row (a blank
\* line that ends in CR LF is none), and what is left at the end.
Blocks(s) ==
  LET scan[n \in 0 .. Len(s)] ==   \* after n tokens: the blocks so far, the one begun
        LET before == scan[n - 1]
            n0 == Len(before.begun)
        IN  IF n = 0 THEN [blocks |-> <<>>, begun |-> <<>>]
            ELSE IF s[n] = "LF" /\ n0 > 0 /\ before.begun[n0] = "LF"
            THEN [blocks |-> Append(before.blocks, parse_sse_event(SubSeq(before.begun, 1, n0 - 1))),
                  begun |-> <<>>]
            ELSE [blocks |-> before.blocks, begun |-> Append(before.begun, s[n])]
      end == scan[Len(s)]
  IN  IF parse_sse_event(end.begun) = <<>> THEN end.blocks
      ELSE Append(end.blocks, parse_sse_event(end.begun))
\* The events of a stream are the blocks of the body the server sent, up to where
\* the connection ended, each once and in order, whatever recv returns and
\* whenever the buffer is cut (SseReader.next_event).  Two framings are excepted:
\* send_sse hands the socket over without a look at the headers, so the size lines
\* of a chunked body, and what follows a Content-Length, are read as event text,
\* although the head of lib.rs has streamed events and chunked bodies supported.
EventsAsSent ==
  phase = "over" /\ sse /\ failedIn = None /\ reply.framing \notin {"chunked", "overrun"} =>
    events = Blocks(Upto(reply.body, Len(reply.body) - cut))

\* A socket outlives its exchange only when sending failed, or when reading
\* the headers of a stream did: nothing else leaves it open (send, send_sse).
ClosedUnlessSendFailed ==
  phase = "over" /\ socket = "open" =>
    failedIn = "send" \/ (sse /\ failedIn \in {"protocol", "recv"})

\* The headers take no more memory than the limit and one receive buffer.
HeadersBounded == phase = "headers" => Len(buf) <= MaxHeader

\* The Host header names the server the client connected to: parsed back with
\* the same scheme it gives the same host and port (host_header, Url.parse).
HostNamesServer ==
  phase = "connect" /\ ("]" \in Range(url.host) \/ ":" \notin Range(url.host)) =>
    LET again == parse(<<url.scheme>> \o host_header(url) \o url.path)
    IN  again = url

\* An exchange of wasi-http hands over what the server sent (a streamed body only
\* if it is neither chunked nor overrun), to the host that was named, within the
\* limits, and leaves a socket open on the known failures only.
ExchangeIsFaithful ==
  /\ HttpTypeOK /\ BodyAsFramed /\ EventsAsSent
  /\ ClosedUnlessSendFailed /\ HeadersBounded /\ HostNamesServer

\* Every exchange that has begun comes to an end.
ExchangeEnds == (phase # "idle") ~> (phase = "over")
=============================================================================
