-------------------------- MODULE AnthropicStream --------------------------
(***************************************************************************)
(* The kernel's own Anthropic client, engine/src/anthropic/: credentials,  *)
(* send_with_retry with its backoff (client.rs), and the event stream:     *)
(* MessageStream.next_event over SseParser (sse.rs).                       *)
(*                                                                         *)
(* The body of a streamed answer is a sequence of tokens: one per line of  *)
(* text, and "CR" and "LF".  It arrives in chunks cut anywhere; a cut      *)
(* inside a line only delays that line's token.  The server renders        *)
(* `frames`, so what should be delivered is known without parsing.         *)
(***************************************************************************)
EXTENDS Integers, Sequences, FiniteSets, SequencesExt

CONSTANTS
  Environments,    \* values of the two credential variables
  FrameLists,      \* what the server may send: sequences of frames, a frame a
                   \* sequence of lines
  LineEnds,        \* <<"LF">>, <<"CR", "LF">>
  Events,          \* payloads (sequences of data lines) that parse
  MaxRetries,      \* the limits with_retry_policy may be given
  INITIAL_BACKOFF, MAX_BACKOFF,
  SHIFT_WIDTH      \* 32 in the code: 1_u32.checked_shl(n) fails from here on

ASSUME RetryPolicy ==
  /\ MaxRetries \subseteq Nat /\ SHIFT_WIDTH \in Nat \ {0}
  /\ INITIAL_BACKOFF \in Nat \ {0} /\ MAX_BACKOFF \in Nat \ {0}

\* An event stream: no frame is empty, and no line holds the end of one.
ASSUME EventStreams ==
  /\ FrameLists \subseteq Seq(Seq(STRING \ {"CR", "LF"}) \ {<<>>})
  /\ LineEnds \subseteq {<<"LF">>, <<"CR", "LF">>}

None == "none"

VARIABLES
  phase,      \* "send", "backoff", "stream", "ended" or "failed"
  max_retries, attempts, last_error,
  slept,      \* history: the pauses between attempts
  outcome,    \* what send_with_retry returned, when it is an error
  frames, eol,  \* what the server renders
  wire,       \* tokens on their way
  broken,     \* the connection breaks instead of closing
  buffer, pending, done,
  delivered,  \* history: what next_event has returned, in order
  errors      \* history: how often next_event returned an error

sendVars == <<max_retries, attempts, last_error, slept, outcome>>
streamVars == <<wire, buffer, pending, done, delivered, errors>>
vars == <<phase, sendVars, frames, eol, broken, streamVars>>

---------------------------------------------------------------------------
(* Credentials.                                                            *)

\* ANTHROPIC_API_KEY, else ANTHROPIC_AUTH_TOKEN; one that is set and empty is
\* an error and not a reason to look further.
read_api_key(env) ==
  LET key == IF env.api_key # None THEN env.api_key ELSE env.auth_token
  IN  IF key \in {None, ""} THEN None ELSE key

---------------------------------------------------------------------------
(* send_with_retry.                                                        *)

is_retryable_status(status) == status \in {408, 409, 429, 500, 502, 503, 504}

\* ApiError.is_retryable; status 0 stands for a connection that could not be
\* made or timed out, -1 for any other error of the HTTP client.
is_retryable(status) == status = 0 \/ (status > 0 /\ is_retryable_status(status))

\* 1_u32.checked_shl(n), below the width.
Shifted[n \in 0 .. SHIFT_WIDTH - 1] == IF n = 0 THEN 1 ELSE 2 * Shifted[n - 1]

\* The pause before the next attempt, or nothing when the multiplier overflows.
backoff_for_attempt(attempt) ==
  IF attempt - 1 >= SHIFT_WIDTH THEN <<>>
  ELSE LET delay == INITIAL_BACKOFF * Shifted[attempt - 1]
       IN  <<IF delay < MAX_BACKOFF THEN delay ELSE MAX_BACKOFF>>

GivesUp == attempts' > max_retries

Fail(error) ==
  /\ phase' = "failed" /\ outcome' = error
  /\ UNCHANGED <<last_error, slept>>

\* The error an exchange ends with when it is not retried.
expect_success(status) == IF status > 0 THEN "api" ELSE "http"

\* mutant: every status is retried
RetriesAll(status) ==
  /\ attempts' = attempts + 1
  /\ IF GivesUp THEN Fail("exhausted")
     ELSE phase' = "backoff" /\ last_error' = status /\ UNCHANGED <<slept, outcome>>
  /\ UNCHANGED <<max_retries, frames, eol, broken, streamVars>>

\* One exchange that did not succeed.
ExchangeFails(status) ==
  /\ attempts' = attempts + 1
  /\ IF ~is_retryable(status) THEN Fail(expect_success(status))
     ELSE IF GivesUp THEN Fail("exhausted")
     ELSE phase' = "backoff" /\ last_error' = status /\ UNCHANGED <<slept, outcome>>
  /\ UNCHANGED <<max_retries, frames, eol, broken, streamVars>>

SendFails ==
  /\ phase = "send"
  /\ \E status \in {-1, 0, 401, 429, 503} : ExchangeFails(status)

\* What the server puts on the wire: the lines of a frame, each with its end,
\* and a blank line after it.
Lines(frame, end) ==
  LET width == 1 + Len(end)
  IN  [i \in 1 .. width * Len(frame) |->
         IF (i - 1) % width = 0 THEN frame[(i - 1) \div width + 1] ELSE end[(i - 1) % width]]
Render(list, end, closed) ==
  LET last[k \in 0 .. Len(list)] ==
        IF k = 0 THEN <<>>
        ELSE Lines(list[Len(list) - k + 1], end) \o (IF k > 1 \/ closed THEN end ELSE <<>>) \o last[k - 1]
  IN  last[Len(list)]

\* send_with_retry returns the response and its locals are gone; the server
\* now decides what the body will be, its last frame with or without a closing
\* blank line.
SendSucceeds ==
  /\ phase = "send"
  /\ phase' = "stream"
  /\ attempts' = 0 /\ last_error' = -1 /\ slept' = <<>>
  /\ frames' \in FrameLists /\ eol' \in LineEnds /\ broken' \in BOOLEAN
  /\ \E closed \in BOOLEAN : wire' = Render(frames', eol', closed)
  /\ UNCHANGED <<max_retries, outcome, buffer, pending, done, delivered, errors>>

\* send_message: the whole answer is decoded at once.
SendMessage ==
  /\ phase = "send"
  /\ attempts' = attempts + 1
  /\ \E decodes \in BOOLEAN :
       /\ phase' = IF decodes THEN "ended" ELSE "failed"
       /\ outcome' = IF decodes THEN outcome ELSE "http"
  /\ UNCHANGED <<max_retries, last_error, slept, frames, eol, broken, streamVars>>

Backoff ==
  /\ phase = "backoff"
  /\ IF backoff_for_attempt(attempts) = <<>>
     THEN phase' = "failed" /\ outcome' = "overflow" /\ UNCHANGED slept
     ELSE phase' = "send" /\ slept' = slept \o backoff_for_attempt(attempts) /\ UNCHANGED outcome
  /\ UNCHANGED <<max_retries, attempts, last_error, frames, eol, broken, streamVars>>

---------------------------------------------------------------------------
(* SseParser.                                                              *)

\* What is left of s without the tokens of S.
Without(s, S) ==
  LET upto[n \in 0 .. Len(s)] ==
        IF n = 0 THEN <<>>
        ELSE IF s[n] \in S THEN upto[n - 1] ELSE Append(upto[n - 1], s[n])
  IN  upto[Len(s)]

DataLines(frame) == Without(frame, {"CR", "LF", "ping", "name", "note"})
EventName(frame) ==
  LET names == {i \in DOMAIN frame : frame[i] \in {"ping", "name"}}
  IN  IF names = {} THEN None ELSE frame[CHOOSE i \in names : \A j \in names : j <= i]

\* parse_frame: <<>> for a frame that carries no event, <<payload>> otherwise;
\* the payload parses or the whole call fails.
parse_frame(frame) ==
  LET payload == DataLines(frame)
  IN  IF EventName(frame) = "ping" \/ payload \in {<<>>, <<"[DONE]">>} THEN <<>> ELSE <<payload>>

Parses(parsed) == \A i \in DOMAIN parsed : parsed[i] \in Events

Occurs(sep, s, i) == i + Len(sep) - 1 <= Len(s) /\ SubSeq(s, i, i + Len(sep) - 1) = sep

\* next_frame: where the first separator ends and the frame before it; LF LF
\* anywhere in the buffer is preferred to CR LF CR LF.
next_frame(buf) ==
  LET at(sep) == {i \in DOMAIN buf : Occurs(sep, buf, i)}
      cut(sep) == LET p == CHOOSE i \in at(sep) : \A j \in at(sep) : i <= j
                  IN  <<[frame |-> SubSeq(buf, 1, p - 1),
                         rest |-> SubSeq(buf, p + Len(sep), Len(buf))]>>
  IN  IF at(<<"LF", "LF">>) # {} THEN cut(<<"LF", "LF">>)
      ELSE IF at(<<"CR", "LF", "CR", "LF">>) # {} THEN cut(<<"CR", "LF", "CR", "LF">>)
      ELSE <<>>

\* push: every complete frame of the buffer, up to the first that does not
\* parse; on an error the events already parsed are dropped with it.
Drain(buf) ==
  LET push[b \in Suffixes(buf)] ==
        LET f == next_frame(b)
            parsed == parse_frame(f[1].frame)
            rest == push[f[1].rest]
        IN  IF f = <<>> THEN [events |-> <<>>, rest |-> b, ok |-> TRUE]
            ELSE IF ~Parses(parsed) THEN [events |-> <<>>, rest |-> f[1].rest, ok |-> FALSE]
            ELSE IF rest.ok THEN [rest EXCEPT !.events = parsed \o @] ELSE rest
  IN  push[buf]

---------------------------------------------------------------------------
(* MessageStream.next_event.                                               *)

Pop ==
  /\ phase = "stream" /\ pending # <<>>
  /\ delivered' = Append(delivered, Head(pending))
  /\ pending' = Tail(pending)
  /\ UNCHANGED <<phase, sendVars, frames, eol, broken, wire, buffer, done, errors>>

Chunk ==
  /\ phase = "stream" /\ pending = <<>> /\ ~done
  /\ \E n \in 1 .. Len(wire) :
       LET r == Drain(buffer \o SubSeq(wire, 1, n)) IN
       /\ wire' = SubSeq(wire, n + 1, Len(wire))
       /\ buffer' = r.rest /\ pending' = r.events
       /\ errors' = errors + (IF r.ok THEN 0 ELSE 1)
  /\ UNCHANGED <<phase, sendVars, frames, eol, broken, done, delivered>>

\* mutant: the flag is not set
NeverDone ==
  /\ phase = "stream" /\ pending = <<>> /\ ~done /\ wire = <<>>
  /\ errors' = errors + (IF broken THEN 1 ELSE 0)
  /\ phase' = IF broken THEN "ended" ELSE phase
  /\ UNCHANGED <<sendVars, frames, eol, broken, wire, buffer, pending, done, delivered>>

\* The body ends, or reading it fails and the caller gives up.
EndOfBody ==
  /\ phase = "stream" /\ pending = <<>> /\ ~done /\ wire = <<>>
  /\ done' = ~broken
  /\ errors' = errors + (IF broken THEN 1 ELSE 0)
  /\ phase' = IF broken THEN "ended" ELSE phase
  /\ UNCHANGED <<sendVars, frames, eol, broken, wire, buffer, pending, delivered>>

\* mutant: what no blank line ends is dropped
TailDropped(buf) == <<>>

\* finish: what is left is one last frame.
finish(buf) == IF buf = <<>> THEN <<>> ELSE parse_frame(buf)

Finish ==
  /\ phase = "stream" /\ pending = <<>> /\ done
  /\ LET parsed == finish(buffer)
         ok == Parses(parsed)
     IN  /\ buffer' = <<>>
         /\ delivered' = IF ok THEN delivered \o parsed ELSE delivered
         /\ errors' = errors + (IF ok THEN 0 ELSE 1)
         /\ phase' = IF ok /\ parsed # <<>> THEN phase ELSE "ended"
  /\ UNCHANGED <<sendVars, frames, eol, broken, wire, pending, done>>

---------------------------------------------------------------------------
Init ==
  /\ \E env \in Environments : phase = IF read_api_key(env) = None THEN "failed" ELSE "send"
  /\ max_retries \in MaxRetries
  /\ attempts = 0 /\ last_error = -1 /\ slept = <<>>
  /\ outcome = IF phase = "failed" THEN "no key" ELSE None
  /\ frames = <<>> /\ eol = <<>> /\ broken = FALSE /\ wire = <<>>
  /\ buffer = <<>> /\ pending = <<>> /\ done = FALSE /\ delivered = <<>> /\ errors = 0

Step == SendFails \/ SendMessage \/ SendSucceeds \/ Backoff \/ Pop \/ Chunk \/ EndOfBody \/ Finish
Over == phase \in {"ended", "failed"} /\ UNCHANGED vars
Next == Step \/ Over
Spec == Init /\ [][Next]_vars

\* The caller keeps asking, and every exchange and every read comes back.
FairSpec == Spec /\ WF_vars(Step)

---------------------------------------------------------------------------
TypeOK ==
  /\ phase \in {"send", "backoff", "stream", "ended", "failed"}
  /\ attempts \in 0 .. max_retries + 1
  /\ outcome \in {None, "no key", "api", "http", "exhausted", "overflow"}
  /\ errors \in Nat /\ done \in BOOLEAN
  /\ \A i \in DOMAIN pending : pending[i] \in Events

\* The frames that carry an event, in order; what parse_frame should find.
Carries(frame) == EventName(frame) # "ping" /\ DataLines(frame) \notin {<<>>, <<"[DONE]">>}
Expected ==
  LET upto[k \in 0 .. Len(frames)] ==
        IF k = 0 THEN <<>>
        ELSE IF Carries(frames[k]) THEN Append(upto[k - 1], DataLines(frames[k])) ELSE upto[k - 1]
  IN  upto[Len(frames)]

\* However the body is cut into chunks, and with or without a blank line at
\* its end, a stream that ended without an error delivered every event of the
\* server, once and in order (sse.rs push and finish, client.rs next_event).
NothingLost == phase = "ended" /\ errors = 0 => delivered = Expected

\* Up to the first error the caller has seen a prefix of the events: an event
\* is never made of parts of two frames (sse.rs, next_frame).
PrefixUntilError == errors = 0 => IsPrefix(delivered \o pending, Expected)

\* "Exhausted" is reported after exactly max_retries + 1 exchanges that could
\* each be retried; any other failure comes back at once (send_with_retry).
ExhaustedMeansExhausted ==
  /\ outcome = "exhausted" => attempts = max_retries + 1 /\ Len(slept) = max_retries
  /\ outcome \in {"api", "http"} => Len(slept) = attempts - 1
  /\ phase = "backoff" => is_retryable(last_error)

\* Pauses never shrink and never exceed the maximum (backoff_for_attempt).
BackoffGrows ==
  \A i \in DOMAIN slept : /\ slept[i] <= MAX_BACKOFF
                          /\ i > 1 => slept[i - 1] <= slept[i]

\* The caller reaches the end of the stream, or an error.
StreamEnds == <>(phase \in {"ended", "failed"})

\* The caller of next_event sees the server's events, all of them up to the
\* end or to the first error, whatever the chunks are (sse.rs, client.rs).
StreamIsFaithful == NothingLost /\ PrefixUntilError

\* send_with_retry makes the exchanges it is allowed, with growing pauses, and
\* names the reason it stopped for.
RetriesAreExact == TypeOK /\ ExhaustedMeansExhausted /\ BackoffGrows
===========================================================================
