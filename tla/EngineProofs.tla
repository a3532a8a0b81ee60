---------------------------- MODULE EngineProofs ----------------------------
(***************************************************************************)
(* The kernel process for any configuration, any lines and inputs, and      *)
(* anything the providers may answer: replies follow requests, in the       *)
(* server one per line, in order and with its id, in the shell each after   *)
(* its own question; and the cascade is honest, that is, it fails only when *)
(* every provider is used up, asks none again that rejected the request,    *)
(* and passes no empty answer for a good one.                               *)
(*                                                                          *)
(* EngineInv adds that the cascade of a run names every provider once, that *)
(* each provider before the current one is exhausted, and that the current  *)
(* one has failed as often as it was attempted, each time worth a retry.    *)
(*                                                                          *)
(* FreshInv, in the last part, adds that the cached list of models shows    *)
(* what Ollama offered at the time stamp of the cache: an answer to         *)
(* models.list is never older than the lifetime of the cache.               *)
(***************************************************************************)
EXTENDS Engine, FiniteSetTheorems, SequenceTheorems, WellFoundedInduction, TLAPS

-----------------------------------------------------------------------------
(* The invariant *)

IsSequence(s) == Len(s) \in Nat /\ s = [i \in 1 .. Len(s) |-> s[i]]

\* Start-up: the providers are a sequence, and the model map points into it.
ConfigInv ==
  /\ IsSequence(config.providers)
  /\ \A m \in DOMAIN config.model_map : config.model_map[m] \in DOMAIN config.providers

Codes == {0, -32000, -32001, -32002, -32003, -32601, -32602, -32700}

\* The counters, and the history of Ollama.
ClockInv ==
  /\ mode \in {"serve", "chat", "exited"}
  /\ clock \in 0 .. MaxClock /\ given \in 0 .. MaxLines
  /\ IsSequence(up) /\ Len(up) = clock + 1

\* The server: one answer per line read, but for the line being dispatched,
\* which is the last one; only such a line has a run.
ServerInv ==
  /\ IsSequence(stdin) /\ IsSequence(received) /\ IsSequence(out)
  /\ \A i \in DOMAIN stdin : stdin[i] \in Lines
  /\ \A i \in DOMAIN out : out[i].code \in Codes /\ out[i].id = received[i].id
  /\ Len(out) = Len(received) - (IF cur = NoRequest THEN 0 ELSE 1)
  /\ cur # NoRequest => cur = received[Len(received)]
  /\ mode = "serve" /\ run # NoRun => cur.method = "inference.route"
  /\ mode # "serve" => stdin = <<>> /\ cur = NoRequest

\* The shell: messages are questions, each with its answer behind it if there
\* is one; a run belongs to the last question.
ChatInv ==
  /\ chat = [messages |-> chat.messages, active_model |-> chat.active_model,
             force_provider |-> chat.force_provider]
  /\ IsSequence(chat.messages)
  /\ AnswersFollowQuestions

\* A cascade names every provider once.
CascadeOK(c) ==
  /\ IsSequence(c) /\ Len(c) > 0
  /\ Names(c) = Names(config.providers)
  /\ \A i, j \in DOMAIN c : c[i].name = c[j].name => i = j

\* The run is a record with these fields, and inside its cascade.
RunInv ==
  run = NoRun \/
  /\ run = [status |-> run.status, model |-> run.model, purpose |-> run.purpose,
            cascade |-> run.cascade, at |-> run.at, attempt |-> run.attempt,
            retry_count |-> run.retry_count, last_err |-> run.last_err, resp |-> run.resp]
  /\ run.status \in {"InFlight", "Completed", "Failed"}
  /\ run.status = "InFlight" =>
       CascadeOK(run.cascade) /\ run.at \in DOMAIN run.cascade /\ run.attempt \in 0 .. MAX_RETRIES_PER

\* The events of a run in flight: only of providers reached, each of those
\* before the current one exhausted, and of the current one as many failures
\* as attempts, all of them worth a retry.
Reached(p) == \E k \in 1 .. run.at : run.cascade[k].name = p
Current == run.cascade[run.at].name

InFlightInv ==
  /\ \A i \in DOMAIN log : log[i].ev \in {"InferenceRequested", "ProviderFailed"} => Reached(log[i].provider)
  /\ \A k \in 1 .. run.at - 1 : Exhausted(run.cascade[k].name)
  /\ Cardinality(Failures(Current)) = run.attempt
  /\ \A i \in Failures(Current) : log[i].class = "transient"

LogInv ==
  /\ IsSequence(log)
  /\ CascadeIsHonest
  /\ run.status = "InFlight" => InFlightInv

\* The parts of the invariant about the run and its events.
RoutingInv == ConfigInv /\ RunInv /\ LogInv

EngineInv == ConfigInv /\ ClockInv /\ ServerInv /\ ChatInv /\ RunInv /\ LogInv

-----------------------------------------------------------------------------
(* Sequences *)

LEMMA IsSeq ==
  ASSUME NEW s, IsSequence(s)
  PROVE  /\ s \in Seq({s[i] : i \in 1 .. Len(s)})
         /\ DOMAIN s = 1 .. Len(s) /\ Len(s) \in Nat
<1> DEFINE S == {s[i] : i \in 1 .. Len(s)}
<1>1. Len(s) \in Nat /\ s = [i \in 1 .. Len(s) |-> s[i]]
  BY DEF IsSequence
<1>2. s \in [1 .. Len(s) -> S]
  BY <1>1
<1>3. s \in Seq(S)
  BY <1>1, <1>2
<1> QED BY <1>1, <1>3

LEMMA SeqIs ==
  ASSUME NEW S, NEW s \in Seq(S)
  PROVE  IsSequence(s)
BY DEF IsSequence

\* What Append does to a sequence of anything.
LEMMA Appended ==
  ASSUME NEW s, IsSequence(s), NEW e
  PROVE  /\ IsSequence(Append(s, e))
         /\ Len(s) \in Nat /\ DOMAIN s = 1 .. Len(s)
         /\ Len(Append(s, e)) = Len(s) + 1 /\ DOMAIN Append(s, e) = 1 .. Len(s) + 1
         /\ \A i \in 1 .. Len(s) : Append(s, e)[i] = s[i]
         /\ Append(s, e)[Len(s) + 1] = e
<1> DEFINE S == {s[i] : i \in 1 .. Len(s)} \cup {e}
<1>1. s \in [1 .. Len(s) -> S] /\ Len(s) \in Nat
  BY IsSeq DEF IsSequence
<1>2. s \in Seq(S) /\ e \in S
  BY <1>1
<1>3. Append(s, e) \in Seq(S)
  BY <1>2
<1> HIDE DEF S
<1>4. IsSequence(Append(s, e))
  BY <1>3, SeqIs
<1>5. Len(s) \in Nat /\ DOMAIN s = 1 .. Len(s)
  BY <1>2
<1>6. Len(Append(s, e)) = Len(s) + 1 /\ DOMAIN Append(s, e) = 1 .. Len(s) + 1
  BY <1>2, <1>3
<1>7. \A i \in 1 .. Len(s) : Append(s, e)[i] = s[i]
  BY <1>2
<1>8. Append(s, e)[Len(s) + 1] = e
  BY <1>2
<1> QED BY <1>4, <1>5, <1>6, <1>7, <1>8

LEMMA Concatenated ==
  ASSUME NEW s, IsSequence(s), NEW t, IsSequence(t)
  PROVE  IsSequence(s \o t)
<1> DEFINE S == {s[i] : i \in 1 .. Len(s)} \cup {t[i] : i \in 1 .. Len(t)}
<1>1. s \in [1 .. Len(s) -> S] /\ Len(s) \in Nat /\ t \in [1 .. Len(t) -> S] /\ Len(t) \in Nat
  BY DEF IsSequence
<1>2. s \in Seq(S) /\ t \in Seq(S)
  BY <1>1
<1> HIDE DEF S
<1>3. s \o t \in Seq(S)
  BY <1>2
<1> QED BY <1>3, SeqIs

\* What Tail does to one that is not empty.
LEMMA Shortened ==
  ASSUME NEW s, IsSequence(s), s # <<>>
  PROVE  /\ IsSequence(Tail(s))
         /\ Len(s) \in Nat \ {0} /\ DOMAIN s = 1 .. Len(s) /\ Head(s) = s[1]
         /\ DOMAIN Tail(s) = 1 .. Len(s) - 1
         /\ \A i \in 1 .. Len(s) - 1 : Tail(s)[i] = s[i + 1]
<1> DEFINE S == {s[i] : i \in 1 .. Len(s)}
<1>1. s \in Seq(S) /\ DOMAIN s = 1 .. Len(s)
  BY IsSeq
<1> HIDE DEF S
<1>2. Tail(s) \in Seq(S)
  BY <1>1
<1>3. IsSequence(Tail(s))
  BY <1>2, SeqIs
<1>4. Len(s) \in Nat \ {0} /\ DOMAIN s = 1 .. Len(s) /\ Head(s) = s[1]
  BY <1>1
<1>5. Len(Tail(s)) = Len(s) - 1 /\ DOMAIN Tail(s) = 1 .. Len(s) - 1
  BY <1>1, <1>2
<1>6. \A i \in 1 .. Len(s) - 1 : Tail(s)[i] = s[i + 1]
  BY <1>1
<1> QED BY <1>3, <1>4, <1>5, <1>6

-----------------------------------------------------------------------------
(* Numbers *)

\* A set of natural numbers that is not empty has a least element.
LEMMA Least ==
  ASSUME NEW T \in SUBSET Nat, T # {}
  PROVE  \E m \in T : \A k \in T : m <= k
<1> DEFINE R == OpToRel(<, Nat)
<1>1. IsWellFoundedOn(R, Nat)
  BY NatLessThanWellFounded
<1>2. PICK m \in T : \A k \in T : ~(<<k, m>> \in R)
  BY <1>1, WFMin
<1>3. \A k \in T : k < m => <<k, m>> \in R
  BY DEF OpToRel
<1> HIDE DEF R
<1>4. \A k \in T : k \in Nat /\ m \in Nat
  OBVIOUS
<1>5. \A k \in T : ~(k < m)
  BY <1>2, <1>3
<1>6. \A k \in T : m <= k
  BY <1>4, <1>5
<1> QED BY <1>6

\* Induction over the natural numbers, with the claim given as a set.
LEMMA Induction ==
  ASSUME NEW T, 0 \in T, \A n \in Nat : n \in T => n + 1 \in T
  PROVE  Nat \subseteq T
<1> SUFFICES ASSUME Nat \ T # {} PROVE FALSE
  OBVIOUS
<1>1. PICK m \in Nat \ T : \A k \in Nat \ T : m <= k
  BY Least
<1>2. m # 0 /\ m - 1 \in Nat /\ m - 1 \in T
  BY <1>1
<1> QED BY <1>2

-----------------------------------------------------------------------------
(* The configuration *)

LEMMA PushedIsSequence ==
  ASSUME NEW env
  PROVE  IsSequence(Pushed(env))
<1>1. \A r : IsSequence(<<r>>)
  BY DEF IsSequence
<1>2. IsSequence(<<>>)
  BY DEF IsSequence
<1>3. \A on, r : IsSequence(IF on THEN <<r>> ELSE <<>>)
  BY <1>1, <1>2
<1>4. \A s, t : IsSequence(s) /\ IsSequence(t) => IsSequence(s \o t)
  BY Concatenated
<1> QED BY <1>3, <1>4 DEF Pushed

LEMMA SortedIsSequence ==
  ASSUME NEW s, IsSequence(s)
  PROVE  IsSequence(ByPriority(s))
<1> DEFINE t == ByPriority(s)
           S == {t[i] : i \in 1 .. Len(s)}
<1>1. Len(s) \in Nat /\ DOMAIN s = 1 .. Len(s)
  BY IsSeq
<1>2. t = [i \in 1 .. Len(s) |-> t[i]]
  <2> DEFINE precedes(i, j) == s[i].priority < s[j].priority
                               \/ (s[i].priority = s[j].priority /\ i < j)
             order == CHOOSE f \in [DOMAIN s -> DOMAIN s] :
                        \A i, j \in DOMAIN s : i < j => precedes(f[i], f[j])
             v(i) == s[order[i]]
  <2>1. t = [i \in DOMAIN s |-> v(i)]
    BY DEF ByPriority
  <2> HIDE DEF v, t
  <2> QED BY <1>1, <2>1
<1> HIDE DEF t
<1>3. t \in [1 .. Len(s) -> S]
  BY <1>2
<1>4. t \in Seq(S)
  BY <1>1, <1>3
<1> QED BY <1>4, SeqIs DEF t

LEMMA LoadedConfig ==
  ASSUME NEW env
  PROVE  LET c == load_config(env) IN
         /\ IsSequence(c.providers)
         /\ \A m \in DOMAIN c.model_map : c.model_map[m] \in DOMAIN c.providers
<1> DEFINE ps == ByPriority(Pushed(env))
           owners(m) == {i \in DOMAIN ps : m \in ToSet(ps[i].models)}
           ids == UNION {ToSet(ps[i].models) : i \in DOMAIN ps}
<1>1. load_config(env).providers = ps /\ load_config(env).model_map = model_map(ps)
  BY DEF load_config
<1>2. IsSequence(ps)
  BY PushedIsSequence, SortedIsSequence
<1> HIDE DEF ps
<1>3. DOMAIN ps \in SUBSET Nat
  BY <1>2, IsSeq
<1>4. ASSUME NEW m \in ids
      PROVE  (CHOOSE i \in owners(m) : \A j \in owners(m) : i <= j) \in DOMAIN ps
  <2>1. owners(m) # {} /\ owners(m) \in SUBSET Nat
    BY <1>3, <1>4
  <2>2. \E i \in owners(m) : \A j \in owners(m) : i <= j
    BY <2>1, Least
  <2> QED BY <2>2
<1>5. model_map(ps) = [m \in ids |-> CHOOSE i \in owners(m) : \A j \in owners(m) : i <= j]
  BY DEF model_map
<1>6. \A m \in DOMAIN model_map(ps) : model_map(ps)[m] \in DOMAIN ps
  <2> HIDE DEF owners, ids
  <2> QED BY <1>4, <1>5
<1> QED BY <1>1, <1>2, <1>6

LEMMA ConfigStays == ConfigInv /\ config' = config => ConfigInv'
BY DEF ConfigInv

\* resolve_provider returns None only when no provider is configured.
LEMMA Resolves ==
  ASSUME ConfigInv, NEW model
  PROVE  /\ resolve_provider(model, config) \subseteq DOMAIN config.providers
         /\ resolve_provider(model, config) = {} => DOMAIN config.providers = {}
<1> DEFINE ps == config.providers
           byPrefix == {i \in DOMAIN ps :
                          /\ ModelPrefix(model) # <<>>
                          /\ \E m \in ToSet(ps[i].models) : IsPrefix(ModelPrefix(model), m)}
           least(S) == {i \in S : \A j \in S : i <= j}
<1>1. DOMAIN ps \in SUBSET Nat
  <2>1. IsSequence(ps)
    BY DEF ConfigInv
  <2> HIDE DEF ps
  <2>2. DOMAIN ps = 1 .. Len(ps) /\ Len(ps) \in Nat
    BY <2>1, IsSeq
  <2> QED BY <2>2
<1>2. \A S \in SUBSET Nat : least(S) \subseteq S /\ (least(S) = {} => S = {})
  BY Least
<1>3. resolve_provider(model, config) =
        IF model \in DOMAIN config.model_map THEN {config.model_map[model]}
        ELSE IF byPrefix # {} THEN least(byPrefix) ELSE least(DOMAIN ps)
  BY DEF resolve_provider
<1>4. byPrefix \in SUBSET Nat /\ byPrefix \subseteq DOMAIN ps
  BY <1>1
<1> HIDE DEF byPrefix, least, ps
<1>5. CASE model \in DOMAIN config.model_map
  BY <1>3, <1>5 DEF ConfigInv, ps
<1>6. CASE model \notin DOMAIN config.model_map /\ byPrefix # {}
  BY <1>2, <1>3, <1>4, <1>6 DEF ps
<1>7. CASE model \notin DOMAIN config.model_map /\ byPrefix = {}
  BY <1>1, <1>2, <1>3, <1>7 DEF ps
<1> QED BY <1>5, <1>6, <1>7

-----------------------------------------------------------------------------
(* The cascade *)

\* The body of the recursive function in Cascade.
CascadeAt(f, i, ps, primary) ==
  IF i = 0 THEN <<ps[primary]>>
  ELSE IF ps[i].name \in Names(f[i - 1]) THEN f[i - 1]
  ELSE Append(f[i - 1], ps[i])

\* f obeys it up to n.
CascadeTo(f, ps, primary, n) == f = [i \in 0 .. n |-> CascadeAt(f, i, ps, primary)]

\* The recursion has a solution on every initial segment.
LEMMA CascadeExists ==
  ASSUME NEW ps, NEW primary, NEW n \in Nat
  PROVE  \E f : CascadeTo(f, ps, primary, n)
<1> DEFINE T == {k \in Nat : \E f : f = [i \in 0 .. k |-> CascadeAt(f, i, ps, primary)]}
<1>1. 0 \in T
  <2> DEFINE f == [i \in 0 .. 0 |-> <<ps[primary]>>]
  <2>1. f = [i \in 0 .. 0 |-> CascadeAt(f, i, ps, primary)]
    BY DEF CascadeAt
  <2> QED BY <2>1
<1>2. ASSUME NEW k \in Nat, k \in T PROVE k + 1 \in T
  <2>1. PICK f : f = [i \in 0 .. k |-> CascadeAt(f, i, ps, primary)]
    BY <1>2
  <2> DEFINE g == [i \in 0 .. (k + 1) |-> IF i <= k THEN f[i] ELSE CascadeAt(f, i, ps, primary)]
  <2>2. ASSUME NEW i \in 0 .. (k + 1) PROVE g[i] = CascadeAt(g, i, ps, primary)
    <3>1. i > 0 => i - 1 \in 0 .. k /\ g[i - 1] = f[i - 1]
      OBVIOUS
    <3>2. CascadeAt(g, i, ps, primary) = CascadeAt(f, i, ps, primary)
      BY <3>1 DEF CascadeAt
    <3>3. i <= k => f[i] = CascadeAt(f, i, ps, primary)
      BY <2>1
    <3> QED BY <3>2, <3>3
  <2>3. g = [i \in 0 .. (k + 1) |-> CascadeAt(g, i, ps, primary)]
    BY <2>2
  <2> HIDE DEF g
  <2>4. \E h : h = [i \in 0 .. (k + 1) |-> CascadeAt(h, i, ps, primary)]
    BY <2>3
  <2> QED BY <2>4
<1> HIDE DEF T
<1>3. n \in T
  BY <1>1, <1>2, Induction
<1> QED BY <1>3 DEF T, CascadeTo

\* After the first n providers the cascade names these and the primary, each
\* once.
Covers(c, n, ps, primary) ==
  /\ IsSequence(c) /\ Len(c) > 0
  /\ Names(c) = {ps[primary].name} \cup {ps[i].name : i \in 1 .. n}
  /\ \A i, j \in DOMAIN c : c[i].name = c[j].name => i = j

LEMMA CoversMore ==
  ASSUME NEW c, NEW n \in Nat, NEW ps, NEW primary, Covers(c, n, ps, primary),
         ps[n + 1].name \notin Names(c)
  PROVE  Covers(Append(c, ps[n + 1]), n + 1, ps, primary)
<1> DEFINE d == Append(c, ps[n + 1])
<1>1. /\ IsSequence(d) /\ Len(c) \in Nat /\ DOMAIN c = 1 .. Len(c)
      /\ Len(d) = Len(c) + 1 /\ DOMAIN d = 1 .. Len(c) + 1
      /\ \A i \in 1 .. Len(c) : d[i] = c[i]
      /\ d[Len(c) + 1] = ps[n + 1]
  BY Appended DEF Covers
<1> HIDE DEF d
<1>2. Names(d) = Names(c) \cup {ps[n + 1].name}
  <2>1. \A i \in 1 .. Len(c) : c[i].name \in Names(d)
    BY <1>1 DEF Names
  <2>2. Len(c) + 1 \in DOMAIN d
    BY <1>1
  <2>3. ps[n + 1].name \in Names(d)
    BY <1>1, <2>2 DEF Names
  <2>4. \A i \in DOMAIN d : i \in 1 .. Len(c) \/ i = Len(c) + 1
    BY <1>1
  <2>5. ASSUME NEW x \in Names(d) PROVE x \in Names(c) \/ x = ps[n + 1].name
    <3>1. PICK i \in DOMAIN d : x = d[i].name
      BY DEF Names
    <3>2. CASE i \in 1 .. Len(c)
      BY <1>1, <3>1, <3>2 DEF Names
    <3>3. CASE i = Len(c) + 1
      BY <1>1, <3>1, <3>3
    <3> QED BY <2>4, <3>2, <3>3
  <2>6. ASSUME NEW x \in Names(c) PROVE x \in Names(d)
    <3>1. PICK i \in 1 .. Len(c) : x = c[i].name
      BY <1>1 DEF Names
    <3> QED BY <2>1, <3>1
  <2> QED BY <2>3, <2>5, <2>6
<1>3. \A i \in DOMAIN c : c[i].name # ps[n + 1].name
  BY DEF Names
<1>4. \A i, j \in DOMAIN d : d[i].name = d[j].name => i = j
  <2> SUFFICES ASSUME NEW i \in DOMAIN d, NEW j \in DOMAIN d, d[i].name = d[j].name PROVE i = j
    OBVIOUS
  <2>1. /\ i \in 1 .. Len(c) \/ i = Len(c) + 1
        /\ j \in 1 .. Len(c) \/ j = Len(c) + 1
    BY <1>1
  <2> QED BY <1>1, <1>3, <2>1 DEF Covers
<1>5. {ps[i].name : i \in 1 .. n + 1} = {ps[i].name : i \in 1 .. n} \cup {ps[n + 1].name}
  <2>1. \A i : i \in 1 .. n + 1 <=> i \in 1 .. n \/ i = n + 1
    OBVIOUS
  <2> QED BY <2>1
<1> QED BY <1>1, <1>2, <1>4, <1>5 DEF Covers, d

LEMMA CascadeCovers ==
  ASSUME ConfigInv, NEW model, resolve_provider(model, config) # {}
  PROVE  CascadeOK(Cascade(model))
<1> DEFINE ps == config.providers
           primary == CHOOSE i \in resolve_provider(model, config) : TRUE
           F == CHOOSE f : f = [i \in 0 .. Len(ps) |-> CascadeAt(f, i, ps, primary)]
           T == {n \in Nat : n <= Len(ps) => Covers(F[n], n, ps, primary)}
<1>1. Len(ps) \in Nat /\ DOMAIN ps = 1 .. Len(ps) /\ primary \in DOMAIN ps
  BY IsSeq, Resolves DEF ConfigInv
<1>2. Cascade(model) = F[Len(ps)]
  BY DEF Cascade, CascadeAt
<1> HIDE DEF ps, primary
<1>3. F = [i \in 0 .. Len(ps) |-> CascadeAt(F, i, ps, primary)]
  <2>1. \E f : CascadeTo(f, ps, primary, Len(ps))
    BY <1>1, CascadeExists
  <2>2. CascadeTo(CHOOSE f : CascadeTo(f, ps, primary, Len(ps)), ps, primary, Len(ps))
    BY <2>1
  <2> QED BY <2>2 DEF CascadeTo
<1> HIDE DEF F
<1>4. 0 \in T
  <2>1. F[0] = <<ps[primary]>>
    BY <1>1, <1>3 DEF CascadeAt
  <2>2. Covers(<<ps[primary]>>, 0, ps, primary)
    BY DEF Covers, IsSequence, Names
  <2> QED BY <2>1, <2>2
<1>5. ASSUME NEW n \in Nat, n \in T PROVE n + 1 \in T
  <2> SUFFICES ASSUME n + 1 <= Len(ps) PROVE Covers(F[n + 1], n + 1, ps, primary)
    OBVIOUS
  <2>1. Covers(F[n], n, ps, primary)
    BY <1>1, <1>5
  <2>2. F[n + 1] = IF ps[n + 1].name \in Names(F[n]) THEN F[n] ELSE Append(F[n], ps[n + 1])
    <3>1. n + 1 \in 0 .. Len(ps) /\ n + 1 # 0 /\ (n + 1) - 1 = n
      BY <1>1
    <3> QED BY <1>3, <3>1 DEF CascadeAt
  <2>3. CASE ps[n + 1].name \in Names(F[n])
    <3>1. {ps[i].name : i \in 1 .. n + 1} = {ps[i].name : i \in 1 .. n} \cup {ps[n + 1].name}
      <4>1. \A i : i \in 1 .. n + 1 <=> i \in 1 .. n \/ i = n + 1
        OBVIOUS
      <4> QED BY <4>1
    <3> QED BY <2>1, <2>2, <2>3, <3>1 DEF Covers
  <2>4. CASE ps[n + 1].name \notin Names(F[n])
    BY <2>1, <2>2, <2>4, CoversMore
  <2> QED BY <2>3, <2>4
<1>6. Len(ps) \in T
  <2> HIDE DEF T
  <2> QED BY <1>1, <1>4, <1>5, Induction
<1>7. Names(ps) = {ps[primary].name} \cup {ps[i].name : i \in 1 .. Len(ps)}
  BY <1>1 DEF Names
<1> QED BY <1>1, <1>2, <1>6, <1>7 DEF Covers, CascadeOK, ps

-----------------------------------------------------------------------------
(* Steps of the server *)

LEMMA RoutingStays ==
  ASSUME RoutingInv, config' = config, run' = run, log' = log
  PROVE  RoutingInv'
<1>1. ConfigInv'
  BY DEF RoutingInv, ConfigInv
<1>2. RunInv'
  BY DEF RoutingInv, RunInv, CascadeOK
<1>3. FailsOnlyExhausted'
  BY DEF RoutingInv, LogInv, CascadeIsHonest, FailsOnlyExhausted, Exhausted, Failures
<1>4. RejectionIsFinal' /\ EmptyAnswerNeverPasses'
  BY DEF RoutingInv, LogInv, CascadeIsHonest, RejectionIsFinal, EmptyAnswerNeverPasses
<1>5. InFlightInv' <=> InFlightInv
  BY DEF InFlightInv, Exhausted, Failures, Reached, Current
<1>6. LogInv'
  BY <1>3, <1>4, <1>5 DEF RoutingInv, LogInv, CascadeIsHonest
<1> QED BY <1>1, <1>2, <1>6 DEF RoutingInv

\* A run that is over takes its events with it.
LEMMA RunEnds ==
  ASSUME RoutingInv, config' = config, run' = NoRun, log' = <<>>
  PROVE  RoutingInv'
<1>1. ConfigInv' /\ RunInv'
  BY DEF RoutingInv, ConfigInv, RunInv
<1>2. run'.status \notin {"InFlight", "Failed"}
  BY DEF NoRun, None
<1>3. IsSequence(log') /\ DOMAIN log' = {}
  BY DEF IsSequence
<1> QED BY <1>1, <1>2, <1>3 DEF RoutingInv, LogInv, CascadeIsHonest, FailsOnlyExhausted,
           RejectionIsFinal, EmptyAnswerNeverPasses

LEMMA ChatStays ==
  ASSUME ChatInv, chat' = chat, mode' # "chat" \/ (mode = "chat" /\ run' = run /\ given' = given)
  PROVE  ChatInv'
BY DEF ChatInv, AnswersFollowQuestions

LEMMA ServerStays ==
  ASSUME ServerInv, UNCHANGED <<stdin, received, cur, out>>, mode' = mode,
         run' # NoRun => mode # "serve" \/ run # NoRun
  PROVE  ServerInv'
BY DEF ServerInv

LEMMA ClockStays ==
  ASSUME ClockInv, UNCHANGED <<clock, up>>, given' \in 0 .. MaxLines,
         mode' \in {"serve", "chat", "exited"}
  PROVE  ClockInv'
BY DEF ClockInv

\* A request that is dispatched, and no run before route_inference begins.
LEMMA Dispatched ==
  ASSUME ServerInv, mode = "serve"
  PROVE  /\ run # NoRun => cur.method = "inference.route"
         /\ cur.method = "inference.route" => cur # NoRequest
         /\ cur.method = "models.list" => cur # NoRequest
BY DEF ServerInv, NoRequest, None

\* An answer with the id of the request that is dispatched.
LEMMA AnswerInv ==
  ASSUME ServerInv, NEW r, Answer(r), r.id = cur.id, r.code \in Codes,
         mode = "serve", cur # NoRequest, run' = NoRun,
         UNCHANGED <<mode, stdin, received>>
  PROVE  ServerInv'
<1>1. /\ IsSequence(out') /\ Len(out) \in Nat /\ DOMAIN out = 1 .. Len(out)
      /\ Len(out') = Len(out) + 1 /\ DOMAIN out' = 1 .. Len(out) + 1
      /\ \A i \in 1 .. Len(out) : out'[i] = out[i]
      /\ out'[Len(out) + 1] = r
  BY Appended DEF ServerInv, Answer
<1>2. Len(received) \in Nat /\ Len(out) = Len(received) - 1 /\ cur = received[Len(received)]
  BY IsSeq DEF ServerInv
<1>3. ASSUME NEW i \in DOMAIN out' PROVE out'[i].code \in Codes /\ out'[i].id = received'[i].id
  <2>1. CASE i \in 1 .. Len(out)
    BY <1>1, <2>1 DEF ServerInv
  <2>2. CASE i = Len(out) + 1
    BY <1>1, <1>2, <2>2
  <2> QED BY <1>1, <2>1, <2>2
<1>4. cur' = NoRequest
  BY DEF Answer
<1> QED BY <1>1, <1>2, <1>3, <1>4 DEF ServerInv

LEMMA ImmediateCode ==
  ASSUME NEW answers
  PROVE  ImmediateResponse(cur, answers).id = cur.id /\ ImmediateResponse(cur, answers).code \in Codes
BY DEF ImmediateResponse, Result, Error, Codes

LEMMA ErrorCode ==
  ASSUME NEW error
  PROVE  error_code(error) \in Codes
BY DEF error_code, Codes

LEMMA ReadLineInv == EngineInv /\ ReadLine => EngineInv'
<1> SUFFICES ASSUME EngineInv, ReadLine PROVE EngineInv'
  OBVIOUS
<1> DEFINE line == Head(stdin)
<1>1. /\ IsSequence(Tail(stdin)) /\ Len(stdin) \in Nat \ {0}
      /\ DOMAIN stdin = 1 .. Len(stdin) /\ line = stdin[1]
      /\ DOMAIN Tail(stdin) = 1 .. Len(stdin) - 1
      /\ \A i \in 1 .. Len(stdin) - 1 : Tail(stdin)[i] = stdin[i + 1]
  BY Shortened DEF EngineInv, ServerInv, ReadLine
<1>2. line \in Lines
  BY <1>1 DEF EngineInv, ServerInv
<1>3. stdin' = Tail(stdin) /\ \A i \in DOMAIN stdin' : stdin'[i] \in Lines
  <2>1. \A i \in DOMAIN Tail(stdin) : Tail(stdin)[i] \in Lines
    BY <1>1 DEF EngineInv, ServerInv
  <2> QED BY <2>1 DEF ReadLine
<1>4. line # NoRequest
  BY <1>2, EngineConstants DEF NoRequest
<1>5. Len(out) = Len(received) /\ mode = "serve" /\ run = NoRun
  BY DEF EngineInv, ServerInv, ReadLine, NoRequest, None
<1>6. /\ IsSequence(Append(received, line)) /\ Len(received) \in Nat /\ DOMAIN received = 1 .. Len(received)
      /\ Len(Append(received, line)) = Len(received) + 1
      /\ \A i \in 1 .. Len(received) : Append(received, line)[i] = received[i]
      /\ Append(received, line)[Len(received) + 1] = line
  BY Appended DEF EngineInv, ServerInv
<1>7. \A i \in DOMAIN out : i \in 1 .. Len(received)
  BY <1>5, IsSeq DEF EngineInv, ServerInv
<1>8. ServerInv'
  <2>1. CASE line.method = "blank"
    <3>1. UNCHANGED <<mode, received, out, run>> /\ cur' = NoRequest /\ cur = NoRequest
      BY <2>1 DEF ReadLine
    <3> QED BY <1>1, <1>3, <1>5, <3>1 DEF EngineInv, ServerInv
  <2>2. CASE line.method = "garbage"
    <3> DEFINE e == Error(0, -32700)
    <3>1. e.id = line.id /\ e.code \in Codes
      BY <1>2, <2>2, EngineConstants DEF Error, Codes
    <3>2. /\ IsSequence(Append(out, e)) /\ DOMAIN Append(out, e) = 1 .. Len(out) + 1
          /\ Len(Append(out, e)) = Len(out) + 1
          /\ \A i \in 1 .. Len(out) : Append(out, e)[i] = out[i]
          /\ Append(out, e)[Len(out) + 1] = e /\ DOMAIN out = 1 .. Len(out)
      BY Appended DEF EngineInv, ServerInv
    <3> HIDE DEF e
    <3>3. received' = Append(received, line) /\ out' = Append(out, e) /\ cur' = NoRequest
      BY <2>2 DEF ReadLine, e
    <3>4. ASSUME NEW i \in DOMAIN out' PROVE out'[i].code \in Codes /\ out'[i].id = received'[i].id
      <4>1. CASE i \in 1 .. Len(out)
        BY <1>5, <1>6, <3>2, <3>3, <4>1 DEF EngineInv, ServerInv
      <4>2. CASE i = Len(out) + 1
        BY <1>5, <1>6, <3>1, <3>2, <3>3, <4>2
      <4> QED BY <1>5, <1>6, <3>2, <3>3, <4>1, <4>2
    <3>5. mode' = "serve" /\ run' = NoRun
      BY <1>5 DEF ReadLine
    <3> QED BY <1>1, <1>3, <1>5, <1>6, <3>2, <3>3, <3>4, <3>5 DEF ServerInv
  <2>3. CASE line.method \notin {"blank", "garbage"}
    <3>1. received' = Append(received, line) /\ out' = out /\ cur' = line /\ mode' = "serve" /\ run' = NoRun
      BY <1>5, <2>3 DEF ReadLine
    <3>2. ASSUME NEW i \in DOMAIN out' PROVE out'[i].code \in Codes /\ out'[i].id = received'[i].id
      BY <1>6, <1>7, <3>1 DEF EngineInv, ServerInv
    <3>3. cur' # NoRequest /\ cur' = received'[Len(received')] /\ Len(out') = Len(received') - 1
      BY <1>4, <1>5, <1>6, <3>1
    <3> QED BY <1>1, <1>3, <1>6, <3>1, <3>2, <3>3 DEF EngineInv, ServerInv
  <2> QED BY <2>1, <2>2, <2>3
<1>9. ClockInv' /\ ChatInv' /\ RoutingInv'
  BY ClockStays, ChatStays, RoutingStays DEF EngineInv, ReadLine, worldVars, chatVars, ClockInv, RoutingInv
<1> QED BY <1>8, <1>9 DEF EngineInv, RoutingInv

LEMMA ServesInv ==
  ASSUME EngineInv, Immediate \/ ListModels
  PROVE  EngineInv'
<1>1. mode = "serve" /\ cur # NoRequest /\ run = NoRun
  BY Dispatched DEF EngineInv, Immediate, ListModels
<1>2. \E r : Answer(r) /\ r.id = cur.id /\ r.code \in Codes
  <2>1. CASE Immediate
    BY <2>1, ImmediateCode DEF Immediate
  <2>2. CASE ListModels
    BY <2>2 DEF ListModels, Result, Codes
  <2> QED BY <2>1, <2>2
<1>3. UNCHANGED <<mode, config, up, clock, stdin, received, run, log, given, chat>>
  BY DEF Immediate, ListModels, worldVars, chatVars
<1>4. ServerInv'
  BY <1>1, <1>2, <1>3, AnswerInv DEF EngineInv
<1>5. ClockInv' /\ ChatInv' /\ RoutingInv'
  BY <1>1, <1>3, ClockStays, ChatStays, RoutingStays DEF EngineInv, ClockInv, RoutingInv
<1> QED BY <1>4, <1>5 DEF EngineInv, RoutingInv

LEMMA RoutedInv == EngineInv /\ Routed => EngineInv'
<1> SUFFICES ASSUME EngineInv, Routed PROVE EngineInv'
  OBVIOUS
<1>1. mode = "serve" /\ cur # NoRequest /\ run' = NoRun
  BY Dispatched DEF EngineInv, Routed, NoRun, None
<1>2. \E r : Answer(r) /\ r.id = cur.id /\ r.code \in Codes
  BY ErrorCode DEF Routed, Result, Error, Codes
<1>3. UNCHANGED <<mode, config, up, clock, stdin, received, given, chat>> /\ log' = <<>>
  BY DEF Routed, worldVars, chatVars
<1>4. ServerInv'
  BY <1>1, <1>2, <1>3, AnswerInv DEF EngineInv
<1>5. ClockInv' /\ ChatInv' /\ RoutingInv'
  BY <1>1, <1>3, ClockStays, ChatStays, RunEnds DEF EngineInv, ClockInv, RoutingInv
<1> QED BY <1>4, <1>5 DEF EngineInv, RoutingInv

\* A step that neither serves a line nor touches a run.
LEMMA QuietStep ==
  ASSUME EngineInv, UNCHANGED <<mode, config, clock, up, received, cur, out, run, log, chat>>,
         given' \in 0 .. MaxLines, mode = "chat" => given' = given,
         IsSequence(stdin'), \A i \in DOMAIN stdin' : stdin'[i] \in Lines,
         mode # "serve" => stdin' = <<>>
  PROVE  EngineInv'
<1>1. ServerInv'
  BY DEF EngineInv, ServerInv
<1>2. ClockInv' /\ ChatInv' /\ RoutingInv'
  BY ClockStays, ChatStays, RoutingStays DEF EngineInv, ClockInv, RoutingInv
<1> QED BY <1>1, <1>2 DEF EngineInv, RoutingInv

LEMMA WriteInv ==
  ASSUME EngineInv, NEW line \in Lines, Write(line)
  PROVE  EngineInv'
<1>1. /\ IsSequence(Append(stdin, line)) /\ DOMAIN Append(stdin, line) = 1 .. Len(stdin) + 1
      /\ \A i \in 1 .. Len(stdin) : Append(stdin, line)[i] = stdin[i]
      /\ Append(stdin, line)[Len(stdin) + 1] = line
      /\ Len(stdin) \in Nat /\ DOMAIN stdin = 1 .. Len(stdin)
  BY Appended DEF EngineInv, ServerInv
<1>2. ASSUME NEW i \in DOMAIN Append(stdin, line) PROVE Append(stdin, line)[i] \in Lines
  <2>1. i \in 1 .. Len(stdin) \/ i = Len(stdin) + 1
    BY <1>1
  <2> QED BY <1>1, <2>1 DEF EngineInv, ServerInv
<1>3. given' \in 0 .. MaxLines
  BY EngineConstants DEF EngineInv, ClockInv, Write
<1> QED BY <1>1, <1>2, <1>3, QuietStep DEF Write, worldVars

LEMMA TickInv == EngineInv /\ Tick => EngineInv'
<1> SUFFICES ASSUME EngineInv, Tick PROVE EngineInv'
  OBVIOUS
<1>1. PICK b : up' = Append(up, b)
  BY DEF Tick
<1>2. IsSequence(up') /\ Len(up') = clock' + 1 /\ clock' \in 0 .. MaxClock
  BY <1>1, Appended, EngineConstants DEF EngineInv, ClockInv, Tick
<1>3. ClockInv'
  BY <1>2 DEF EngineInv, ClockInv, Tick, chatVars
<1>4. ServerInv' /\ ChatInv' /\ RoutingInv'
  BY ServerStays, ChatStays, RoutingStays DEF EngineInv, Tick, serverVars, chatVars, RoutingInv
<1> QED BY <1>3, <1>4 DEF EngineInv, RoutingInv

\* The ends of the loop and of the shell.
LEMMA ExitInv ==
  ASSUME EngineInv, ServerExit \/ ChatExit
  PROVE  EngineInv'
<1>1. mode' = "exited" /\ UNCHANGED <<config, clock, up, stdin, received, cur, out, run, log, given, chat>>
  BY DEF ServerExit, ChatExit, worldVars, serverVars, chatVars
<1>2. stdin = <<>> /\ cur = NoRequest
  BY DEF EngineInv, ServerInv, ServerExit, ChatExit
<1>3. ServerInv'
  BY <1>1, <1>2 DEF EngineInv, ServerInv
<1>4. ClockInv' /\ ChatInv' /\ RoutingInv'
  BY <1>1, ClockStays, ChatStays, RoutingStays DEF EngineInv, ClockInv, RoutingInv
<1> QED BY <1>3, <1>4 DEF EngineInv, RoutingInv

-----------------------------------------------------------------------------
(* The beginning of a run *)

LEMMA SingletonIsSequence == ASSUME NEW e PROVE IsSequence(<<e>>) /\ Len(<<e>>) = 1 /\ <<e>>[1] = e
BY DEF IsSequence

LEMMA StartRunInv ==
  ASSUME RoutingInv, NEW model, NEW purpose, StartRun(model, purpose), config' = config
  PROVE  RoutingInv' /\ run' # NoRun
<1>1. ConfigInv'
  BY ConfigStays DEF RoutingInv
<1>2. CASE resolve_provider(model, config) = {}
  <2>1. /\ run' = [status |-> "Failed", model |-> model, purpose |-> purpose,
                   cascade |-> <<>>, at |-> 0, attempt |-> 0, retry_count |-> 0,
                   last_err |-> {<<"word", "no provider">>}, resp |-> None]
        /\ log' = <<>>
    BY <1>2 DEF StartRun
  <2>2. run'.status = "Failed" /\ run' # NoRun /\ log' = <<>>
    BY <2>1 DEF NoRun, None
  <2>3. RunInv'
    BY <2>1 DEF RunInv
  <2>4. Names(config'.providers) = {}
    BY <1>2, Resolves DEF RoutingInv, Names
  <2>5. IsSequence(log') /\ DOMAIN log' = {}
    BY <2>2 DEF IsSequence
  <2>6. LogInv'
    BY <2>2, <2>4, <2>5 DEF LogInv, CascadeIsHonest, FailsOnlyExhausted, RejectionIsFinal,
       EmptyAnswerNeverPasses
  <2> QED BY <1>1, <2>2, <2>3, <2>6 DEF RoutingInv
<1>3. CASE resolve_provider(model, config) # {}
  <2>0. PICK c, e : c = Cascade(model) /\ e = Requested(c[1])
    OBVIOUS
  <2>1. CascadeOK(c) /\ Len(c) \in Nat \ {0} /\ DOMAIN c = 1 .. Len(c)
    BY <1>3, <2>0, CascadeCovers, IsSeq DEF RoutingInv, CascadeOK
  <2>2. /\ run' = [status |-> "InFlight", model |-> model, purpose |-> purpose,
                   cascade |-> c, at |-> 1, attempt |-> 0, retry_count |-> 0,
                   last_err |-> {}, resp |-> None]
        /\ log' = <<e>>
    BY <1>3, <2>0 DEF StartRun
  <2>3. /\ IsSequence(log') /\ DOMAIN log' = {1} /\ log'[1] = e
        /\ e.ev = "InferenceRequested" /\ e.provider = c[1].name
    BY <2>2, <2>0, SingletonIsSequence, IsSeq DEF Requested
  <2>4. run'.status = "InFlight" /\ run'.at = 1 /\ run'.attempt = 0 /\ run'.cascade = c /\ run' # NoRun
    BY <2>2 DEF NoRun, None
  <2>5. IsSequence(c) /\ Names(c) = Names(config'.providers)
        /\ \A i, j \in DOMAIN c : c[i].name = c[j].name => i = j
    BY <2>1 DEF CascadeOK
  <2>6. RunInv'
    <3>1. run' = [status |-> run'.status, model |-> run'.model, purpose |-> run'.purpose,
                  cascade |-> run'.cascade, at |-> run'.at, attempt |-> run'.attempt,
                  retry_count |-> run'.retry_count, last_err |-> run'.last_err, resp |-> run'.resp]
      BY <2>2
    <3>2. 1 \in DOMAIN c /\ 0 \in 0 .. MAX_RETRIES_PER /\ Len(c) > 0
      BY <2>1 DEF MAX_RETRIES_PER
    <3> QED BY <2>4, <2>5, <3>1, <3>2 DEF RunInv, CascadeOK
  <2>7. \A p : Failures(p)' = {}
    BY <2>3 DEF Failures
  <2>8. InFlightInv'
    <3>1. Cardinality({}) = 0
      BY FS_EmptySet
    <3>2. Cardinality(Failures(Current)') = run'.attempt /\ \A i \in Failures(Current)' : FALSE
      BY <2>4, <2>7, <3>1
    <3>3. Reached(c[1].name)'
      BY <2>4 DEF Reached
    <3> QED BY <2>3, <2>4, <3>2, <3>3 DEF InFlightInv
  <2>9. CascadeIsHonest'
    BY <2>3, <2>4 DEF CascadeIsHonest, FailsOnlyExhausted, RejectionIsFinal, EmptyAnswerNeverPasses
  <2> QED BY <1>1, <2>3, <2>4, <2>6, <2>8, <2>9 DEF RoutingInv, LogInv
<1> QED BY <1>2, <1>3

LEMMA RouteInv == EngineInv /\ Route => EngineInv'
<1> SUFFICES ASSUME EngineInv, Route PROVE EngineInv'
  OBVIOUS
<1>1. mode = "serve" /\ cur # NoRequest /\ cur.method = "inference.route" /\ run = NoRun
  BY Dispatched DEF EngineInv, Route
<1>2. UNCHANGED <<mode, config, up, clock, stdin, received, given, chat>>
  BY DEF Route, worldVars, chatVars
<1>3. ClockInv' /\ ChatInv'
  BY <1>1, <1>2, ClockStays, ChatStays DEF EngineInv, ClockInv
<1>4. CASE ~cur.valid
  <2>1. Answer(Error(cur.id, -32602)) /\ UNCHANGED <<run, log>>
    BY <1>4 DEF Route
  <2>2. Error(cur.id, -32602).id = cur.id /\ Error(cur.id, -32602).code \in Codes
    BY DEF Error, Codes
  <2>3. ServerInv'
    BY <1>1, <1>2, <2>1, <2>2, AnswerInv DEF EngineInv
  <2> QED BY <1>2, <1>3, <2>1, <2>3, RoutingStays DEF EngineInv, RoutingInv
<1>5. CASE cur.valid
  <2>1. StartRun(cur.model, cur.purpose) /\ UNCHANGED <<cur, out>>
    BY <1>5 DEF Route
  <2>2. RoutingInv'
    BY <1>2, <2>1, StartRunInv DEF EngineInv, RoutingInv
  <2>3. ServerInv'
    BY <1>1, <1>2, <2>1 DEF EngineInv, ServerInv
  <2> QED BY <1>3, <2>2, <2>3 DEF EngineInv, RoutingInv
<1> QED BY <1>4, <1>5

-----------------------------------------------------------------------------
(* Steps of the shell *)

\* The server's state is not touched.
LEMMA ShellStep ==
  ASSUME ServerInv, mode = "chat", mode' \in {"chat", "exited"}, UNCHANGED serverVars
  PROVE  ServerInv'
BY DEF ServerInv, serverVars

LEMMA SayInv ==
  ASSUME EngineInv, mode = "chat", run = NoRun, Say, given' = given + 1, given' \in 0 .. MaxLines,
         UNCHANGED <<config, up, clock, serverVars>>
  PROVE  EngineInv'
<1> DEFINE ms == chat.messages
           m == [role |-> "user", turn |-> given + 1]
<1>1. RoutingInv' /\ run' # NoRun
  BY StartRunInv DEF EngineInv, RoutingInv, Say
<1>2. ServerInv' /\ ClockInv'
  BY ShellStep, ClockStays DEF EngineInv, Say
<1>3. /\ IsSequence(Append(ms, m)) /\ Len(ms) \in Nat /\ DOMAIN ms = 1 .. Len(ms)
      /\ Len(Append(ms, m)) = Len(ms) + 1 /\ DOMAIN Append(ms, m) = 1 .. Len(ms) + 1
      /\ \A i \in 1 .. Len(ms) : Append(ms, m)[i] = ms[i]
      /\ Append(ms, m)[Len(ms) + 1] = m
  BY Appended DEF EngineInv, ChatInv
<1>4. chat' = [messages |-> Append(ms, m), active_model |-> chat.active_model,
               force_provider |-> chat.force_provider]
  BY DEF EngineInv, ChatInv, Say
<1>5. chat'.messages = Append(ms, m)
  BY <1>4
<1>6. ASSUME NEW i \in DOMAIN chat'.messages, chat'.messages[i].role = "assistant"
      PROVE  i > 1 /\ chat'.messages[i - 1] = [role |-> "user", turn |-> chat'.messages[i].turn]
  <2>1. i \in 1 .. Len(ms)
    <3>1. i \in 1 .. Len(ms) \/ i = Len(ms) + 1
      BY <1>3, <1>5
    <3>2. m.role # "assistant"
      OBVIOUS
    <3> QED BY <1>3, <1>5, <1>6, <3>1, <3>2
  <2>2. ms[i].role = "assistant" /\ chat'.messages[i] = ms[i]
    BY <1>3, <1>5, <1>6, <2>1
  <2>3. i > 1 /\ ms[i - 1] = [role |-> "user", turn |-> ms[i].turn]
    BY <1>3, <2>1, <2>2 DEF EngineInv, ChatInv, AnswersFollowQuestions
  <2>4. i - 1 \in 1 .. Len(ms)
    BY <1>3, <2>1, <2>3
  <2> QED BY <1>3, <1>5, <2>2, <2>3, <2>4
<1>7. chat'.messages # <<>> /\ chat'.messages[Len(chat'.messages)] = [role |-> "user", turn |-> given']
  BY <1>3, <1>5
<1>8. ChatInv'
  BY <1>3, <1>4, <1>5, <1>6, <1>7 DEF ChatInv, AnswersFollowQuestions
<1> QED BY <1>1, <1>2, <1>8 DEF EngineInv, RoutingInv

\* A command leaves the messages or clears them.
LEMMA SlashMessages ==
  ASSUME ChatInv, NEW input, handle_slash(input)
  PROVE  /\ chat' = [messages |-> chat'.messages, active_model |-> chat'.active_model,
                     force_provider |-> chat'.force_provider]
         /\ chat'.messages \in {chat.messages, <<>>}
BY DEF ChatInv, handle_slash

LEMMA SlashInv ==
  ASSUME EngineInv, mode = "chat", run = NoRun, NEW input, handle_slash(input),
         given' \in 0 .. MaxLines, UNCHANGED <<config, up, clock, serverVars>>
  PROVE  EngineInv'
<1>1. mode' \in {"chat", "exited"} /\ UNCHANGED <<run, log>>
  BY DEF handle_slash
<1>2. ServerInv' /\ ClockInv' /\ RoutingInv'
  BY <1>1, ShellStep, ClockStays, RoutingStays DEF EngineInv, RoutingInv
<1>3. IsSequence(<<>>) /\ DOMAIN <<>> = {}
  BY DEF IsSequence
<1>4. ChatInv'
  BY <1>1, <1>3, SlashMessages DEF EngineInv, ChatInv, AnswersFollowQuestions
<1> QED BY <1>2, <1>4 DEF EngineInv, RoutingInv

LEMMA TypeInv ==
  ASSUME EngineInv, NEW input, Type(input)
  PROVE  EngineInv'
<1>1. mode = "chat" /\ run = NoRun /\ given' = given + 1 /\ UNCHANGED <<config, up, clock, serverVars>>
  BY DEF Type
<1>2. given' \in 0 .. MaxLines
  BY EngineConstants DEF EngineInv, ClockInv, Type
<1> QED BY <1>1, <1>2, SayInv, SlashInv DEF Type

LEMMA RepliedInv == EngineInv /\ Replied => EngineInv'
<1> SUFFICES ASSUME EngineInv, Replied PROVE EngineInv'
  OBVIOUS
<1> DEFINE ms == chat.messages
           m == [role |-> "assistant", turn |-> given]
<1>1. mode = "chat" /\ run # NoRun /\ run' = NoRun /\ log' = <<>>
      /\ UNCHANGED <<mode, config, up, clock, serverVars, given>>
  BY DEF Replied, NoRun, None, worldVars
<1>2. ServerInv' /\ ClockInv' /\ RoutingInv'
  BY <1>1, ShellStep, ClockStays, RunEnds DEF EngineInv, ClockInv, RoutingInv
<1>3. /\ IsSequence(Append(ms, m)) /\ Len(ms) \in Nat /\ DOMAIN ms = 1 .. Len(ms)
      /\ Len(Append(ms, m)) = Len(ms) + 1 /\ DOMAIN Append(ms, m) = 1 .. Len(ms) + 1
      /\ \A i \in 1 .. Len(ms) : Append(ms, m)[i] = ms[i]
      /\ Append(ms, m)[Len(ms) + 1] = m
  BY Appended DEF EngineInv, ChatInv
<1>4. ms # <<>> /\ ms[Len(ms)] = [role |-> "user", turn |-> given]
  BY <1>1 DEF EngineInv, ChatInv, AnswersFollowQuestions
<1>5. CASE run.status = "Completed"
  <2>1. chat' = [messages |-> Append(ms, m), active_model |-> chat.active_model,
                 force_provider |-> chat.force_provider]
    BY <1>5 DEF EngineInv, ChatInv, Replied
  <2>2. chat'.messages = Append(ms, m)
    BY <2>1
  <2>3. ASSUME NEW i \in DOMAIN chat'.messages, chat'.messages[i].role = "assistant"
        PROVE  i > 1 /\ chat'.messages[i - 1] = [role |-> "user", turn |-> chat'.messages[i].turn]
    <3>1. CASE i \in 1 .. Len(ms)
      <4>1. ms[i].role = "assistant" /\ chat'.messages[i] = ms[i]
        BY <1>3, <2>2, <2>3, <3>1
      <4>2. i > 1 /\ ms[i - 1] = [role |-> "user", turn |-> ms[i].turn]
        BY <1>3, <3>1, <4>1 DEF EngineInv, ChatInv, AnswersFollowQuestions
      <4>3. i - 1 \in 1 .. Len(ms)
        BY <1>3, <3>1, <4>2
      <4> QED BY <1>3, <2>2, <4>1, <4>2, <4>3
    <3>2. CASE i = Len(ms) + 1
      <4>1. Len(ms) \in 1 .. Len(ms) /\ Len(ms) > 0
        BY <1>3, <1>4
      <4>2. chat'.messages[i].turn = given /\ chat'.messages[i - 1] = ms[Len(ms)]
        BY <1>3, <2>2, <3>2, <4>1
      <4> QED BY <1>4, <3>2, <4>1, <4>2
    <3> QED BY <1>3, <2>2, <3>1, <3>2
  <2> QED BY <1>1, <1>2, <1>3, <2>1, <2>2, <2>3 DEF EngineInv, ChatInv, AnswersFollowQuestions, RoutingInv
<1>6. CASE run.status # "Completed"
  <2>1. chat' = chat
    BY <1>6 DEF Replied
  <2> QED BY <1>1, <1>2, <2>1 DEF EngineInv, ChatInv, AnswersFollowQuestions, RoutingInv
<1> QED BY <1>5, <1>6

-----------------------------------------------------------------------------
(* One exchange with a provider *)

LEMMA Extended ==
  ASSUME NEW s, IsSequence(s), NEW e
  PROVE  /\ s \o <<e>> = Append(s, e) /\ s \o <<>> = s
         /\ \A d : s \o <<e, d>> = Append(Append(s, e), d)
<1> DEFINE S == {s[i] : i \in 1 .. Len(s)} \cup {e}
<1>1. s \in [1 .. Len(s) -> S] /\ Len(s) \in Nat
  BY DEF IsSequence
<1>2. s \in Seq(S) /\ e \in S
  BY <1>1
<1> HIDE DEF S
<1> QED BY <1>2

\* is_retryable looks for the same marks as the class of a failure.
LEMMA Classes ==
  ASSUME NEW reply
  PROVE  is_retryable(ErrorText(reply)) <=> FailureClass(reply) = "transient"
<1>1. reply.kind = "http" => <<"HTTP", reply.status>> \in ErrorText(reply)
  <2> SUFFICES ASSUME reply.kind = "http" PROVE <<"HTTP", reply.status>> \in ErrorText(reply)
    OBVIOUS
  <2>1. ErrorText(reply) = reply.text \cup {<<"HTTP", reply.status>>, <<"digits", reply.status>>}
    BY Zenon DEF ErrorText
  <2> QED BY <2>1
<1> QED BY <1>1 DEF is_retryable, FailureClass, ClientErrors

\* An answer without text scores below every threshold: with nothing for the
\* content, speed and ratio are at most 1000 of what two or three full marks
\* would be.
LEMMA EmptyScore ==
  ASSUME NEW resp, NEW latency \in Nat, NEW purpose,
         resp.usage \in {NoUsage} \cup (Nat \X Nat),
         resp.choices = <<>> \/ resp.choices[1] = NoText
  PROVE  ~(compute_quality_score(resp, latency) >= Tau[active_tau(purpose)])
<1> DEFINE least(x, y) == IF x <= y THEN x ELSE y
           speed   == least(1000, 2000000 \div (IF latency < 100 THEN 100 ELSE latency))
           counted == resp.usage # NoUsage /\ resp.usage[1] > 0
           ratio   == IF counted
                      THEN least(2000, (1000 * resp.usage[2]) \div resp.usage[1]) \div 2
                      ELSE 0
           content == IF resp.choices # <<>> /\ resp.choices[1] # NoText THEN 1000 ELSE 0
<1>1. content = 0
  BY SMT
<1>2. speed \in Int /\ speed <= 1000
  <2>1. (IF latency < 100 THEN 100 ELSE latency) \in Nat \ {0}
    BY SMT
  <2>2. \A d \in Nat \ {0} : 2000000 \div d \in Int
    BY SMT
  <2> QED BY SMT, <2>1, <2>2
<1>3. counted => ratio \in Int /\ ratio <= 1000
  <2> SUFFICES ASSUME counted PROVE ratio \in Int /\ ratio <= 1000
    BY SMT
  <2>1. resp.usage[2] \in Nat /\ resp.usage[1] \in Nat \ {0}
    BY SMT
  <2>2. \A x \in Nat, d \in Nat \ {0} : (1000 * x) \div d \in Int
    BY SMT
  <2>3. (1000 * resp.usage[2]) \div resp.usage[1] \in Int
    BY SMT, <2>1, <2>2
  <2>4. \A x \in Int : least(2000, x) \div 2 \in Int /\ least(2000, x) \div 2 <= 1000
    BY SMT
  <2> QED BY SMT, <2>3, <2>4
<1>4. ~counted => ratio = 0
  BY SMT
<1>5. compute_quality_score(resp, latency) = (speed + ratio + content) \div (IF counted THEN 3 ELSE 2)
  BY SMT DEF compute_quality_score
<1> HIDE DEF speed, ratio, counted, content
<1>6. compute_quality_score(resp, latency) \in Int /\ compute_quality_score(resp, latency) < 700
  <2>1. CASE counted
    <3>1. compute_quality_score(resp, latency) = (speed + ratio) \div 3
      BY SMT, <1>1, <1>2, <1>3, <1>5, <2>1
    <3> QED BY SMT, <1>2, <1>3, <2>1, <3>1
  <2>2. CASE ~counted
    <3>1. compute_quality_score(resp, latency) = speed \div 2
      BY SMT, <1>1, <1>2, <1>4, <1>5, <2>2
    <3> QED BY SMT, <1>2, <3>1
  <2> QED BY SMT, <2>1, <2>2
<1>7. Tau[active_tau(purpose)] \in {700, 850, 900}
  BY SMT DEF Tau, active_tau
<1> QED BY SMT, <1>6, <1>7

LEMMA EmptyFails ==
  ASSUME NEW provider, NEW reply \in Replies, reply.kind = "ok", NEW purpose
  PROVE  LET resp == call_provider(provider, reply) IN
         resp.choices = <<>> \/ resp.choices[1] = NoText =>
           ~(compute_quality_score(resp, reply.latency) >= Tau[active_tau(purpose)])
<1> DEFINE resp == call_provider(provider, reply)
<1>1. reply.latency \in Nat /\ reply.usage \in {NoUsage} \cup (Nat \X Nat)
  BY EngineConstants
<1>2. resp.usage \in {NoUsage} \cup (Nat \X Nat)
  BY <1>1 DEF call_provider, AnthropicResponse, OllamaResponse, OpenAiResponse, NoUsage
<1> HIDE DEF resp
<1>3. resp.choices = <<>> \/ resp.choices[1] = NoText =>
        ~(compute_quality_score(resp, reply.latency) >= Tau[active_tau(purpose)])
  BY <1>1, <1>2, EmptyScore
<1> QED BY <1>3 DEF resp

\* The run after a failed exchange.
LEMMA FailedRun ==
  ASSUME RunInv, run.status = "InFlight", NEW reply, Fail(reply)
  PROVE  LET over == ~is_retryable(ErrorText(reply)) \/ run.attempt >= MAX_RETRIES_PER
             last == run.at = Len(run.cascade)
         IN  /\ run'.cascade = run.cascade
             /\ run'.at = IF over /\ ~last THEN run.at + 1 ELSE run.at
             /\ run'.attempt = IF over THEN 0 ELSE run.attempt + 1
             /\ run'.status = IF over /\ last THEN "Failed" ELSE "InFlight"
             /\ run' = [status |-> run'.status, model |-> run'.model, purpose |-> run'.purpose,
                        cascade |-> run'.cascade, at |-> run'.at, attempt |-> run'.attempt,
                        retry_count |-> run'.retry_count, last_err |-> run'.last_err, resp |-> run'.resp]
<1>1. run = [status |-> run.status, model |-> run.model, purpose |-> run.purpose,
             cascade |-> run.cascade, at |-> run.at, attempt |-> run.attempt,
             retry_count |-> run.retry_count, last_err |-> run.last_err, resp |-> run.resp]
  BY DEF RunInv, NoRun, None
<1> DEFINE over == ~is_retryable(ErrorText(reply)) \/ run.attempt >= MAX_RETRIES_PER
           last == run.at = Len(run.cascade)
<1>2. run' = [run EXCEPT !.retry_count = @ + 1, !.last_err = ErrorText(reply),
                         !.attempt = IF over THEN 0 ELSE @ + 1,
                         !.at = IF over /\ ~last THEN @ + 1 ELSE @,
                         !.status = IF over /\ last THEN "Failed" ELSE @]
  BY DEF Fail
<1> HIDE DEF over, last
<1>3. run' = [status |-> IF over /\ last THEN "Failed" ELSE run.status, model |-> run.model,
              purpose |-> run.purpose, cascade |-> run.cascade,
              at |-> IF over /\ ~last THEN run.at + 1 ELSE run.at,
              attempt |-> IF over THEN 0 ELSE run.attempt + 1,
              retry_count |-> run.retry_count + 1, last_err |-> ErrorText(reply), resp |-> run.resp]
  BY <1>1, <1>2
<1>4. /\ run'.cascade = run.cascade
      /\ run'.at = IF over /\ ~last THEN run.at + 1 ELSE run.at
      /\ run'.attempt = IF over THEN 0 ELSE run.attempt + 1
      /\ run'.status = IF over /\ last THEN "Failed" ELSE "InFlight"
  BY <1>3
<1>5. run' = [status |-> run'.status, model |-> run'.model, purpose |-> run'.purpose,
              cascade |-> run'.cascade, at |-> run'.at, attempt |-> run'.attempt,
              retry_count |-> run'.retry_count, last_err |-> run'.last_err, resp |-> run'.resp]
  BY <1>3
<1> QED BY <1>4, <1>5 DEF over, last

\* The events after a failed exchange: the failure, and the request to the next
\* provider if there is one.
LEMMA FailedLog ==
  ASSUME IsSequence(log), NEW reply, Fail(reply)
  PROVE  LET over == ~is_retryable(ErrorText(reply)) \/ run.attempt >= MAX_RETRIES_PER
             last == run.at = Len(run.cascade)
             n == Len(log)
         IN  /\ IsSequence(log') /\ n \in Nat /\ DOMAIN log = 1 .. n
             /\ DOMAIN log' = IF over /\ ~last THEN 1 .. n + 2 ELSE 1 .. n + 1
             /\ \A i \in 1 .. n : log'[i] = log[i]
             /\ log'[n + 1].ev = "ProviderFailed" /\ log'[n + 1].provider = Current
             /\ log'[n + 1].class = FailureClass(reply)
             /\ over /\ ~last => /\ log'[n + 2].ev = "InferenceRequested"
                                 /\ log'[n + 2].provider = run.cascade[run.at + 1].name
<1> DEFINE over == ~is_retryable(ErrorText(reply)) \/ run.attempt >= MAX_RETRIES_PER
           last == run.at = Len(run.cascade)
           n == Len(log)
<1>0. PICK failed, asked :
        /\ failed = [ev |-> "ProviderFailed", provider |-> run.cascade[run.at].name,
                     attempt |-> run.attempt, class |-> FailureClass(reply)]
        /\ asked = Requested(run.cascade[run.at + 1])
  OBVIOUS
<1>1. log' = Append(log, failed) \o (IF over /\ ~last THEN <<asked>> ELSE <<>>)
  BY <1>0 DEF Fail
<1> DEFINE t == Append(log, failed)
<1>2. /\ IsSequence(t) /\ n \in Nat /\ DOMAIN log = 1 .. n
      /\ Len(t) = n + 1 /\ DOMAIN t = 1 .. n + 1
      /\ \A i \in 1 .. n : t[i] = log[i]
      /\ t[n + 1] = failed
  BY Appended
<1>3. failed.ev = "ProviderFailed" /\ failed.provider = Current /\ failed.class = FailureClass(reply)
  BY <1>0 DEF Current
<1>4. asked.ev = "InferenceRequested" /\ asked.provider = run.cascade[run.at + 1].name
  BY <1>0 DEF Requested
<1> HIDE DEF t, over, last
<1>5. CASE over /\ ~last
  <2>1. log' = Append(t, asked)
    BY <1>1, <1>2, <1>5, Extended DEF t
  <2>2. /\ IsSequence(log') /\ DOMAIN log' = 1 .. (n + 1) + 1
        /\ \A i \in 1 .. n + 1 : log'[i] = t[i]
        /\ log'[(n + 1) + 1] = asked
    BY <1>2, <2>1, Appended
  <2>3. (n + 1) + 1 = n + 2 /\ n + 1 \in 1 .. n + 1 /\ \A i \in 1 .. n : i \in 1 .. n + 1
    BY <1>2
  <2> QED BY <1>2, <1>3, <1>4, <1>5, <2>2, <2>3 DEF over, last
<1>6. CASE ~(over /\ ~last)
  <2>1. log' = t
    BY <1>1, <1>2, <1>6, Extended DEF t
  <2> QED BY <1>2, <1>3, <1>6, <2>1 DEF over, last
<1> QED BY <1>5, <1>6

LEMMA FailInv ==
  ASSUME RoutingInv, run.status = "InFlight", NEW reply, Fail(reply), config' = config
  PROVE  RoutingInv'
<1> DEFINE over == ~is_retryable(ErrorText(reply)) \/ run.attempt >= MAX_RETRIES_PER
<1>0. PICK p, C, a, n, k0 :
        p = Current /\ C = run.cascade /\ a = run.at /\ n = Len(log) /\ k0 = run.attempt
  OBVIOUS
<1> DEFINE last == a = Len(C)
<1>1. /\ IsSequence(C) /\ Len(C) \in Nat /\ DOMAIN C = 1 .. Len(C) /\ a \in 1 .. Len(C)
      /\ p = C[a].name /\ k0 \in 0 .. 2
      /\ Names(C) = Names(config.providers)
      /\ \A i, j \in 1 .. Len(C) : C[i].name = C[j].name => i = j
  <2>1. CascadeOK(run.cascade) /\ run.at \in DOMAIN run.cascade /\ run.attempt \in 0 .. 2
    BY DEF RoutingInv, RunInv, NoRun, None, MAX_RETRIES_PER
  <2> QED BY <1>0, <2>1, IsSeq DEF CascadeOK, Current
<1>2. /\ run'.cascade = C
      /\ run'.at = IF over /\ ~last THEN a + 1 ELSE a
      /\ run'.attempt = IF over THEN 0 ELSE k0 + 1
      /\ run'.status = IF over /\ last THEN "Failed" ELSE "InFlight"
      /\ run' = [status |-> run'.status, model |-> run'.model, purpose |-> run'.purpose,
                 cascade |-> run'.cascade, at |-> run'.at, attempt |-> run'.attempt,
                 retry_count |-> run'.retry_count, last_err |-> run'.last_err, resp |-> run'.resp]
  BY <1>0, FailedRun DEF RoutingInv
<1>3. /\ IsSequence(log') /\ n \in Nat /\ DOMAIN log = 1 .. n
      /\ DOMAIN log' = IF over /\ ~last THEN 1 .. n + 2 ELSE 1 .. n + 1
      /\ \A i \in 1 .. n : log'[i] = log[i]
      /\ log'[n + 1].ev = "ProviderFailed" /\ log'[n + 1].provider = p
      /\ log'[n + 1].class = FailureClass(reply)
      /\ over /\ ~last => /\ log'[n + 2].ev = "InferenceRequested"
                          /\ log'[n + 2].provider = C[a + 1].name
  BY <1>0, FailedLog DEF RoutingInv, LogInv
<1>4. over <=> FailureClass(reply) # "transient" \/ k0 >= 2
  BY <1>0, Classes DEF MAX_RETRIES_PER
<1> HIDE DEF over
<1>5. /\ 1 .. n \subseteq DOMAIN log' /\ n + 1 \in DOMAIN log'
      /\ \A i \in DOMAIN log' : i \in 1 .. n \/ i = n + 1 \/ (i = n + 2 /\ over /\ ~last)
  BY <1>3
<1>6. a + 1 \in 1 .. Len(C) \/ last
  <2>1. a \in Int /\ Len(C) \in Int /\ 1 <= a /\ a <= Len(C)
    BY <1>1
  <2> QED BY <2>1
\* What is known of the events before the exchange.
<1>7. /\ \A i \in 1 .. n : log[i].ev \in {"InferenceRequested", "ProviderFailed"} =>
            \E k \in 1 .. a : C[k].name = log[i].provider
      /\ \A k \in 1 .. a - 1 : Exhausted(C[k].name)
      /\ Cardinality(Failures(p)) = k0
      /\ \A i \in Failures(p) : log[i].class = "transient"
  BY <1>0, <1>3 DEF RoutingInv, LogInv, InFlightInv, Reached
\* Only the current provider has another failure.
<1>8. \A q : q # p => Failures(q)' = Failures(q)
  <2> SUFFICES ASSUME NEW q, q # p PROVE Failures(q)' = Failures(q)
    OBVIOUS
  <2>1. \A i \in Failures(q)' : i \in Failures(q)
    <3> SUFFICES ASSUME NEW i \in Failures(q)' PROVE i \in Failures(q)
      OBVIOUS
    <3>1. i \in DOMAIN log' /\ log'[i].ev = "ProviderFailed" /\ log'[i].provider = q
      BY DEF Failures
    <3>2. i \in 1 .. n
      BY <1>3, <1>5, <3>1
    <3> QED BY <1>3, <3>1, <3>2 DEF Failures
  <2>2. \A i \in Failures(q) : i \in Failures(q)'
    BY <1>3, <1>5 DEF Failures
  <2> QED BY <2>1, <2>2
<1>9. Failures(p)' = Failures(p) \cup {n + 1} /\ Failures(p) \subseteq 1 .. n
  <2>1. \A i \in Failures(p)' : i \in Failures(p) \cup {n + 1}
    <3> SUFFICES ASSUME NEW i \in Failures(p)', i # n + 1 PROVE i \in Failures(p)
      OBVIOUS
    <3>1. i \in DOMAIN log' /\ log'[i].ev = "ProviderFailed" /\ log'[i].provider = p
      BY DEF Failures
    <3>2. i \in 1 .. n
      BY <1>3, <1>5, <3>1
    <3> QED BY <1>3, <3>1, <3>2 DEF Failures
  <2>2. \A i \in Failures(p) \cup {n + 1} : i \in Failures(p)'
    BY <1>3, <1>5 DEF Failures
  <2>3. Failures(p) \subseteq 1 .. n
    BY <1>3 DEF Failures
  <2> QED BY <2>1, <2>2, <2>3
<1>10. Cardinality(Failures(p)') = k0 + 1
  <2>1. IsFiniteSet(1 .. n)
    BY <1>3, FS_Interval
  <2>2. IsFiniteSet(Failures(p))
    BY <1>9, <2>1, FS_Subset
  <2>3. n + 1 \notin Failures(p)
    BY <1>3, <1>9
  <2>4. Cardinality(Failures(p) \cup {n + 1}) = Cardinality(Failures(p)) + 1
    BY <2>2, <2>3, FS_AddElement
  <2> QED BY <1>7, <1>9, <2>4
<1>11. \A q : q # p /\ Exhausted(q) => Exhausted(q)'
  <2> SUFFICES ASSUME NEW q, q # p, Exhausted(q) PROVE Exhausted(q)'
    OBVIOUS
  <2>1. Failures(q)' = Failures(q) /\ \A i \in Failures(q) : log'[i] = log[i]
    BY <1>3, <1>8 DEF Failures
  <2> QED BY <2>1 DEF Exhausted
<1>12. over => Exhausted(p)'
  <2> SUFFICES ASSUME over PROVE Exhausted(p)'
    OBVIOUS
  <2>1. CASE k0 = 2
    BY <1>10, <2>1 DEF Exhausted
  <2>2. CASE k0 # 2
    <3>1. FailureClass(reply) # "transient" /\ k0 + 1 \in 1 .. 2
      BY <1>1, <1>4, <2>2
    <3>2. n + 1 \in Failures(p)' /\ log'[n + 1].class # "transient"
      BY <1>3, <1>9, <3>1
    <3>3. \A j \in Failures(p)' : j <= n + 1
      BY <1>3, <1>9
    <3> QED BY <1>10, <3>1, <3>2, <3>3 DEF Exhausted
  <2> QED BY <2>1, <2>2
<1>13. \A k \in 1 .. a - 1 : C[k].name # p /\ Exhausted(C[k].name)'
  <2> SUFFICES ASSUME NEW k \in 1 .. a - 1 PROVE C[k].name # p /\ Exhausted(C[k].name)'
    OBVIOUS
  <2>1. C[k].name # p
    BY <1>1
  <2>2. PICK q : q = C[k].name
    OBVIOUS
  <2>3. Exhausted(q)'
    BY <1>7, <1>11, <2>1, <2>2
  <2> QED BY <2>1, <2>2, <2>3
<1>14. RunInv'
  <2>1. CascadeOK(C)'
    BY <1>1 DEF CascadeOK
  <2>2. k0 + 1 \in 0 .. 2 \/ over
    BY <1>1, <1>4
  <2>3. run'.at \in 1 .. Len(C)
    BY <1>1, <1>2, <1>6
  <2>4. run'.attempt \in 0 .. 2
    BY <1>2, <2>2
  <2> QED BY <1>1, <1>2, <2>1, <2>3, <2>4 DEF RunInv, MAX_RETRIES_PER
<1>15. ASSUME ~over PROVE InFlightInv'
  <2>1. run'.at = a /\ run'.cascade = C /\ run'.attempt = k0 + 1 /\ Current' = p
    BY <1>1, <1>2, <1>15 DEF Current
  <2>2. (\A k \in 1 .. run.at - 1 : Exhausted(run.cascade[k].name))'
    BY <1>13, <2>1 DEF Exhausted, Failures
  <2>3. Failures(Current)' = Failures(p)'
    BY <2>1 DEF Failures
  <2>4. Cardinality(Failures(Current)') = run'.attempt
    BY <1>10, <2>1, <2>3
  <2>5. \A i \in Failures(Current)' : log'[i].class = "transient"
    BY <1>3, <1>4, <1>7, <1>9, <1>15, <2>3
  <2>6. ASSUME NEW i \in DOMAIN log', log'[i].ev \in {"InferenceRequested", "ProviderFailed"}
        PROVE  \E k \in 1 .. a : C[k].name = log'[i].provider
    <3>1. CASE i \in 1 .. n
      BY <1>3, <1>7, <2>6, <3>1
    <3>2. CASE i = n + 1
      BY <1>1, <1>3, <3>2
    <3> QED BY <1>5, <1>15, <3>1, <3>2
  <2>7. \A i \in DOMAIN log' : log'[i].ev \in {"InferenceRequested", "ProviderFailed"} =>
          \E k \in 1 .. run'.at : run'.cascade[k].name = log'[i].provider
    BY <2>1, <2>6
  <2> QED BY <2>2, <2>4, <2>5, <2>7 DEF InFlightInv, Reached
<1>16. ASSUME over, ~last PROVE InFlightInv'
  <2>1. PICK r : r = C[a + 1].name
    OBVIOUS
  <2>2. run'.at = a + 1 /\ run'.cascade = C /\ run'.attempt = 0 /\ Current' = r
    BY <1>2, <1>16, <2>1 DEF Current
  <2>3. a \in Nat /\ a + 1 \in 1 .. Len(C) /\ \A k \in 1 .. a : k \in 1 .. Len(C) /\ k # a + 1
    <3>1. a \in Int /\ Len(C) \in Int /\ 1 <= a /\ a <= Len(C)
      BY <1>1
    <3> QED BY <1>6, <1>16, <3>1
  <2>4. \A k \in 1 .. a : C[k].name # r
    BY <1>1, <2>1, <2>3
  <2>5. r # p
    BY <1>1, <2>3, <2>4
  <2>6. Failures(r)' = {}
    <3>1. \A i \in Failures(r) : FALSE
      BY <1>3, <1>7, <2>4 DEF Failures
    <3> QED BY <1>8, <2>5, <3>1
  <2>7. Failures(Current)' = {}
    BY <2>2, <2>6 DEF Failures
  <2>8. Cardinality(Failures(Current)') = run'.attempt /\ \A i \in Failures(Current)' : log'[i].class = "transient"
    BY <2>2, <2>7, FS_EmptySet
  <2>9. ASSUME NEW k \in 1 .. a PROVE Exhausted(C[k].name)'
    <3>1. CASE k = a
      BY <1>1, <1>12, <1>16, <3>1
    <3>2. CASE k # a
      <4>1. k \in 1 .. a - 1
        BY <2>3, <3>2
      <4> QED BY <1>13, <4>1
    <3> QED BY <3>1, <3>2
  <2>10. (\A k \in 1 .. run.at - 1 : Exhausted(run.cascade[k].name))'
    BY <2>2, <2>3, <2>9 DEF Exhausted, Failures
  <2>11. ASSUME NEW i \in DOMAIN log', log'[i].ev \in {"InferenceRequested", "ProviderFailed"}
         PROVE  \E k \in 1 .. a + 1 : C[k].name = log'[i].provider
    <3>1. /\ \A k \in 1 .. a : k \in 1 .. a + 1
          /\ a \in 1 .. a + 1 /\ a + 1 \in 1 .. a + 1
      BY <1>1, <2>3
    <3>2. CASE i \in 1 .. n
      <4>1. log[i] = log'[i] /\ \E k \in 1 .. a : C[k].name = log[i].provider
        BY <1>3, <1>7, <2>11, <3>2
      <4> QED BY <3>1, <4>1
    <3>3. CASE i = n + 1
      BY <1>1, <1>3, <3>1, <3>3
    <3>4. CASE i = n + 2
      BY <1>3, <1>16, <3>1, <3>4
    <3> QED BY <1>5, <3>2, <3>3, <3>4
  <2>12. \A i \in DOMAIN log' : log'[i].ev \in {"InferenceRequested", "ProviderFailed"} =>
           \E k \in 1 .. run'.at : run'.cascade[k].name = log'[i].provider
    BY <2>2, <2>11
  <2> QED BY <2>8, <2>10, <2>12 DEF InFlightInv, Reached
<1>17. CascadeIsHonest'
  <2>1. run'.status = "Failed" => \A q \in Names(config'.providers) : Exhausted(q)'
    <3> SUFFICES ASSUME run'.status = "Failed", NEW q \in Names(C) PROVE Exhausted(q)'
      BY <1>1
    <3>1. over /\ last
      BY <1>2
    <3>2. PICK k \in 1 .. a : C[k].name = q
      BY <1>1, <3>1 DEF Names
    <3>3. CASE k = a
      BY <1>1, <1>12, <3>1, <3>2, <3>3
    <3>4. CASE k # a
      <4>1. k \in 1 .. a - 1
        BY <1>1, <3>4
      <4>2. Exhausted(C[k].name)'
        BY <1>13, <4>1
      <4> QED BY <3>2, <4>2
    <3> QED BY <3>3, <3>4
  <2>2. ASSUME over, ~last PROVE \A k \in 1 .. a : C[k].name # C[a + 1].name
    <3>1. a \in Nat /\ a + 1 \in 1 .. Len(C) /\ \A k \in 1 .. a : k \in 1 .. Len(C) /\ k # a + 1
      <4>1. a \in Int /\ Len(C) \in Int /\ 1 <= a /\ a <= Len(C)
        BY <1>1
      <4> QED BY <1>6, <2>2, <4>1
    <3> QED BY <1>1, <3>1
  <2>3. ASSUME NEW i \in DOMAIN log', NEW j \in DOMAIN log', i # j,
               log'[i].ev = "InferenceRequested", log'[j].ev = "InferenceRequested"
        PROVE  log'[i].provider # log'[j].provider
    <3>1. /\ i \in 1 .. n \/ (i = n + 2 /\ over /\ ~last)
          /\ j \in 1 .. n \/ (j = n + 2 /\ over /\ ~last)
      BY <1>3, <1>5, <2>3
    <3>2. CASE i \in 1 .. n /\ j \in 1 .. n
      BY <1>3, <2>3, <3>2 DEF RoutingInv, LogInv, CascadeIsHonest, FailsOnlyExhausted
    <3>3. CASE i \in 1 .. n /\ j = n + 2 /\ over /\ ~last
      BY <1>3, <1>7, <2>2, <2>3, <3>3
    <3>4. CASE j \in 1 .. n /\ i = n + 2 /\ over /\ ~last
      BY <1>3, <1>7, <2>2, <2>3, <3>4
    <3> QED BY <2>3, <3>1, <3>2, <3>3, <3>4
  <2>4. ASSUME NEW i \in DOMAIN log', log'[i].ev = "ProviderFailed", log'[i].class = "rejected",
               NEW j \in i + 1 .. Len(log'), log'[j].ev # "QualityScored"
        PROVE  log'[j].provider # log'[i].provider
    <3>1. i \in Int /\ j \in DOMAIN log' /\ j \in Int /\ i < j
      BY <1>3, <2>4, IsSeq
    <3>2. CASE i \in 1 .. n /\ j \in 1 .. n
      <4>1. j \in i + 1 .. Len(log) /\ n = Len(log)
        BY <1>0, <3>1, <3>2
      <4> QED BY <1>3, <2>4, <3>2, <4>1 DEF RoutingInv, LogInv, CascadeIsHonest, RejectionIsFinal
    <3>3. CASE i \in 1 .. n /\ j = n + 1
      <4>1. log[i].ev = "ProviderFailed" /\ log[i].class = "rejected" /\ log'[i] = log[i] /\ i \in DOMAIN log
        BY <1>3, <2>4, <3>3
      <4>2. log[i].provider # p
        BY <1>7, <4>1 DEF Failures
      <4> QED BY <1>3, <3>3, <4>1, <4>2
    <3>4. CASE i \in 1 .. n /\ j = n + 2 /\ over /\ ~last
      BY <1>3, <1>7, <2>2, <2>4, <3>4
    <3>5. CASE i = n + 1 /\ j = n + 2 /\ over /\ ~last
      BY <1>1, <1>3, <2>2, <3>5
    <3>6. i # n + 2
      BY <1>3, <2>4
    <3> QED BY <1>3, <1>5, <3>1, <3>2, <3>3, <3>4, <3>5, <3>6
  <2>5. EmptyAnswerNeverPasses'
    <3> SUFFICES ASSUME NEW i \in DOMAIN log', log'[i].ev = "QualityScored"
                 PROVE  ~(log'[i].passed /\ log'[i].empty)
      BY DEF EmptyAnswerNeverPasses
    <3>1. i \in 1 .. n
      BY <1>3, <1>5
    <3> QED BY <1>3, <3>1 DEF RoutingInv, LogInv, CascadeIsHonest, EmptyAnswerNeverPasses
  <2> QED BY <2>1, <2>3, <2>4, <2>5 DEF CascadeIsHonest, FailsOnlyExhausted, RejectionIsFinal
<1>18. LogInv'
  BY <1>2, <1>3, <1>15, <1>16, <1>17 DEF LogInv
<1> QED BY <1>14, <1>18, ConfigStays DEF RoutingInv

LEMMA SucceedInv ==
  ASSUME RoutingInv, run.status = "InFlight", NEW reply \in Replies, reply.kind = "ok",
         Succeed(reply), config' = config
  PROVE  RoutingInv' /\ run' # NoRun
<1>0. PICK p, n, done, scored :
        /\ p = Current /\ n = Len(log)
        /\ done = [ev |-> "InferenceCompleted", provider |-> p]
        /\ scored.ev = "QualityScored" /\ ~(scored.passed /\ scored.empty)
        /\ log' = log \o <<done, scored>>
  <2> DEFINE provider == run.cascade[run.at]
             resp == call_provider(provider, reply)
             passed == compute_quality_score(resp, reply.latency) >= Tau[active_tau(run.purpose)]
             empty == resp.choices = <<>> \/ resp.choices[1] = NoText
             d == [ev |-> "InferenceCompleted", provider |-> Current]
             s == [ev |-> "QualityScored", passed |-> passed, empty |-> empty]
  <2>1. resp.provider = Current
    BY DEF call_provider, Current
  <2>2. ~(passed /\ empty)
    BY EmptyFails
  <2> HIDE DEF resp, passed, empty
  <2>3. log' = log \o <<[ev |-> "InferenceCompleted", provider |-> resp.provider], s>>
    BY DEF Succeed, resp, passed, empty
  <2>4. log' = log \o <<d, s>>
    BY <2>1, <2>3
  <2>5. s.ev = "QualityScored" /\ ~(s.passed /\ s.empty)
    BY <2>2
  <2> QED BY <2>4, <2>5
<1>1. run = [status |-> run.status, model |-> run.model, purpose |-> run.purpose,
             cascade |-> run.cascade, at |-> run.at, attempt |-> run.attempt,
             retry_count |-> run.retry_count, last_err |-> run.last_err, resp |-> run.resp]
  BY DEF RoutingInv, RunInv, NoRun, None
<1>2. PICK r : run' = [run EXCEPT !.status = "Completed", !.retry_count = @ + 1, !.resp = r]
  BY DEF Succeed
<1>3. run' = [status |-> "Completed", model |-> run.model, purpose |-> run.purpose,
              cascade |-> run.cascade, at |-> run.at, attempt |-> run.attempt,
              retry_count |-> run.retry_count + 1, last_err |-> run.last_err, resp |-> r]
  BY <1>1, <1>2
<1>4. run'.status = "Completed" /\ run' # NoRun
  BY <1>3 DEF NoRun, None
<1>5. RunInv'
  BY <1>3 DEF RunInv
<1>6. /\ IsSequence(log') /\ n \in Nat /\ DOMAIN log = 1 .. n
      /\ DOMAIN log' = 1 .. n + 2 /\ Len(log') = n + 2
      /\ \A i \in 1 .. n : log'[i] = log[i]
      /\ log'[n + 1] = done /\ log'[n + 2] = scored
  <2> DEFINE t == Append(log, done)
  <2>1. /\ IsSequence(t) /\ n \in Nat /\ DOMAIN log = 1 .. n
        /\ Len(t) = n + 1
        /\ \A i \in 1 .. n : t[i] = log[i]
        /\ t[n + 1] = done
    BY <1>0, Appended DEF RoutingInv, LogInv
  <2>2. log' = Append(t, scored)
    BY <1>0, Extended DEF RoutingInv, LogInv
  <2> HIDE DEF t
  <2>3. /\ IsSequence(log') /\ DOMAIN log' = 1 .. (n + 1) + 1 /\ Len(log') = (n + 1) + 1
        /\ \A i \in 1 .. n + 1 : log'[i] = t[i]
        /\ log'[(n + 1) + 1] = scored
    BY <2>1, <2>2, Appended
  <2>4. (n + 1) + 1 = n + 2 /\ n + 1 \in 1 .. n + 1 /\ \A i \in 1 .. n : i \in 1 .. n + 1
    BY <2>1
  <2> QED BY <2>1, <2>3, <2>4
<1>7. \A i \in DOMAIN log' : i \in 1 .. n \/ i = n + 1 \/ i = n + 2
  BY <1>6
<1>8. done.ev = "InferenceCompleted" /\ done.provider = p
  BY <1>0
<1>9. CascadeIsHonest'
  <2>1. ASSUME NEW i \in DOMAIN log', NEW j \in DOMAIN log', i # j,
               log'[i].ev = "InferenceRequested", log'[j].ev = "InferenceRequested"
        PROVE  log'[i].provider # log'[j].provider
    <3>1. i \in 1 .. n /\ j \in 1 .. n
      BY <1>0, <1>6, <1>7, <1>8, <2>1
    <3> QED BY <1>6, <2>1, <3>1 DEF RoutingInv, LogInv, CascadeIsHonest, FailsOnlyExhausted
  <2>2. ASSUME NEW i \in DOMAIN log', log'[i].ev = "ProviderFailed", log'[i].class = "rejected",
               NEW j \in i + 1 .. Len(log'), log'[j].ev # "QualityScored"
        PROVE  log'[j].provider # log'[i].provider
    <3>1. i \in 1 .. n /\ j \in DOMAIN log' /\ j \in Int /\ i < j
      BY <1>0, <1>6, <1>7, <1>8, <2>2
    <3>2. CASE j \in 1 .. n
      <4>1. j \in i + 1 .. Len(log) /\ n = Len(log)
        BY <1>0, <3>1, <3>2
      <4> QED BY <1>6, <2>2, <3>1, <3>2, <4>1 DEF RoutingInv, LogInv, CascadeIsHonest, RejectionIsFinal
    <3>3. CASE j = n + 1
      <4>1. log[i].ev = "ProviderFailed" /\ log[i].class = "rejected" /\ log'[i] = log[i] /\ i \in DOMAIN log
        BY <1>6, <2>2, <3>1
      <4>2. log[i].provider # p
        BY <1>0, <4>1 DEF RoutingInv, LogInv, InFlightInv, Failures
      <4> QED BY <1>6, <1>8, <3>3, <4>1, <4>2
    <3>4. j # n + 2
      BY <1>0, <1>6, <2>2
    <3> QED BY <1>7, <3>1, <3>2, <3>3, <3>4
  <2>3. ASSUME NEW i \in DOMAIN log', log'[i].ev = "QualityScored"
        PROVE  ~(log'[i].passed /\ log'[i].empty)
    <3>1. CASE i \in 1 .. n
      BY <1>6, <2>3, <3>1 DEF RoutingInv, LogInv, CascadeIsHonest, EmptyAnswerNeverPasses
    <3>2. CASE i = n + 2
      BY <1>0, <1>6, <3>2
    <3>3. i # n + 1
      BY <1>6, <1>8, <2>3
    <3> QED BY <1>7, <3>1, <3>2, <3>3
  <2> QED BY <1>4, <2>1, <2>2, <2>3 DEF CascadeIsHonest, FailsOnlyExhausted, RejectionIsFinal,
             EmptyAnswerNeverPasses
<1> QED BY <1>4, <1>5, <1>6, <1>9, ConfigStays DEF RoutingInv, LogInv

LEMMA AttemptInv == EngineInv /\ Attempt => EngineInv'
<1> SUFFICES ASSUME EngineInv, Attempt PROVE EngineInv'
  OBVIOUS
<1>1. /\ run.status = "InFlight" /\ run # NoRun
      /\ UNCHANGED <<mode, config, up, clock, stdin, received, cur, out, given, chat>>
  BY DEF Attempt, NoRun, None, worldVars, serverVars, chatVars
<1>2. PICK reply \in Replies : IF reply.kind = "ok" THEN Succeed(reply) ELSE Fail(reply)
  BY DEF Attempt
<1>3. RoutingInv' /\ run' # NoRun
  <2>1. CASE reply.kind = "ok"
    BY <1>1, <1>2, <2>1, SucceedInv DEF EngineInv, RoutingInv
  <2>2. CASE reply.kind # "ok"
    <3>1. Fail(reply)
      BY <1>2, <2>2
    <3>2. RoutingInv'
      BY <1>1, <3>1, FailInv DEF EngineInv, RoutingInv
    <3>3. run'.status \in {"InFlight", "Failed"}
      BY <1>1, <3>1, FailedRun DEF EngineInv
    <3> QED BY <3>2, <3>3 DEF NoRun, None
  <2> QED BY <2>1, <2>2
<1>4. ServerInv' /\ ClockInv'
  BY <1>1, ServerStays, ClockStays DEF EngineInv, ClockInv
<1>5. ChatInv'
  BY <1>1 DEF EngineInv, ChatInv, AnswersFollowQuestions
<1> QED BY <1>3, <1>4, <1>5 DEF EngineInv, RoutingInv

-----------------------------------------------------------------------------
(* The theorems *)

LEMMA InitInv == Init => EngineInv
<1> SUFFICES ASSUME Init PROVE EngineInv
  OBVIOUS
<1>1. IsSequence(<<>>) /\ DOMAIN <<>> = {} /\ Len(<<>>) = 0
  BY DEF IsSequence
<1>2. PICK env : config = load_config(env)
  BY DEF Init
<1>3. ConfigInv
  BY <1>2, LoadedConfig DEF ConfigInv
<1>4. PICK b : up = <<b>>
  BY DEF Init
<1>5. ClockInv
  BY <1>4, SingletonIsSequence, EngineConstants DEF Init, ClockInv
<1>6. ServerInv
  BY <1>1 DEF Init, ServerInv
<1>7. ChatInv
  BY <1>1 DEF Init, ChatInv, AnswersFollowQuestions
<1>8. run.status \notin {"InFlight", "Failed"}
  BY DEF Init, NoRun, None
<1>9. RunInv /\ LogInv
  BY <1>1, <1>8 DEF Init, RunInv, LogInv, CascadeIsHonest, FailsOnlyExhausted, RejectionIsFinal,
     EmptyAnswerNeverPasses
<1> QED BY <1>3, <1>5, <1>6, <1>7, <1>9 DEF EngineInv

LEMMA StutterInv == EngineInv /\ UNCHANGED vars => EngineInv'
<1> SUFFICES ASSUME EngineInv, UNCHANGED vars PROVE EngineInv'
  OBVIOUS
<1>1. UNCHANGED <<mode, config, clock, up, stdin, received, cur, out, run, log, given, chat>>
  BY DEF vars, worldVars, serverVars, chatVars
<1> QED BY <1>1, QuietStep DEF EngineInv, ClockInv, ServerInv

LEMMA NextInv == EngineInv /\ [Next]_vars => EngineInv'
<1> SUFFICES ASSUME EngineInv, [Next]_vars PROVE EngineInv'
  OBVIOUS
<1>1. CASE Attempt
  BY <1>1, AttemptInv
<1>2. CASE Serve
  BY <1>2, ReadLineInv, ServesInv, RouteInv, RoutedInv, ExitInv DEF Serve
<1>3. ASSUME NEW line \in Lines, Write(line) PROVE EngineInv'
  BY <1>3, WriteInv
<1>4. CASE CloseStdin
  <2>1. UNCHANGED <<mode, config, clock, up, stdin, received, cur, out, run, log, given, chat>>
    BY <1>4 DEF CloseStdin, worldVars, chatVars
  <2> QED BY <2>1, QuietStep DEF EngineInv, ClockInv, ServerInv
<1>5. CASE Tick
  BY <1>5, TickInv
<1>6. ASSUME NEW input \in Inputs, Type(input) PROVE EngineInv'
  BY <1>6, TypeInv
<1>7. CASE Replied
  BY <1>7, RepliedInv
<1>8. CASE ChatExit
  BY <1>8, ExitInv
<1>9. CASE Stopped \/ UNCHANGED vars
  BY <1>9, StutterInv DEF Stopped
<1> QED BY <1>1, <1>2, <1>3, <1>4, <1>5, <1>6, <1>7, <1>8, <1>9 DEF Next

\* Every reachable state of the kernel process has the invariant.
THEOREM EngineInvariance == Spec => []EngineInv
<1> QED BY InitInv, NextInv, PTL DEF Spec

\* In the server, lines and answers match one to one, in order and by id, and
\* the loop ends only when all are answered; in the shell an answer directly
\* follows its own question (rpc.rs, run_rpc_server; chat.rs, run_chat).
THEOREM RepliesInOrder == Spec => []RepliesFollowRequests
<1>1. EngineInv => RepliesFollowRequests
  <2> SUFFICES ASSUME EngineInv PROVE RepliesFollowRequests
    OBVIOUS
  <2>1. run.status \in {None, "InFlight", "Completed", "Failed"}
        /\ (run.status = "InFlight" => run.at \in DOMAIN run.cascade /\ run.attempt \in 0 .. MAX_RETRIES_PER)
    BY DEF EngineInv, RunInv, NoRun, None
  <2>2. TypeOK
    BY <2>1 DEF TypeOK, EngineInv, ClockInv, ServerInv, Codes
  <2>3. AnswersInOrder
    BY DEF AnswersInOrder, EngineInv, ServerInv
  <2>4. AnswersFollowQuestions
    BY DEF EngineInv, ChatInv
  <2> QED BY <2>2, <2>3, <2>4 DEF RepliesFollowRequests
<1> QED BY <1>1, EngineInvariance, PTL

\* A request fails only when every configured provider is used up, none is asked
\* again that rejected it, and no empty answer passes a quality tier (router.rs,
\* route_inference).
THEOREM HonestCascade == Spec => []CascadeIsHonest
<1>1. EngineInv => CascadeIsHonest
  BY DEF EngineInv, LogInv
<1> QED BY <1>1, EngineInvariance, PTL

-----------------------------------------------------------------------------
(* What router.rs lists as models                                          *)

\* A function that is e at 0 and is made by G step by step.
StepsOf(S, n) == [1 .. n -> [S -> S]]
Made(f, S, n, e, G) == f \in [0 .. n -> S] /\ f[0] = e /\ \A i \in 1 .. n : f[i] = G[i][f[i - 1]]

\* Such a function exists, for finitely many steps.
LEMMA Recursion ==
  ASSUME NEW S, NEW n \in Nat, NEW e \in S, NEW G \in StepsOf(S, n)
  PROVE  \E f : Made(f, S, n, e, G)
<1> USE DEF StepsOf
<1> DEFINE Is(f, k) == f[0] = e /\ \A i \in 1 .. k : f[i] = G[i][f[i - 1]]
           T == {k \in Nat : k <= n => \E f \in [0 .. k -> S] : Is(f, k)}
<1>1. 0 \in T
  <2> DEFINE f == [i \in 0 .. 0 |-> e]
  <2>1. f \in [0 .. 0 -> S] /\ f[0] = e
    OBVIOUS
  <2>2. \A i \in 1 .. 0 : FALSE
    OBVIOUS
  <2> HIDE DEF f
  <2>3. Is(f, 0)
    BY <2>1, <2>2
  <2> QED BY <2>1, <2>3
<1>2. ASSUME NEW k \in Nat, k \in T, k + 1 <= n PROVE \E f \in [0 .. k + 1 -> S] : Is(f, k + 1)
  <2>1. PICK f \in [0 .. k -> S] : Is(f, k)
    BY <1>2
  <2> DEFINE g == [i \in 0 .. k + 1 |-> IF i <= k THEN f[i] ELSE G[k + 1][f[k]]]
  <2>2. k \in 0 .. k /\ k + 1 \in 1 .. n
    BY <1>2
  <2>3. f[k] \in S /\ G[k + 1] \in [S -> S]
    BY <2>2
  <2>4. G[k + 1][f[k]] \in S
    BY <2>3
  <2>5. g \in [0 .. k + 1 -> S]
    <3>1. \A i \in 0 .. k + 1 : i <= k => f[i] \in S
      OBVIOUS
    <3> QED BY <2>4, <3>1
  <2>6. /\ \A i \in 0 .. k : g[i] = f[i]
        /\ g[k + 1] = G[k + 1][f[k]]
    OBVIOUS
  <2> HIDE DEF g
  <2>7. ASSUME NEW i \in 1 .. k + 1 PROVE g[i] = G[i][g[i - 1]]
    <3>1. CASE i <= k
      <4>1. i \in 1 .. k /\ i \in 0 .. k /\ i - 1 \in 0 .. k
        BY <3>1
      <4> QED BY <2>1, <2>6, <4>1
    <3>2. CASE i = k + 1
      BY <2>6, <3>2
    <3> QED BY <3>1, <3>2
  <2>8. g[0] = e
    BY <2>1, <2>6
  <2> QED BY <2>5, <2>7, <2>8
<1>3. n \in T
  <2> HIDE DEF Is
  <2>1. \A k \in Nat : k \in T => k + 1 \in T
    BY <1>2
  <2> HIDE DEF T
  <2> QED BY <1>1, <2>1, Induction
<1> QED BY <1>3 DEF Made

\* parse_models returns a sequence.
LEMMA ParsedIsSequence ==
  ASSUME NEW env, NEW key, NEW default, NEW V, env_or(env, key, default) \in Seq(V)
  PROVE  IsSequence(parse_models(env, key, default))
<1> DEFINE ids == env_or(env, key, default)
           N == Len(ids)
           S == Seq(V)
           e == <<>>
           G == [i \in 1 .. N |-> [r \in S |-> IF ids[i] = <<>> THEN r ELSE Append(r, ids[i])]]
           W == CHOOSE f : f = [i \in 0 .. N |->
                  IF i = 0 THEN <<>> ELSE IF ids[i] = <<>> THEN f[i - 1] ELSE Append(f[i - 1], ids[i])]
           T == {i \in Nat : i <= N => W[i] \in S}
<1>1. N \in Nat /\ e \in S /\ \A i \in 1 .. N : ids[i] \in V
  OBVIOUS
<1>2. parse_models(env, key, default) = W[N]
  BY DEF parse_models
<1> HIDE DEF ids
<1>3. G \in StepsOf(S, N)
  <2>1. \A i \in 1 .. N, r \in S : (IF ids[i] = <<>> THEN r ELSE Append(r, ids[i])) \in S
    BY <1>1
  <2> HIDE DEF S
  <2> QED BY <2>1 DEF StepsOf
<1>4. PICK f : Made(f, S, N, e, G)
  <2> HIDE DEF S, N, e, G
  <2> QED BY <1>1, <1>3, Recursion
<1> HIDE DEF S
<1>5. f = [i \in 0 .. N |-> f[i]] /\ f[0] = <<>>
  BY <1>4 DEF Made
<1>6. ASSUME NEW i \in 1 .. N
      PROVE  f[i] = IF ids[i] = <<>> THEN f[i - 1] ELSE Append(f[i - 1], ids[i])
  <2>1. i - 1 \in 0 .. N
    BY <1>1
  <2>2. f[i - 1] \in S /\ f[i] = G[i][f[i - 1]]
    BY <1>4, <2>1 DEF Made
  <2> QED BY <2>2
<1>7. f = [i \in 0 .. N |->
           IF i = 0 THEN <<>> ELSE IF ids[i] = <<>> THEN f[i - 1] ELSE Append(f[i - 1], ids[i])]
  <2>1. ASSUME NEW i \in 0 .. N
        PROVE  f[i] = IF i = 0 THEN <<>> ELSE IF ids[i] = <<>> THEN f[i - 1] ELSE Append(f[i - 1], ids[i])
    <3>1. i = 0 \/ i \in 1 .. N
      BY <1>1
    <3> QED BY <1>5, <1>6, <3>1
  <2> QED BY <1>5, <2>1
<1>8. W = [i \in 0 .. N |->
           IF i = 0 THEN <<>> ELSE IF ids[i] = <<>> THEN W[i - 1] ELSE Append(W[i - 1], ids[i])]
  BY <1>7
<1> HIDE DEF W
<1>9. 0 \in T
  <2>1. W[0] = <<>>
    BY <1>1, <1>8
  <2> QED BY <1>1, <2>1
<1>10. ASSUME NEW i \in Nat, i \in T PROVE i + 1 \in T
  <2> SUFFICES ASSUME i + 1 <= N PROVE W[i + 1] \in S
    OBVIOUS
  <2>1. i + 1 \in 1 .. N /\ i + 1 \in 0 .. N /\ i + 1 # 0 /\ (i + 1) - 1 = i /\ W[i] \in S
    BY <1>1, <1>10
  <2>2. W[i + 1] = IF ids[i + 1] = <<>> THEN W[i] ELSE Append(W[i], ids[i + 1])
    BY <1>8, <2>1
  <2> QED BY <1>1, <2>1, <2>2 DEF S
<1>11. N \in T
  <2> HIDE DEF T, N
  <2> QED BY <1>1, <1>9, <1>10, Induction
<1>12. W[N] \in S
  <2>1. N <= N
    BY <1>1
  <2> QED BY <1>11, <2>1
<1> QED BY <1>2, <1>12, SeqIs DEF S

\* What load_config pushes lists its models in a sequence, and has a priority.
Listing(p) == IsSequence(p.models) /\ p.priority \in Int

\* That holds of all five providers.
LEMMA PushedLists ==
  ASSUME NEW env, ListsModels(env)
  PROVE  \A i \in DOMAIN Pushed(env) : Listing(Pushed(env)[i])
<1> DEFINE p(name, key, default, priority) ==
             [name |-> name, models |-> parse_models(env, key, default), priority |-> priority]
           p1 == p("nvidia-nim", "NVIDIA_MODELS", <<Nemotron, NemotronSmall>>, 1)
           p2 == p("openai", "OPENAI_MODELS", <<Gpt("5.4"), Gpt("4o")>>, 2)
           p3 == p("anthropic", "ANTHROPIC_MODELS", <<Sonnet>>, 3)
           p4 == p("ollama", "OLLAMA_MODELS", << <<"gpt-", "oss">> >>, 10)
           p5 == p("nim-local", "NIM_LOCAL_MODELS", <<Nemotron>>, 0)
           R == {p1, p2, p3, p4, p5}
           V == Seq(STRING) \cup {Nemotron, NemotronSmall, Gpt("5.4"), Gpt("4o"), Sonnet, <<"gpt-", "oss">>}
<1>1. ASSUME NEW name, NEW key \in ListVariables, NEW default \in Seq(V), NEW priority \in Int
      PROVE  Listing(p(name, key, default, priority))
  <2>1. env_or(env, key, default) \in Seq(V)
    <3>1. Seq(Seq(STRING)) \subseteq Seq(V)
      OBVIOUS
    <3> HIDE DEF V
    <3> QED BY <3>1 DEF env_or, ListsModels
  <2> HIDE DEF V
  <2>2. IsSequence(parse_models(env, key, default))
    BY <2>1, ParsedIsSequence
  <2> QED BY <2>2 DEF Listing
<1>2. /\ <<Nemotron, NemotronSmall>> \in Seq(V) /\ <<Gpt("5.4"), Gpt("4o")>> \in Seq(V)
      /\ <<Sonnet>> \in Seq(V) /\ << <<"gpt-", "oss">> >> \in Seq(V) /\ <<Nemotron>> \in Seq(V)
  <2>1. Nemotron \in V /\ NemotronSmall \in V /\ Gpt("5.4") \in V /\ Gpt("4o") \in V
        /\ Sonnet \in V /\ <<"gpt-", "oss">> \in V
    OBVIOUS
  <2> HIDE DEF V
  <2> QED BY <2>1
<1>3. \A r \in R : Listing(r)
  <2> HIDE DEF p, V
  <2>0. ListVariables = {"NVIDIA_MODELS", "OPENAI_MODELS", "ANTHROPIC_MODELS", "OLLAMA_MODELS",
                         "NIM_LOCAL_MODELS"}
    BY DEF ListVariables
  <2>1. Listing(p1)
    <3>1. "NVIDIA_MODELS" \in ListVariables
      BY <2>0
    <3> DEFINE d == <<Nemotron, NemotronSmall>>
    <3>2. d \in Seq(V)
      BY <1>2
    <3> HIDE DEF d
    <3>3. Listing(p("nvidia-nim", "NVIDIA_MODELS", d, 1))
      BY <1>1, <3>1, <3>2
    <3> QED BY <3>3 DEF d
  <2>2. Listing(p2)
    <3>1. "OPENAI_MODELS" \in ListVariables
      BY <2>0
    <3> DEFINE d == <<Gpt("5.4"), Gpt("4o")>>
    <3>2. d \in Seq(V)
      BY <1>2
    <3> HIDE DEF d
    <3>3. Listing(p("openai", "OPENAI_MODELS", d, 2))
      BY <1>1, <3>1, <3>2
    <3> QED BY <3>3 DEF d
  <2>3. Listing(p3)
    <3>1. "ANTHROPIC_MODELS" \in ListVariables
      BY <2>0
    <3> DEFINE d == <<Sonnet>>
    <3>2. d \in Seq(V)
      BY <1>2
    <3> HIDE DEF d
    <3>3. Listing(p("anthropic", "ANTHROPIC_MODELS", d, 3))
      BY <1>1, <3>1, <3>2
    <3> QED BY <3>3 DEF d
  <2>4. Listing(p4)
    <3>1. "OLLAMA_MODELS" \in ListVariables
      BY <2>0
    <3> DEFINE d == << <<"gpt-", "oss">> >>
    <3>2. d \in Seq(V)
      BY <1>2
    <3> HIDE DEF d
    <3>3. Listing(p("ollama", "OLLAMA_MODELS", d, 10))
      BY <1>1, <3>1, <3>2
    <3> QED BY <3>3 DEF d
  <2>5. Listing(p5)
    <3>1. "NIM_LOCAL_MODELS" \in ListVariables
      BY <2>0
    <3> DEFINE d == <<Nemotron>>
    <3>2. d \in Seq(V)
      BY <1>2
    <3> HIDE DEF d
    <3>3. Listing(p("nim-local", "NIM_LOCAL_MODELS", d, 0))
      BY <1>1, <3>1, <3>2
    <3> QED BY <3>3 DEF d
  <2> QED BY <2>1, <2>2, <2>3, <2>4, <2>5
<1>4. Pushed(env) \in Seq(R)
  <2> DEFINE has(key) == key \in DOMAIN env
             q(on, r) == IF on THEN <<r>> ELSE <<>>
  <2>1. Pushed(env) = q(has("NVIDIA_API_KEY"), p1) \o q(has("OPENAI_API_KEY"), p2)
                        \o q(has("ANTHROPIC_API_KEY"), p3) \o q(ollama_url(env) # "", p4)
                        \o q(has("NIM_LOCAL_URL"), p5)
    BY DEF Pushed
  <2>2. p1 \in R /\ p2 \in R /\ p3 \in R /\ p4 \in R /\ p5 \in R
    OBVIOUS
  <2> HIDE DEF p1, p2, p3, p4, p5, R, has
  <2>3. \A r \in R : \A on : q(on, r) \in Seq(R)
    OBVIOUS
  <2> HIDE DEF q
  <2>4. \A s, t \in Seq(R) : s \o t \in Seq(R)
    OBVIOUS
  <2> DEFINE a == q(has("NVIDIA_API_KEY"), p1)
             b == q(has("OPENAI_API_KEY"), p2)
             c == q(has("ANTHROPIC_API_KEY"), p3)
             d == q(ollama_url(env) # "", p4)
             e == q(has("NIM_LOCAL_URL"), p5)
  <2>5. a \in Seq(R) /\ b \in Seq(R) /\ c \in Seq(R) /\ d \in Seq(R) /\ e \in Seq(R)
    BY <2>2, <2>3
  <2> HIDE DEF a, b, c, d, e
  <2>6. a \o b \in Seq(R)
    BY <2>4, <2>5
  <2>7. a \o b \o c \in Seq(R)
    BY <2>4, <2>5, <2>6
  <2>8. a \o b \o c \o d \in Seq(R)
    BY <2>4, <2>5, <2>7
  <2>9. a \o b \o c \o d \o e \in Seq(R)
    BY <2>4, <2>5, <2>8
  <2> QED BY <2>1, <2>9 DEF a, b, c, d, e
<1> HIDE DEF R
<1>5. \A i \in DOMAIN Pushed(env) : Pushed(env)[i] \in R
  BY <1>4
<1> QED BY <1>3, <1>5

\* The environment after the .env file still lists models in lists.
LEMMA LoadedLists ==
  ASSUME NEW env \in Environments, NEW files \in Dotenvs
  PROVE  ListsModels(try_load_dotenv(env, files))
<1> DEFINE present == {i \in DOMAIN files : files[i] # {}}
           first == CHOOSE i \in present : \A j \in present : i <= j
           file == CHOOSE f \in files[first] : TRUE
           both == [key \in DOMAIN env \cup DOMAIN file |->
                      IF key \in DOMAIN env THEN env[key] ELSE file[key]]
<1>1. ListsModels(env) /\ DOMAIN files \in SUBSET Nat
  BY ListsAreLists
<1>2. try_load_dotenv(env, files) = IF present = {} THEN env ELSE both
  BY DEF try_load_dotenv
<1>3. ASSUME present # {} PROVE ListsModels(both)
  <2>1. present \in SUBSET Nat
    BY <1>1
  <2>2. \E i \in present : \A j \in present : i <= j
    BY <1>3, <2>1, Least
  <2>3. first \in present
    BY <2>2
  <2>4. first \in DOMAIN files /\ file \in files[first]
    BY <2>3
  <2> HIDE DEF first, file, present
  <2>5. ListsModels(file)
    BY <2>4, ListsAreLists
  <2>6. DOMAIN both = DOMAIN env \cup DOMAIN file
    OBVIOUS
  <2>7. ASSUME NEW key \in ListVariables \cap DOMAIN both PROVE both[key] \in Seq(Seq(STRING))
    <3>1. CASE key \in DOMAIN env
      BY <1>1, <3>1 DEF ListsModels
    <3>2. CASE key \notin DOMAIN env /\ key \in DOMAIN file
      BY <2>5, <3>2 DEF ListsModels
    <3> QED BY <2>6, <2>7, <3>1, <3>2
  <2> HIDE DEF both
  <2> QED BY <2>7 DEF ListsModels
<1> HIDE DEF present, both
<1> QED BY <1>1, <1>2, <1>3

-----------------------------------------------------------------------------
\* The order of sort_by_key, which is stable.
Precedes(s, i, j) == s[i].priority < s[j].priority \/ (s[i].priority = s[j].priority /\ i < j)

\* The sort has a result: the place of an element is one more than the number
\* of those before it.
LEMMA OrderExists ==
  ASSUME NEW n \in Nat, NEW s, \A i \in 1 .. n : s[i].priority \in Int
  PROVE  \E f \in [1 .. n -> 1 .. n] : \A i, j \in 1 .. n : i < j => Precedes(s, f[i], f[j])
<1> DEFINE D == 1 .. n
           Before(i) == {j \in D : Precedes(s, j, i)}
           rank == [i \in D |-> Cardinality(Before(i)) + 1]
<1>1. /\ \A i, j \in D : i # j => Precedes(s, i, j) \/ Precedes(s, j, i)
      /\ \A i, j, k \in D : Precedes(s, i, j) /\ Precedes(s, j, k) => Precedes(s, i, k)
      /\ \A i \in D : ~Precedes(s, i, i)
  <2>1. \A i \in D : i \in Int /\ s[i].priority \in Int
    OBVIOUS
  <2> HIDE DEF D
  <2> QED BY <2>1 DEF Precedes
<1>2. IsFiniteSet(D) /\ Cardinality(D) = n
  BY FS_Interval
<1> HIDE DEF D
<1>3. \A i \in D : IsFiniteSet(Before(i)) /\ Cardinality(Before(i)) \in Nat
  BY <1>2, FS_Subset, FS_CardinalityType
<1>4. ASSUME NEW i \in D, NEW j \in D, Precedes(s, i, j)
      PROVE  Cardinality(Before(i)) < Cardinality(Before(j))
  <2>1. Before(i) \subseteq Before(j)
    BY <1>1, <1>4
  <2>2. i \in Before(j) /\ i \notin Before(i)
    BY <1>1, <1>4
  <2>3. Cardinality(Before(i)) <= Cardinality(Before(j))
        /\ (Cardinality(Before(j)) = Cardinality(Before(i)) => Before(j) = Before(i))
    <3> HIDE DEF Before
    <3> QED BY <1>3, <2>1, FS_Subset
  <2> HIDE DEF Before
  <2> QED BY <1>3, <2>2, <2>3
<1>5. ASSUME NEW i \in D PROVE rank[i] \in D
  <2>1. Before(i) \subseteq D /\ i \notin Before(i)
    BY <1>1
  <2>2. Cardinality(Before(i)) <= n /\ (Cardinality(Before(i)) = n => Before(i) = D)
    <3> HIDE DEF Before
    <3> QED BY <1>2, <2>1, FS_Subset
  <2> HIDE DEF Before
  <2>3. Cardinality(Before(i)) < n /\ Cardinality(Before(i)) \in Nat
    BY <1>3, <2>1, <2>2
  <2> QED BY <2>3 DEF D
<1> HIDE DEF Before
<1>6. rank \in Injection(D, D)
  <2>1. rank \in [D -> D]
    BY <1>5
  <2>2. ASSUME NEW i \in D, NEW j \in D, rank[i] = rank[j] PROVE i = j
    <3>1. Cardinality(Before(i)) = Cardinality(Before(j))
      BY <1>3, <2>2
    <3> QED BY <1>1, <1>3, <1>4, <3>1
  <2> HIDE DEF rank
  <2> QED BY <2>1, <2>2 DEF Injection, IsInjective
<1>7. \A k \in D : \E i \in D : rank[i] = k
  <2> HIDE DEF rank
  <2>1. rank \in Surjection(D, D)
    BY <1>2, <1>6, FS_Injection
  <2> QED BY <2>1 DEF Surjection
<1> DEFINE f == [k \in D |-> CHOOSE i \in D : rank[i] = k]
<1>8. f \in [D -> D] /\ \A k \in D : rank[f[k]] = k
  <2> HIDE DEF rank
  <2> QED BY <1>7
<1> HIDE DEF f
<1>9. ASSUME NEW i \in D, NEW j \in D, i < j PROVE Precedes(s, f[i], f[j])
  <2>1. f[i] \in D /\ f[j] \in D /\ rank[f[i]] = i /\ rank[f[j]] = j
    <3> HIDE DEF rank
    <3> QED BY <1>8
  <2>2. i \in Int /\ j \in Int
    BY DEF D
  <2>3. i = Cardinality(Before(f[i])) + 1 /\ j = Cardinality(Before(f[j])) + 1
    BY <2>1
  <2> HIDE DEF rank
  <2>4. f[i] # f[j]
    BY <1>9, <2>1, <2>2
  <2> DEFINE x == f[i]
             y == f[j]
  <2> HIDE DEF x, y
  <2>5. Precedes(s, y, x) => j < i
    <3>1. x \in D /\ y \in D
      BY <2>1 DEF x, y
    <3>2. Precedes(s, y, x) => Cardinality(Before(y)) < Cardinality(Before(x))
      BY <1>4, <3>1
    <3>3. i = Cardinality(Before(x)) + 1 /\ j = Cardinality(Before(y)) + 1
      BY <2>3 DEF x, y
    <3>4. Cardinality(Before(x)) \in Nat /\ Cardinality(Before(y)) \in Nat
      BY <1>3, <3>1
    <3> QED BY <3>2, <3>3, <3>4
  <2>6. Precedes(s, x, y) \/ Precedes(s, y, x)
    BY <1>1, <2>1, <2>4 DEF x, y
  <2> QED BY <1>9, <2>2, <2>5, <2>6 DEF x, y
<1> QED BY <1>8, <1>9 DEF D

\* Sorting only moves the elements.
LEMMA SortedElements ==
  ASSUME NEW s, IsSequence(s), \A i \in DOMAIN s : s[i].priority \in Int
  PROVE  \A i \in DOMAIN ByPriority(s) : \E j \in DOMAIN s : ByPriority(s)[i] = s[j]
<1> DEFINE n == Len(s)
           Sorts(f) == \A i, j \in DOMAIN s : i < j => Precedes(s, f[i], f[j])
           order == CHOOSE f \in [DOMAIN s -> DOMAIN s] : Sorts(f)
<1>1. n \in Nat /\ DOMAIN s = 1 .. n
  BY IsSeq
<1>2. \E f \in [DOMAIN s -> DOMAIN s] : Sorts(f)
  <2> HIDE DEF n
  <2> QED BY <1>1, OrderExists
<1>3. ByPriority(s) = [i \in DOMAIN s |-> s[order[i]]]
  BY DEF ByPriority, Precedes
<1> HIDE DEF Sorts
<1>4. order \in [DOMAIN s -> DOMAIN s]
  BY <1>2
<1> HIDE DEF order
<1> QED BY <1>3, <1>4

-----------------------------------------------------------------------------
\* Start-up: each provider's models are a sequence, and all are in the map.
ModelsInv ==
  \A i \in DOMAIN config.providers :
    /\ IsSequence(config.providers[i].models)
    /\ \A k \in DOMAIN config.providers[i].models :
         config.providers[i].models[k] \in DOMAIN config.model_map

\* load_config establishes that.
LEMMA LoadedModels ==
  ASSUME Init
  PROVE  ModelsInv
<1>1. PICK env \in Environments, files \in Dotenvs :
        config = load_config(try_load_dotenv(env, files))
  BY DEF Init
<1> DEFINE e == try_load_dotenv(env, files)
           s == Pushed(e)
           ps == ByPriority(s)
           ids == UNION {ToSet(ps[i].models) : i \in DOMAIN ps}
<1>2. config.providers = ps /\ config.model_map = model_map(ps)
  BY <1>1 DEF load_config
<1>3. ListsModels(e)
  BY LoadedLists
<1> HIDE DEF e
<1>4. IsSequence(s) /\ \A i \in DOMAIN s : Listing(s[i])
  BY <1>3, PushedIsSequence, PushedLists
<1> HIDE DEF s
<1>5. ASSUME NEW i \in DOMAIN ps PROVE Listing(ps[i])
  <2>1. PICK j \in DOMAIN s : ps[i] = s[j]
    BY <1>4, SortedElements DEF Listing
  <2> QED BY <1>4, <2>1
<1>6. DOMAIN model_map(ps) = ids
  BY DEF model_map
<1> HIDE DEF ps
<1>7. ASSUME NEW i \in DOMAIN ps, NEW k \in DOMAIN ps[i].models
      PROVE  ps[i].models[k] \in ids
  <2>1. ps[i].models[k] \in ToSet(ps[i].models)
    BY DEF ToSet
  <2> QED BY <2>1
<1> HIDE DEF ids
<1> QED BY <1>2, <1>5, <1>6, <1>7 DEF ModelsInv, Listing

\* FlattenSeq of sequences over V is a sequence over V.
LEMMA Flattened ==
  ASSUME NEW V, NEW ss, IsSequence(ss), \A i \in DOMAIN ss : ss[i] \in Seq(V)
  PROVE  FlattenSeq(ss) \in Seq(V)
<1> DEFINE N == Len(ss)
           S == Seq(V)
           e == <<>>
           G == [i \in 1 .. N |-> [r \in S |-> r \o ss[i]]]
           W == CHOOSE f : f = [i \in 1 .. N |-> IF i = 1 THEN ss[i] ELSE f[i - 1] \o ss[i]]
           T == {i \in Nat : i + 1 <= N => W[i + 1] \in S}
<1>1. N \in Nat /\ DOMAIN ss = 1 .. N /\ ss = [i \in 1 .. N |-> ss[i]]
  BY IsSeq DEF IsSequence
<1>2. /\ e \in S /\ \A r, t \in S : r \o t \in S
      /\ \A t \in S : e \o t = t
  OBVIOUS
<1>3. FlattenSeq(ss) = IF N = 0 THEN ss ELSE W[N]
  BY DEF FlattenSeq
<1>4. CASE N = 0
  <2>1. ss \in Seq(V)
    BY <1>1, <1>4
  <2> QED BY <1>3, <1>4, <2>1
<1>5. CASE N # 0
  <2>1. G \in StepsOf(S, N)
    <3>1. \A i \in 1 .. N, r \in S : r \o ss[i] \in S
      BY <1>1, <1>2
    <3> HIDE DEF S
    <3> QED BY <3>1 DEF StepsOf
  <2>2. PICK f : Made(f, S, N, e, G)
    <3> HIDE DEF S, N, e, G
    <3> QED BY <1>1, <1>2, <2>1, Recursion
  <2> HIDE DEF S, e
  <2> DEFINE h == [i \in 1 .. N |-> f[i]]
  <2>3. ASSUME NEW i \in 1 .. N PROVE f[i] = f[i - 1] \o ss[i]
    <3>1. i - 1 \in 0 .. N
      BY <1>1
    <3>2. f[i - 1] \in S /\ f[i] = G[i][f[i - 1]]
      BY <2>2, <3>1 DEF Made
    <3> QED BY <3>2
  <2>4. ASSUME NEW i \in 1 .. N PROVE h[i] = IF i = 1 THEN ss[i] ELSE h[i - 1] \o ss[i]
    <3>1. CASE i = 1
      <4>1. f[1 - 1] = e
        BY <2>2 DEF Made
      <4>2. f[1] = e \o ss[1]
        BY <2>3, <3>1, <4>1
      <4>3. ss[1] \in S
        BY <1>1, <3>1 DEF S
      <4>4. h[1] = f[1] /\ e \o ss[1] = ss[1]
        BY <1>2, <3>1, <4>3
      <4> QED BY <3>1, <4>2, <4>4
    <3>2. CASE i # 1
      <4>1. i - 1 \in 1 .. N
        BY <1>1, <3>2
      <4> QED BY <2>3, <3>2, <4>1
    <3> QED BY <3>1, <3>2
  <2>5. h = [i \in 1 .. N |-> IF i = 1 THEN ss[i] ELSE h[i - 1] \o ss[i]]
    BY <2>4
  <2> HIDE DEF h
  <2>6. W = [i \in 1 .. N |-> IF i = 1 THEN ss[i] ELSE W[i - 1] \o ss[i]]
    BY <2>5
  <2> HIDE DEF W
  <2>7. 0 \in T
    <3>1. 1 \in 1 .. N
      BY <1>1, <1>5
    <3>2. W[1] = ss[1] /\ ss[1] \in S
      BY <1>1, <2>6, <3>1 DEF S
    <3> QED BY <3>2
  <2>8. ASSUME NEW i \in Nat, i \in T PROVE i + 1 \in T
    <3> SUFFICES ASSUME i + 2 <= N PROVE W[i + 2] \in S
      OBVIOUS
    <3>1. i + 2 \in 1 .. N /\ i + 2 # 1 /\ (i + 2) - 1 = i + 1 /\ W[i + 1] \in S
      BY <1>1, <2>8
    <3>2. W[i + 2] = W[i + 1] \o ss[i + 2]
      BY <2>6, <3>1
    <3> QED BY <1>1, <1>2, <3>1, <3>2 DEF S
  <2>9. N - 1 \in Nat /\ N - 1 \in T
    <3>1. N - 1 \in Nat
      BY <1>1, <1>5
    <3> HIDE DEF T, N
    <3> QED BY <2>7, <2>8, <3>1, Induction
  <2>10. W[N] \in S
    <3>1. (N - 1) + 1 = N /\ N <= N
      BY <1>1
    <3> QED BY <2>9, <3>1
  <2> QED BY <1>3, <1>5, <2>10 DEF S
<1> QED BY <1>4, <1>5

\* SetToSeq gives a sequence of all elements.
LEMMA Enumerated ==
  ASSUME NEW S, IsFiniteSet(S)
  PROVE  /\ SetToSeq(S) \in Seq(S)
         /\ \A x \in S : \E i \in DOMAIN SetToSeq(S) : SetToSeq(S)[i] = x
<1> DEFINE n == Cardinality(S)
           f == SetToSeq(S)
<1>1. n \in Nat /\ \E g \in [1 .. n -> S] : IsInjective(g)
  <2>1. n \in Nat /\ ExistsBijection(1 .. n, S)
    BY FS_CardinalityType
  <2> HIDE DEF n
  <2> QED BY <2>1 DEF ExistsBijection, Bijection, Injection
<1>2. f \in [1 .. n -> S] /\ IsInjective(f)
  BY <1>1 DEF SetToSeq
<1> HIDE DEF f
<1>3. f \in Surjection(1 .. n, S)
  <2>1. Cardinality(1 .. n) = n
    BY <1>1, FS_Interval
  <2>2. f \in Injection(1 .. n, S)
    BY <1>2 DEF Injection
  <2> QED BY <2>1, <2>2, FS_Injection
<1>4. \A x \in S : \E i \in 1 .. n : f[i] = x
  BY <1>3 DEF Surjection
<1>5. f \in Seq(S) /\ DOMAIN f = 1 .. n
  BY <1>1, <1>2
<1> QED BY <1>4, <1>5 DEF f

-----------------------------------------------------------------------------
\* An entry of the list for a configured model.
Entry ==
  {[id |-> m, provider |-> p] : m \in DOMAIN config.model_map, p \in Names(config.providers)}

\* The configured models, each under an id of the map.
LEMMA OwnModels ==
  ASSUME ConfigInv, ModelsInv
  PROVE  list_models(config) \in Seq(Entry)
<1> DEFINE ps == config.providers
           row(i) == [k \in DOMAIN ps[i].models |-> [id |-> ps[i].models[k], provider |-> ps[i].name]]
           ss == [i \in DOMAIN ps |-> row(i)]
<1>1. IsSequence(ps) /\ DOMAIN ps = 1 .. Len(ps) /\ Len(ps) \in Nat
  BY IsSeq DEF ConfigInv
<1>2. ASSUME NEW i \in DOMAIN ps PROVE row(i) \in Seq(Entry)
  <2>1. Len(ps[i].models) \in Nat /\ DOMAIN ps[i].models = 1 .. Len(ps[i].models)
    BY IsSeq DEF ModelsInv
  <2>2. ASSUME NEW k \in DOMAIN ps[i].models
        PROVE  [id |-> ps[i].models[k], provider |-> ps[i].name] \in Entry
    <3>1. ps[i].models[k] \in DOMAIN config.model_map
      BY DEF ModelsInv
    <3>2. ps[i].name \in Names(config.providers)
      BY DEF Names
    <3> QED BY <3>1, <3>2 DEF Entry
  <2>3. row(i) \in [1 .. Len(ps[i].models) -> Entry]
    BY <2>1, <2>2
  <2> QED BY <2>1, <2>3
<1>3. list_models(config) = FlattenSeq(ss)
  BY DEF list_models
<1>4. ss = [i \in 1 .. Len(ps) |-> row(i)] /\ DOMAIN ss = DOMAIN ps
  BY <1>1
<1>5. \A i \in DOMAIN ss : ss[i] \in Seq(Entry)
  BY <1>2
<1> HIDE DEF row
<1>6. ss \in Seq({row(i) : i \in DOMAIN ps})
  <2>1. ss \in [1 .. Len(ps) -> {row(i) : i \in DOMAIN ps}]
    BY <1>1
  <2> QED BY <1>1, <2>1
<1> HIDE DEF ss
<1>7. IsSequence(ss)
  BY <1>6, SeqIs
<1> QED BY <1>3, <1>5, <1>7, Flattened

\* models.list shows a model of Ollama that is not configured just when Ollama is up.
LEMMA ListedIfUp ==
  ASSUME ConfigInv, ModelsInv, config.ollama, NEW m \in OllamaModels \ DOMAIN config.model_map
  PROVE  OllamaUp <=> \E i \in DOMAIN build_model_list : build_model_list[i].id = m
<1> DEFINE own == list_models(config)
           ids == {own[i].id : i \in DOMAIN own}
           S == {[id |-> n, provider |-> "ollama"] : n \in OllamaModels \ ids}
           rest == IF config.ollama /\ OllamaUp THEN SetToSeq(S) ELSE <<>>
           V == Entry \cup S
<1>1. build_model_list = own \o rest
  BY DEF build_model_list
<1>2. own \in Seq(Entry)
  BY OwnModels
<1> HIDE DEF own
<1>3. \A i \in DOMAIN own : own[i].id \in DOMAIN config.model_map
  <2>1. \A x \in Entry : x.id \in DOMAIN config.model_map
    BY DEF Entry
  <2> QED BY <1>2, <2>1
<1>4. m \notin ids /\ [id |-> m, provider |-> "ollama"] \in S
  BY <1>3
<1>5. IsFiniteSet(S)
  <2> DEFINE A == OllamaModels \ ids
             g == [n \in A |-> [id |-> n, provider |-> "ollama"]]
  <2>1. IsFiniteSet(A)
    <3> HIDE DEF ids
    <3> QED BY EngineConstants, FS_Subset
  <2>2. g \in Surjection(A, S)
    BY DEF Surjection
  <2> HIDE DEF A, g, S
  <2> QED BY <2>1, <2>2, FS_Surjection
<1> HIDE DEF ids, S
<1>6. SetToSeq(S) \in Seq(S) /\ \A x \in S : \E i \in DOMAIN SetToSeq(S) : SetToSeq(S)[i] = x
  BY <1>5, Enumerated
<1> DEFINE t == SetToSeq(S)
<1> HIDE DEF t
<1>7. own \in Seq(V) /\ t \in Seq(V)
  BY <1>2, <1>6, SeqMonotonic DEF t
<1>8. CASE OllamaUp
  <2>1. build_model_list = own \o t
    BY <1>1, <1>8 DEF t
  <2>2. PICK j \in DOMAIN t : t[j] = [id |-> m, provider |-> "ollama"]
    BY <1>4, <1>6 DEF t
  <2>3. /\ Len(own) + j \in DOMAIN (own \o t)
        /\ (own \o t)[Len(own) + j] = t[j]
    <3> HIDE DEF V
    <3> QED BY <1>7
  <2> QED BY <1>8, <2>1, <2>2, <2>3
<1>9. CASE ~OllamaUp
  <2>1. build_model_list = own \o <<>>
    BY <1>1, <1>9
  <2>2. own \o <<>> = own
    BY <1>2
  <2>3. \A i \in DOMAIN own : own[i].id # m
    BY <1>3
  <2> QED BY <1>9, <2>1, <2>2, <2>3
<1> QED BY <1>8, <1>9

\* A list made at tick t shows Ollama's models as they were then.
Shows(list, t) ==
  config.ollama => \A m \in OllamaModels \ DOMAIN config.model_map :
                     up[t + 1] <=> \E i \in DOMAIN list : list[i].id = m

\* The cache holds such a list, made at the tick of its time stamp.
CacheInv == cache # NoCache => cache.at \in 0 .. clock /\ Shows(cache.entries, cache.at)

\* The invariant of the list, next to EngineInv.
FreshInv == ModelsInv /\ CacheInv

\* Nothing is cached at first.
LEMMA InitFresh == Init => FreshInv
BY LoadedModels DEF FreshInv, CacheInv, Init

\* Ticks only add to the history of Ollama.
LEMMA FreshStays ==
  ASSUME EngineInv, FreshInv, Tick \/ UNCHANGED <<up, clock>>, UNCHANGED <<config, cache>>
  PROVE  FreshInv'
<1>1. ModelsInv'
  BY DEF FreshInv, ModelsInv
<1>2. IsSequence(up) /\ Len(up) = clock + 1 /\ clock \in Nat
  BY EngineConstants DEF EngineInv, ClockInv
<1>3. clock' \in Nat /\ clock <= clock' /\ \A t \in 0 .. clock : up'[t + 1] = up[t + 1]
  <2>1. CASE Tick
    <3>1. PICK b : up' = Append(up, b)
      BY <2>1 DEF Tick
    <3>2. \A i \in 1 .. Len(up) : up'[i] = up[i]
      BY <1>2, <3>1, Appended
    <3>3. clock' = clock + 1
      BY <2>1 DEF Tick
    <3> QED BY <1>2, <3>2, <3>3
  <2>2. CASE UNCHANGED <<up, clock>>
    BY <1>2, <2>2
  <2> QED BY <2>1, <2>2
<1>4. ASSUME cache' # NoCache PROVE cache'.at \in 0 .. clock' /\ Shows(cache.entries, cache.at)'
  <2>1. cache.at \in 0 .. clock /\ Shows(cache.entries, cache.at)
    BY <1>4 DEF FreshInv, CacheInv
  <2>2. up'[cache.at + 1] = up[cache.at + 1]
    BY <1>3, <2>1
  <2>3. Shows(cache.entries, cache.at)'
    BY <2>1, <2>2 DEF Shows
  <2>4. cache'.at \in 0 .. clock'
    BY <1>2, <1>3, <2>1
  <2> QED BY <2>3, <2>4
<1> QED BY <1>1, <1>4 DEF FreshInv, CacheInv

\* What models.list answers was shown by Ollama less than a lifetime ago.
LEMMA ListIsFresh ==
  ASSUME EngineInv, FreshInv, ListModels
  PROVE  \E entries, t :
           /\ Answer(Result(cur.id, entries))
           /\ t \in 0 .. clock /\ clock - t < TTL /\ Shows(entries, t)
           /\ cache' \in {cache, [entries |-> entries, at |-> t]}
<1>1. clock \in Nat /\ TTL \in Nat \ {0}
  BY EngineConstants DEF EngineInv, ClockInv
<1>2. CASE cache # NoCache /\ clock - cache.at < TTL
  <2>1. Answer(Result(cur.id, cache.entries)) /\ cache' = cache
    BY <1>2 DEF ListModels
  <2> QED BY <1>2, <2>1 DEF FreshInv, CacheInv
<1>3. CASE ~(cache # NoCache /\ clock - cache.at < TTL)
  <2>1. Answer(Result(cur.id, build_model_list)) /\ cache' = [entries |-> build_model_list, at |-> clock]
    BY <1>3 DEF ListModels
  <2>2. Shows(build_model_list, clock)
    BY ListedIfUp DEF Shows, OllamaUp, EngineInv, FreshInv
  <2> QED BY <1>1, <2>1, <2>2
<1> QED BY <1>2, <1>3

\* No other step than a tick touches what the cache is measured by.
LEMMA Untouched ==
  ASSUME [Next]_vars, ~ListModels
  PROVE  UNCHANGED <<config, cache>> /\ (Tick \/ UNCHANGED <<up, clock>>)
<1>1. CASE Attempt
  BY <1>1 DEF Attempt, worldVars, serverVars
<1>2. CASE Serve
  BY <1>2 DEF Serve, ReadLine, Immediate, Route, Routed, ServerExit, worldVars, serverVars
<1>3. ASSUME NEW line \in Lines, Write(line)
      PROVE  UNCHANGED <<config, cache>> /\ UNCHANGED <<up, clock>>
  BY <1>3 DEF Write, worldVars
<1>4. CASE CloseStdin
  BY <1>4 DEF CloseStdin, worldVars
<1>5. CASE Tick
  BY <1>5 DEF Tick, serverVars
<1>6. ASSUME NEW input \in Inputs, Type(input)
      PROVE  UNCHANGED <<config, cache>> /\ UNCHANGED <<up, clock>>
  BY <1>6 DEF Type, serverVars, worldVars
<1>7. CASE Replied
  BY <1>7 DEF Replied, worldVars, serverVars
<1>8. CASE ChatExit
  BY <1>8 DEF ChatExit, worldVars, serverVars
<1>9. CASE Stopped \/ UNCHANGED vars
  BY <1>9 DEF Stopped, vars, worldVars, serverVars
<1> QED BY <1>1, <1>2, <1>3, <1>4, <1>5, <1>6, <1>7, <1>8, <1>9 DEF Next

\* Every step keeps the invariant.
LEMMA StepFresh ==
  ASSUME EngineInv, FreshInv, [Next]_vars
  PROVE  FreshInv'
<1>1. CASE ListModels
  <2>1. PICK entries, t : /\ t \in 0 .. clock /\ Shows(entries, t)
                          /\ cache' \in {cache, [entries |-> entries, at |-> t]}
    BY <1>1, ListIsFresh
  <2>2. UNCHANGED <<config, up, clock>>
    BY <1>1 DEF ListModels, worldVars
  <2>3. ModelsInv'
    BY <2>2 DEF FreshInv, ModelsInv
  <2>4. CASE cache' = cache
    BY <2>2, <2>4, FreshStays
  <2>5. CASE cache' = [entries |-> entries, at |-> t]
    <3>1. Shows(entries, t)'
      BY <2>1, <2>2 DEF Shows
    <3>2. cache'.entries = entries /\ cache'.at = t
      BY <2>5
    <3> QED BY <2>1, <2>2, <2>3, <3>1, <3>2 DEF FreshInv, CacheInv, Shows
  <2> QED BY <2>1, <2>4, <2>5
<1>2. CASE ~ListModels
  BY <1>2, Untouched, FreshStays
<1> QED BY <1>1, <1>2

\* A step that answers models.list gives such a list.
LEMMA StepAnswersFresh ==
  ASSUME EngineInv, FreshInv, [Next]_vars,
         cur.method = "models.list", cur' = NoRequest, config.ollama
  PROVE  \E t \in 0 .. clock :
           /\ clock - t < TTL
           /\ \A m \in OllamaModels \ DOMAIN config.model_map :
                up[t + 1] <=>
                  \E i \in DOMAIN out'[Len(out')].value : out'[Len(out')].value[i].id = m
<1>1. ListModels
  <2>1. cur # NoRequest /\ cur # cur'
    BY DEF NoRequest, None
  <2>2. ~Routed
    <3>1. SUFFICES ASSUME Routed PROVE FALSE
      OBVIOUS
    <3>2. run # NoRun /\ mode = "serve"
      BY <3>1 DEF Routed, NoRun, None
    <3> QED BY <3>2 DEF EngineInv, ServerInv
  <2>3. Attempt => UNCHANGED cur
    BY DEF Attempt, serverVars
  <2>4. Serve => ListModels
    BY <2>1, <2>2 DEF Serve, ReadLine, Immediate, Route, ServerExit, serverVars
  <2>5. ASSUME NEW line \in Lines, Write(line) PROVE UNCHANGED cur
    BY <2>5 DEF Write
  <2>6. CloseStdin \/ Tick => UNCHANGED cur
    BY DEF CloseStdin, Tick, serverVars
  <2>7. ASSUME NEW input \in Inputs, Type(input) PROVE UNCHANGED cur
    BY <2>7 DEF Type, serverVars
  <2>8. Replied \/ ChatExit => UNCHANGED cur
    BY DEF Replied, ChatExit, serverVars
  <2>9. Stopped \/ UNCHANGED vars => UNCHANGED cur
    BY DEF Stopped, vars, serverVars
  <2> QED BY <2>1, <2>3, <2>4, <2>5, <2>6, <2>7, <2>8, <2>9 DEF Next
<1>2. PICK entries, t : /\ Answer(Result(cur.id, entries))
                        /\ t \in 0 .. clock /\ clock - t < TTL /\ Shows(entries, t)
  BY <1>1, ListIsFresh
<1>3. out'[Len(out')].value = entries
  <2>1. IsSequence(out) /\ out' = Append(out, Result(cur.id, entries))
    BY <1>2 DEF Answer, EngineInv, ServerInv
  <2>2. out'[Len(out')] = Result(cur.id, entries)
    BY <2>1, Appended
  <2> QED BY <2>2 DEF Result
<1> QED BY <1>2, <1>3 DEF Shows

\* The cache never holds a list that differs from what Ollama showed at its
\* time stamp (router.rs, list_models_cached).
THEOREM CacheInvariance == Spec => []FreshInv
<1> QED BY InitFresh, StepFresh, EngineInvariance, PTL DEF Spec

\* The answer to models.list shows Ollama's models as they were at some tick
\* of the last lifetime of the cache (router.rs, list_models_cached).
THEOREM FreshModelList == Spec => ModelListFresh
<1>1. ASSUME EngineInv, FreshInv, [Next]_vars
      PROVE  [cur.method = "models.list" /\ cur' = NoRequest /\ config.ollama =>
                \E t \in 0 .. clock :
                  /\ clock - t < TTL
                  /\ \A m \in OllamaModels \ DOMAIN config.model_map :
                       up[t + 1] <=>
                         \E i \in DOMAIN out'[Len(out')].value : out'[Len(out')].value[i].id = m]_vars
  BY <1>1, StepAnswersFresh
<1> QED BY <1>1, EngineInvariance, CacheInvariance, PTL DEF Spec, ModelListFresh
=============================================================================
